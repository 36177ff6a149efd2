---------------------------- MODULE ParseEndpoint ----------------------------
(***************************************************************************)
(* parse_ipv4_endpoint and format_endpoint (src/runtime/resolver.cpp).     *)
(* A text is a sequence of characters: digits, the separator and others.   *)
(* The port is accumulated in a uint32_t, one character a step.            *)
(***************************************************************************)
EXTENDS SequencesExt, Naturals

CONSTANTS Digit,      \* digits of the texts, as numbers
          Colon, Letter, \* ':' and a character that is neither
          Address,    \* the host texts inet_pton accepts
          MaxLen,     \* bound: length of a text
          MaxPort,    \* 65535
          Width       \* 2^32: what the accumulator holds

VARIABLES text, i, port, status

vars == <<text, i, port, status>>

(* value.rfind(':'), 0 when there is none.                                 *)
Rfind(s) == LET at == {k \in 1..Len(s) : s[k] = Colon}
            IN  IF at = {} THEN 0 ELSE CHOOSE k \in at : \A j \in at : j <= k
Host(s) == SubSeq(s, 1, Rfind(s) - 1)

Init ==
    /\ text \in SeqOf(Digit \cup {Colon, Letter}, MaxLen)
    /\ i = Rfind(text) + 1 /\ port = 0
    /\ status = IF Rfind(text) <= 1 \/ Rfind(text) = Len(text)
                THEN "EINVAL" ELSE "scan"

(* One character of the port.                                              *)
\* mutant: the range is checked once, at the end
Scan_LateCheck ==
    /\ status = "scan" /\ i <= Len(text)
    /\ port' = IF text[i] \in Digit THEN (port * 10 + text[i]) % Width ELSE port
    /\ status' = IF text[i] \notin Digit \/ (i = Len(text) /\ port' > MaxPort)
                 THEN "EINVAL" ELSE "scan"
    /\ i' = i + 1 /\ UNCHANGED text
Scan ==
    /\ status = "scan" /\ i <= Len(text)
    /\ port' = IF text[i] \in Digit THEN (port * 10 + text[i]) % Width ELSE port
    /\ status' = IF text[i] \notin Digit \/ port' > MaxPort
                 THEN "EINVAL" ELSE "scan"
    /\ i' = i + 1 /\ UNCHANGED text

(* inet_pton of the host.                                                  *)
Finish ==
    /\ status = "scan" /\ i > Len(text)
    /\ status' = IF Host(text) \in Address THEN "ok" ELSE "EINVAL"
    /\ UNCHANGED <<text, i, port>>

Next == Scan \/ Finish
Spec == Init /\ [][Next]_vars

(* format_endpoint: std::to_string has no leading zeros.                   *)
Decimal[n \in Nat] == IF n < 10 THEN <<n>>
                      ELSE Append(Decimal[n \div 10], n % 10)
Format(host, p) == host \o <<Colon>> \o Decimal[p]

(* What a text means, in one go: a host, the last separator, and digits    *)
(* whose value, in full, is a port.                                        *)
Value(ds) == FoldLeft(LAMBDA v, d : v * 10 + d, 0, ds)
Meaning(s) ==
    LET p == SubSeq(s, Rfind(s) + 1, Len(s))
    IN  /\ Rfind(s) > 1 /\ Host(s) \in Address
        /\ p # <<>> /\ \A k \in 1..Len(p) : p[k] \in Digit
        /\ Value(p) <= MaxPort
(* parse_ipv4_endpoint accepts exactly the texts that mean an endpoint, at *)
(* that port: no long digit string wraps round the accumulator.  What is   *)
(* parsed and formatted is the text again, but for leading zeros (test     *)
(* parse_and_format_ipv4_endpoint_round_trip).                             *)
ParsesExactly ==
    status # "scan" =>
        LET p == SubSeq(text, Rfind(text) + 1, Len(text))
        IN  /\ (status = "ok") <=> Meaning(text)
            /\ status = "ok" =>
                  /\ port = Value(p)
                  /\ Format(Host(text), port) = text \/ (Len(p) > 1 /\ p[1] = 0)
=============================================================================
