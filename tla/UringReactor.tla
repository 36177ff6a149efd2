---------------------------- MODULE UringReactor ----------------------------
(***************************************************************************)
(* simplenet::uring::reactor (src/uring/reactor.cpp): one-shot polls       *)
(* through an io_uring.  Submission entries wait in sq until submit();     *)
(* the kernel then completes a poll at once, or arms it until a requested  *)
(* condition holds or a poll-remove cancels it; completions queue in cq.   *)
(* The kernel side is external code, modelled from how the reactor uses    *)
(* it.  A poll holds the open file, not the number: it outlives close(2).  *)
(***************************************************************************)
EXTENDS Naturals, Sequences, FiniteSets

CONSTANTS File,     \* descriptors that can be polled
          Gone,     \* the file behind a poll whose descriptor was closed
          Conds,    \* conditions the environment can raise
          Depth,    \* entries of the submission queue
          MaxToken, \* bound: user_data values used in a behaviour
          MaxBatch  \* size of the completion array given to wait (64)

Condition == {"in", "out", "rdhup", "err"}
Token == 1..MaxToken
NoToken == 0        \* user_data of every poll-remove

ASSUME RingAssumption ==
    /\ Conds \subseteq Condition
    /\ Gone \notin File
    /\ Depth \in Nat \ {0} /\ MaxToken \in Nat \ {0} /\ MaxBatch \in Nat \ {0}

VARIABLES open,   \* open descriptors
          level,  \* current condition of every descriptor
          sq,     \* entries filled in but not submitted
          polls,  \* polls armed in the kernel
          cq      \* completions not yet consumed

ringVars == <<sq, polls, cq>>
fileVars == <<open, level>>

Poll == [token : Token, fd : File \cup {Gone}, mask : SUBSET Condition]
Entry == [op : {"add"}, token : Token, fd : File, mask : SUBSET Condition]
             \cup [op : {"remove"}, token : Token]
Completion == [token : Token \cup {NoToken},
               res : {"ok", "EBADF", "ECANCELED", "ENOENT"}]

-----------------------------------------------------------------------------
(* submit_poll_add and submit_poll_remove fill an entry; a full queue is   *)
(* EBUSY (HasRoom fails).                                                  *)
PollAdd(t, fd, mask) == [op |-> "add", token |-> t, fd |-> fd, mask |-> mask]
PollRemove(t) == [op |-> "remove", token |-> t]
HasRoom == Len(sq) < Depth

(* What the kernel does with one entry: k is <<armed polls, completions>>. *)
Complete(k, t, r) == <<k[1], Append(k[2], [token |-> t, res |-> r])>>
Taken(k, e) ==
    IF e.op = "add"
    THEN IF e.fd \notin open THEN Complete(k, e.token, "EBADF")
         ELSE IF level[e.fd] \cap e.mask # {} THEN Complete(k, e.token, "ok")
         ELSE <<k[1] \cup {[token |-> e.token, fd |-> e.fd, mask |-> e.mask]},
                k[2]>>
    ELSE LET hit == {p \in k[1] : p.token = e.token}
         IN  IF hit = {} THEN Complete(k, NoToken, "ENOENT")
             ELSE Complete(Complete(<<k[1] \ hit, k[2]>>, e.token, "ECANCELED"),
                           NoToken, "ok")

(* io_uring_submit of the entries s, in order.                             *)
Submitted(s) ==
    LET after[i \in 0..Len(s)] ==
            IF i = 0 THEN <<polls, cq>> ELSE Taken(after[i - 1], s[i])
    IN  after[Len(s)]
SubmitEntries(s) == polls' = Submitted(s)[1] /\ cq' = Submitted(s)[2]

(* reactor::wait consumes the completions that are there, up to the size   *)
(* of the caller's array.                                                  *)
Batch == SubSeq(cq, 1, IF Len(cq) < MaxBatch THEN Len(cq) ELSE MaxBatch)
Consumed == cq' = SubSeq(cq, Len(Batch) + 1, Len(cq))

-----------------------------------------------------------------------------
(* The orders in which the elements of S can come.  Polls and slots have   *)
(* tokens of their own, so there are at most MaxToken of them.             *)
Orders(S) == {s \in UNION {[1..n -> S] : n \in 0..MaxToken} :
                  /\ Len(s) = Cardinality(S)
                  /\ \A x \in S : \E i \in DOMAIN s : s[i] = x}

(* A condition starts to hold: the polls that asked for it complete, in    *)
(* some order.                                                             *)
Raise(fd, c) ==
    LET hit == {p \in polls : p.fd = fd /\ c \in p.mask}
    IN  /\ fd \in open
        /\ level' = [level EXCEPT ![fd] = @ \cup {c}]
        /\ polls' = polls \ hit
        /\ \E s \in Orders(hit) :
              cq' = cq \o [i \in DOMAIN s |->
                               [token |-> s[i].token, res |-> "ok"]]
        /\ UNCHANGED <<open, sq>>

(* A read or write consumes the readiness: the next call would block.      *)
Consume(fd, c) ==
    /\ c \in level[fd] \cap {"in", "out"}
    /\ level' = [level EXCEPT ![fd] = @ \ {c}]
    /\ UNCHANGED <<open, ringVars>>

(* close(2): polls stay, on a file that no number names any more.          *)
Close(fd) ==
    /\ fd \in open
    /\ open' = open \ {fd}
    /\ level' = [level EXCEPT ![fd] = {}]
    /\ polls' = {IF p.fd = fd THEN [p EXCEPT !.fd = Gone] ELSE p : p \in polls}
    /\ UNCHANGED <<sq, cq>>
Open(fd) ==
    /\ fd \notin open
    /\ open' = open \cup {fd}
    /\ UNCHANGED <<level, ringVars>>
GoneEvent(p) ==
    /\ p.fd = Gone
    /\ polls' = polls \ {p}
    /\ cq' = Append(cq, [token |-> p.token, res |-> "ok"])
    /\ UNCHANGED <<open, level, sq>>
=============================================================================
