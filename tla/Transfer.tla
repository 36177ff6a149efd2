------------------------------ MODULE Transfer ------------------------------
(***************************************************************************)
(* Moving bytes over one connection: async_write_all, async_read_some,     *)
(* async_read_exact and the timed, cancellable read and write              *)
(* (src/runtime/io_ops.cpp), and the blocking write_all and read_exact     *)
(* (src/blocking/tcp.cpp), one writer and one reader, over a socket buffer *)
(* that fills up, takes and gives part of what is asked, ends and breaks.  *)
(* Bytes are numbered in the order the writer means to send them.          *)
(***************************************************************************)
EXTENDS Sequences, Integers

CONSTANTS Room,     \* size of the socket buffer
          Length,   \* sizes of the buffers passed in
          MaxBytes, \* bound: bytes written in a behaviour
          Timeout,  \* timeouts passed in, in milliseconds
          TicksPerMs, \* clock ticks in a millisecond
          MaxSlice, \* 20ms: longest wait of a timed operation
          Blocking, \* the blocking functions, or the coroutines?
          CanBreak  \* may the connection be reset?

ASSUME TransferAssumption == /\ Room \in Nat /\ Length \subseteq Nat
                             /\ TicksPerMs \in Nat \ {0}

VARIABLES pipe,    \* bytes in the socket buffer
          put,     \* bytes the writer has got rid of
          got,     \* bytes the reader's buffers hold
          eof,     \* shutdown_write() was called
          broken,  \* the connection was reset
          at,      \* "idle", "try" or "wait", of each side
          kind,    \* the operation each side is in
          len, total, \* its buffer.size() and what is done of it
          left,    \* ticks to the deadline of a timed operation
          nap,     \* ticks to the end of its wait, Never without a timeout
          stop,    \* token.stop_requested()
          res      \* what the last operation returned

netVars == <<pipe, put, got, eof, broken>>
opVars == <<kind, len>>
transferVars == <<netVars, opVars, at, total, left, nap, stop, res>>

Side == {"writer", "reader"}
Never == -1
Kinds(s) ==
    IF Blocking THEN IF s = "writer" THEN {"all"} ELSE {"exact"}
    ELSE IF s = "writer" THEN {"all", "timed"} ELSE {"exact", "some", "timed"}

TransferInit ==
    /\ pipe = <<>> /\ put = 0 /\ got = <<>>
    /\ eof = FALSE /\ broken = FALSE
    /\ at = [s \in Side |-> "idle"]
    /\ kind = [s \in Side |-> "none"]
    /\ len = [s \in Side |-> 0] /\ total = [s \in Side |-> 0]
    /\ left = [s \in Side |-> 0] /\ nap = [s \in Side |-> Never]
    /\ stop = [s \in Side |-> FALSE]
    /\ res = [s \in Side |-> "none"]

Finish(s, r) == /\ at' = [at EXCEPT ![s] = "idle"]
                /\ res' = [res EXCEPT ![s] = r]
Failed == {"EPIPE", "ECONNRESET", "EBUSY"}

(* A caller calls; one whose stream failed does not go on.  A negative     *)
(* timeout is refused.                                                     *)
Begin(s) ==
    /\ at[s] = "idle" /\ res[s] \notin Failed
    /\ s = "writer" => ~eof
    /\ \E k \in Kinds(s), n \in Length, t \in Timeout :
         /\ s = "writer" => put + n <= MaxBytes
         /\ kind' = [kind EXCEPT ![s] = k]
         /\ len' = [len EXCEPT ![s] = n]
         /\ left' = [left EXCEPT ![s] = IF k = "timed" /\ t > 0
                                          THEN t * TicksPerMs ELSE 0]
         /\ IF k = "timed" /\ t < 0
            THEN Finish(s, "EINVAL")
            ELSE /\ at' = [at EXCEPT ![s] = "try"]
                 /\ res' = [res EXCEPT ![s] = "none"]
    /\ total' = [total EXCEPT ![s] = 0]
    /\ stop' = [stop EXCEPT ![s] = FALSE]
    /\ UNCHANGED <<netVars, nap>>

----------------------------------------------------------------------------
(* One round of an operation: first the token of a timed one, then the     *)
(* system call, which moves n bytes, fails, or would block.                *)
Trying(s) == at[s] = "try"
Canceled(s) == kind[s] = "timed" /\ stop[s]
Cancel(s) ==
    /\ Trying(s) /\ Canceled(s)
    /\ Finish(s, "ECANCELED")
    /\ UNCHANGED <<netVars, opVars, total, left, nap, stop>>

(* An empty buffer is done before any system call.                         *)
Want(s) == len[s] - total[s]
Whole(s) == kind[s] \in {"all", "exact"}
(* n bytes went through: an operation on a whole buffer goes round again   *)
(* with the rest, any other returns n.                                     *)
Moved(s, n) ==
    /\ total' = [total EXCEPT ![s] = total[s] + n]
    /\ IF Whole(s) /\ n < Want(s) THEN UNCHANGED <<at, res>> ELSE Finish(s, "ok")

(* The bytes of the span buffer.subspan(total).                            *)
\* mutant: every round sends from the start of the buffer
Span_Restart(s, n) == [i \in 1..n |-> put - total[s] + i]
Span(s, n) == [i \in 1..n |-> put + i]
Send ==
    /\ Trying("writer") /\ ~Canceled("writer")
    /\ \E n \in 0..Want("writer") :
         /\ IF Want("writer") = 0 THEN n = 0
            ELSE ~broken /\ n > 0 /\ n <= Room - Len(pipe)
         /\ pipe' = pipe \o Span("writer", n)
         /\ put' = put + n
         /\ Moved("writer", n)
    /\ UNCHANGED <<got, eof, broken, opVars, left, nap, stop>>
Receive ==
    /\ Trying("reader") /\ ~Canceled("reader")
    /\ \E n \in 0..Want("reader") :
         /\ IF Want("reader") = 0 THEN n = 0
            ELSE ~broken /\ n > 0 /\ n <= Len(pipe)
         /\ got' = got \o SubSeq(pipe, 1, n)
         /\ pipe' = SubSeq(pipe, n + 1, Len(pipe))
         /\ Moved("reader", n)
    /\ UNCHANGED <<put, eof, broken, opVars, left, nap, stop>>

(* recv gives 0 at the end of the stream: an error of a whole read, the    *)
(* result of any other.                                                    *)
AtEnd == eof /\ pipe = <<>> /\ ~broken
EndOfStream ==
    /\ Trying("reader") /\ ~Canceled("reader") /\ Want("reader") > 0 /\ AtEnd
    /\ Finish("reader", IF Whole("reader") THEN "ECONNRESET" ELSE "ok")
    /\ UNCHANGED <<netVars, opVars, total, left, nap, stop>>
Broken(s) ==
    /\ Trying(s) /\ ~Canceled(s) /\ Want(s) > 0 /\ broken
    /\ Finish(s, IF s = "writer" THEN "EPIPE" ELSE "ECONNRESET")
    /\ UNCHANGED <<netVars, opVars, total, left, nap, stop>>

Ready(s) == \/ broken
            \/ IF s = "writer" THEN Len(pipe) < Room ELSE pipe # <<>> \/ eof

(* EAGAIN: the deadline, or a wait of at most a slice.  The blocking       *)
(* functions stay in the system call instead; EINTR sends them back to it. *)
(* The slice is cut to whole milliseconds, and is one at least: it may     *)
(* outlast the deadline.                                                   *)
\* mutant: a timed operation waits as an untimed one does
Slice_Untimed(s) == Never
Slice(s) == LET ms == left[s] \div TicksPerMs
                m == IF ms < MaxSlice THEN ms ELSE MaxSlice
            IN  TicksPerMs * (IF m < 1 THEN 1 ELSE m)
WouldBlock(s) ==
    /\ Trying(s) /\ ~Canceled(s) /\ Want(s) > 0 /\ ~Ready(s) /\ ~Blocking
    /\ IF kind[s] = "timed" /\ left[s] = 0
       THEN Finish(s, "ETIMEDOUT") /\ UNCHANGED nap
       ELSE /\ at' = [at EXCEPT ![s] = "wait"]
            /\ nap' = [nap EXCEPT ![s] = IF kind[s] = "timed" THEN Slice(s)
                                         ELSE Never]
            /\ UNCHANGED res
    /\ UNCHANGED <<netVars, opVars, total, left, stop>>

(* The wait ends: ready or its slice over, which is no error here.         *)
WaitOver(s) ==
    /\ at[s] = "wait" /\ (Ready(s) \/ nap[s] = 0)
    /\ at' = [at EXCEPT ![s] = "try"]
    /\ nap' = [nap EXCEPT ![s] = Never]
    /\ UNCHANGED <<netVars, opVars, total, left, stop, res>>
(* An error of the wait itself ends the operation.  Nothing makes a wait   *)
(* fail: this step is no part of the fair Step.                            *)
WaitFails(s) ==
    /\ at[s] = "wait" /\ CanBreak
    /\ Finish(s, "EBUSY")
    /\ nap' = [nap EXCEPT ![s] = Never]
    /\ UNCHANGED <<netVars, opVars, total, left, stop>>

----------------------------------------------------------------------------
(* The world: shutdown_write(), a reset, a cancellation, the clock.        *)
ShutdownWrite ==
    /\ at["writer"] = "idle" /\ ~eof
    /\ eof' = TRUE
    /\ UNCHANGED <<pipe, put, got, broken, opVars, at, total, left, nap, stop, res>>
Reset ==
    /\ CanBreak /\ ~broken
    /\ broken' = TRUE /\ pipe' = <<>>
    /\ UNCHANGED <<put, got, eof, opVars, at, total, left, nap, stop, res>>
CancelToken(s) ==
    /\ at[s] # "idle" /\ kind[s] = "timed" /\ ~stop[s]
    /\ stop' = [stop EXCEPT ![s] = TRUE]
    /\ UNCHANGED <<netVars, opVars, at, total, left, nap, res>>
Tick ==
    /\ \E s \in Side : at[s] # "idle" /\ (left[s] > 0 \/ nap[s] > 0)
    /\ left' = [s \in Side |-> IF left[s] > 0 THEN left[s] - 1 ELSE 0]
    /\ nap' = [s \in Side |-> IF nap[s] > 0 THEN nap[s] - 1 ELSE nap[s]]
    /\ UNCHANGED <<netVars, opVars, at, total, stop, res>>

Step(s) == \/ Cancel(s) \/ Broken(s) \/ WouldBlock(s) \/ WaitOver(s)
           \/ s = "writer" /\ Send
           \/ s = "reader" /\ (Receive \/ EndOfStream)
TransferNext ==
    \/ \E s \in Side : Begin(s) \/ Step(s) \/ WaitFails(s) \/ CancelToken(s)
    \/ ShutdownWrite \/ Reset \/ Tick

TransferSpec == TransferInit /\ [][TransferNext]_transferVars

(* Both sides are scheduled, a wait that is ready or over is noticed, and  *)
(* time passes.  No connection need break and no wait need fail.           *)
TransferFair == /\ TransferSpec /\ WF_transferVars(Tick)
                /\ \A s \in Side : WF_transferVars(Step(s))

----------------------------------------------------------------------------
(* What the reader has and what is under way is what the writer sent, in   *)
(* order, each byte once; only a reset loses the bytes under way.  No      *)
(* partial send or receive skips or repeats any.  A whole read or write    *)
(* succeeds with its whole buffer only.  Any other operation that reports  *)
(* a timeout, a cancellation or an error has moved no byte, although the   *)
(* data, the token and the deadline race.                                  *)
Delivered ==
    /\ broken \/ got \o pipe = [i \in 1..put |-> i]
    /\ got = [i \in 1..Len(got) |-> i]
    /\ \A s \in Side : Whole(s) /\ res[s] = "ok" => total[s] = len[s]
    /\ \A s \in Side : ~Whole(s) /\ res[s] # "ok" => total[s] = 0

(* A timed operation returns, whatever the other side does: also when no   *)
(* byte and no reset ever comes and its wait never fails.                  *)
TimedEnds == \A s \in Side : at[s] # "idle" /\ kind[s] = "timed" ~> at[s] = "idle"
=============================================================================
