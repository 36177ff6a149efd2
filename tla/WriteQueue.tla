----------------------------- MODULE WriteQueue -----------------------------
(***************************************************************************)
(* queued_writer: producers enqueue buffers, one flush at a time drains    *)
(* them through async_write_some_with_timeout, graceful_shutdown flushes   *)
(* and then closes the write side.  All coroutines share the loop thread,  *)
(* so a producer runs only where the flush is suspended; the token, the    *)
(* peer and the clock move at any time.                                    *)
(*                                                                         *)
(* The bytes accepted by enqueue are numbered 1, 2, ...; a buffer is the   *)
(* number of bytes before it and its size.  A timer is the time left until *)
(* its deadline, in ticks, TicksPerMs to the millisecond.                  *)
(***************************************************************************)
EXTENDS Integers, Sequences

CONSTANTS Null,
          Mark,        \* watermark values a caller may pass
          Timeout,     \* flush timeouts in ms
          FlushSlice,  \* longest single write of flush, 100 ms in the code
          WaitSlice,   \* longest single wait of a write, 20 ms in the code
          TicksPerMs,  \* clock ticks in a millisecond
          MaxChunk,    \* bound: largest buffer
          MaxBytes,    \* bound: bytes accepted in a behaviour
          SendBuffer   \* capacity of the socket's send buffer

ASSUME MarkAssumption == Mark \subseteq Nat
ASSUME TimeoutAssumption == Timeout \subseteq Int
ASSUME WriterAssumption ==
    /\ FlushSlice \in Nat \ {0} /\ WaitSlice \in Nat \ {0}
    /\ TicksPerMs \in Nat \ {0}
    /\ MaxChunk \in Nat /\ MaxBytes \in Nat /\ SendBuffer \in Nat

VARIABLES marks, queue, front_offset, queued_bytes, high_watermark_active,
          pc,           \* where the flush is
          graceful,     \* the flush was called by graceful_shutdown
          result,       \* what it returned
          flush_left,   \* flush: deadline - now
          slice,        \* argument of the pending write or wait
          span,         \* argument of the pending write
          op_left,      \* write: deadline - now
          wait_left,    \* wait_writable_for: deadline - now
          written,      \* value of the finished write
          op_error,     \* its error
          cancelled,    \* token.stop_requested()
          accepted,     \* number of bytes accepted so far
          wire,         \* bytes given to the kernel, in order
          room,         \* free space of the send buffer
          reset,        \* the connection is broken
          shut          \* shutdown_write was done

writerVars == <<marks, queue, front_offset, queued_bytes, high_watermark_active>>
timerVars == <<flush_left, op_left, wait_left>>
opVars == <<slice, span, written, op_error>>
callVars == <<graceful, result>>
streamVars == <<wire, room, reset, shut>>
vars == <<writerVars, timerVars, opVars, callVars, streamVars, pc, cancelled,
          accepted>>

(* "loop" and "try" are running code; everywhere else the flush is         *)
(* suspended, its next segment queued or waiting.                          *)
Busy == {"loop", "try"}
Location == Busy \cup {"idle", "call", "park", "wait", "woken", "answered",
                       "flushed"}
Error == {"EINVAL", "ECANCELED", "ETIMEDOUT", "EPIPE", "EIO", "ENOTCONN"}
Chunk == [start : Nat, size : Nat]
Broken == reset \/ shut

(* The constructor repairs the watermarks.                                 *)
Repaired_HighKept(l, h) ==  \* mutant: a high mark below the low one is kept
    [low |-> IF l = 0 THEN 1 ELSE l, high |-> h]
Repaired(l, h) ==
    LET low == IF l = 0 THEN 1 ELSE l
    IN  [low |-> low, high |-> IF h < low THEN low ELSE h]

Init ==
    /\ \E l, h \in Mark : marks = Repaired(l, h)
    /\ queue = <<>> /\ front_offset = 0 /\ queued_bytes = 0
    /\ high_watermark_active = FALSE
    /\ pc = "idle" /\ graceful = FALSE /\ result = Null
    /\ flush_left = 0 /\ op_left = 0 /\ wait_left = 0
    /\ slice = 0 /\ span = [start |-> 0, size |-> 0]
    /\ written = 0 /\ op_error = Null
    /\ cancelled = FALSE
    /\ accepted = 0 /\ wire = <<>>
    /\ room = SendBuffer /\ reset = FALSE /\ shut = FALSE

-----------------------------------------------------------------------------
(* enqueue_owned of n bytes.  An empty buffer and a refused one (the       *)
(* writer is above its high mark, EWOULDBLOCK) change nothing.             *)
MayEnqueue == ~(high_watermark_active /\ queued_bytes >= marks.low)
Enqueue(n) ==
    /\ pc \notin Busy
    /\ accepted + n <= MaxBytes
    /\ MayEnqueue
    /\ queued_bytes' = queued_bytes + n
    /\ queue' = Append(queue, [start |-> accepted, size |-> n])
    /\ high_watermark_active' =
           (high_watermark_active \/ queued_bytes' >= marks.high)
    /\ accepted' = accepted + n
    /\ UNCHANGED <<marks, front_offset, timerVars, opVars, callVars,
                   streamVars, pc, cancelled>>

-----------------------------------------------------------------------------
(* flush returns r, to its caller or to graceful_shutdown.                 *)
Return(r, g) ==
    /\ result' = r
    /\ pc' = IF g THEN "flushed" ELSE "idle"

(* flush(timeout) or graceful_shutdown(timeout) starts, with its own token.*)
FlushStart(t, g) ==
    /\ pc = "idle"
    /\ graceful' = g
    /\ cancelled' = FALSE
    /\ IF t < 0 THEN Return("EINVAL", g) /\ UNCHANGED flush_left
       ELSE pc' = "loop" /\ result' = Null /\ flush_left' = t * TicksPerMs
    /\ UNCHANGED <<writerVars, op_left, wait_left, opVars, streamVars, accepted>>

(* max(1ms, min(time left in whole milliseconds, the longest slice)).      *)
Slice(left, longest) ==
    LET ms == left \div TicksPerMs
    IN  IF ms < 1 THEN 1 ELSE IF ms < longest THEN ms ELSE longest

(* One turn of the loop of flush up to the co_await of the write.          *)
RemainingSpan_FromStart == Head(queue)  \* mutant: front_offset_ ignored
RemainingSpan == [start |-> Head(queue).start + front_offset,
                  size |-> Head(queue).size - front_offset]
FlushLoop ==
    /\ pc = "loop"
    /\ IF queued_bytes = 0 \/ cancelled \/ flush_left = 0
       THEN /\ Return(IF queued_bytes = 0 THEN "ok"
                      ELSE IF cancelled THEN "ECANCELED" ELSE "ETIMEDOUT",
                      graceful)
            /\ UNCHANGED <<slice, span>>
       ELSE /\ span' = RemainingSpan
            /\ slice' = Slice(flush_left, FlushSlice)
            /\ pc' = "call"
            /\ UNCHANGED result
    /\ UNCHANGED <<writerVars, timerVars, written, op_error, graceful,
                   streamVars, cancelled, accepted>>

(* async_write_some_with_timeout: its deadline starts when it first runs.  *)
WriteStart ==
    /\ pc = "call"
    /\ pc' = "try"
    /\ op_left' = slice * TicksPerMs
    /\ UNCHANGED <<writerVars, flush_left, wait_left, opVars, callVars,
                   streamVars, cancelled, accepted>>
Answer(n, e) ==
    /\ pc' = "answered"
    /\ written' = n
    /\ op_error' = e
    /\ UNCHANGED <<slice, span>>
Sent(s, n) == [i \in 1..n |-> s.start + i]
Fits == IF room < span.size THEN room ELSE span.size
OpExpired_Never == FALSE  \* mutant: the write's own deadline is not tested
OpExpired == op_left = 0
WriteTry ==
    /\ pc \in {"try", "woken"}
    /\ \/ cancelled /\ Answer(0, "ECANCELED") /\ UNCHANGED <<wire, room>>
       \/ ~cancelled /\ Broken /\ Answer(0, "EPIPE") /\ UNCHANGED <<wire, room>>
       \/ /\ ~cancelled /\ ~Broken /\ room > 0
          /\ Answer(Fits, Null)
          /\ wire' = wire \o Sent(span, Fits)
          /\ room' = room - Fits
       \/ /\ ~cancelled /\ ~Broken /\ room = 0 /\ OpExpired
          /\ Answer(0, "ETIMEDOUT")
          /\ UNCHANGED <<wire, room>>
       \/ /\ ~cancelled /\ ~Broken /\ room = 0 /\ ~OpExpired
          /\ pc' = "park"
          /\ slice' = Slice(op_left, WaitSlice)
          /\ UNCHANGED <<span, written, op_error, wire, room>>
    /\ UNCHANGED <<writerVars, timerVars, callVars, reset, shut, cancelled,
                   accepted>>

(* wait_writable_for: accepted by the loop, or refused at once; over when  *)
(* the socket is writable or broken, or when the slice has passed.         *)
WaitArm ==
    /\ pc = "park"
    /\ \/ /\ pc' = "wait"
          /\ wait_left' = slice * TicksPerMs
          /\ UNCHANGED opVars
       \/ Answer(0, "EIO") /\ UNCHANGED wait_left
    /\ UNCHANGED <<writerVars, flush_left, op_left, callVars, streamVars,
                   cancelled, accepted>>
WaitOver ==
    /\ pc = "wait"
    /\ room > 0 \/ Broken \/ wait_left = 0
    /\ pc' = "woken"
    /\ UNCHANGED <<writerVars, timerVars, opVars, callVars, streamVars,
                   cancelled, accepted>>

(* The rest of the turn: account for the bytes written, drop a finished    *)
(* buffer, update_backpressure_after_drain.                                *)
Drained_Span(n) == span.size  \* mutant: counts what it asked to write
Drained(n) == n
OffsetAfter(n) ==
    IF front_offset + n = Head(queue).size THEN 0 ELSE front_offset + n
HighAfter_Sticky(n) == high_watermark_active  \* mutant: never cleared
HighAfter(n) == high_watermark_active /\ ~(n <= marks.low)
FlushResume ==
    /\ pc = "answered"
    /\ IF op_error # Null \/ written = 0
       THEN /\ Return(IF op_error # Null THEN op_error ELSE "EPIPE", graceful)
            /\ UNCHANGED <<queue, front_offset, queued_bytes,
                           high_watermark_active>>
       ELSE /\ queued_bytes' = queued_bytes - Drained(written)
            /\ front_offset' = OffsetAfter(written)
            /\ queue' = IF front_offset + written = Head(queue).size
                        THEN Tail(queue) ELSE queue
            /\ high_watermark_active' = HighAfter(queued_bytes')
            /\ pc' = "loop"
            /\ UNCHANGED result
    /\ UNCHANGED <<marks, timerVars, opVars, graceful, streamVars, cancelled,
                   accepted>>

(* graceful_shutdown after its flush.                                      *)
Shutdown ==
    /\ pc = "flushed"
    /\ pc' = "idle"
    /\ shut' = (shut \/ (result = "ok" /\ ~reset))
    /\ result' = IF result = "ok" /\ reset THEN "ENOTCONN" ELSE result
    /\ UNCHANGED <<writerVars, timerVars, opVars, graceful, wire, room, reset,
                   cancelled, accepted>>

-----------------------------------------------------------------------------
(* The owner of the token, the peer and the clock.                         *)
Cancel ==
    /\ pc # "idle"
    /\ cancelled' = TRUE
    /\ UNCHANGED <<writerVars, timerVars, opVars, callVars, streamVars, pc,
                   accepted>>
PeerReads ==
    /\ room < SendBuffer /\ ~reset
    /\ room' = room + 1
    /\ UNCHANGED <<writerVars, timerVars, opVars, callVars, wire, reset, shut,
                   pc, cancelled, accepted>>
PeerResets ==
    /\ reset' = TRUE
    /\ UNCHANGED <<writerVars, timerVars, opVars, callVars, wire, room, shut,
                   pc, cancelled, accepted>>
Elapsed(left) == IF left > 0 THEN left - 1 ELSE left
Tick ==
    /\ flush_left' = Elapsed(flush_left)
    /\ op_left' = Elapsed(op_left)
    /\ wait_left' = Elapsed(wait_left)
    /\ UNCHANGED <<writerVars, opVars, callVars, streamVars, pc, cancelled,
                   accepted>>

FlushStep ==
    FlushLoop \/ WriteStart \/ WriteTry \/ WaitArm \/ WaitOver \/ FlushResume
        \/ Shutdown
Next ==
    \/ \E n \in 1..MaxChunk : Enqueue(n)
    \/ \E t \in Timeout, g \in BOOLEAN : FlushStart(t, g)
    \/ FlushStep
    \/ Cancel \/ PeerReads \/ PeerResets \/ Tick

Spec == Init /\ [][Next]_vars

(* The loop thread runs what is queued and wakes what is ready or due, and *)
(* time passes.  Nobody has to enqueue or flush.                           *)
FairSpec == Spec /\ WF_vars(FlushStep) /\ WF_vars(Tick)

-----------------------------------------------------------------------------
(* The members of queued_writer keep their types: queued_bytes_ and        *)
(* front_offset_ never wrap below zero.                                    *)
TypeOK ==
    /\ marks \in [low : Nat \ {0}, high : Nat \ {0}]
    /\ queue \in Seq(Chunk)
    /\ front_offset \in Nat
    /\ queued_bytes \in Nat
    /\ high_watermark_active \in BOOLEAN
    /\ pc \in Location
    /\ graceful \in BOOLEAN
    /\ result \in Error \cup {"ok", Null}
    /\ flush_left \in Nat /\ op_left \in Nat /\ wait_left \in Nat
    /\ slice \in Nat
    /\ span \in Chunk
    /\ written \in Nat
    /\ op_error \in Error \cup {Null}
    /\ cancelled \in BOOLEAN
    /\ accepted \in Nat
    /\ wire \in Seq(Nat)
    /\ room \in Nat
    /\ reset \in BOOLEAN
    /\ shut \in BOOLEAN

(* The bytes on the wire are the first accepted ones, in order, none       *)
(* skipped or repeated, through partial writes, enqueues in the middle of  *)
(* a flush, and flushes that time out or are cancelled and are retried.    *)
SentInOrder ==
    /\ Len(wire) <= accepted
    /\ \A i \in 1..Len(wire) : wire[i] = i

(* queued_bytes_ is what was accepted and not sent, where bytes a finished *)
(* write reported still count until flush resumes.                         *)
QueuedExact ==
    queued_bytes = accepted - Len(wire) + (IF pc = "answered" THEN written ELSE 0)

(* The high-watermark state is active only with at least low bytes queued, *)
(* so an empty writer always accepts, and inactive only below the high     *)
(* mark or at the low one.                                                 *)
Hysteresis ==
    /\ high_watermark_active => queued_bytes >= marks.low
    /\ ~high_watermark_active => \/ queued_bytes < marks.high
                                 \/ queued_bytes <= marks.low

(* Backpressure bounds the memory: never more than one buffer beyond the   *)
(* high mark.                                                              *)
Bounded == queued_bytes <= marks.high + MaxChunk

(* flush and graceful_shutdown return, even when the peer never reads.     *)
FlushEnds == pc # "idle" ~> pc = "idle"

(* A refused producer is accepted again on a healthy connection, provided *)
(* the peer keeps reading and somebody keeps flushing while data is queued.*)
BackpressureClears ==
    (/\ []~(Broken \/ cancelled)
     /\ []<>(room > 0)
     /\ []<>(pc = "call" \/ queued_bytes = 0))
        => (high_watermark_active ~> ~high_watermark_active)

(* "Flush queued buffers with timeout ... Per-operation timeout for async  *)
(* writes" (write_queue.hpp): flush reports ETIMEDOUT only when the        *)
(* caller's timeout has passed.                                            *)
TimeoutHonoured ==
    [][result' = "ETIMEDOUT" /\ result # "ETIMEDOUT" => flush_left = 0]_vars

(* "Flush queue then shutdown stream write side" (write_queue.hpp): when   *)
(* graceful_shutdown closes the write side, nothing accepted is unsent.    *)
ShutdownDrained == [][shut' /\ ~shut => queued_bytes = 0]_vars
=============================================================================
