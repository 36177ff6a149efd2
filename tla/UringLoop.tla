------------------------------ MODULE UringLoop ------------------------------
(***************************************************************************)
(* simplenet::runtime::uring_event_loop (src/runtime/uring_event_loop.cpp):*)
(* the scheduler of event_loop over one-shot io_uring polls.  Every wait   *)
(* gets a fresh token, the user_data of its poll; inflight_polls_ leads    *)
(* from a completion's token back to the side of the slot that waits, and  *)
(* the wake eventfd is itself polled, under wake_token_.                   *)
(*                                                                         *)
(* Variables, positions of the loop thread and the clock are as in         *)
(* EventLoop; "waiting" is the wait in reactor_.wait.                      *)
(***************************************************************************)
EXTENDS Task, UringReactor

CONSTANTS WakeFd,      \* the eventfd stop() writes
          Timeout,     \* timeouts in ms tasks use; 0 stands for all <= 0
          TicksPerMs,  \* clock ticks per millisecond
          IntMax,      \* numeric_limits<int>::max(), clamp of wait_timeout
          MaxTime,     \* bound: the clock stops here
          CanClose,    \* may tasks close descriptors that are waited on?
          CanFail      \* may io_uring_submit fail?

ASSUME LoopAssumption ==
    /\ WakeFd \in File
    /\ Timeout \subseteq Nat /\ Null \notin Nat
    /\ TicksPerMs \in Nat \ {0} /\ IntMax \in Nat /\ MaxTime \in Nat
    /\ CanClose \in BOOLEAN /\ CanFail \in BOOLEAN

Fd == File \ {WakeFd}
Dir == {"readable", "writable"}
Waiter == Fd \X Dir

VARIABLES
    ready_queue, wait_results, root_tasks, active_task_count,
    waiters,         \* wait_registration on each side of each slot
    inflight_polls,  \* side waiting for the poll of each token, or Null
    pending_waiter_count, timed_waiter_count,
    next_deadline, deadline_index_dirty, next_token, submission_pending,
    stop_requested, loop_error,
    stopper,         \* an external thread inside stop()
    pc, current,     \* loop thread: position, running coroutine
    scan,            \* locals of process_expired_waiters
    batch,           \* completions returned by wait, not yet processed
    wait_until,      \* when reactor_.wait times out, Null for never
    run_result, now,
    seen,            \* history: sides whose condition held since armed
    dropped          \* history: tokens of completions dropped with a batch

queueVars == <<ready_queue, wait_results>>
rootVars == <<root_tasks, active_task_count>>
waiterVars == <<waiters, inflight_polls, pending_waiter_count,
                timed_waiter_count, seen>>
indexVars == <<next_deadline, deadline_index_dirty>>
tokenVars == <<next_token, dropped>>
submitVars == <<ringVars, submission_pending>>
flagVars == <<stop_requested, loop_error>>
outsideVars == <<fileVars, stopper, now>>
localVars == <<scan, batch, wait_until, run_result>>
dataVars == <<taskVars, queueVars, rootVars, waiterVars, indexVars, tokenVars,
              submitVars, flagVars, outsideVars, current, localVars>>
vars == <<pc, dataVars>>

wake_token == 1
NoReg == [handle |-> Null, deadline |-> Null, token |-> NoToken]
NoScan == [todo |-> <<>>, now |-> 0, next |-> Null]
Outcome == {"ok", "ETIMEDOUT", "EBADF", "ECANCELED", "ENOENT"}
Errno == {"EAGAIN", "EBUSY"}
ASSUME NullIsNoValue ==
    Null \notin Waiter \cup Outcome \cup Errno \cup {"EDEADLK"}

(* kReadPollMask and kWritePollMask; POLLERR is always reported.           *)
PollMask(d) ==
    IF d = "readable" THEN {"in", "rdhup", "err"} ELSE {"out", "err"}

(* The constructor has armed the wake poll and flushed it.                 *)
WakePoll == [token |-> wake_token, fd |-> WakeFd, mask |-> PollMask("readable")]
Init ==
    /\ TaskInit
    /\ sq = <<>> /\ polls = {WakePoll} /\ cq = <<>>
    /\ ready_queue = <<>> /\ wait_results = [h \in Handle |-> Null]
    /\ root_tasks = {} /\ active_task_count = 0
    /\ waiters = [w \in Waiter |-> NoReg]
    /\ inflight_polls = [t \in Token |-> Null]
    /\ pending_waiter_count = 0 /\ timed_waiter_count = 0
    /\ next_deadline = Null /\ deadline_index_dirty = FALSE
    /\ next_token = wake_token + 1 /\ submission_pending = FALSE
    /\ stop_requested = FALSE /\ loop_error = Null /\ run_result = Null
    /\ open = File /\ level = [f \in File |-> {}]
    /\ stopper = "idle" /\ pc = "idle" /\ current = Null
    /\ scan = NoScan /\ batch = <<>> /\ wait_until = Null
    /\ now = 0 /\ seen = {} /\ dropped = {}

-----------------------------------------------------------------------------
(* A size_t decremented only when positive; min of two deadlines, where    *)
(* Null is "none yet".                                                     *)
Decrement(n) == IF n > 0 THEN n - 1 ELSE 0
Earlier(n, d) == IF n = Null \/ d < n THEN d ELSE n
Armed(w) == waiters[w].handle # Null
Holds(w) == level[w[1]] \cap PollMask(w[2]) # {}
TimedSide(w) == waiters[w].deadline # Null

(* flush_submissions, with the result r of io_uring_submit.                *)
SubmitResult == {"ok"} \cup (IF CanFail THEN {"EAGAIN"} ELSE {})
Flush(r) ==
    IF submission_pending /\ r = "ok"
    THEN SubmitEntries(sq) /\ sq' = <<>> /\ submission_pending' = FALSE
    ELSE (r = "ok" \/ submission_pending) /\ UNCHANGED submitVars

(* queue_poll_add and queue_poll_remove of the entry e, with result r: a   *)
(* full queue is flushed first.                                            *)
QueueEntry_NoRetry(e, r) ==  \* mutant: the entry is dropped after the flush
    IF HasRoom
    THEN /\ r = "ok" /\ sq' = Append(sq, e)
         /\ submission_pending' = TRUE /\ UNCHANGED <<polls, cq>>
    ELSE Flush(r)
QueueEntry(e, r) ==
    IF HasRoom
    THEN /\ r = "ok" /\ sq' = Append(sq, e)
         /\ submission_pending' = TRUE /\ UNCHANGED <<polls, cq>>
    ELSE IF submission_pending /\ r = "ok"
    THEN SubmitEntries(sq) /\ sq' = <<e>> /\ UNCHANGED submission_pending
    ELSE r = (IF submission_pending THEN "EAGAIN" ELSE "EBUSY")
             /\ UNCHANGED submitVars

(* loop_error_ and the stop it implies.                                    *)
NoteError(r) ==
    /\ loop_error' = IF r = "ok" THEN loop_error ELSE r
    /\ stop_requested' = (stop_requested \/ r # "ok")

(* The registration on side w ends with outcome r: result recorded, handle *)
(* scheduled, registration reset, counters and the token map updated.      *)
WakeSide_KeepToken(w, r) ==  \* mutant: the token stays in inflight_polls_
    /\ wait_results' = [wait_results EXCEPT ![waiters[w].handle] = r]
    /\ ready_queue' = Append(ready_queue, waiters[w].handle)
    /\ waiters' = [waiters EXCEPT ![w] = NoReg]
    /\ UNCHANGED inflight_polls
    /\ pending_waiter_count' = Decrement(pending_waiter_count)
    /\ timed_waiter_count' = IF TimedSide(w) THEN Decrement(timed_waiter_count)
                             ELSE timed_waiter_count
    /\ seen' = seen \ {w}
WakeSide(w, r) ==
    /\ wait_results' = [wait_results EXCEPT ![waiters[w].handle] = r]
    /\ ready_queue' = Append(ready_queue, waiters[w].handle)
    /\ waiters' = [waiters EXCEPT ![w] = NoReg]
    /\ inflight_polls' = [inflight_polls EXCEPT ![waiters[w].token] = Null]
    /\ pending_waiter_count' = Decrement(pending_waiter_count)
    /\ timed_waiter_count' = IF TimedSide(w) THEN Decrement(timed_waiter_count)
                             ELSE timed_waiter_count
    /\ seen' = seen \ {w}

-----------------------------------------------------------------------------
(* run().                                                                  *)
RunStart ==
    /\ pc = "idle" /\ pc' = "top"
    /\ stop_requested' = FALSE /\ loop_error' = Null /\ run_result' = Null
    /\ UNCHANGED <<taskVars, queueVars, rootVars, waiterVars, indexVars,
                   tokenVars, submitVars, outsideVars, current, scan, batch,
                   wait_until>>
LoopTop ==
    /\ pc = "top"
    /\ pc' = IF stop_requested THEN "exit" ELSE "expire"
    /\ UNCHANGED dataVars

(* process_expired_waiters: nothing timed, nothing due, or scan the slots, *)
(* in some order, with one reading of the clock.                           *)
NothingDue ==
    ~deadline_index_dirty /\ next_deadline # Null /\ now < next_deadline
Slots == {fd \in Fd : \E d \in Dir : Armed(<<fd, d>>)}
Sides(s) == [i \in 1..(2 * Len(s)) |->
                <<s[(i + 1) \div 2], IF i % 2 = 1 THEN "readable" ELSE "writable">>]
ExpireStart ==
    /\ pc = "expire"
    /\ IF timed_waiter_count = 0
       THEN /\ next_deadline' = Null /\ deadline_index_dirty' = FALSE
            /\ pc' = "check" /\ scan' = scan
       ELSE /\ UNCHANGED indexVars
            /\ IF NothingDue THEN pc' = "check" /\ scan' = scan
               ELSE /\ pc' = "scan"
                    /\ \E s \in Orders(Slots) :
                          scan' = [todo |-> Sides(s), now |-> now, next |-> Null]
    /\ UNCHANGED <<taskVars, queueVars, rootVars, waiterVars, tokenVars,
                   submitVars, flagVars, outsideVars, current, batch,
                   wait_until, run_result>>

(* expire_registration: an expired side is woken and its poll removed; a   *)
(* poll-remove that cannot be queued ends the scan with an error.          *)
Expired(w) == Armed(w) /\ TimedSide(w) /\ scan.now >= waiters[w].deadline
ScanSide ==
    LET w == Head(scan.todo)
    IN  /\ pc = "scan" /\ scan.todo # <<>>
        /\ IF Expired(w)
           THEN /\ WakeSide(w, "ETIMEDOUT")
                /\ \E r \in {"ok"} \cup Errno :
                      /\ QueueEntry(PollRemove(waiters[w].token), r)
                      /\ NoteError(r)
           ELSE UNCHANGED <<queueVars, waiterVars, submitVars, flagVars>>
        /\ pc' = IF loop_error' = Null THEN "scan" ELSE "check"
        /\ scan' = IF loop_error' # Null THEN NoScan
                   ELSE [scan EXCEPT !.todo = Tail(@),
                           !.next = IF Expired(w) \/ ~TimedSide(w) THEN @
                                    ELSE Earlier(@, waiters[w].deadline)]
        /\ UNCHANGED <<taskVars, rootVars, indexVars, tokenVars, outsideVars,
                       current, batch, wait_until, run_result>>
ScanEnd ==
    /\ pc = "scan" /\ scan.todo = <<>>
    /\ next_deadline' = scan.next /\ deadline_index_dirty' = FALSE
    /\ scan' = NoScan /\ pc' = "check"
    /\ UNCHANGED <<taskVars, queueVars, rootVars, waiterVars, tokenVars,
                   submitVars, flagVars, outsideVars, current, batch,
                   wait_until, run_result>>

LoopCheck ==
    /\ pc = "check" \/ (pc = "drain" /\ ready_queue = <<>>)
    /\ pc' = IF stop_requested \/ loop_error # Null THEN "exit"
             ELSE IF pc = "check" THEN "drain" ELSE "block"
    /\ UNCHANGED dataVars

(* The inner loop pops a handle, skips a done one and resumes any other,   *)
(* which consumes the result of the wait it comes from.                    *)
DrainPop ==
    LET h == Head(ready_queue)
    IN  /\ pc = "drain" /\ ready_queue # <<>>
        /\ ready_queue' = Tail(ready_queue)
        /\ IF frame[h] = "final"
           THEN UNCHANGED <<pc, current, taskVars, wait_results>>
           ELSE /\ pc' = "running" /\ current' = h
                /\ ResumeFrame(h)
                /\ wait_results' = [wait_results EXCEPT ![h] =
                                      IF frame[h] = "waiting" THEN Null ELSE @]
        /\ UNCHANGED <<rootVars, waiterVars, indexVars, tokenVars, submitVars,
                       flagVars, outsideVars, localVars>>

DoneRoots_Awaiting ==  \* mutant: a root that awaits a child counts as done
    {h \in root_tasks : frame[h] \in {"final", "awaiting"}}
DoneRoots == {h \in root_tasks : frame[h] = "final"}
CleanupCompletedRoots ==
    DestroyFrames(DoneRoots) /\ root_tasks' = root_tasks \ DoneRoots
AfterResume_NoExpire ==  \* mutant: deadlines are looked at only between drains
    /\ pc = "resumed" /\ pc' = "drain"
    /\ CleanupCompletedRoots
    /\ UNCHANGED <<queueVars, active_task_count, waiterVars, indexVars,
                   tokenVars, submitVars, flagVars, outsideVars, current,
                   localVars>>
AfterResume ==
    /\ pc = "resumed" /\ pc' = "expire"
    /\ CleanupCompletedRoots
    /\ UNCHANGED <<queueVars, active_task_count, waiterVars, indexVars,
                   tokenVars, submitVars, flagVars, outsideVars, current,
                   localVars>>

(* Out of the loop: cleanup, a last flush, and the result.                 *)
LoopExit ==
    /\ pc = "exit" /\ pc' = "idle"
    /\ CleanupCompletedRoots
    /\ \E r \in SubmitResult :
          /\ Flush(r)
          /\ loop_error' = IF loop_error = Null /\ r # "ok" THEN r ELSE loop_error
    /\ run_result' = IF loop_error' = Null THEN "ok" ELSE loop_error'
    /\ UNCHANGED <<queueVars, active_task_count, waiterVars, indexVars,
                   tokenVars, stop_requested, outsideVars, current, scan,
                   batch, wait_until>>

(* Nothing is ready: leave, report a deadlock, or flush and wait until the *)
(* cached deadline, truncated to milliseconds and clamped to an int.       *)
TimeoutMs(d) ==
    LET ms == (d - now) \div TicksPerMs
    IN  IF d <= now THEN 0 ELSE IF ms <= IntMax THEN ms ELSE IntMax
Block ==
    /\ pc = "block"
    /\ IF pending_waiter_count = 0
       THEN /\ pc' = IF active_task_count = 0 THEN "exit" ELSE "idle"
            /\ run_result' = IF pc' = "idle" THEN "EDEADLK" ELSE run_result
            /\ UNCHANGED <<wait_until, submitVars>>
       ELSE \E r \in SubmitResult :
            /\ Flush(r)
            /\ pc' = IF r = "ok" THEN "waiting" ELSE "idle"
            /\ run_result' = IF r = "ok" THEN run_result ELSE r
            /\ wait_until' = IF r # "ok" \/ next_deadline = Null THEN Null
                             ELSE now + TimeoutMs(next_deadline) * TicksPerMs
    /\ UNCHANGED <<taskVars, queueVars, rootVars, waiterVars, indexVars,
                   tokenVars, flagVars, outsideVars, current, scan, batch>>

(* reactor::wait; ETIME and EINTR count as no completion.                  *)
WaitReturn ==
    /\ pc = "waiting" /\ cq # <<>>
    /\ pc' = "dispatch"
    /\ batch' = Batch /\ Consumed
    /\ wait_until' = Null
    /\ UNCHANGED <<taskVars, queueVars, rootVars, waiterVars, indexVars,
                   tokenVars, sq, polls, submission_pending, flagVars,
                   outsideVars, current, scan, run_result>>
WaitEmpty ==
    /\ pc = "waiting" /\ cq = <<>>
    /\ pc' = "top" /\ wait_until' = Null
    /\ UNCHANGED <<taskVars, queueVars, rootVars, waiterVars, indexVars,
                   tokenVars, submitVars, flagVars, outsideVars, current,
                   scan, batch, run_result>>
WaitTimeout == wait_until # Null /\ now >= wait_until /\ WaitEmpty
WaitInterrupted == WaitEmpty

(* process_completion.  An error drops the rest of the batch.              *)
Processed(r) ==
    /\ batch' = IF r = "ok" THEN Tail(batch) ELSE <<>>
    /\ pc' = IF batch' = <<>> THEN "top" ELSE "dispatch"
Completed(t) == pc = "dispatch" /\ batch # <<>> /\ Head(batch).token = t
Known(t) == t # NoToken /\ inflight_polls[t] # Null

(* A poll-remove's own completion, or one whose wait is already over.      *)
ProcessStale ==
    /\ \E t \in (Token \cup {NoToken}) \ {wake_token} : Completed(t) /\ ~Known(t)
    /\ Processed("ok")
    /\ UNCHANGED <<taskVars, queueVars, rootVars, waiterVars, indexVars,
                   tokenVars, submitVars, flagVars, outsideVars, current,
                   scan, wait_until, run_result>>

(* The wake poll: read the eventfd, then, unless a stop is requested, arm  *)
(* it again and submit.                                                    *)
ProcessWake ==
    /\ Completed(wake_token)
    /\ pc' = "rearm"
    /\ level' = [level EXCEPT ![WakeFd] = {}]
    /\ UNCHANGED <<taskVars, queueVars, rootVars, waiterVars, indexVars,
                   tokenVars, submitVars, flagVars, open, stopper, now,
                   current, localVars>>
WakeAdd == PollAdd(wake_token, WakeFd, PollMask("readable"))
RearmWake(r) ==
    IF r = "ok"
    THEN /\ SubmitEntries(Append(sq, WakeAdd))
         /\ sq' = <<>> /\ submission_pending' = FALSE
    ELSE /\ sq' = IF HasRoom THEN Append(sq, WakeAdd) ELSE sq
         /\ submission_pending' = TRUE /\ UNCHANGED <<polls, cq>>
ProcessRearm_Never ==  \* mutant: the wake poll is not armed again
    /\ pc = "rearm" /\ Processed("ok")
    /\ UNCHANGED <<taskVars, queueVars, rootVars, waiterVars, indexVars,
                   tokenVars, submitVars, flagVars, outsideVars, current,
                   scan, wait_until, run_result>>
ProcessRearm ==
    /\ pc = "rearm"
    /\ IF stop_requested
       THEN Processed("ok") /\ UNCHANGED <<submitVars, flagVars, dropped>>
       ELSE \E r \in SubmitResult :
              /\ Processed(r) /\ NoteError(r) /\ RearmWake(r)
              /\ dropped' = IF r = "ok" THEN dropped
                            ELSE dropped \cup {batch[i].token :
                                                   i \in 2..Len(batch)}
    /\ UNCHANGED <<taskVars, queueVars, rootVars, waiterVars, indexVars,
                   next_token, outsideVars, current, scan, wait_until,
                   run_result>>

(* The poll of an open wait: the side found through inflight_polls_ is     *)
(* woken if it still carries this token.                                   *)
ProcessPoll ==
    /\ \E t \in Token \ {wake_token} :
          /\ Completed(t) /\ Known(t)
          /\ LET w == inflight_polls[t] IN
             IF waiters[w].token = t
             THEN /\ WakeSide(w, Head(batch).res)
                  /\ deadline_index_dirty' = (deadline_index_dirty \/ TimedSide(w))
             ELSE /\ inflight_polls' = [inflight_polls EXCEPT ![t] = Null]
                  /\ UNCHANGED <<queueVars, waiters, pending_waiter_count,
                                 timed_waiter_count, seen,
                                 deadline_index_dirty>>
    /\ Processed("ok")
    /\ UNCHANGED <<taskVars, rootVars, next_deadline, tokenVars, submitVars,
                   flagVars, outsideVars, current, scan, wait_until,
                   run_result>>

-----------------------------------------------------------------------------
(* What a coroutine body does between resume() and its next suspension.    *)
Suspended == pc' = "resumed" /\ current' = Null

Spawn(c) ==
    /\ pc \in {"idle", "running"}
    /\ CreateRoot(c)
    /\ active_task_count' = active_task_count + 1
    /\ root_tasks' = root_tasks \cup {c}
    /\ ready_queue' = Append(ready_queue, c)
    /\ UNCHANGED <<wait_results, waiterVars, indexVars, tokenVars, submitVars,
                   flagVars, outsideVars, pc, current, localVars>>
TaskAwait(c) ==
    /\ pc = "running"
    /\ AwaitChild(current, c)
    /\ ready_queue' = Append(ready_queue, c)
    /\ Suspended
    /\ UNCHANGED <<wait_results, rootVars, waiterVars, indexVars, tokenVars,
                   submitVars, flagVars, outsideVars, localVars>>
TaskFinish ==
    /\ pc = "running"
    /\ FinishFrame(current)
    /\ active_task_count' = IF current \in root_tasks
                            THEN Decrement(active_task_count)
                            ELSE active_task_count
    /\ ready_queue' = IF continuation[current] = Null THEN ready_queue
                      ELSE Append(ready_queue, continuation[current])
    /\ Suspended
    /\ UNCHANGED <<wait_results, root_tasks, waiterVars, indexVars, tokenVars,
                   submitVars, flagVars, outsideVars, localVars>>

(* arm_waiter with timeout <= 0: the wait is over before it begins.        *)
ArmElapsed ==
    /\ pc = "running"
    /\ SuspendFrame(current)
    /\ wait_results' = [wait_results EXCEPT ![current] = "ETIMEDOUT"]
    /\ ready_queue' = Append(ready_queue, current)
    /\ Suspended
    /\ UNCHANGED <<rootVars, waiterVars, indexVars, tokenVars, submitVars,
                   flagVars, outsideVars, localVars>>

(* allocate_token.                                                         *)
AllocateToken_Reused ==  \* mutant: a token is used again once it is free
    CHOOSE t \in Token \ {wake_token} : inflight_polls[t] = Null
AllocateToken ==
    CHOOSE t \in Token :
        /\ t >= next_token /\ inflight_polls[t] = Null
        /\ \A u \in next_token..(t - 1) : inflight_polls[u] # Null

(* arm_waiter otherwise: register the wait and queue its poll.  EBUSY (the *)
(* side is taken) is a stuttering step; when the poll cannot be queued the *)
(* registration is rolled back and the coroutine runs on with the error.   *)
NewDeadline(t) == IF t = Null THEN Null ELSE now + t * TicksPerMs
ArmIndex(t) ==
    /\ next_deadline' = IF t = Null THEN next_deadline
                        ELSE Earlier(next_deadline, NewDeadline(t))
    /\ deadline_index_dirty' = TRUE
Arm(w, t, r) ==
    LET token == AllocateToken
        entry == PollAdd(token, w[1], PollMask(w[2]))
    IN  /\ pc = "running"
        /\ t # Null => NewDeadline(t) <= MaxTime
        /\ ~Armed(w)
        /\ next_token <= MaxToken
        /\ next_token' = token + 1 /\ UNCHANGED dropped
        /\ QueueEntry(entry, r)
        /\ ArmIndex(t)
        /\ IF r = "ok"
           THEN /\ waiters' = [waiters EXCEPT ![w] =
                      [handle |-> current, deadline |-> NewDeadline(t),
                       token |-> token]]
                /\ inflight_polls' = [inflight_polls EXCEPT ![token] = w]
                /\ timed_waiter_count' =
                       timed_waiter_count + (IF t = Null THEN 0 ELSE 1)
                /\ pending_waiter_count' = pending_waiter_count + 1
                /\ seen' = IF Holds(w) THEN seen \cup {w} ELSE seen
                /\ SuspendFrame(current)
                /\ Suspended
           ELSE UNCHANGED <<waiterVars, taskVars, pc, current>>
        /\ UNCHANGED <<queueVars, rootVars, flagVars, outsideVars, localVars>>

TaskStop ==
    /\ pc = "running"
    /\ stop_requested' = TRUE
    /\ Raise(WakeFd, "in")
    /\ UNCHANGED <<taskVars, queueVars, rootVars, waiterVars, indexVars,
                   tokenVars, submission_pending, loop_error, stopper, now,
                   pc, current, localVars>>
TaskIo ==
    /\ pc = "running"
    /\ \E fd \in Fd : \/ \E c \in {"in", "out"} : Consume(fd, c)
                      \/ CanClose /\ (Close(fd) \/ Open(fd))
    /\ UNCHANGED <<taskVars, queueVars, rootVars, waiterVars, indexVars,
                   tokenVars, submission_pending, flagVars, stopper, now, pc,
                   current, localVars>>

-----------------------------------------------------------------------------
(* stop() on another thread: the flag first, then the eventfd.             *)
StopStore ==
    /\ stopper = "idle" /\ stopper' = "stored"
    /\ stop_requested' = TRUE
    /\ UNCHANGED <<taskVars, queueVars, rootVars, waiterVars, indexVars,
                   tokenVars, submitVars, loop_error, fileVars, now, pc,
                   current, localVars>>
StopWrite_Skipped ==  \* mutant: the flag is stored, the eventfd not written
    /\ stopper = "stored" /\ stopper' = "idle"
    /\ UNCHANGED <<taskVars, queueVars, rootVars, waiterVars, indexVars,
                   tokenVars, submitVars, flagVars, fileVars, now, pc, current,
                   localVars>>
StopWrite ==
    /\ stopper = "stored" /\ stopper' = "idle"
    /\ Raise(WakeFd, "in")
    /\ UNCHANGED <<taskVars, queueVars, rootVars, waiterVars, indexVars,
                   tokenVars, submission_pending, flagVars, now, pc, current,
                   localVars>>
Has(s, t) == \E i \in DOMAIN s : s[i].token = t
Environment ==
    /\ \/ \E fd \in Fd, c \in Conds : c \notin level[fd] /\ Raise(fd, c)
       \/ \E p \in polls : GoneEvent(p)
    /\ seen' = seen \cup {w \in Waiter :
                            Armed(w) /\ (Holds(w)' \/ Has(cq', waiters[w].token))}
    /\ UNCHANGED <<taskVars, queueVars, rootVars, waiters, inflight_polls,
                   pending_waiter_count, timed_waiter_count, indexVars,
                   tokenVars, submission_pending, flagVars, stopper, now, pc,
                   current, localVars>>
Tick ==
    /\ now < MaxTime /\ now' = now + 1
    /\ UNCHANGED <<taskVars, queueVars, rootVars, waiterVars, indexVars,
                   tokenVars, submitVars, flagVars, fileVars, stopper, pc,
                   current, localVars>>

(* The loop is destroyed (destroy_all_roots, then its members; closing the *)
(* ring cancels its polls) and a new one constructed.                      *)
Recreate ==
    /\ pc = "idle" /\ stopper = "idle"
    /\ DestroyFrames(Handle)
    /\ sq' = <<>> /\ polls' = {WakePoll} /\ cq' = <<>>
    /\ ready_queue' = <<>> /\ wait_results' = [h \in Handle |-> Null]
    /\ root_tasks' = {} /\ active_task_count' = 0
    /\ waiters' = [w \in Waiter |-> NoReg]
    /\ inflight_polls' = [t \in Token |-> Null]
    /\ pending_waiter_count' = 0 /\ timed_waiter_count' = 0
    /\ next_deadline' = Null /\ deadline_index_dirty' = FALSE
    /\ next_token' = wake_token + 1 /\ submission_pending' = FALSE
    /\ stop_requested' = FALSE /\ loop_error' = Null /\ run_result' = Null
    /\ level' = [level EXCEPT ![WakeFd] = {}] /\ seen' = {}
    /\ dropped' = {}
    /\ UNCHANGED <<open, stopper, pc, current, scan, batch, wait_until, now>>

Suspend ==
    \/ \E c \in Handle : TaskAwait(c)
    \/ TaskFinish
    \/ 0 \in Timeout /\ ArmElapsed
    \/ \E w \in Waiter, t \in (Timeout \ {0}) \cup {Null} : Arm(w, t, "ok")
RunOn ==
    \/ \E w \in Waiter, t \in (Timeout \ {0}) \cup {Null}, r \in Errno :
          Arm(w, t, r)
    \/ TaskStop
    \/ TaskIo
LoopStep ==
    \/ LoopTop \/ ExpireStart \/ ScanSide \/ ScanEnd \/ LoopCheck \/ DrainPop
    \/ AfterResume \/ Block \/ WaitReturn \/ WaitTimeout \/ LoopExit
    \/ ProcessStale \/ ProcessWake \/ ProcessRearm \/ ProcessPoll

Next ==
    \/ RunStart \/ LoopStep \/ WaitInterrupted \/ Suspend \/ RunOn
    \/ \E c \in Handle : Spawn(c)
    \/ StopStore \/ StopWrite \/ Environment \/ Tick
    \/ Recreate

Spec == Init /\ [][Next]_vars

(* As in EventLoop: the loop thread runs, a body suspends eventually, a    *)
(* thread inside stop() gets to its write, and time passes.                *)
Fairness ==
    /\ WF_vars(LoopStep)
    /\ WF_vars(Suspend)
    /\ WF_vars(StopWrite)
    /\ WF_vars(Tick)
FairSpec == Spec /\ Fairness

-----------------------------------------------------------------------------
(* The counters count exactly the open registrations, those with a         *)
(* deadline and the unfinished roots, and inflight_polls_ holds exactly    *)
(* the tokens of the open registrations: no completion of an open wait is  *)
(* dropped as unknown and no entry is left for a wait that is over.        *)
CountersExact ==
    /\ pending_waiter_count = Cardinality({w \in Waiter : Armed(w)})
    /\ timed_waiter_count = Cardinality({w \in Waiter : TimedSide(w)})
    /\ active_task_count = Cardinality({h \in root_tasks : frame[h] # "final"})
    /\ \A t \in Token, w \in Waiter :
          inflight_polls[t] = w <=> Armed(w) /\ waiters[w].token = t

(* Every open wait has its one poll somewhere on the way: queued with      *)
(* submission_pending_ set, armed in the kernel on a condition that does   *)
(* not hold yet, or completed and not yet processed.  While the loop       *)
(* blocks the poll has left the submission queue.  The one way to lose it  *)
(* is the batch that process_completion leaves when arming the wake poll   *)
(* fails.                                                                  *)
PollInFlight ==
    \A w \in Waiter : Armed(w) =>
        LET t == waiters[w].token
            armed == {p \in polls : p.token = t}
        IN  \/ pc # "waiting" /\ submission_pending /\ Has(sq, t)
            \/ /\ armed # {}
               /\ \A p \in armed : p.fd = w[1] => ~Holds(w)
            \/ Has(cq, t) \/ Has(batch, t) \/ t \in dropped

(* A wait ends with ok only when its condition held after it was armed,    *)
(* with ETIMEDOUT only from its deadline on, and never with the ECANCELED  *)
(* or the late completion of an earlier wait on the same side.  Of a       *)
(* descriptor that is closed it ends with EBADF, or when the file that was *)
(* polled is ready.                                                        *)
CausedWake(w, h) ==
    h # Null /\ waiters'[w].handle = Null /\ run_result' = run_result =>
        \/ /\ wait_results'[h] = "ETIMEDOUT"
           /\ TimedSide(w) /\ now >= waiters[w].deadline
        \/ wait_results'[h] = "ok" /\ w \in seen
        \/ wait_results'[h] = "EBADF" /\ CanClose
WakeHasCause == [][\A w \in Waiter : CausedWake(w, waiters[w].handle)]_vars

(* The one-shot poll of the eventfd is armed again each time it completes, *)
(* whatever arrives in between: the loop gives it up only when stopping.   *)
WakeWatched ==
    \/ \E p \in polls : p.token = wake_token
    \/ Has(cq, wake_token) \/ Has(batch, wake_token)
WakeKept == [][WakeWatched => WakeWatched' \/ stop_requested']_vars

(* A stop request makes run() return wherever the loop thread is, as long  *)
(* as the eventfd is watched.                                              *)
StopReturns == (stop_requested /\ WakeWatched) ~> pc = "idle"

(* A wait with a deadline ends as long as the loop runs.                   *)
TimedWaitEnds ==
    \A w \in Waiter : (TimedSide(w) /\ pc # "idle")
                          ~> (~TimedSide(w) \/ pc = "idle")
=============================================================================
