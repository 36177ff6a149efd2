------------------------------ MODULE EventLoop ------------------------------
(***************************************************************************)
(* simplenet::runtime::event_loop (src/runtime/event_loop.cpp): one thread *)
(* runs coroutines from ready_queue_, arms their waits on an edge-         *)
(* triggered epoll reactor, expires their deadlines and blocks when        *)
(* nothing is ready; any thread may call stop().                           *)
(*                                                                         *)
(* Variables keep the member names without the trailing underscore.  The   *)
(* map waiters_ is three functions over all descriptors; an absent slot is *)
(* a slot with no handles and mask {}.  The loop thread's position is pc:  *)
(*   idle     outside run()             block    idle test, line 96        *)
(*   top      while condition, line 66  waiting  inside epoll_wait         *)
(*   expire   process_expired_waiters   dispatch event loop, line 128      *)
(*   scan     its loop over waiters_    exit     line 137                  *)
(*   check    lines 68 and 85           resumed  cleanup after resume()    *)
(*   drain    ready_queue_ test         running  a coroutine body executes *)
(* Time is counted in ticks; TicksPerMs > 1 keeps the truncation of the    *)
(* remaining time to milliseconds visible.                                 *)
(***************************************************************************)
EXTENDS Task, EpollReactor, Naturals, Sequences, FiniteSets

CONSTANTS WakeFd,      \* the eventfd stop() writes
          Timeout,     \* timeouts in ms tasks use; 0 stands for all <= 0
          TicksPerMs,  \* clock ticks per millisecond
          IntMax,      \* numeric_limits<int>::max(), clamp of timeout_ms
          MaxTime,     \* bound: the clock stops here
          CanClose     \* may tasks close descriptors that are waited on?

ASSUME HandleFinite == IsFiniteSet(Handle)
ASSUME WakeFdAssumption == WakeFd \notin Fd
ASSUME TimeAssumption ==
    /\ Timeout \subseteq Nat
    /\ TicksPerMs \in Nat \ {0}
    /\ IntMax \in Nat
    /\ MaxTime \in Nat
    /\ Null \notin Nat
ASSUME CanCloseAssumption == CanClose \in BOOLEAN

Dir == {"readable", "writable"}
Waiter == Fd \X Dir

VARIABLES
    ready_queue, wait_results, root_tasks, active_task_count,
    handle, deadline,      \* of the wait_registration on each side of a slot
    registered_mask,       \* of each slot
    pending_waiter_count, timed_waiter_count,
    next_deadline, deadline_index_dirty,
    stop_requested, loop_error,
    wake_signal,           \* the eventfd counter is not zero
    stopper,               \* an external thread inside stop()
    pc, current,           \* loop thread: position, running coroutine
    scan,                  \* locals of process_expired_waiters
    batch,                 \* events returned by wait, not yet processed
    wait_until,            \* when epoll_wait times out, Null for never
    run_result,            \* what the last run() returned
    now

queueVars == <<ready_queue, wait_results>>
rootVars == <<root_tasks, active_task_count>>
waiterVars == <<handle, deadline, registered_mask, pending_waiter_count,
                timed_waiter_count>>
indexVars == <<next_deadline, deadline_index_dirty>>
loopVars == <<queueVars, rootVars, waiterVars, indexVars>>
flagVars == <<stop_requested, loop_error>>
outsideVars == <<wake_signal, stopper, now>>
localVars == <<scan, batch, wait_until, run_result>>
dataVars == <<taskVars, kernelVars, loopVars, flagVars, outsideVars, current,
              localVars>>
vars == <<pc, dataVars>>

Errno == {"EBADF", "EEXIST", "ENOENT"}
Outcome == {"ok", "ETIMEDOUT"}
ASSUME OutcomeNotNull == Null \notin Outcome \cup Errno \cup {"EDEADLK"}
Location == {"idle", "top", "expire", "scan", "check", "drain", "running",
             "resumed", "block", "waiting", "dispatch", "exit"}
Event == [fd : Fd \cup {WakeFd}, events : SUBSET Condition]
NoScan == [todo |-> {}, now |-> 0, next |-> Null]

Init ==
    /\ TaskInit
    /\ KernelInit
    /\ ready_queue = <<>>
    /\ wait_results = [h \in Handle |-> Null]
    /\ root_tasks = {}
    /\ active_task_count = 0
    /\ handle = [w \in Waiter |-> Null]
    /\ deadline = [w \in Waiter |-> Null]
    /\ registered_mask = [fd \in Fd |-> {}]
    /\ pending_waiter_count = 0
    /\ timed_waiter_count = 0
    /\ next_deadline = Null
    /\ deadline_index_dirty = FALSE
    /\ stop_requested = FALSE
    /\ loop_error = Null
    /\ wake_signal = FALSE
    /\ stopper = "idle"
    /\ pc = "idle"
    /\ current = Null
    /\ scan = NoScan
    /\ batch = {}
    /\ wait_until = Null
    /\ run_result = Null
    /\ now = 0

-----------------------------------------------------------------------------
(* Mutant: a path that decrements a counter twice per registration.        *)
Decrement_Twice(n, k) == IF n >= 2 * k THEN n - 2 * k ELSE 0

(* k size_t decrements, each done only when the counter is positive.       *)
Decrement(n, k) == IF n >= k THEN n - k ELSE 0

(* min of two deadlines, where Null is "none yet".                         *)
Earlier(n, d) == IF n = Null \/ d < n THEN d ELSE n

(* kReadReadyMask and kWriteReadyMask, the bit each side requests, and     *)
(* kCommonFlags.                                                           *)
ReadyMask(d) == IF d = "readable" THEN {"in", "rdhup", "err"} ELSE {"out", "err"}
RequestBit_Swapped(d) == IF d = "readable" THEN "out" ELSE "in"  \* mutant
RequestBit(d) == IF d = "readable" THEN "in" ELSE "out"
CommonFlags == {"rdhup", "err"}

Armed(fd, hs) == {d \in Dir : hs[<<fd, d>>] # Null}

(* refresh_interest(fd, slot) for the handles hs: the mask wanted, the     *)
(* control call made and its result.                                       *)
DesiredMask_OneSide(fd, hs) ==  \* mutant: a reader hides the writer
    IF Armed(fd, hs) = {} THEN {}
    ELSE CommonFlags \cup
           {IF "readable" \in Armed(fd, hs) THEN "in" ELSE "out"}
DesiredMask(fd, hs) ==
    IF Armed(fd, hs) = {} THEN {}
    ELSE CommonFlags \cup {RequestBit(d) : d \in Armed(fd, hs)}
RefreshOp(fd, hs) ==
    IF registered_mask[fd] = DesiredMask(fd, hs) THEN "NONE"
    ELSE IF registered_mask[fd] = {} THEN "ADD"
    ELSE IF DesiredMask(fd, hs) = {} THEN "DEL"
    ELSE "MOD"
RefreshResult(fd, hs) == CtlResult(RefreshOp(fd, hs), fd)
RefreshKernel(fd, hs) == CtlEffect(RefreshOp(fd, hs), fd, DesiredMask(fd, hs))

(* Waking the sides S of fd's slot with outcome r: result recorded, handle *)
(* scheduled (readable before writable), registration reset, counters      *)
(* decremented.                                                            *)
Cleared_Kept(f, fd, S) == f  \* mutant: the registration is not reset
Cleared(f, fd, S) ==
    [w \in Waiter |-> IF w[1] = fd /\ w[2] \in S THEN Null ELSE f[w]]
Timed_All(fd, S) == S  \* mutant: untimed registrations counted as timed
Timed(fd, S) == {d \in S : deadline[<<fd, d>>] # Null}
Side(fd, S, d) == IF d \in S THEN <<handle[<<fd, d>>]>> ELSE <<>>
SideCount(S) == (IF "readable" \in S THEN 1 ELSE 0)
                  + (IF "writable" \in S THEN 1 ELSE 0)
WakeSides(fd, S, r) ==
    /\ handle' = Cleared(handle, fd, S)
    /\ deadline' = Cleared(deadline, fd, S)
    /\ wait_results' = [h \in Handle |-> IF \E d \in S : handle[<<fd, d>>] = h
                                         THEN r ELSE wait_results[h]]
    /\ ready_queue' = (ready_queue \o Side(fd, S, "readable"))
                        \o Side(fd, S, "writable")
    /\ pending_waiter_count' = Decrement(pending_waiter_count, SideCount(S))
    /\ timed_waiter_count' =
           Decrement(timed_waiter_count, SideCount(Timed(fd, S)))

(* refresh_interest after waking: a failure stops the loop, a slot left    *)
(* without handles is erased.                                              *)
RefreshSlot(fd) ==
    /\ RefreshKernel(fd, handle')
    /\ registered_mask' =
         IF RefreshResult(fd, handle') = "ok"
         THEN [registered_mask EXCEPT ![fd] = DesiredMask(fd, handle')]
         ELSE registered_mask
    /\ loop_error' = IF RefreshResult(fd, handle') = "ok" THEN loop_error
                     ELSE RefreshResult(fd, handle')
    /\ stop_requested' = (stop_requested \/ RefreshResult(fd, handle') # "ok")

-----------------------------------------------------------------------------
(* run().                                                                  *)
RunStart ==
    /\ pc = "idle"
    /\ pc' = "top"
    /\ stop_requested' = FALSE
    /\ loop_error' = Null
    /\ run_result' = Null
    /\ UNCHANGED <<taskVars, kernelVars, loopVars, outsideVars, current, scan,
                   batch, wait_until>>

LoopTop ==
    /\ pc = "top"
    /\ pc' = IF stop_requested THEN "exit" ELSE "expire"
    /\ UNCHANGED dataVars

(* process_expired_waiters: nothing timed, nothing due yet, or scan every  *)
(* slot with one reading of the clock.                                     *)
NothingDue ==
    ~deadline_index_dirty /\ next_deadline # Null /\ now < next_deadline
Slots == {fd \in Fd : Armed(fd, handle) # {} \/ registered_mask[fd] # {}}
ExpireStart ==
    /\ pc = "expire"
    /\ IF timed_waiter_count = 0
       THEN /\ next_deadline' = Null
            /\ deadline_index_dirty' = FALSE
            /\ pc' = "check"
            /\ scan' = scan
       ELSE /\ UNCHANGED indexVars
            /\ pc' = IF NothingDue THEN "check" ELSE "scan"
            /\ scan' = IF NothingDue THEN scan
                       ELSE [todo |-> Slots, now |-> now, next |-> Null]
    /\ UNCHANGED <<taskVars, kernelVars, queueVars, rootVars, waiterVars,
                   flagVars, outsideVars, current, batch, wait_until,
                   run_result>>

(* One iteration over waiters_, whose order is free.  A failed refresh     *)
(* ends the scan with the deadline index still dirty; otherwise the slot   *)
(* is erased when empty or contributes to the next deadline.               *)
Expired_Early(fd) == {d \in Armed(fd, handle) :  \* mutant: off by one
                         /\ deadline[<<fd, d>>] # Null
                         /\ scan.now + 1 >= deadline[<<fd, d>>]}
Expired_ReadOnly(fd) == {d \in Armed(fd, handle) :  \* mutant: one side only
                            /\ d = "readable" /\ deadline[<<fd, d>>] # Null
                            /\ scan.now >= deadline[<<fd, d>>]}
Expired(fd) == {d \in Armed(fd, handle) :
                   deadline[<<fd, d>>] # Null /\ scan.now >= deadline[<<fd, d>>]}
NextOf(fd, n, d) == IF deadline'[<<fd, d>>] = Null THEN n
                    ELSE Earlier(n, deadline'[<<fd, d>>])
ScanSlot(fd) ==
    /\ pc = "scan"
    /\ fd \in scan.todo
    /\ WakeSides(fd, Expired(fd), "ETIMEDOUT")
    /\ IF Expired(fd) # {} THEN RefreshSlot(fd)
       ELSE /\ registered_mask' = [registered_mask EXCEPT
                    ![fd] = IF Armed(fd, handle) = {} THEN {} ELSE @]
            /\ UNCHANGED <<kernelVars, flagVars>>
    /\ pc' = IF loop_error' = Null THEN "scan" ELSE "check"
    /\ scan' = IF loop_error' # Null THEN NoScan
               ELSE [scan EXCEPT
                       !.todo = @ \ {fd},
                       !.next = NextOf(fd, NextOf(fd, @, "readable"), "writable")]
    /\ UNCHANGED <<taskVars, rootVars, indexVars, outsideVars, current, batch,
                   wait_until, run_result>>
ScanEnd ==
    /\ pc = "scan"
    /\ scan.todo = {}
    /\ next_deadline' = scan.next
    /\ deadline_index_dirty' = FALSE
    /\ scan' = NoScan
    /\ pc' = "check"
    /\ UNCHANGED <<taskVars, kernelVars, queueVars, rootVars, waiterVars,
                   flagVars, outsideVars, current, batch, wait_until,
                   run_result>>

(* Lines 68 and 85, after process_expired_waiters, and line 91, once the   *)
(* ready queue is empty.                                                   *)
LoopCheck ==
    /\ pc = "check" \/ (pc = "drain" /\ ready_queue = <<>>)
    /\ pc' = IF stop_requested \/ loop_error # Null THEN "exit"
             ELSE IF pc = "check" THEN "drain" ELSE "block"
    /\ UNCHANGED dataVars

(* The inner loop pops one handle; a done handle is skipped, any other is  *)
(* resumed.  A frame resumed from a wait consumes its wait result first.   *)
DrainPop ==
    /\ pc = "drain"
    /\ ready_queue # <<>>
    /\ ready_queue' = Tail(ready_queue)
    /\ IF frame[Head(ready_queue)] = "final"
       THEN UNCHANGED <<pc, current, taskVars, wait_results>>
       ELSE /\ pc' = "running"
            /\ current' = Head(ready_queue)
            /\ ResumeFrame(Head(ready_queue))
            /\ wait_results' = [wait_results EXCEPT ![Head(ready_queue)] =
                    IF frame[Head(ready_queue)] = "waiting" THEN Null ELSE @]
    /\ UNCHANGED <<kernelVars, rootVars, waiterVars, indexVars, flagVars,
                   outsideVars, localVars>>

(* cleanup_completed_roots, after every resume() and before run returns.   *)
DoneRoots_Awaiting ==  \* mutant: a root that awaits a child counts as done
    {h \in root_tasks : frame[h] \in {"final", "awaiting"}}
DoneRoots == {h \in root_tasks : frame[h] = "final"}
CleanupCompletedRoots ==
    /\ DestroyFrames(DoneRoots)
    /\ root_tasks' = root_tasks \ DoneRoots
AfterResume ==
    /\ pc = "resumed"
    /\ pc' = "expire"
    /\ CleanupCompletedRoots
    /\ UNCHANGED <<kernelVars, queueVars, active_task_count, waiterVars,
                   indexVars, flagVars, outsideVars, current, localVars>>
LoopExit ==
    /\ pc = "exit"
    /\ pc' = "idle"
    /\ CleanupCompletedRoots
    /\ run_result' = IF loop_error # Null THEN loop_error ELSE "ok"
    /\ UNCHANGED <<kernelVars, queueVars, active_task_count, waiterVars,
                   indexVars, flagVars, outsideVars, current, scan, batch,
                   wait_until>>

(* Lines 96-123: return, report a deadlock, or block in reactor_.wait      *)
(* until the cached deadline, truncated to milliseconds and clamped to an  *)
(* int.                                                                    *)
TimeoutMs_RoundedUp(d) ==  \* mutant: the remaining time is rounded up
    IF d <= now THEN 0 ELSE (d - now + TicksPerMs - 1) \div TicksPerMs
TimeoutMs(d) ==
    LET ms == (d - now) \div TicksPerMs
    IN  IF d <= now THEN 0 ELSE IF ms <= IntMax THEN ms ELSE IntMax
Block ==
    /\ pc = "block"
    /\ pc' = IF pending_waiter_count > 0 THEN "waiting"
             ELSE IF active_task_count = 0 THEN "exit" ELSE "idle"
    /\ run_result' = IF pc' = "idle" THEN "EDEADLK" ELSE run_result
    /\ wait_until' = IF pc' = "waiting" /\ next_deadline # Null
                     THEN now + TimeoutMs(next_deadline) * TicksPerMs
                     ELSE Null
    /\ UNCHANGED <<taskVars, kernelVars, loopVars, flagVars, outsideVars,
                   current, scan, batch>>

(* reactor::wait reports at most MaxEvents descriptors.  Edge-triggered    *)
(* ones leave the ready list; the level-triggered wake fd is reported as   *)
(* long as its counter is not zero.  EINTR counts as no event.             *)
AllReady_NoWake == Reportable  \* mutant: the wake fd is not registered
AllReady == Reportable \cup (IF wake_signal THEN {WakeFd} ELSE {})
ReadyEvent(fd) ==
    [fd |-> fd, events |-> IF fd = WakeFd THEN {"in"} ELSE Reported(fd)]
WaitReturn ==
    /\ pc = "waiting"
    /\ pc' = "dispatch"
    /\ \E S \in SUBSET AllReady :
          /\ S # {} /\ Cardinality(S) <= MaxEvents
          /\ Cardinality(S) < MaxEvents => S = AllReady
          /\ batch' = {ReadyEvent(fd) : fd \in S}
          /\ rdlist' = Reportable \ S
    /\ wait_until' = Null
    /\ UNCHANGED <<taskVars, open, level, interest, loopVars, flagVars,
                   outsideVars, current, scan, run_result>>
WaitEmpty ==
    /\ pc = "waiting"
    /\ AllReady = {}
    /\ pc' = "top"
    /\ wait_until' = Null
    /\ UNCHANGED <<taskVars, kernelVars, loopVars, flagVars, outsideVars,
                   current, scan, batch, run_result>>
WaitTimeout == wait_until # Null /\ now >= wait_until /\ WaitEmpty
WaitInterrupted == WaitEmpty

(* process_ready_event; an error drops the rest of the batch (line 130).   *)
Fired(e) == {d \in Armed(e.fd, handle) : e.events \cap ReadyMask(d) # {}}
DispatchWake(e) ==
    /\ pc = "dispatch"
    /\ e.fd = WakeFd
    /\ wake_signal' = FALSE
    /\ batch' = batch \ {e}
    /\ pc' = IF batch' = {} THEN "top" ELSE "dispatch"
    /\ UNCHANGED <<taskVars, kernelVars, loopVars, flagVars, stopper, now,
                   current, scan, wait_until, run_result>>
DispatchFd(e) ==
    /\ pc = "dispatch"
    /\ e.fd \in Fd
    /\ WakeSides(e.fd, Fired(e), "ok")
    /\ deadline_index_dirty' = \/ deadline_index_dirty
                               \/ /\ Timed(e.fd, Fired(e)) # {}
                                  /\ timed_waiter_count > 0
    /\ RefreshSlot(e.fd)
    /\ batch' = IF loop_error' = Null THEN batch \ {e} ELSE {}
    /\ pc' = IF batch' = {} THEN "top" ELSE "dispatch"
    /\ UNCHANGED <<taskVars, rootVars, next_deadline, outsideVars, current,
                   scan, wait_until, run_result>>

-----------------------------------------------------------------------------
(* What a coroutine body does between resume() and its next suspension.    *)
Suspended == pc' = "resumed" /\ current' = Null

(* spawn, by the loop's owner outside run() or by a task.                  *)
Spawn(c) ==
    /\ pc \in {"idle", "running"}
    /\ CreateRoot(c)
    /\ active_task_count' = active_task_count + 1
    /\ root_tasks' = root_tasks \cup {c}
    /\ ready_queue' = Append(ready_queue, c)
    /\ UNCHANGED <<kernelVars, wait_results, waiterVars, indexVars, flagVars,
                   outsideVars, pc, current, localVars>>

(* co_await of a task: the child is scheduled, the parent suspends.        *)
TaskAwait(c) ==
    /\ pc = "running"
    /\ AwaitChild(current, c)
    /\ ready_queue' = Append(ready_queue, c)
    /\ Suspended
    /\ UNCHANGED <<kernelVars, wait_results, rootVars, waiterVars, indexVars,
                   flagVars, outsideVars, localVars>>

(* co_return: final_suspend reports a tracked root (on_task_completed) and *)
(* schedules the continuation.                                             *)
TaskFinish ==
    /\ pc = "running"
    /\ FinishFrame(current)
    /\ active_task_count' = IF current \in root_tasks
                            THEN Decrement(active_task_count, 1)
                            ELSE active_task_count
    /\ ready_queue' = IF continuation[current] = Null THEN ready_queue
                      ELSE Append(ready_queue, continuation[current])
    /\ Suspended
    /\ UNCHANGED <<kernelVars, wait_results, root_tasks, waiterVars,
                   indexVars, flagVars, outsideVars, localVars>>

(* arm_waiter with timeout <= 0: the wait is over before it begins.        *)
ArmElapsed ==
    /\ pc = "running"
    /\ SuspendFrame(current)
    /\ wait_results' = [wait_results EXCEPT ![current] = "ETIMEDOUT"]
    /\ ready_queue' = Append(ready_queue, current)
    /\ Suspended
    /\ UNCHANGED <<kernelVars, rootVars, waiterVars, indexVars, flagVars,
                   outsideVars, localVars>>

(* arm_waiter otherwise.  EBUSY (the side is taken) changes nothing and    *)
(* the coroutine runs on, a stuttering step.  When refresh_interest fails  *)
(* the registration and the counters are rolled back, the deadline index   *)
(* stays dirty and the coroutine runs on with the error.                   *)
ArmedHandles(fd, d) == [handle EXCEPT ![<<fd, d>>] = current]
NewDeadline(t) == IF t = Null THEN Null ELSE now + t * TicksPerMs
ArmIndex(t) ==
    /\ next_deadline' = IF t = Null THEN next_deadline
                        ELSE Earlier(next_deadline, NewDeadline(t))
    /\ deadline_index_dirty' = TRUE
Arm(fd, d, t) ==
    /\ pc = "running"
    /\ t # Null => NewDeadline(t) <= MaxTime
    /\ handle[<<fd, d>>] = Null
    /\ RefreshResult(fd, ArmedHandles(fd, d)) = "ok"
    /\ RefreshKernel(fd, ArmedHandles(fd, d))
    /\ handle' = ArmedHandles(fd, d)
    /\ deadline' = [deadline EXCEPT ![<<fd, d>>] = NewDeadline(t)]
    /\ registered_mask' = [registered_mask EXCEPT
                             ![fd] = DesiredMask(fd, ArmedHandles(fd, d))]
    /\ timed_waiter_count' = timed_waiter_count + (IF t = Null THEN 0 ELSE 1)
    /\ pending_waiter_count' = pending_waiter_count + 1
    /\ ArmIndex(t)
    /\ SuspendFrame(current)
    /\ Suspended
    /\ UNCHANGED <<queueVars, rootVars, flagVars, outsideVars, localVars>>
ArmFails(fd, d, t) ==
    /\ pc = "running"
    /\ t # Null => NewDeadline(t) <= MaxTime
    /\ handle[<<fd, d>>] = Null
    /\ RefreshResult(fd, ArmedHandles(fd, d)) # "ok"
    /\ registered_mask' = [registered_mask EXCEPT
                             ![fd] = IF Armed(fd, handle) = {} THEN {} ELSE @]
    /\ ArmIndex(t)
    /\ UNCHANGED <<taskVars, kernelVars, queueVars, rootVars, handle,
                   deadline, timed_waiter_count, pending_waiter_count,
                   flagVars, outsideVars, pc, current, localVars>>

(* A task calls stop() on its own loop.                                    *)
TaskStop ==
    /\ pc = "running"
    /\ stop_requested' = TRUE
    /\ wake_signal' = TRUE
    /\ UNCHANGED <<taskVars, kernelVars, loopVars, loop_error, stopper, now,
                   pc, current, localVars>>

(* A task reads or writes until the call would block, closes a descriptor, *)
(* or opens one.                                                           *)
TaskIo ==
    /\ pc = "running"
    /\ \E fd \in Fd : \/ \E c \in {"in", "out"} : Consume(fd, c)
                      \/ CanClose /\ (Close(fd) \/ Open(fd))
    /\ UNCHANGED <<taskVars, loopVars, flagVars, outsideVars, pc, current,
                   localVars>>

-----------------------------------------------------------------------------
(* stop() on another thread: the flag first, then the eventfd.             *)
StopStore ==
    /\ stopper = "idle"
    /\ stopper' = "stored"
    /\ stop_requested' = TRUE
    /\ UNCHANGED <<taskVars, kernelVars, loopVars, loop_error, wake_signal,
                   now, pc, current, localVars>>
StopWrite ==
    /\ stopper = "stored"
    /\ stopper' = "idle"
    /\ wake_signal' = TRUE
    /\ UNCHANGED <<taskVars, kernelVars, loopVars, flagVars, now, pc, current,
                   localVars>>

(* The peers and the network raise conditions; the clock advances.         *)
Environment ==
    /\ \E fd \in Fd, c \in Conds : Raise(fd, c)
    /\ UNCHANGED <<taskVars, loopVars, flagVars, outsideVars, pc, current,
                   localVars>>
Tick ==
    /\ now < MaxTime
    /\ now' = now + 1
    /\ UNCHANGED <<taskVars, kernelVars, loopVars, flagVars, wake_signal,
                   stopper, pc, current, localVars>>

(* The loop is destroyed (destroy_all_roots, then its members) and a new   *)
(* one constructed; closing the epoll descriptor drops its interest set.   *)
Recreate ==
    /\ pc = "idle" /\ stopper = "idle"
    /\ DestroyFrames(Handle)
    /\ interest' = [fd \in Fd |-> {}] /\ rdlist' = {}
    /\ ready_queue' = <<>>
    /\ wait_results' = [h \in Handle |-> Null]
    /\ root_tasks' = {} /\ active_task_count' = 0
    /\ handle' = [w \in Waiter |-> Null]
    /\ deadline' = [w \in Waiter |-> Null]
    /\ registered_mask' = [fd \in Fd |-> {}]
    /\ pending_waiter_count' = 0 /\ timed_waiter_count' = 0
    /\ next_deadline' = Null /\ deadline_index_dirty' = FALSE
    /\ stop_requested' = FALSE /\ loop_error' = Null /\ wake_signal' = FALSE
    /\ run_result' = Null
    /\ UNCHANGED <<open, level, stopper, pc, current, scan, batch, wait_until,
                   now>>

Suspend ==
    \/ \E c \in Handle : TaskAwait(c)
    \/ TaskFinish
    \/ 0 \in Timeout /\ ArmElapsed
    \/ \E fd \in Fd, d \in Dir, t \in (Timeout \ {0}) \cup {Null} : Arm(fd, d, t)
RunOn ==
    \/ \E fd \in Fd, d \in Dir, t \in (Timeout \ {0}) \cup {Null} :
          ArmFails(fd, d, t)
    \/ TaskStop
    \/ TaskIo
LoopStep ==
    \/ LoopTop \/ ExpireStart \/ ScanEnd \/ LoopCheck \/ DrainPop
    \/ AfterResume \/ Block \/ WaitReturn \/ WaitTimeout \/ LoopExit
    \/ \E fd \in Fd : ScanSlot(fd)
    \/ \E e \in batch : DispatchWake(e) \/ DispatchFd(e)

Next ==
    \/ RunStart
    \/ LoopStep
    \/ WaitInterrupted
    \/ \E c \in Handle : Spawn(c)
    \/ Suspend
    \/ RunOn
    \/ StopStore
    \/ StopWrite
    \/ Environment
    \/ Tick
    \/ Recreate

Spec == Init /\ [][Next]_vars

(* The loop thread keeps running, a coroutine body does not run for ever   *)
(* without suspending, a thread inside stop() gets to its write, and time  *)
(* passes.  Nobody has to call run(), stop() or spawn(), nor send data.    *)
Fairness ==
    /\ WF_vars(LoopStep)
    /\ WF_vars(Suspend)
    /\ WF_vars(StopWrite)
    /\ WF_vars(Tick)
FairSpec == Spec /\ Fairness

-----------------------------------------------------------------------------
(* The members and locals of event_loop keep their C++ types: the counters *)
(* never wrap below zero, only handles enter ready_queue_ and waiters_.    *)
TypeOK ==
    /\ TaskTypeOK
    /\ KernelTypeOK
    /\ ready_queue \in Seq(Handle)
    /\ wait_results \in [Handle -> Outcome \cup {Null}]
    /\ root_tasks \in SUBSET Handle
    /\ active_task_count \in Nat
    /\ handle \in [Waiter -> Handle \cup {Null}]
    /\ deadline \in [Waiter -> Nat \cup {Null}]
    /\ registered_mask \in [Fd -> SUBSET Condition]
    /\ pending_waiter_count \in Nat
    /\ timed_waiter_count \in Nat
    /\ next_deadline \in Nat \cup {Null}
    /\ deadline_index_dirty \in BOOLEAN
    /\ stop_requested \in BOOLEAN
    /\ loop_error \in Errno \cup {Null}
    /\ wake_signal \in BOOLEAN
    /\ stopper \in {"idle", "stored"}
    /\ pc \in Location
    /\ current \in Handle \cup {Null}
    /\ scan \in [todo : SUBSET Fd, now : Nat, next : Nat \cup {Null}]
    /\ batch \in SUBSET Event
    /\ wait_until \in Nat \cup {Null}
    /\ run_result \in Errno \cup {"ok", "EDEADLK", Null}
    /\ now \in Nat

-----------------------------------------------------------------------------
(* Properties.                                                             *)

Queued(h) == \E i \in 1..Len(ready_queue) : ready_queue[i] = h
Parked(h) == \E w \in Waiter : handle[w] = h
ChildDone(h) == \E c \in Handle : continuation[c] = h /\ frame[c] = "final"

(* A suspended coroutine is held in exactly one place: queued once in      *)
(* ready_queue_ when it can run (new, woken, or its child is done), in one *)
(* registration while its wait is open, nowhere else; so resume() never    *)
(* meets a finished or destroyed frame and no coroutine is forgotten.      *)
SuspendedOnce ==
    /\ \A i, j \in 1..Len(ready_queue) :
          ready_queue[i] = ready_queue[j] => i = j
    /\ \A v, w \in Waiter : handle[v] = handle[w] /\ handle[v] # Null => v = w
    /\ \A h \in Handle :
          /\ Queued(h) <=> \/ frame[h] = "initial"
                           \/ frame[h] = "waiting" /\ wait_results[h] # Null
                           \/ frame[h] = "awaiting" /\ ChildDone(h)
          /\ Parked(h) <=> frame[h] = "waiting" /\ wait_results[h] = Null

(* Every live frame is owned: by root_tasks_, or by the one parent that    *)
(* awaits it; so destroying the roots destroys everything.                 *)
FramesOwned ==
    /\ \A h \in Handle :
          /\ frame[h] = "free" <=> h \notin root_tasks /\ continuation[h] = Null
          /\ continuation[h] # Null => /\ h \notin root_tasks
                                       /\ frame[continuation[h]] = "awaiting"
          /\ frame[h] = "awaiting" => \E c \in Handle : continuation[c] = h
    /\ \A b, c \in Handle :
          continuation[b] = continuation[c] /\ continuation[b] # Null => b = c

(* pending_waiter_count_, timed_waiter_count_ and active_task_count_ count *)
(* exactly the open registrations, those with a deadline and the           *)
(* unfinished roots, on every path that arms, wakes, expires or rolls back.*)
CountersExact ==
    /\ pending_waiter_count = Cardinality({w \in Waiter : handle[w] # Null})
    /\ timed_waiter_count = Cardinality({w \in Waiter : deadline[w] # Null})
    /\ active_task_count =
           Cardinality({h \in root_tasks : frame[h] # "final"})

(* run() leaves its loop without a stop request only when every root has   *)
(* completed: no frame, no queued handle and no registration remains.      *)
NoTaskLeftBehind ==
    pc = "exit" /\ ~stop_requested =>
        /\ ready_queue = <<>>
        /\ \A h \in Handle : frame[h] = "free"
        /\ \A w \in Waiter : handle[w] = Null

(* run() never reports EDEADLK for tasks that suspend only in the          *)
(* library's awaitables: an unfinished root always has something pending.  *)
NoFalseDeadlock == run_result # "EDEADLK"

(* While the loop blocks in epoll_wait, its timeout (cached next_deadline_,*)
(* truncated and clamped) ends no later than any registered deadline.      *)
NoOversleep ==
    pc = "waiting" =>
        \A w \in Waiter : deadline[w] # Null =>
            /\ wait_until # Null
            /\ wait_until <= deadline[w] \/ wait_until <= now

(* Edge-triggered arming loses no edge: when the condition a registration  *)
(* waits for holds on a descriptor still in the epoll set, the kernel has  *)
(* it on the ready list or the loop holds an undispatched event for it.    *)
NoLostWakeup ==
    \A fd \in Fd, d \in Dir :
        /\ handle[<<fd, d>>] # Null
        /\ interest[fd] # {}
        /\ level[fd] \cap ReadyMask(d) # {}
        => \/ fd \in rdlist
           \/ \E e \in batch : e.fd = fd /\ e.events \cap ReadyMask(d) # {}

(* A wait is never reported as timed out before its deadline, nor as ready *)
(* without an event of the side it waits for.                              *)
CausedWake(w, h) ==
    h # Null /\ wait_results'[h] # wait_results[h]
        => \/ /\ wait_results'[h] = "ETIMEDOUT"
              /\ deadline[w] # Null /\ now >= deadline[w]
           \/ /\ wait_results'[h] = "ok"
              /\ \E e \in batch : /\ e.fd = w[1]
                                  /\ e.events \cap ReadyMask(w[2]) # {}
WakeHasCause == [][\A w \in Waiter : CausedWake(w, handle[w])]_vars

(* A stop request seen while run() executes makes it return, wherever the  *)
(* loop thread is, blocked in epoll_wait included.                         *)
StopReturns == stop_requested ~> pc = "idle"

(* A wait with a deadline ends as long as the loop runs, even when other   *)
(* coroutines keep the ready queue busy for ever.                          *)
TimedWaitEnds ==
    \A w \in Waiter : (deadline[w] # Null /\ pc # "idle")
                          ~> (deadline[w] = Null \/ pc = "idle")

(* A wait whose condition holds is woken, provided the ready queue drains  *)
(* again and again: run() polls only when ready_queue_ is empty.           *)
ReadyWaitEnds ==
    []<>(pc \in {"block", "idle"}) =>
        \A w \in Waiter :
            (handle[w] # Null /\ level[w[1]] \cap ReadyMask(w[2]) # {})
                ~> \/ handle[w] = Null
                   \/ level[w[1]] \cap ReadyMask(w[2]) = {}
                   \/ pc = "idle"

(* "Run loop until all root tasks complete or stop() is requested"         *)
(* (event_loop.hpp): a stop() that overlaps the first run() makes it       *)
(* return.  RunStart forgets a request stored just before it.              *)
StopHonoured ==
    (stopper = "stored" /\ run_result = Null)
        ~> (run_result # Null \/ (stopper = "idle" /\ pc = "idle"))

(* "Suspend coroutine until descriptor is readable" (event_loop.hpp): a    *)
(* wait that arm_waiter accepted is known to the kernel.                   *)
ArmReachesKernel ==
    [][\A w \in Waiter : handle[w] = Null /\ handle'[w] # Null
                            => RequestBit(w[2]) \in interest'[w[1]]]_vars
=============================================================================
