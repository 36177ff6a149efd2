--------------------------- MODULE EventLoopProofs ---------------------------
(***************************************************************************)
(* Proofs about EventLoop, for every set of frames and descriptors, every  *)
(* batch size, timeout and clock rate: the types, where a suspended        *)
(* coroutine is held and who owns a frame; then that no wakeup is lost and *)
(* none comes without a cause, and that event_loop implements Scheduler    *)
(* under the mapping of EventLoopScheduler.                                *)
(***************************************************************************)
EXTENDS EventLoop, EventLoopScheduler, TLAPS

(* Most leaves are first-order; those on arithmetic or sequences name SMT. *)
USE ZenonT(30)

(* Exactly while a coroutine body runs, current names it.                  *)
CurrentOK == current # Null <=> pc = "running"

TypeInv == TypeOK /\ CurrentOK

(* TypeInv by groups of variables, one for each tuple an action leaves     *)
(* unchanged.                                                              *)
QueueType ==
    /\ ready_queue \in Seq(Handle)
    /\ wait_results \in [Handle -> Outcome \cup {Null}]
RootType == root_tasks \in SUBSET Handle /\ active_task_count \in Nat
WaiterType ==
    /\ handle \in [Waiter -> Handle \cup {Null}]
    /\ deadline \in [Waiter -> Nat \cup {Null}]
    /\ registered_mask \in [Fd -> SUBSET Condition]
    /\ pending_waiter_count \in Nat
    /\ timed_waiter_count \in Nat
IndexType ==
    next_deadline \in Nat \cup {Null} /\ deadline_index_dirty \in BOOLEAN
FlagType == stop_requested \in BOOLEAN /\ loop_error \in Errno \cup {Null}
ClockType ==
    wake_signal \in BOOLEAN /\ stopper \in {"idle", "stored"} /\ now \in Nat
ScanType == scan \in [todo : SUBSET Fd, now : Nat, next : Nat \cup {Null}]
LocalType ==
    /\ ScanType
    /\ batch \in SUBSET Event
    /\ wait_until \in Nat \cup {Null}
    /\ run_result \in Errno \cup {"ok", "EDEADLK", Null}
ControlType == pc \in Location /\ current \in Handle \cup {Null} /\ CurrentOK

-----------------------------------------------------------------------------
(* Counters of set elements stay naturals under guarded decrements.        *)
LEMMA DecrementNat ==
    ASSUME NEW n \in Nat, NEW k \in Nat
    PROVE  Decrement(n, k) \in Nat
BY SMTT(30) DEF Decrement

(* Ticks of a duration, and the truncation of a duration to milliseconds.  *)
LEMMA TimesNat ==
    ASSUME NEW a \in Nat, NEW b \in Nat
    PROVE  a * b \in Nat
BY SMTT(30)

(* Multiplication by a natural keeps an order (milliseconds to ticks).     *)
LEMMA TimesMonotone ==
    ASSUME NEW a \in Nat, NEW b \in Nat, NEW c \in Nat, a <= b
    PROVE  a * c <= b * c
BY SMTT(30)

(* Truncating division never rounds up (duration_cast to milliseconds).    *)
LEMMA DivNat ==
    ASSUME NEW a \in Nat, NEW b \in Nat \ {0}
    PROVE  a \div b \in Nat /\ (a \div b) * b <= a
BY SMTT(30)

(* The deadline arm_waiter computes is a time exactly when the wait has a  *)
(* timeout.                                                                *)
LEMMA NewDeadlineType ==
    ASSUME TypeOK, NEW t \in (Timeout \ {0}) \cup {Null}
    PROVE  /\ NewDeadline(t) \in Nat \cup {Null}
           /\ NewDeadline(t) = Null <=> t = Null
<1>1. CASE t = Null
  BY <1>1 DEF NewDeadline
<1>2. CASE t # Null
  <2>1. t * TicksPerMs \in Nat
    BY <1>2, TimesNat, TimeAssumption
  <2>2. now + t * TicksPerMs \in Nat
    BY SMTT(30), <2>1 DEF TypeOK
  <2> QED  BY <1>2, <2>2, TimeAssumption DEF NewDeadline
<1> QED  BY <1>1, <1>2

(* The clock only moves forward.                                           *)
LEMMA TickClock == ASSUME TypeOK, Tick
                   PROVE  now \in Nat /\ now' \in Nat /\ now' >= now
<1>1. now \in Nat /\ now' = now + 1
  BY DEF TypeOK, Tick
<1> QED  BY SMTT(30), <1>1

(* The groups are the type invariant, before and after a step.             *)
LEMMA TypeParts ==
    ASSUME TypeInv
    PROVE  /\ TaskTypeOK /\ KernelTypeOK /\ QueueType /\ RootType
           /\ WaiterType /\ IndexType /\ FlagType /\ ClockType
           /\ LocalType /\ ControlType
BY DEF TypeInv, TypeOK, QueueType, RootType, WaiterType, IndexType, FlagType,
       ClockType, ScanType, LocalType, ControlType

(* Variables that a step leaves alone keep their types.                    *)
LEMMA TypeFrame ==
    ASSUME TypeInv
    PROVE  /\ UNCHANGED taskVars => TaskTypeOK'
           /\ UNCHANGED kernelVars => KernelTypeOK'
           /\ UNCHANGED queueVars => QueueType'
           /\ UNCHANGED rootVars => RootType'
           /\ UNCHANGED waiterVars => WaiterType'
           /\ UNCHANGED indexVars => IndexType'
           /\ UNCHANGED flagVars => FlagType'
           /\ UNCHANGED outsideVars => ClockType'
           /\ UNCHANGED localVars => LocalType'
           /\ UNCHANGED <<pc, current>> => ControlType'
<1>1. UNCHANGED taskVars => TaskTypeOK'
  BY TypeParts DEF taskVars, TaskTypeOK
<1>2. UNCHANGED kernelVars => KernelTypeOK'
  BY TypeParts DEF kernelVars, KernelTypeOK
<1>3. UNCHANGED queueVars => QueueType'
  BY TypeParts DEF queueVars, QueueType
<1>4. UNCHANGED rootVars => RootType'
  BY TypeParts DEF rootVars, RootType
<1>5. UNCHANGED waiterVars => WaiterType'
  BY TypeParts DEF waiterVars, WaiterType
<1>6. UNCHANGED indexVars => IndexType'
  BY TypeParts DEF indexVars, IndexType
<1>7. UNCHANGED flagVars => FlagType'
  BY TypeParts DEF flagVars, FlagType
<1>8. UNCHANGED outsideVars => ClockType'
  BY TypeParts DEF outsideVars, ClockType
<1>9. UNCHANGED localVars => LocalType'
  BY TypeParts DEF localVars, LocalType, ScanType
<1>10. UNCHANGED <<pc, current>> => ControlType'
  BY TypeParts DEF ControlType, CurrentOK
<1> QED  BY <1>1, <1>2, <1>3, <1>4, <1>5, <1>6, <1>7, <1>8, <1>9, <1>10

(* So a step keeps the types when every group is unchanged or typed.       *)
LEMMA TypeStep ==
    ASSUME TypeInv,
           UNCHANGED taskVars \/ TaskTypeOK',
           UNCHANGED kernelVars \/ KernelTypeOK',
           UNCHANGED queueVars \/ QueueType',
           UNCHANGED rootVars \/ RootType',
           UNCHANGED waiterVars \/ WaiterType',
           UNCHANGED indexVars \/ IndexType',
           UNCHANGED flagVars \/ FlagType',
           UNCHANGED outsideVars \/ ClockType',
           UNCHANGED localVars \/ LocalType',
           UNCHANGED <<pc, current>> \/ ControlType'
    PROVE  TypeInv'
<1>1. /\ TaskTypeOK' /\ KernelTypeOK' /\ QueueType' /\ RootType'
      /\ WaiterType' /\ IndexType' /\ FlagType' /\ ClockType'
      /\ LocalType' /\ ControlType'
  BY TypeFrame
<1> QED  BY <1>1 DEF TypeInv, TypeOK, QueueType, RootType, WaiterType,
                     IndexType, FlagType, ClockType, ScanType, LocalType,
                     ControlType

(* The timeout_ms that run() passes to epoll_wait is a natural number of   *)
(* milliseconds.                                                           *)
LEMMA TimeoutType ==
    ASSUME TypeOK, NEW d \in Nat
    PROVE  /\ TimeoutMs(d) \in Nat
           /\ now + TimeoutMs(d) * TicksPerMs \in Nat
<1>1. CASE d <= now
  BY SMTT(30), <1>1, TimeAssumption DEF TimeoutMs, TypeOK
<1>2. CASE d > now
  <2>1. d - now \in Nat /\ now \in Nat
    BY SMTT(30), <1>2 DEF TypeOK
  <2>2. (d - now) \div TicksPerMs \in Nat
    BY <2>1, DivNat, TimeAssumption
  <2>3. TimeoutMs(d) \in Nat
    BY <1>2, <2>1, <2>2, TimeAssumption DEF TimeoutMs
  <2>4. TimeoutMs(d) * TicksPerMs \in Nat
    BY <2>3, TimesNat, TimeAssumption
  <2> QED  BY SMTT(30), <2>1, <2>3, <2>4
<1> QED  BY SMTT(30), <1>1, <1>2 DEF TypeOK

(* The mask and the control call refresh_interest chooses are well formed. *)
LEMMA RefreshType ==
    ASSUME NEW fd \in Fd, NEW hs
    PROVE  /\ DesiredMask(fd, hs) \in SUBSET Condition
           /\ RefreshResult(fd, hs) \in Errno \cup {"ok"}
BY DEF DesiredMask, CommonFlags, RequestBit, Condition, RefreshResult,
       CtlResult, Errno

(* The kernel's part of refresh_interest keeps the kernel's types.         *)
LEMMA RefreshKernelType ==
    ASSUME KernelTypeOK, NEW fd \in Fd, NEW hs, RefreshKernel(fd, hs)
    PROVE  KernelTypeOK'
<1>1. DesiredMask(fd, hs) \in SUBSET Condition
  BY RefreshType
<1> QED  BY <1>1 DEF KernelTypeOK, RefreshKernel, CtlEffect

(* Waking sides that hold a handle, then refreshing the interest, keeps    *)
(* every type; wait_results gets the outcome r.                            *)
LEMMA WakeType ==
    ASSUME TypeOK, NEW fd \in Fd, NEW S \in SUBSET Armed(fd, handle),
           NEW r \in Outcome, WakeSides(fd, S, r)
    PROVE  /\ handle' \in [Waiter -> Handle \cup {Null}]
           /\ deadline' \in [Waiter -> Nat \cup {Null}]
           /\ wait_results' \in [Handle -> Outcome \cup {Null}]
           /\ ready_queue' \in Seq(Handle)
           /\ pending_waiter_count' \in Nat
           /\ timed_waiter_count' \in Nat
<1> USE DEF TypeOK
<1>1. S \in SUBSET Dir /\ Timed(fd, S) \in SUBSET Dir
  BY DEF Armed, Timed
<1>2. SideCount(S) \in Nat /\ SideCount(Timed(fd, S)) \in Nat
  BY SMTT(30) DEF SideCount
<1>3. pending_waiter_count' \in Nat /\ timed_waiter_count' \in Nat
  BY <1>2, DecrementNat DEF WakeSides
<1>4. \A d \in S : handle[<<fd, d>>] \in Handle
  BY DEF Armed, Waiter
<1>5. ASSUME NEW d \in Dir
      PROVE  Side(fd, S, d) \in Seq(Handle)
  <2>1. CASE d \in S
    BY SMTT(30), <1>4, <2>1 DEF Side
  <2>2. CASE d \notin S
    BY SMTT(30), <2>2 DEF Side
  <2> QED  BY <2>1, <2>2
<1>6. ready_queue' \in Seq(Handle)
  BY SMTT(30), <1>5 DEF WakeSides, Dir
<1>7. /\ handle' \in [Waiter -> Handle \cup {Null}]
      /\ deadline' \in [Waiter -> Nat \cup {Null}]
      /\ wait_results' \in [Handle -> Outcome \cup {Null}]
  BY DEF WakeSides, Cleared
<1> QED  BY <1>3, <1>6, <1>7

(* The same for the refresh that follows.                                  *)
LEMMA RefreshSlotType ==
    ASSUME TypeOK, NEW fd \in Fd, RefreshSlot(fd)
    PROVE  /\ KernelTypeOK'
           /\ registered_mask' \in [Fd -> SUBSET Condition]
           /\ loop_error' \in Errno \cup {Null}
           /\ stop_requested' \in BOOLEAN
<1>1. KernelTypeOK'
  BY RefreshKernelType DEF TypeOK, RefreshSlot
<1>2. /\ DesiredMask(fd, handle') \in SUBSET Condition
      /\ RefreshResult(fd, handle') \in Errno \cup {"ok"}
  BY RefreshType
<1>3. /\ registered_mask' \in [Fd -> SUBSET Condition]
      /\ loop_error' \in Errno \cup {Null}
  BY <1>2 DEF TypeOK, RefreshSlot
<1>4. stop_requested' \in BOOLEAN
  BY DEF TypeOK, RefreshSlot
<1> QED  BY <1>1, <1>3, <1>4

-----------------------------------------------------------------------------
(* The constructor's state is well typed.                                  *)
LEMMA TypeInit == Init => TypeInv
<1> SUFFICES ASSUME Init
             PROVE  TypeInv
  OBVIOUS
<1>1. TaskTypeOK
  BY DEF Init, TaskInit, TaskTypeOK, FrameState
<1>2. KernelTypeOK
  BY DEF Init, KernelInit, KernelTypeOK
<1>3. ready_queue \in Seq(Handle)
  BY SMTT(30) DEF Init
<1>4. scan \in [todo : SUBSET Fd, now : Nat, next : Nat \cup {Null}]
  BY DEF Init, NoScan
<1> QED  BY <1>1, <1>2, <1>3, <1>4
         DEF Init, TypeInv, TypeOK, CurrentOK, Location

(* Every step of the loop thread, of a coroutine, of a stopping thread or  *)
(* of the environment keeps the types.                                     *)
LEMMA TypeNext == TypeInv /\ [Next]_vars => TypeInv'
<1> SUFFICES ASSUME TypeInv, [Next]_vars
             PROVE  TypeInv'
  OBVIOUS
<1>0. /\ TaskTypeOK /\ KernelTypeOK /\ QueueType /\ RootType
      /\ WaiterType /\ IndexType /\ FlagType /\ ClockType
      /\ LocalType /\ ControlType /\ TypeOK
  BY TypeParts DEF TypeInv
<1>1. CASE RunStart
  <2>1. FlagType' /\ ControlType'
    BY <1>0, <1>1
       DEF RunStart, FlagType, ControlType, CurrentOK, Location
  <2>2. LocalType'
    BY <1>0, <1>1 DEF RunStart, LocalType, ScanType
  <2> QED  BY <1>1, <2>1, <2>2, TypeStep DEF RunStart, loopVars
<1>2. CASE LoopTop \/ LoopCheck
  <2>1. ControlType'
    BY <1>0, <1>2 DEF LoopTop, LoopCheck, dataVars, ControlType, CurrentOK,
                      Location
  <2> QED  BY <1>2, <2>1, TypeStep DEF LoopTop, LoopCheck, dataVars, loopVars
<1>3. CASE ExpireStart
  <2>1. ControlType'
    BY <1>0, <1>3 DEF ExpireStart, ControlType, CurrentOK, Location
  <2>2. IndexType'
    BY <1>0, <1>3 DEF ExpireStart, indexVars, IndexType
  <2>3. Slots \in SUBSET Fd /\ now \in Nat
    BY <1>0 DEF Slots, ClockType
  <2>4. ScanType'
    BY SMTT(30), <1>0, <1>3, <2>3 DEF ExpireStart, ScanType, LocalType
  <2>5. LocalType'
    BY <1>0, <1>3, <2>4 DEF ExpireStart, LocalType
  <2> QED  BY <1>3, <2>1, <2>2, <2>5, TypeStep DEF ExpireStart
<1>4. ASSUME NEW fd \in Fd, ScanSlot(fd)
      PROVE  TypeInv'
  <2>1. /\ Expired(fd) \in SUBSET Armed(fd, handle)
        /\ "ETIMEDOUT" \in Outcome
    BY DEF Expired, Outcome
  <2>2. WakeSides(fd, Expired(fd), "ETIMEDOUT")
    BY <1>4 DEF ScanSlot
  <2>3. /\ handle' \in [Waiter -> Handle \cup {Null}]
        /\ deadline' \in [Waiter -> Nat \cup {Null}]
        /\ wait_results' \in [Handle -> Outcome \cup {Null}]
        /\ ready_queue' \in Seq(Handle)
        /\ pending_waiter_count' \in Nat
        /\ timed_waiter_count' \in Nat
    BY <1>0, <2>1, <2>2, WakeType
  <2>4. KernelTypeOK' /\ registered_mask' \in [Fd -> SUBSET Condition] /\ FlagType'
    <3>1. CASE Expired(fd) # {}
      BY <1>0, <1>4, <3>1, RefreshSlotType DEF ScanSlot, FlagType
    <3>2. CASE Expired(fd) = {}
      <4>1. UNCHANGED <<kernelVars, flagVars>>
        BY <1>4, <3>2 DEF ScanSlot
      <4>2. registered_mask' \in [Fd -> SUBSET Condition]
        BY <1>0, <1>4, <3>2 DEF ScanSlot, WaiterType
      <4> QED  BY <4>1, <4>2, TypeFrame
    <3> QED  BY <3>1, <3>2
  <2>5. \A d \in Dir, n \in Nat \cup {Null} :
           NextOf(fd, n, d) \in Nat \cup {Null}
    BY <2>3 DEF NextOf, Earlier, Waiter
  <2>6. ScanType'
    <3>1. "readable" \in Dir /\ "writable" \in Dir
      BY DEF Dir
    <3>2. scan \in [todo : SUBSET Fd, now : Nat, next : Nat \cup {Null}]
      BY <1>0 DEF LocalType, ScanType
    <3>3. NextOf(fd, NextOf(fd, scan.next, "readable"), "writable")
             \in Nat \cup {Null}
      BY <2>5, <3>1, <3>2
    <3> QED  BY <1>4, <3>2, <3>3 DEF ScanSlot, NoScan, ScanType
  <2>7. LocalType'
    BY <1>0, <1>4, <2>6 DEF ScanSlot, LocalType
  <2>8. ControlType'
    BY <1>0, <1>4 DEF ScanSlot, ControlType, CurrentOK, Location
  <2>9. QueueType' /\ WaiterType'
    BY <2>3, <2>4 DEF QueueType, WaiterType
  <2> QED  BY <1>4, <2>4, <2>7, <2>8, <2>9, TypeStep DEF ScanSlot
<1>5. CASE ScanEnd
  <2>1. scan \in [todo : SUBSET Fd, now : Nat, next : Nat \cup {Null}]
    BY <1>0 DEF LocalType, ScanType
  <2>2. IndexType'
    BY <1>5, <2>1 DEF ScanEnd, IndexType
  <2>3. ScanType'
    BY <1>5 DEF ScanEnd, NoScan, ScanType
  <2>4. LocalType'
    BY <1>0, <1>5, <2>3 DEF ScanEnd, LocalType
  <2>5. ControlType'
    BY <1>0, <1>5 DEF ScanEnd, ControlType, CurrentOK, Location
  <2> QED  BY <1>5, <2>2, <2>4, <2>5, TypeStep DEF ScanEnd
<1>7. CASE DrainPop
  <2>1. Head(ready_queue) \in Handle /\ Tail(ready_queue) \in Seq(Handle)
    BY SMTT(30), <1>0, <1>7 DEF DrainPop, QueueType
  <2>2. TaskTypeOK'
    BY <1>0, <1>7, <2>1
    DEF DrainPop, ResumeFrame, TaskTypeOK, FrameState, taskVars
  <2>3. QueueType'
    BY <1>0, <1>7, <2>1 DEF DrainPop, QueueType
  <2>4. ControlType'
    BY <1>0, <1>7, <2>1, NullNotHandle
    DEF DrainPop, ControlType, CurrentOK, Location
  <2> QED  BY <1>7, <2>2, <2>3, <2>4, TypeStep DEF DrainPop
<1>8. CASE AfterResume \/ LoopExit
  <2>1. CleanupCompletedRoots
    BY <1>8 DEF AfterResume, LoopExit
  <2>2. TaskTypeOK'
    BY <1>0, <2>1
    DEF CleanupCompletedRoots, DestroyFrames, TaskTypeOK, FrameState
  <2>3. root_tasks' \in SUBSET Handle
    BY <1>0, <2>1 DEF CleanupCompletedRoots, RootType
  <2>4. RootType'
    BY <1>0, <1>8, <2>3 DEF AfterResume, LoopExit, RootType
  <2>5. ControlType'
    BY <1>0, <1>8
    DEF AfterResume, LoopExit, ControlType, CurrentOK, Location
  <2>6. LocalType'
    <3>1. CASE AfterResume
      BY <3>1, TypeFrame DEF AfterResume
    <3>2. CASE LoopExit
      BY <1>0, <3>2 DEF LoopExit, LocalType, ScanType, FlagType
    <3> QED  BY <1>8, <3>1, <3>2
  <2> QED  BY <1>8, <2>2, <2>4, <2>5, <2>6, TypeStep DEF AfterResume, LoopExit
<1>9. CASE Block
  <2>1. next_deadline # Null
            => now + TimeoutMs(next_deadline) * TicksPerMs \in Nat
    BY <1>0, TimeoutType DEF IndexType
  <2>2. wait_until' \in Nat \cup {Null}
    BY <1>9, <2>1 DEF Block
  <2>3. run_result' \in Errno \cup {"ok", "EDEADLK", Null}
    BY <1>0, <1>9 DEF Block, LocalType
  <2>4. LocalType'
    BY <1>0, <1>9, <2>2, <2>3 DEF Block, LocalType, ScanType
  <2>5. ControlType'
    BY <1>0, <1>9 DEF Block, ControlType, CurrentOK, Location
  <2> QED  BY <1>9, <2>4, <2>5, TypeStep DEF Block, loopVars
<1>10. CASE WaitReturn
  <2>1. PICK S \in SUBSET AllReady :
           /\ batch' = {ReadyEvent(fd) : fd \in S}
           /\ rdlist' = Reportable \ S
    BY <1>10 DEF WaitReturn
  <2>2. AllReady \in SUBSET (Fd \cup {WakeFd}) /\ Reportable \in SUBSET Fd
    BY <1>0 DEF AllReady, Reportable, KernelTypeOK
  <2>3. ASSUME NEW fd \in AllReady
        PROVE  ReadyEvent(fd) \in Event
    BY <1>0, <2>2 DEF ReadyEvent, Event, Reported, KernelTypeOK, Condition
  <2>4. batch' \in SUBSET Event /\ rdlist' \in SUBSET Fd
    BY <2>1, <2>2, <2>3
  <2>5. KernelTypeOK'
    BY <1>0, <1>10, <2>4 DEF WaitReturn, KernelTypeOK
  <2>6. LocalType'
    BY <1>0, <1>10, <2>4 DEF WaitReturn, LocalType, ScanType
  <2>7. ControlType'
    BY <1>0, <1>10 DEF WaitReturn, ControlType, CurrentOK, Location
  <2> QED  BY <1>10, <2>5, <2>6, <2>7, TypeStep DEF WaitReturn, loopVars
<1>11. CASE WaitEmpty
  <2>1. LocalType'
    BY <1>0, <1>11 DEF WaitEmpty, LocalType, ScanType
  <2>2. ControlType'
    BY <1>0, <1>11 DEF WaitEmpty, ControlType, CurrentOK, Location
  <2> QED  BY <1>11, <2>1, <2>2, TypeStep DEF WaitEmpty, loopVars
<1>12. ASSUME NEW e \in batch, DispatchWake(e)
       PROVE  TypeInv'
  <2>1. LocalType'
    BY <1>0, <1>12 DEF DispatchWake, LocalType, ScanType
  <2>2. ClockType'
    BY <1>0, <1>12 DEF DispatchWake, ClockType
  <2>3. ControlType'
    BY <1>0, <1>12 DEF DispatchWake, ControlType, CurrentOK, Location
  <2> QED  BY <1>12, <2>1, <2>2, <2>3, TypeStep DEF DispatchWake, loopVars
<1>13. ASSUME NEW e \in batch, DispatchFd(e)
       PROVE  TypeInv'
  <2>1. /\ e.fd \in Fd
        /\ Fired(e) \in SUBSET Armed(e.fd, handle)
        /\ "ok" \in Outcome
    BY <1>13 DEF DispatchFd, Fired, Outcome
  <2>2. /\ WakeSides(e.fd, Fired(e), "ok")
        /\ RefreshSlot(e.fd)
    BY <1>13 DEF DispatchFd
  <2>3. /\ handle' \in [Waiter -> Handle \cup {Null}]
        /\ deadline' \in [Waiter -> Nat \cup {Null}]
        /\ wait_results' \in [Handle -> Outcome \cup {Null}]
        /\ ready_queue' \in Seq(Handle)
        /\ pending_waiter_count' \in Nat
        /\ timed_waiter_count' \in Nat
    BY <1>0, <2>1, <2>2, WakeType
  <2>4. KernelTypeOK' /\ registered_mask' \in [Fd -> SUBSET Condition] /\ FlagType'
    BY <1>0, <2>1, <2>2, RefreshSlotType DEF FlagType
  <2>5. QueueType' /\ WaiterType'
    BY <2>3, <2>4 DEF QueueType, WaiterType
  <2>6. IndexType'
    <3>1. deadline_index_dirty' \in BOOLEAN
      BY <1>0, <1>13 DEF DispatchFd, IndexType
    <3>2. next_deadline' = next_deadline
      BY <1>13 DEF DispatchFd
    <3> QED  BY <1>0, <3>1, <3>2 DEF IndexType
  <2>7. LocalType'
    BY <1>0, <1>13 DEF DispatchFd, LocalType, ScanType
  <2>8. ControlType'
    BY <1>0, <1>13 DEF DispatchFd, ControlType, CurrentOK, Location
  <2> QED  BY <1>13, <2>4, <2>5, <2>6, <2>7, <2>8, TypeStep DEF DispatchFd
<1>14. ASSUME NEW c \in Handle, Spawn(c)
       PROVE  TypeInv'
  <2>1. TaskTypeOK'
    BY <1>0, <1>14 DEF Spawn, CreateRoot, TaskTypeOK, FrameState
  <2>2. ready_queue' \in Seq(Handle)
    BY SMTT(30), <1>0, <1>14 DEF Spawn, QueueType
  <2>3. QueueType' /\ RootType'
    BY SMTT(30), <1>0, <1>14, <2>2 DEF Spawn, QueueType, RootType
  <2> QED  BY <1>14, <2>1, <2>3, TypeStep DEF Spawn
<1>15. ASSUME NEW h \in Handle, Suspended
       PROVE  ControlType'
  BY <1>0, <1>15 DEF Suspended, ControlType, CurrentOK, Location
<1>16. pc = "running" => current \in Handle
  BY <1>0 DEF ControlType, CurrentOK
<1>17. ASSUME NEW c \in Handle, TaskAwait(c)
       PROVE  TypeInv'
  <2>1. TaskTypeOK'
    BY <1>0, <1>16, <1>17 DEF TaskAwait, AwaitChild, TaskTypeOK, FrameState
  <2>2. ready_queue' \in Seq(Handle)
    BY SMTT(30), <1>0, <1>17 DEF TaskAwait, QueueType
  <2>3. QueueType'
    BY <1>0, <1>17, <2>2 DEF TaskAwait, QueueType
  <2> QED  BY <1>15, <1>17, <2>1, <2>3, TypeStep DEF TaskAwait
<1>18. CASE TaskFinish
  <2>1. current \in Handle
    BY <1>16, <1>18 DEF TaskFinish
  <2>2. TaskTypeOK'
    BY <1>0, <1>18, <2>1 DEF TaskFinish, FinishFrame, TaskTypeOK, FrameState
  <2>3. continuation[current] \in Handle \cup {Null}
    BY <1>0, <2>1 DEF TaskTypeOK
  <2>4. ready_queue' \in Seq(Handle)
    BY SMTT(30), <1>0, <1>18, <2>3 DEF TaskFinish, QueueType
  <2>5. active_task_count' \in Nat
    BY <1>0, <1>18, DecrementNat DEF TaskFinish, RootType
  <2>6. QueueType' /\ RootType'
    BY <1>0, <1>18, <2>4, <2>5 DEF TaskFinish, QueueType, RootType
  <2> QED  BY <1>15, <1>18, <2>1, <2>2, <2>6, TypeStep DEF TaskFinish
<1>19. CASE ArmElapsed
  <2>1. current \in Handle
    BY <1>16, <1>19 DEF ArmElapsed
  <2>2. TaskTypeOK'
    BY <1>0, <1>19, <2>1 DEF ArmElapsed, SuspendFrame, TaskTypeOK, FrameState
  <2>3. ready_queue' \in Seq(Handle)
    BY SMTT(30), <1>0, <1>19, <2>1 DEF ArmElapsed, QueueType
  <2>4. wait_results' \in [Handle -> Outcome \cup {Null}]
    BY <1>0, <1>19 DEF ArmElapsed, QueueType, Outcome
  <2>5. QueueType'
    BY <2>3, <2>4 DEF QueueType
  <2> QED  BY <1>15, <1>19, <2>1, <2>2, <2>5, TypeStep DEF ArmElapsed
<1>20. ASSUME NEW fd \in Fd, NEW d \in Dir,
              NEW t \in (Timeout \ {0}) \cup {Null}, Arm(fd, d, t)
       PROVE  TypeInv'
  <2>1. NewDeadline(t) \in Nat \cup {Null}
    BY <1>0, NewDeadlineType
  <2>2. current \in Handle /\ <<fd, d>> \in Waiter
    BY <1>16, <1>20 DEF Arm, Waiter
  <2>3. TaskTypeOK'
    BY <1>0, <1>20, <2>2
       DEF Arm, SuspendFrame, TaskTypeOK, FrameState
  <2>4. KernelTypeOK'
    BY <1>0, <1>20, RefreshKernelType DEF Arm
  <2>5. DesiredMask(fd, ArmedHandles(fd, d)) \in SUBSET Condition
    BY RefreshType
  <2>6. /\ handle' \in [Waiter -> Handle \cup {Null}]
        /\ deadline' \in [Waiter -> Nat \cup {Null}]
    BY <1>0, <1>20, <2>1, <2>2 DEF Arm, ArmedHandles, WaiterType
  <2>7. registered_mask' \in [Fd -> SUBSET Condition]
    BY <1>0, <1>20, <2>5 DEF Arm, WaiterType
  <2>8. pending_waiter_count' \in Nat /\ timed_waiter_count' \in Nat
    BY SMTT(30), <1>0, <1>20 DEF Arm, WaiterType
  <2>9. WaiterType'
    BY <2>6, <2>7, <2>8 DEF WaiterType
  <2>10. IndexType'
    BY <1>0, <1>20, <2>1 DEF Arm, ArmIndex, Earlier, IndexType
  <2> QED
    BY <1>15, <1>20, <2>2, <2>3, <2>4, <2>9, <2>10, TypeStep
       DEF Arm
<1>21. ASSUME NEW fd \in Fd, NEW d \in Dir,
              NEW t \in (Timeout \ {0}) \cup {Null}, ArmFails(fd, d, t)
       PROVE  TypeInv'
  <2>1. NewDeadline(t) \in Nat \cup {Null}
    BY <1>0, NewDeadlineType
  <2>2. IndexType'
    BY <1>0, <1>21, <2>1 DEF ArmFails, ArmIndex, Earlier, IndexType
  <2>3. registered_mask' \in [Fd -> SUBSET Condition]
    BY <1>0, <1>21 DEF ArmFails, WaiterType
  <2>4. WaiterType'
    BY <1>0, <1>21, <2>3 DEF ArmFails, WaiterType
  <2> QED  BY <1>21, <2>2, <2>4, TypeStep DEF ArmFails
<1>22. CASE TaskStop
  <2>1. FlagType' /\ ClockType'
    BY <1>0, <1>22 DEF TaskStop, FlagType, ClockType
  <2> QED  BY <1>22, <2>1, TypeStep DEF TaskStop, loopVars
<1>23. CASE TaskIo
  <2>1. KernelTypeOK'
    BY <1>0, <1>23 DEF TaskIo, Consume, Close, Open, KernelTypeOK
  <2> QED  BY <1>23, <2>1, TypeStep DEF TaskIo, loopVars
<1>24. CASE StopStore
  <2>1. FlagType' /\ ClockType'
    BY <1>0, <1>24 DEF StopStore, FlagType, ClockType
  <2> QED  BY <1>24, <2>1, TypeStep DEF StopStore, loopVars
<1>25. CASE StopWrite
  <2>1. ClockType'
    BY <1>0, <1>25 DEF StopWrite, ClockType
  <2> QED  BY <1>25, <2>1, TypeStep DEF StopWrite, loopVars
<1>26. CASE Environment
  <2>1. KernelTypeOK'
    BY <1>0, <1>26, CondsAssumption DEF Environment, Raise, KernelTypeOK
  <2> QED  BY <1>26, <2>1, TypeStep DEF Environment, loopVars
<1>27. CASE Tick
  <2>1. now' \in Nat
    BY <1>0, <1>27, TickClock
  <2>2. wake_signal' = wake_signal /\ stopper' = stopper
    BY <1>27 DEF Tick
  <2>3. ClockType'
    BY <1>0, <2>1, <2>2 DEF ClockType
  <2> QED  BY <1>27, <2>3, TypeStep DEF Tick, loopVars
<1>28. CASE Recreate
  <2>1. TaskTypeOK'
    BY <1>0, <1>28 DEF Recreate, DestroyFrames, TaskTypeOK, FrameState
  <2>2. KernelTypeOK'
    BY <1>0, <1>28 DEF Recreate, KernelTypeOK
  <2>3. QueueType' /\ RootType'
    BY SMTT(30), <1>28 DEF Recreate, QueueType, RootType
  <2>4. WaiterType' /\ IndexType' /\ FlagType'
    BY <1>28 DEF Recreate, WaiterType, IndexType, FlagType
  <2>5. ClockType'
    BY <1>0, <1>28 DEF Recreate, ClockType
  <2>6. LocalType'
    BY <1>0, <1>28 DEF Recreate, LocalType, ScanType
  <2> QED
    BY <1>28, <2>1, <2>2, <2>3, <2>4, <2>5, <2>6, TypeStep
       DEF Recreate
<1>29. CASE UNCHANGED vars
  BY <1>29, TypeStep DEF vars, dataVars, loopVars
<1> QED
  BY <1>1, <1>2, <1>3, <1>4, <1>5, <1>7, <1>8, <1>9, <1>10, <1>11, <1>12,
     <1>13, <1>14, <1>17, <1>18, <1>19, <1>20, <1>21, <1>22, <1>23, <1>24,
     <1>25, <1>26, <1>27, <1>28, <1>29
  DEF Next, LoopStep, Suspend, RunOn, WaitTimeout, WaitInterrupted

(* Type correctness: every reachable state of the loop, its coroutines and *)
(* the kernel's registrations is well typed.                               *)
THEOREM TypeCorrect == Spec => []TypeOK
<1>1. TypeInv => TypeOK
  BY DEF TypeInv
<1> QED  BY <1>1, TypeInit, TypeNext, PTL DEF Spec

-----------------------------------------------------------------------------
(* The handle h occurs in the queue q; no handle occurs twice.             *)
In(q, h) == \E i \in 1..Len(q) : q[i] = h
Distinct(q) == \A i, j \in 1..Len(q) : q[i] = q[j] => i = j

(* Only current runs, and only a waiting coroutine has a wait result.      *)
RunningOne == \A h \in Handle : frame[h] = "running" <=> h = current
ResultsWait == \A h \in Handle : wait_results[h] # Null => frame[h] = "waiting"

TaskInv == RunningOne /\ ResultsWait /\ SuspendedOnce /\ FramesOwned

-----------------------------------------------------------------------------
(* schedule() of a handle that is not queued.                              *)
LEMMA AppendOnce ==
    ASSUME NEW q \in Seq(Handle), NEW x \in Handle, Distinct(q), ~In(q, x)
    PROVE  /\ Distinct(Append(q, x))
           /\ \A h : In(Append(q, x), h) <=> In(q, h) \/ h = x
<1>1. /\ Append(q, x) \in Seq(Handle)
      /\ Len(Append(q, x)) = Len(q) + 1
      /\ \A i \in 1..Len(q) : Append(q, x)[i] = q[i]
      /\ Append(q, x)[Len(q) + 1] = x
      /\ Len(q) \in Nat
  BY SMTT(30)
<1>2. Distinct(Append(q, x))
  BY SMTT(30), <1>1 DEF Distinct, In
<1>3. ASSUME NEW h
      PROVE  In(Append(q, x), h) <=> In(q, h) \/ h = x
  BY SMTT(30), <1>1 DEF In
<1> QED  BY <1>2, <1>3

(* pop_front() of ready_queue_.                                            *)
LEMMA TailOnce ==
    ASSUME NEW q \in Seq(Handle), q # <<>>, Distinct(q)
    PROVE  /\ In(q, Head(q))
           /\ Distinct(Tail(q))
           /\ \A h : In(Tail(q), h) <=> In(q, h) /\ h # Head(q)
<1>1. /\ Tail(q) \in Seq(Handle)
      /\ Len(Tail(q)) = Len(q) - 1
      /\ \A i \in 1..Len(Tail(q)) : Tail(q)[i] = q[i + 1]
      /\ Head(q) = q[1]
      /\ Len(q) \in Nat \ {0}
  BY SMTT(30)
<1>2. In(q, Head(q))
  BY SMTT(30), <1>1 DEF In
<1>3. Distinct(Tail(q))
  BY SMTT(30), <1>1 DEF Distinct
<1>4. ASSUME NEW h
      PROVE  In(Tail(q), h) <=> In(q, h) /\ h # Head(q)
  <2>1. ASSUME In(Tail(q), h)
        PROVE  In(q, h) /\ h # Head(q)
    BY SMTT(30), <1>1, <2>1 DEF In, Distinct
  <2>2. ASSUME In(q, h), h # Head(q)
        PROVE  In(Tail(q), h)
    <3>1. PICK i \in 1..Len(q) : q[i] = h
      BY <2>2 DEF In
    <3>2. i # 1 /\ i - 1 \in 1..Len(Tail(q))
      BY SMTT(30), <1>1, <2>2, <3>1
    <3>3. Tail(q)[i - 1] = h
      BY SMTT(30), <1>1, <3>1, <3>2
    <3> QED  BY <3>2, <3>3 DEF In
  <2> QED  BY <2>1, <2>2
<1> QED  BY <1>2, <1>3, <1>4

(* One side of a slot is scheduled, or nothing is.                         *)
LEMMA SideOnce ==
    ASSUME NEW q \in Seq(Handle), Distinct(q), NEW fd, NEW S, NEW d,
           d \in S => handle[<<fd, d>>] \in Handle /\ ~In(q, handle[<<fd, d>>])
    PROVE  /\ q \o Side(fd, S, d) \in Seq(Handle)
           /\ Distinct(q \o Side(fd, S, d))
           /\ \A h : In(q \o Side(fd, S, d), h)
                        <=> In(q, h) \/ (d \in S /\ h = handle[<<fd, d>>])
<1>1. CASE d \in S
  <2>1. q \o Side(fd, S, d) = Append(q, handle[<<fd, d>>])
    BY SMTT(30), <1>1 DEF Side
  <2> QED  BY SMTT(30), <1>1, <2>1, AppendOnce
<1>2. CASE d \notin S
  <2>1. q \o Side(fd, S, d) = q
    BY SMTT(30), <1>2 DEF Side
  <2> QED  BY <1>2, <2>1
<1> QED  BY <1>1, <1>2

-----------------------------------------------------------------------------
(* The parts of SuspendedOnce by name.  A coroutine is runnable when it is *)
(* new, its wait has a result or its child is done.                        *)
Runnable(h) == \/ frame[h] = "initial"
               \/ frame[h] = "waiting" /\ wait_results[h] # Null
               \/ frame[h] = "awaiting" /\ ChildDone(h)
WaitOpen(h) == frame[h] = "waiting" /\ wait_results[h] = Null
ParkedOnce ==
    \A v, w \in Waiter : handle[v] = handle[w] /\ handle[v] # Null => v = w
QueuedRunnable == \A h \in Handle : In(ready_queue, h) <=> Runnable(h)
ParkedOpen == \A h \in Handle : Parked(h) <=> WaitOpen(h)

(* SuspendedOnce is the conjunction of the four facts about ready_queue_   *)
(* and waiters_ above.                                                     *)
LEMMA SuspendedOnceParts ==
    SuspendedOnce <=> /\ Distinct(ready_queue)
                      /\ ParkedOnce
                      /\ QueuedRunnable
                      /\ ParkedOpen
BY DEF SuspendedOnce, ParkedOnce, QueuedRunnable, ParkedOpen, Distinct, In,
       Queued, Runnable, WaitOpen

(* The same after a step.                                                  *)
LEMMA SuspendedOncePartsPrime ==
    SuspendedOnce' <=> /\ Distinct(ready_queue')
                       /\ ParkedOnce'
                       /\ QueuedRunnable'
                       /\ ParkedOpen'
BY DEF SuspendedOnce, ParkedOnce, QueuedRunnable, ParkedOpen, Distinct, In,
       Queued, Runnable, WaitOpen

(* Who owns a frame, with the type of the continuation.                    *)
LEMMA OwnedParts ==
    ASSUME TypeInv, TaskInv
    PROVE  /\ \A h \in Handle :
                 /\ frame[h] = "free"
                       <=> h \notin root_tasks /\ continuation[h] = Null
                 /\ continuation[h] # Null
                       => /\ continuation[h] \in Handle
                          /\ h \notin root_tasks
                          /\ frame[continuation[h]] = "awaiting"
                 /\ frame[h] = "awaiting"
                       => \E x \in Handle : continuation[x] = h
           /\ \A a, b \in Handle :
                 continuation[a] = continuation[b] /\ continuation[a] # Null
                    => a = b
<1>1. \A h \in Handle : continuation[h] \in Handle \cup {Null}
  BY DEF TypeInv, TypeOK, TaskTypeOK
<1>2. FramesOwned
  BY DEF TaskInv
<1> QED  BY <1>1, <1>2 DEF FramesOwned

(* Steps that touch no frame, queue, registration or root.                 *)
LEMMA TaskInvFrame ==
    ASSUME TaskInv,
           UNCHANGED <<frame, continuation, ready_queue, wait_results, handle,
                       root_tasks, current>>
    PROVE  TaskInv'
BY SMTT(30)
   DEF TaskInv, RunningOne, ResultsWait, SuspendedOnce, FramesOwned, Queued,
       Parked, ChildDone

(* A registered wait is neither finished nor queued yet.                   *)
LEMMA ParkedWaits ==
    ASSUME TypeOK, TaskInv, NEW w \in Waiter, handle[w] # Null
    PROVE  /\ handle[w] \in Handle
           /\ frame[handle[w]] = "waiting"
           /\ wait_results[handle[w]] = Null
           /\ ~In(ready_queue, handle[w])
<1>1. handle[w] \in Handle /\ Parked(handle[w])
  BY DEF TypeOK, Parked
<1>2. WaitOpen(handle[w]) /\ ~Runnable(handle[w])
  BY <1>1, SuspendedOnceParts DEF TaskInv, ParkedOpen, WaitOpen, Runnable
<1> QED  BY <1>1, <1>2, SuspendedOnceParts
            DEF TaskInv, QueuedRunnable, WaitOpen

(* Waking moves handles from their registrations to ready_queue_.          *)
LEMMA WakeQueue ==
    ASSUME TypeOK, TaskInv, NEW fd \in Fd, NEW S \in SUBSET Armed(fd, handle),
           NEW r, WakeSides(fd, S, r)
    PROVE  /\ Distinct(ready_queue')
           /\ \A h \in Handle :
                 In(ready_queue', h)
                    <=> In(ready_queue, h) \/ \E d \in S : h = handle[<<fd, d>>]
<1> DEFINE q1 == ready_queue \o Side(fd, S, "readable")
<1>1. /\ "readable" \in S => <<fd, "readable">> \in Waiter
      /\ "writable" \in S => <<fd, "writable">> \in Waiter
      /\ \A d \in S : handle[<<fd, d>>] # Null /\ d \in Dir
  BY DEF Waiter, Armed, Dir
<1>2. /\ ready_queue \in Seq(Handle) /\ Distinct(ready_queue)
      /\ \A d \in S : /\ handle[<<fd, d>>] \in Handle
                      /\ ~In(ready_queue, handle[<<fd, d>>])
  BY SMTT(30), <1>1, ParkedWaits, SuspendedOnceParts
     DEF TypeOK, TaskInv, Waiter
<1>3. /\ q1 \in Seq(Handle)
      /\ Distinct(q1)
      /\ \A h : In(q1, h) <=> \/ In(ready_queue, h)
                              \/ "readable" \in S /\ h = handle[<<fd, "readable">>]
  BY <1>2, SideOnce
<1>4. "readable" \in S /\ "writable" \in S
         => handle[<<fd, "readable">>] # handle[<<fd, "writable">>]
  <2>1. <<fd, "readable">> # <<fd, "writable">>
    OBVIOUS
  <2> QED  BY <1>1, <2>1, SuspendedOnceParts DEF TaskInv, ParkedOnce
<1>5. "writable" \in S => ~In(q1, handle[<<fd, "writable">>])
  BY <1>2, <1>3, <1>4
<1>6. ready_queue' = q1 \o Side(fd, S, "writable")
  BY DEF WakeSides
<1> HIDE DEF q1
<1>7. /\ Distinct(ready_queue')
      /\ \A h : In(ready_queue', h)
                   <=> In(q1, h) \/ ("writable" \in S
                                       /\ h = handle[<<fd, "writable">>])
  BY SMTT(30), <1>2, <1>3, <1>5, <1>6, SideOnce
<1>8. \A d \in S : d = "readable" \/ d = "writable"
  BY <1>1 DEF Dir
<1> QED  BY <1>3, <1>7, <1>8

(* Waking registrations moves their handles from waiters_ to ready_queue_  *)
(* and keeps TaskInv.                                                      *)
LEMMA WakeTaskInv ==
    ASSUME TypeOK, TaskInv, NEW fd \in Fd, NEW S \in SUBSET Armed(fd, handle),
           NEW r \in Outcome, WakeSides(fd, S, r),
           UNCHANGED <<taskVars, root_tasks, current>>
    PROVE  TaskInv'
<1> USE DEF taskVars
<1>1. \A d \in S : /\ <<fd, d>> \in Waiter
                   /\ handle[<<fd, d>>] \in Handle
                   /\ frame[handle[<<fd, d>>]] = "waiting"
                   /\ wait_results[handle[<<fd, d>>]] = Null
  BY ParkedWaits DEF Waiter, Armed
<1>2. \A h \in Handle : wait_results'[h] =
           IF \E d \in S : handle[<<fd, d>>] = h THEN r ELSE wait_results[h]
  BY DEF WakeSides
<1>3. \A w \in Waiter : handle'[w] =
           IF w[1] = fd /\ w[2] \in S THEN Null ELSE handle[w]
  BY DEF WakeSides, Cleared
<1>4. r # Null
  BY OutcomeNotNull
<1>5. RunningOne' /\ FramesOwned'
  BY DEF TaskInv, RunningOne, FramesOwned
<1>6. ResultsWait'
  BY <1>1, <1>2 DEF TaskInv, ResultsWait
<1>7. ParkedOnce'
  BY <1>3, SuspendedOnceParts DEF TaskInv, ParkedOnce
<1>8. QueuedRunnable'
  <2>1. \A h \in Handle :
           Runnable(h)' <=> Runnable(h) \/ \E d \in S : handle[<<fd, d>>] = h
    BY <1>1, <1>2, <1>4 DEF Runnable, ChildDone
  <2>2. \A h \in Handle :
           In(ready_queue', h)
              <=> In(ready_queue, h) \/ \E d \in S : h = handle[<<fd, d>>]
    BY WakeQueue
  <2>3. \A h \in Handle : In(ready_queue, h) <=> Runnable(h)
    BY SuspendedOnceParts DEF TaskInv, QueuedRunnable
  <2>4. \A h \in Handle : In(ready_queue', h) <=> Runnable(h)'
    BY <2>1, <2>2, <2>3
  <2> QED  BY <2>4 DEF QueuedRunnable, In
<1>9. ParkedOpen'
  <2>1. ASSUME NEW h \in Handle
        PROVE  Parked(h)' <=> Parked(h) /\ ~\E d \in S : handle[<<fd, d>>] = h
    <3>1. \A w \in Waiter : w = <<w[1], w[2]>> /\ w[1] \in Fd /\ w[2] \in Dir
      BY SMTT(30) DEF Waiter
    <3>2. ASSUME Parked(h)'
          PROVE  Parked(h) /\ ~\E d \in S : handle[<<fd, d>>] = h
      <4>1. PICK w \in Waiter : handle'[w] = h
        BY <3>2 DEF Parked
      <4>2. handle[w] = h /\ ~(w[1] = fd /\ w[2] \in S)
        BY <1>3, <4>1, NullNotHandle
      <4>3. ASSUME NEW d \in S, handle[<<fd, d>>] = h
            PROVE  FALSE
        BY SMTT(30), <1>1, <4>2, <4>3, NullNotHandle, SuspendedOnceParts
           DEF TaskInv, ParkedOnce
      <4> QED  BY <4>2, <4>3 DEF Parked
    <3>3. ASSUME Parked(h), ~\E d \in S : handle[<<fd, d>>] = h
          PROVE  Parked(h)'
      BY <1>3, <3>1, <3>3 DEF Parked
    <3> QED  BY <3>2, <3>3
  <2> QED  BY <1>1, <1>2, <1>4, <2>1, SuspendedOnceParts
           DEF TaskInv, ParkedOpen, WaitOpen
<1> QED  BY <1>5, <1>6, <1>7, <1>8, <1>9, WakeQueue, SuspendedOncePartsPrime
         DEF TaskInv

-----------------------------------------------------------------------------
(* resume(): only a finished child is freed with it.                       *)
LEMMA DrainTaskInv ==
    ASSUME TypeInv, TaskInv, DrainPop
    PROVE  TaskInv'
<1> USE DEF taskVars, waiterVars, rootVars
<1>0. PICK h0 \in Handle : h0 = Head(ready_queue)
  BY SMTT(30) DEF DrainPop, TypeInv, TypeOK
<1>1. /\ In(ready_queue, h0)
      /\ Distinct(ready_queue')
      /\ \A h \in Handle :
            In(ready_queue', h) <=> In(ready_queue, h) /\ h # h0
  BY <1>0, TailOnce, SuspendedOnceParts DEF DrainPop, TypeInv, TypeOK, TaskInv
<1>2. Runnable(h0) /\ ~WaitOpen(h0) /\ frame[h0] # "final"
  BY <1>1, SuspendedOnceParts
     DEF TaskInv, QueuedRunnable, Runnable, WaitOpen
<1>3. ASSUME NEW x \in Handle, continuation[x] = h0
      PROVE  frame[x] = "final" /\ frame[h0] = "awaiting"
  <2>1. frame[h0] = "awaiting"
    BY <1>1, <1>3, NullNotHandle DEF TaskInv, FramesOwned
  <2>2. PICK c \in Handle : continuation[c] = h0 /\ frame[c] = "final"
    BY <1>2, <2>1 DEF Runnable, ChildDone
  <2>3. x = c
    BY SMTT(30), <1>1, <1>3, <2>2, NullNotHandle DEF TaskInv, FramesOwned
  <2> QED  BY <2>1, <2>2, <2>3
<1>4. /\ current = Null /\ current' = h0
      /\ \A x \in Handle : frame'[x] = IF x = h0 THEN "running"
                                       ELSE IF continuation[x] = h0 THEN "free"
                                       ELSE frame[x]
      /\ \A x \in Handle : continuation'[x] = IF continuation[x] = h0 THEN Null
                                              ELSE continuation[x]
      /\ UNCHANGED <<handle, root_tasks>>
  BY <1>0, <1>2 DEF DrainPop, ResumeFrame, TypeInv, CurrentOK
<1>5. \A x \in Handle : wait_results'[x] = IF x = h0 THEN Null
                                           ELSE wait_results[x]
  BY <1>0, <1>2 DEF DrainPop, TypeInv, TypeOK, TaskInv, ResultsWait
<1>6. RunningOne'
  BY <1>1, <1>4, NullNotHandle DEF TaskInv, RunningOne
<1>7. ResultsWait'
  BY <1>3, <1>4, <1>5 DEF TaskInv, ResultsWait
<1>8. FramesOwned'
  <2>1. ASSUME NEW h \in Handle
        PROVE  /\ frame'[h] = "free"
                     <=> h \notin root_tasks' /\ continuation'[h] = Null
               /\ frame'[h] = "awaiting"
                     => \E c \in Handle : continuation'[c] = h
    <3>1. frame[h] = "free" <=> h \notin root_tasks /\ continuation[h] = Null
      BY DEF TaskInv, FramesOwned
    <3>2. CASE h = h0
      BY <1>2, <1>3, <1>4, <3>1, <3>2 DEF Runnable
    <3>3. CASE continuation[h] = h0
      BY <1>3, <1>4, <3>3, NullNotHandle DEF TaskInv, FramesOwned
    <3>4. CASE h # h0 /\ continuation[h] # h0
      <4>1. frame[h] = "awaiting" => \E c \in Handle : continuation[c] = h
        BY DEF TaskInv, FramesOwned
      <4> QED  BY <1>4, <3>1, <3>4, <4>1
    <3> QED  BY <3>2, <3>3, <3>4
  <2>2. ASSUME NEW h \in Handle, continuation'[h] # Null
        PROVE  h \notin root_tasks' /\ frame'[continuation'[h]] = "awaiting"
    <3>1. /\ continuation'[h] = continuation[h]
          /\ continuation[h] # h0
          /\ continuation[h] \in Handle
      BY <1>4, <2>2 DEF TypeInv, TypeOK, TaskTypeOK
    <3>2. frame[continuation[h]] = "awaiting"
      BY <2>2, <3>1 DEF TaskInv, FramesOwned
    <3>3. frame'[continuation[h]] = "awaiting"
      BY <1>3, <1>4, <3>1, <3>2
    <3> QED  BY <1>4, <2>2, <3>1, <3>3 DEF TaskInv, FramesOwned
  <2>3. \A b, c \in Handle :
           continuation'[b] = continuation'[c] /\ continuation'[b] # Null => b = c
    BY SMTT(30), <1>4 DEF TaskInv, FramesOwned
  <2> QED  BY <2>1, <2>2, <2>3 DEF FramesOwned
<1>9. QueuedRunnable'
  <2>1. \A h \in Handle : h # h0 => (ChildDone(h)' <=> ChildDone(h))
    BY <1>2, <1>4, NullNotHandle DEF ChildDone
  <2>2. \A h \in Handle : h # h0 => (Runnable(h)' <=> Runnable(h))
    BY <1>3, <1>4, <1>5, <2>1 DEF Runnable
  <2>3. ~Runnable(h0)'
    BY <1>1, <1>4 DEF Runnable
  <2>4. \A h \in Handle : In(ready_queue', h) <=> Runnable(h)'
    BY <1>1, <2>2, <2>3, SuspendedOnceParts DEF TaskInv, QueuedRunnable
  <2> QED  BY <2>4 DEF QueuedRunnable, In
<1>10. ParkedOnce' /\ ParkedOpen'
  <2>1. \A h \in Handle : WaitOpen(h)' <=> WaitOpen(h)
    BY <1>1, <1>2, <1>3, <1>4, <1>5 DEF WaitOpen
  <2>2. \A h \in Handle : Parked(h)' <=> Parked(h)
    BY <1>4 DEF Parked
  <2> QED  BY <1>4, <2>1, <2>2, SuspendedOnceParts
           DEF TaskInv, ParkedOnce, ParkedOpen
<1> QED  BY <1>1, <1>6, <1>7, <1>8, <1>9, <1>10, SuspendedOncePartsPrime
         DEF TaskInv

(* cleanup_completed_roots destroys frames that nothing refers to.         *)
LEMMA CleanupTaskInv ==
    ASSUME TypeInv, TaskInv, CleanupCompletedRoots,
           UNCHANGED <<queueVars, handle, current>>
    PROVE  TaskInv'
<1> USE DEF queueVars
<1>1. /\ \A x \in Handle : frame'[x] = IF x \in DoneRoots THEN "free"
                                       ELSE frame[x]
      /\ \A x \in Handle : continuation'[x] = IF x \in DoneRoots THEN Null
                                              ELSE continuation[x]
      /\ root_tasks' = root_tasks \ DoneRoots
      /\ \A x \in DoneRoots : x \in root_tasks /\ frame[x] = "final"
  BY DEF CleanupCompletedRoots, DestroyFrames, DoneRoots
<1>2. \A x \in Handle : continuation'[x] = continuation[x]
  BY SMTT(30), <1>1 DEF TaskInv, FramesOwned
<1>3. RunningOne' /\ ResultsWait'
  BY <1>1 DEF TaskInv, RunningOne, ResultsWait
<1>4. FramesOwned'
  <2>1. ASSUME NEW h \in Handle
        PROVE  /\ frame'[h] = "free"
                     <=> h \notin root_tasks' /\ continuation'[h] = Null
               /\ frame'[h] = "awaiting"
                     => \E c \in Handle : continuation'[c] = h
    BY SMTT(30), <1>1, <1>2 DEF TaskInv, FramesOwned
  <2>2. ASSUME NEW h \in Handle, continuation'[h] # Null
        PROVE  h \notin root_tasks' /\ frame'[continuation'[h]] = "awaiting"
    <3>1. continuation[h] \in Handle /\ frame[continuation[h]] = "awaiting"
      BY SMTT(30), <1>2, <2>2
         DEF TypeInv, TypeOK, TaskTypeOK, TaskInv, FramesOwned
    <3> QED  BY SMTT(30), <1>1, <1>2, <2>2, <3>1 DEF TaskInv, FramesOwned
  <2>3. \A b, c \in Handle :
           continuation'[b] = continuation'[c] /\ continuation'[b] # Null => b = c
    BY SMTT(30), <1>2 DEF TaskInv, FramesOwned
  <2> QED  BY <2>1, <2>2, <2>3 DEF FramesOwned
<1>5. \A h \in Handle : ChildDone(h)' <=> ChildDone(h)
  <2>1. \A c \in Handle : continuation[c] # Null => frame'[c] = frame[c]
    BY <1>1 DEF TaskInv, FramesOwned
  <2> QED  BY SMTT(30), <1>2, <2>1, NullNotHandle
              DEF ChildDone, TaskInv, FramesOwned
<1>6. SuspendedOnce'
  <2>1. \A h \in Handle : /\ Runnable(h)' <=> Runnable(h)
                          /\ WaitOpen(h)' <=> WaitOpen(h)
                          /\ Parked(h)' <=> Parked(h)
    BY <1>1, <1>5 DEF Runnable, WaitOpen, Parked
  <2> QED  BY <2>1, SuspendedOnceParts, SuspendedOncePartsPrime
           DEF TaskInv, QueuedRunnable, ParkedOpen, ParkedOnce
<1> QED  BY <1>3, <1>4, <1>6 DEF TaskInv

-----------------------------------------------------------------------------
(* Nothing refers to a free frame or to the running one.                   *)
LEMMA NotHeld ==
    ASSUME TypeInv, TaskInv, NEW h \in Handle, frame[h] \in {"free", "running"}
    PROVE  /\ ~In(ready_queue, h)
           /\ ~Parked(h)
           /\ wait_results[h] = Null
           /\ \A x \in Handle : continuation[x] # h
<1>1. ~In(ready_queue, h) /\ ~Parked(h)
  BY SuspendedOnceParts
     DEF TaskInv, QueuedRunnable, ParkedOpen, Runnable, WaitOpen
<1>2. wait_results[h] = Null
  BY DEF TaskInv, ResultsWait
<1>3. \A x \in Handle : continuation[x] # h
  BY SMTT(30), NullNotHandle DEF TaskInv, FramesOwned
<1> QED  BY <1>1, <1>2, <1>3

(* spawn() makes a new root runnable.                                      *)
LEMMA SpawnTaskInv ==
    ASSUME TypeInv, TaskInv, NEW c \in Handle, Spawn(c)
    PROVE  TaskInv'
<1> USE DEF waiterVars
<1>1. /\ frame[c] = "free"
      /\ \A x \in Handle : frame'[x] = IF x = c THEN "initial" ELSE frame[x]
      /\ UNCHANGED <<continuation, wait_results, handle, current>>
      /\ root_tasks' = root_tasks \cup {c}
      /\ ready_queue' = Append(ready_queue, c)
  BY DEF Spawn, CreateRoot, TypeInv, TypeOK, TaskTypeOK
<1>2. /\ ~In(ready_queue, c) /\ ~Parked(c) /\ wait_results[c] = Null
      /\ \A x \in Handle : continuation[x] # c
  BY <1>1, NotHeld
<1>3. /\ Distinct(ready_queue')
      /\ \A h \in Handle : In(ready_queue', h) <=> In(ready_queue, h) \/ h = c
  BY <1>1, <1>2, AppendOnce, SuspendedOnceParts DEF TypeInv, TypeOK, TaskInv
<1>4. RunningOne' /\ ResultsWait'
  BY <1>1, <1>2 DEF TaskInv, RunningOne, ResultsWait
<1>5. FramesOwned'
  <2>1. ASSUME NEW h \in Handle
        PROVE  /\ frame'[h] = "free"
                     <=> h \notin root_tasks' /\ continuation'[h] = Null
               /\ frame'[h] = "awaiting"
                     => \E x \in Handle : continuation'[x] = h
    BY <1>1 DEF TaskInv, FramesOwned
  <2>2. ASSUME NEW h \in Handle, continuation'[h] # Null
        PROVE  h \notin root_tasks' /\ frame'[continuation'[h]] = "awaiting"
    <3>1. /\ continuation[h] \in Handle /\ frame[continuation[h]] = "awaiting"
          /\ h \notin root_tasks /\ frame[h] # "free"
      BY SMTT(30), <1>1, <2>2
         DEF TypeInv, TypeOK, TaskTypeOK, TaskInv, FramesOwned
    <3> QED  BY <1>1, <1>2, <3>1
  <2> QED  BY SMTT(30), <1>1, <2>1, <2>2 DEF TaskInv, FramesOwned
<1>6. \A h \in Handle : /\ Runnable(h)' <=> Runnable(h) \/ h = c
                        /\ WaitOpen(h)' <=> WaitOpen(h)
                        /\ Parked(h)' <=> Parked(h)
  BY <1>1, <1>2 DEF Runnable, ChildDone, WaitOpen, Parked
<1>7. \A h \in Handle : In(ready_queue', h) <=> Runnable(h)'
  BY <1>3, <1>6, SuspendedOnceParts DEF TaskInv, QueuedRunnable
<1>8. QueuedRunnable'
  BY <1>7 DEF QueuedRunnable, In
<1>9. ParkedOnce' /\ ParkedOpen'
  BY <1>1, <1>6, SuspendedOnceParts DEF TaskInv, ParkedOnce, ParkedOpen
<1> QED  BY <1>3, <1>4, <1>5, <1>8, <1>9, SuspendedOncePartsPrime DEF TaskInv

(* co_await of a child: the parent waits for exactly this child.           *)
LEMMA AwaitTaskInv ==
    ASSUME TypeInv, TaskInv, NEW c \in Handle, TaskAwait(c)
    PROVE  TaskInv'
<1> USE DEF waiterVars, rootVars
<1>0. PICK p \in Handle : p = current /\ frame[p] = "running"
  BY DEF TaskAwait, TypeInv, TypeOK, CurrentOK, TaskInv, RunningOne
<1>1. /\ frame[c] = "free" /\ p # c
      /\ \A x \in Handle : frame'[x] = IF x = p THEN "awaiting"
                                       ELSE IF x = c THEN "initial"
                                       ELSE frame[x]
      /\ \A x \in Handle : continuation'[x] = IF x = c THEN p
                                              ELSE continuation[x]
      /\ UNCHANGED <<wait_results, handle, root_tasks>> /\ current' = Null
      /\ ready_queue' = Append(ready_queue, c)
  BY <1>0 DEF TaskAwait, AwaitChild, Suspended, TypeInv, TypeOK, TaskTypeOK
<1>2. /\ ~In(ready_queue, c) /\ ~Parked(c) /\ wait_results[c] = Null
      /\ ~In(ready_queue, p) /\ ~Parked(p) /\ wait_results[p] = Null
      /\ \A x \in Handle : continuation[x] # c /\ continuation[x] # p
  BY <1>0, <1>1, NotHeld
<1>3. /\ Distinct(ready_queue')
      /\ \A h \in Handle : In(ready_queue', h) <=> In(ready_queue, h) \/ h = c
  BY <1>1, <1>2, AppendOnce, SuspendedOnceParts DEF TypeInv, TypeOK, TaskInv
<1>4. RunningOne' /\ ResultsWait'
  BY <1>0, <1>1, <1>2, NullNotHandle DEF TaskInv, RunningOne, ResultsWait
<1>5. FramesOwned'
  <2>1. ASSUME NEW h \in Handle
        PROVE  /\ frame'[h] = "free"
                     <=> h \notin root_tasks' /\ continuation'[h] = Null
               /\ frame'[h] = "awaiting"
                     => \E x \in Handle : continuation'[x] = h
    <3>1. frame'[h] = "free" <=> h \notin root_tasks' /\ continuation'[h] = Null
      BY SMTT(30), <1>0, <1>1, <1>2, NullNotHandle DEF TaskInv, FramesOwned
    <3>2. CASE h = p
      BY <1>0, <1>1, <1>2, <3>1, <3>2
    <3>3. CASE h # p
      <4>1. frame'[h] = "awaiting" => frame[h] = "awaiting"
        BY <1>1, <3>3
      <4>2. frame[h] = "awaiting" => \E x \in Handle : continuation[x] = h
        BY DEF TaskInv, FramesOwned
      <4>3. continuation[c] = Null
        BY <1>1 DEF TaskInv, FramesOwned
      <4>4. \A x \in Handle : continuation[x] = h => continuation'[x] = h
        BY <1>1, <4>3, NullNotHandle
      <4>5. frame'[h] = "awaiting" => \E x \in Handle : continuation'[x] = h
        BY <4>1, <4>2, <4>4
      <4> QED  BY <3>1, <4>5
    <3> QED  BY <3>1, <3>2, <3>3
  <2>2. ASSUME NEW h \in Handle, continuation'[h] # Null
        PROVE  h \notin root_tasks' /\ frame'[continuation'[h]] = "awaiting"
    <3>1. CASE h = c
      BY SMTT(30), <1>0, <1>1, <3>1 DEF TaskInv, FramesOwned
    <3>2. CASE h # c
      <4>1. /\ continuation[h] \in Handle /\ frame[continuation[h]] = "awaiting"
            /\ h \notin root_tasks
        <5>1. continuation[h] # Null
          BY <1>1, <2>2, <3>2
        <5> QED  BY <5>1, OwnedParts
      <4> QED  BY <1>1, <1>2, <3>2, <4>1
    <3> QED  BY <3>1, <3>2
  <2>3. ASSUME NEW a \in Handle, NEW b \in Handle,
               continuation'[a] = continuation'[b], continuation'[a] # Null
        PROVE  a = b
    <3>1. CASE a = c \/ b = c
      BY <1>1, <1>2, <2>3, <3>1
    <3>2. CASE a # c /\ b # c
      <4>1. continuation[a] = continuation[b] /\ continuation[a] # Null
        BY <1>1, <2>3, <3>2
      <4> QED  BY <4>1, OwnedParts
    <3> QED  BY <3>1, <3>2
  <2> QED  BY <2>1, <2>2, <2>3 DEF FramesOwned
<1>6. \A h \in Handle : ChildDone(h)' <=> h # p /\ ChildDone(h)
  BY <1>0, <1>1, <1>2 DEF ChildDone
<1>7. \A h \in Handle : /\ Runnable(h)' <=> Runnable(h) \/ h = c
                        /\ WaitOpen(h)' <=> WaitOpen(h)
                        /\ Parked(h)' <=> Parked(h)
  BY <1>0, <1>1, <1>2, <1>6 DEF Runnable, WaitOpen, Parked
<1>8. \A h \in Handle : In(ready_queue', h) <=> Runnable(h)'
  BY <1>3, <1>7, SuspendedOnceParts DEF TaskInv, QueuedRunnable
<1>9. QueuedRunnable'
  BY <1>8 DEF QueuedRunnable, In
<1>10. ParkedOnce' /\ ParkedOpen'
  BY <1>1, <1>7, SuspendedOnceParts DEF TaskInv, ParkedOnce, ParkedOpen
<1> QED  BY <1>3, <1>4, <1>5, <1>9, <1>10, SuspendedOncePartsPrime DEF TaskInv

(* co_return: the continuation, if any, becomes runnable.                  *)
LEMMA FinishTaskInv ==
    ASSUME TypeInv, TaskInv, TaskFinish
    PROVE  TaskInv'
<1> USE DEF waiterVars
<1>0. PICK p \in Handle : p = current /\ frame[p] = "running"
  BY DEF TaskFinish, TypeInv, TypeOK, CurrentOK, TaskInv, RunningOne
<1>1. /\ \A x \in Handle : frame'[x] = IF x = p THEN "final" ELSE frame[x]
      /\ UNCHANGED <<continuation, wait_results, handle, root_tasks>>
      /\ current' = Null
      /\ ready_queue' = IF continuation[p] = Null THEN ready_queue
                        ELSE Append(ready_queue, continuation[p])
  BY <1>0 DEF TaskFinish, FinishFrame, Suspended, TypeInv, TypeOK, TaskTypeOK
<1>2. /\ ~In(ready_queue, p) /\ ~Parked(p) /\ wait_results[p] = Null
      /\ \A x \in Handle : continuation[x] # p
  BY <1>0, NotHeld
<1>3. ASSUME continuation[p] # Null
      PROVE  /\ continuation[p] \in Handle
             /\ frame[continuation[p]] = "awaiting"
             /\ ~ChildDone(continuation[p])
             /\ ~In(ready_queue, continuation[p])
  <2>1. continuation[p] \in Handle /\ frame[continuation[p]] = "awaiting"
    BY <1>3, OwnedParts
  <2>2. ~ChildDone(continuation[p])
    BY SMTT(30), <1>0, <1>3, OwnedParts DEF ChildDone
  <2> QED  BY <2>1, <2>2, SuspendedOnceParts
           DEF TaskInv, QueuedRunnable, Runnable
<1>4. /\ Distinct(ready_queue')
      /\ \A h \in Handle :
            In(ready_queue', h) <=> In(ready_queue, h) \/ h = continuation[p]
  <2>1. CASE continuation[p] = Null
    BY <1>1, <2>1, NullNotHandle, SuspendedOnceParts DEF TaskInv
  <2>2. CASE continuation[p] # Null
    BY <1>1, <1>3, <2>2, AppendOnce, SuspendedOnceParts
       DEF TypeInv, TypeOK, TaskInv
  <2> QED  BY <2>1, <2>2
<1>5. RunningOne' /\ ResultsWait'
  BY <1>0, <1>1, <1>2, NullNotHandle DEF TaskInv, RunningOne, ResultsWait
<1>6. FramesOwned'
  <2>1. ASSUME NEW h \in Handle
        PROVE  /\ frame'[h] = "free"
                     <=> h \notin root_tasks' /\ continuation'[h] = Null
               /\ frame'[h] = "awaiting"
                     => \E x \in Handle : continuation'[x] = h
    <3>1. /\ frame'[h] = "free" <=> frame[h] = "free"
          /\ frame'[h] = "awaiting" => frame[h] = "awaiting"
      BY <1>0, <1>1
    <3> QED  BY <1>1, <3>1, OwnedParts
  <2>2. ASSUME NEW h \in Handle, continuation'[h] # Null
        PROVE  h \notin root_tasks' /\ frame'[continuation'[h]] = "awaiting"
    <3>1. /\ continuation[h] \in Handle /\ frame[continuation[h]] = "awaiting"
          /\ h \notin root_tasks
      BY <1>1, <2>2, OwnedParts
    <3> QED  BY <1>1, <1>2, <3>1
  <2>3. \A a, b \in Handle :
           continuation'[a] = continuation'[b] /\ continuation'[a] # Null => a = b
    BY <1>1, OwnedParts
  <2> QED  BY <2>1, <2>2, <2>3 DEF FramesOwned
<1>7. \A h \in Handle : ChildDone(h)' <=> ChildDone(h) \/ h = continuation[p]
  BY <1>0, <1>1 DEF ChildDone
<1>8. \A h \in Handle : /\ Runnable(h)' <=> Runnable(h) \/ h = continuation[p]
                        /\ WaitOpen(h)' <=> WaitOpen(h)
                        /\ Parked(h)' <=> Parked(h)
  BY <1>0, <1>1, <1>2, <1>3, <1>7, NullNotHandle
     DEF Runnable, WaitOpen, Parked
<1>9. \A h \in Handle : In(ready_queue', h) <=> Runnable(h)'
  BY <1>4, <1>8, SuspendedOnceParts DEF TaskInv, QueuedRunnable
<1>10. QueuedRunnable'
  BY <1>9 DEF QueuedRunnable, In
<1>11. ParkedOnce' /\ ParkedOpen'
  BY <1>1, <1>8, SuspendedOnceParts DEF TaskInv, ParkedOnce, ParkedOpen
<1> QED  BY <1>4, <1>5, <1>6, <1>10, <1>11, SuspendedOncePartsPrime
         DEF TaskInv

(* A coroutine suspends in a wait: frames and ownership either way.        *)
LEMMA SuspendFrames ==
    ASSUME TypeInv, TaskInv, NEW p \in Handle, frame[p] = "running",
           \A x \in Handle : frame'[x] = IF x = p THEN "waiting" ELSE frame[x],
           UNCHANGED <<continuation, root_tasks>>, current' = Null,
           \A x \in Handle : x # p => wait_results'[x] = wait_results[x]
    PROVE  RunningOne' /\ ResultsWait' /\ FramesOwned'
<1>1. \A x \in Handle : continuation[x] # p
  BY NotHeld
<1>2. RunningOne' /\ ResultsWait'
  BY NullNotHandle DEF TaskInv, RunningOne, ResultsWait
<1>3. FramesOwned'
  <2>1. ASSUME NEW h \in Handle
        PROVE  /\ frame'[h] = "free"
                     <=> h \notin root_tasks' /\ continuation'[h] = Null
               /\ frame'[h] = "awaiting"
                     => \E x \in Handle : continuation'[x] = h
    BY SMTT(30) DEF TaskInv, FramesOwned
  <2>2. ASSUME NEW h \in Handle, continuation'[h] # Null
        PROVE  h \notin root_tasks' /\ frame'[continuation'[h]] = "awaiting"
    <3>1. /\ continuation[h] \in Handle /\ frame[continuation[h]] = "awaiting"
          /\ h \notin root_tasks
      BY SMTT(30), <2>2 DEF TypeInv, TypeOK, TaskTypeOK, TaskInv, FramesOwned
    <3> QED  BY <1>1, <3>1
  <2> QED  BY SMTT(30), <2>1, <2>2 DEF TaskInv, FramesOwned
<1> QED  BY <1>2, <1>3

(* A wait whose timeout is not positive is queued with its result.         *)
LEMMA ElapsedTaskInv ==
    ASSUME TypeInv, TaskInv, ArmElapsed
    PROVE  TaskInv'
<1> USE DEF waiterVars, rootVars
<1>0. PICK p \in Handle : p = current /\ frame[p] = "running"
  BY DEF ArmElapsed, TypeInv, TypeOK, CurrentOK, TaskInv, RunningOne
<1>1. /\ \A x \in Handle : frame'[x] = IF x = p THEN "waiting" ELSE frame[x]
      /\ \A x \in Handle : wait_results'[x] = IF x = p THEN "ETIMEDOUT"
                                              ELSE wait_results[x]
      /\ UNCHANGED <<continuation, handle, root_tasks>> /\ current' = Null
      /\ ready_queue' = Append(ready_queue, p)
  BY <1>0
     DEF ArmElapsed, SuspendFrame, Suspended, TypeInv, TypeOK, TaskTypeOK
<1>2. ~In(ready_queue, p) /\ ~Parked(p)
  BY <1>0, NotHeld
<1>3. /\ Distinct(ready_queue')
      /\ \A h \in Handle : In(ready_queue', h) <=> In(ready_queue, h) \/ h = p
  BY <1>1, <1>2, AppendOnce, SuspendedOnceParts
     DEF TypeInv, TypeOK, TaskInv
<1>4. RunningOne' /\ ResultsWait' /\ FramesOwned'
  BY <1>0, <1>1, SuspendFrames
<1>5. "ETIMEDOUT" # Null
  BY OutcomeNotNull DEF Outcome
<1>6. \A h \in Handle : /\ Runnable(h)' <=> Runnable(h) \/ h = p
                        /\ WaitOpen(h)' <=> WaitOpen(h)
                        /\ Parked(h)' <=> Parked(h)
  BY <1>0, <1>1, <1>5 DEF Runnable, ChildDone, WaitOpen, Parked
<1>7. \A h \in Handle : In(ready_queue', h) <=> Runnable(h)'
  BY <1>3, <1>6, SuspendedOnceParts DEF TaskInv, QueuedRunnable
<1>8. QueuedRunnable'
  BY <1>7 DEF QueuedRunnable, In
<1>9. ParkedOnce' /\ ParkedOpen'
  BY <1>1, <1>6, SuspendedOnceParts DEF TaskInv, ParkedOnce, ParkedOpen
<1> QED  BY <1>3, <1>4, <1>8, <1>9, SuspendedOncePartsPrime DEF TaskInv

(* An accepted wait is registered on a side that was free.                 *)
LEMMA ArmTaskInv ==
    ASSUME TypeInv, TaskInv, NEW fd \in Fd, NEW d \in Dir, NEW t, Arm(fd, d, t)
    PROVE  TaskInv'
<1> USE DEF queueVars, rootVars
<1>0. PICK p \in Handle : p = current /\ frame[p] = "running"
  BY DEF Arm, TypeInv, TypeOK, CurrentOK, TaskInv, RunningOne
<1>1. /\ \A x \in Handle : frame'[x] = IF x = p THEN "waiting" ELSE frame[x]
      /\ UNCHANGED <<continuation, root_tasks, wait_results, ready_queue>>
      /\ current' = Null
      /\ <<fd, d>> \in Waiter /\ handle[<<fd, d>>] = Null
      /\ \A w \in Waiter : handle'[w] = IF w = <<fd, d>> THEN p ELSE handle[w]
  BY <1>0
     DEF Arm, ArmedHandles, SuspendFrame, Suspended, TypeInv, TypeOK,
              TaskTypeOK, Waiter
<1>2. ~In(ready_queue, p) /\ ~Parked(p) /\ wait_results[p] = Null
  BY <1>0, NotHeld
<1>3. RunningOne' /\ ResultsWait' /\ FramesOwned'
  BY <1>0, <1>1, SuspendFrames
<1>4. \A h \in Handle : /\ Runnable(h)' <=> Runnable(h)
                        /\ WaitOpen(h)' <=> WaitOpen(h) \/ h = p
  BY <1>0, <1>1, <1>2 DEF Runnable, ChildDone, WaitOpen
<1>5. \A h \in Handle : Parked(h)' <=> Parked(h) \/ h = p
  BY <1>1, NullNotHandle DEF Parked
<1>6. Distinct(ready_queue')
  BY <1>1, SuspendedOnceParts DEF TaskInv
<1>7. QueuedRunnable'
  BY <1>1, <1>4, SuspendedOnceParts DEF TaskInv, QueuedRunnable, In
<1>8. ParkedOpen'
  BY <1>4, <1>5, SuspendedOnceParts DEF TaskInv, ParkedOpen
<1>9. ParkedOnce'
  BY <1>1, <1>2, SuspendedOnceParts DEF TaskInv, ParkedOnce, Parked
<1> QED  BY <1>3, <1>6, <1>7, <1>8, <1>9, SuspendedOncePartsPrime DEF TaskInv

(* A new loop holds nothing.                                               *)
LEMMA FreshTaskInv ==
    ASSUME \A h \in Handle : /\ frame[h] = "free"
                             /\ continuation[h] = Null
                             /\ wait_results[h] = Null,
           \A w \in Waiter : handle[w] = Null,
           ready_queue = <<>>, root_tasks = {}, current = Null
    PROVE  TaskInv
<1>1. Len(ready_queue) = 0
  OBVIOUS
<1>2. RunningOne /\ ResultsWait /\ FramesOwned
  BY NullNotHandle DEF RunningOne, ResultsWait, FramesOwned
<1>3. SuspendedOnce
  BY SMTT(30), <1>1, NullNotHandle DEF SuspendedOnce, Queued, Parked
<1> QED  BY <1>2, <1>3 DEF TaskInv

(* A newly constructed loop satisfies TaskInv.                             *)
LEMMA TaskInvInit == Init => TaskInv
BY FreshTaskInv DEF Init, TaskInit

(* Destroying a loop with its roots and constructing another one           *)
(* establishes TaskInv.                                                    *)
LEMMA RecreateTaskInv ==
    ASSUME TypeInv, Recreate
    PROVE  TaskInv'
<1>1. /\ \A h \in Handle : /\ frame'[h] = "free"
                           /\ continuation'[h] = Null
                           /\ wait_results'[h] = Null
      /\ \A w \in Waiter : handle'[w] = Null
      /\ ready_queue' = <<>> /\ root_tasks' = {} /\ current' = Null
  BY DEF Recreate, DestroyFrames, TypeInv, CurrentOK
<1>2. Len(ready_queue') = 0
  BY <1>1
<1>3. RunningOne' /\ ResultsWait' /\ FramesOwned'
  BY <1>1, NullNotHandle DEF RunningOne, ResultsWait, FramesOwned
<1>4. SuspendedOnce'
  BY SMTT(30), <1>1, <1>2, NullNotHandle DEF SuspendedOnce, Queued, Parked
<1> QED  BY <1>3, <1>4 DEF TaskInv

-----------------------------------------------------------------------------
(* Every step keeps the frames, their owners and their places in order.    *)
LEMMA TaskNext == TypeInv /\ TaskInv /\ [Next]_vars => TaskInv'
<1> SUFFICES ASSUME TypeInv, TaskInv, [Next]_vars
             PROVE  TaskInv'
  OBVIOUS
<1> USE DEF TypeInv
<1> USE DEF taskVars, queueVars, rootVars, waiterVars, loopVars, dataVars, vars
<1>1. CASE RunStart \/ LoopTop \/ ExpireStart \/ ScanEnd \/ LoopCheck \/ Block
  BY <1>1, TaskInvFrame
     DEF RunStart, LoopTop, ExpireStart, ScanEnd, LoopCheck, Block
<1>2. ASSUME NEW fd \in Fd, ScanSlot(fd)
      PROVE  TaskInv'
  <2>1. Expired(fd) \in SUBSET Armed(fd, handle) /\ "ETIMEDOUT" \in Outcome
    BY DEF Expired, Outcome
  <2> QED  BY <1>2, <2>1, WakeTaskInv DEF ScanSlot
<1>3. CASE DrainPop
  BY <1>3, DrainTaskInv
<1>4. CASE AfterResume \/ LoopExit
  BY <1>4, CleanupTaskInv DEF AfterResume, LoopExit
<1>5. CASE WaitReturn \/ WaitTimeout \/ WaitInterrupted
  BY <1>5, TaskInvFrame DEF WaitReturn, WaitTimeout, WaitInterrupted, WaitEmpty
<1>6. ASSUME NEW e \in batch, DispatchWake(e)
      PROVE  TaskInv'
  BY <1>6, TaskInvFrame DEF DispatchWake
<1>7. ASSUME NEW e \in batch, DispatchFd(e)
      PROVE  TaskInv'
  <2>1. e.fd \in Fd /\ Fired(e) \in SUBSET Armed(e.fd, handle) /\ "ok" \in Outcome
    BY <1>7 DEF DispatchFd, Fired, Outcome
  <2> QED  BY <1>7, <2>1, WakeTaskInv DEF DispatchFd
<1>8. ASSUME NEW c \in Handle, Spawn(c) \/ TaskAwait(c)
      PROVE  TaskInv'
  BY <1>8, SpawnTaskInv, AwaitTaskInv
<1>9. CASE TaskFinish \/ ArmElapsed \/ Recreate
  BY <1>9, FinishTaskInv, ElapsedTaskInv, RecreateTaskInv
<1>10. ASSUME NEW fd \in Fd, NEW d \in Dir,
              NEW t \in (Timeout \ {0}) \cup {Null},
              Arm(fd, d, t) \/ ArmFails(fd, d, t)
       PROVE  TaskInv'
  BY <1>10, ArmTaskInv, TaskInvFrame DEF ArmFails
<1>11. CASE TaskStop \/ TaskIo \/ StopStore \/ StopWrite \/ Environment \/ Tick
  BY <1>11, TaskInvFrame
     DEF TaskStop, TaskIo, StopStore, StopWrite, Environment, Tick
<1>12. CASE UNCHANGED vars
  BY <1>12, TaskInvFrame
<1> QED  BY <1>1, <1>2, <1>3, <1>4, <1>5, <1>6, <1>7, <1>8, <1>9, <1>10,
            <1>11, <1>12
         DEF Next, LoopStep, Suspend, RunOn

(* A suspended coroutine is held in exactly one place, for any number of   *)
(* coroutines and descriptors: no handle is resumed twice or forgotten.    *)
THEOREM SuspendedOnceHolds == Spec => []SuspendedOnce
<1>1. TaskInv => SuspendedOnce
  BY DEF TaskInv
<1> QED  BY <1>1, TypeInit, TypeNext, TaskInvInit, TaskNext, PTL DEF Spec

(* Every live frame has exactly one owner, a root slot or its awaiter.     *)
THEOREM FramesOwnedHolds == Spec => []FramesOwned
<1>1. TaskInv => FramesOwned
  BY DEF TaskInv
<1> QED  BY <1>1, TypeInit, TypeNext, TaskInvInit, TaskNext, PTL DEF Spec

-----------------------------------------------------------------------------
(* Wakeups.  The invariant relates the kernel's interest set to the loop's *)
(* slots: where a descriptor is still registered, both agree with the      *)
(* handles that wait, so refresh_interest cannot fail on it.               *)
Synced ==
    \A fd \in Fd : interest[fd] # {} => /\ fd \in open
                                        /\ registered_mask[fd] = interest[fd]
                                        /\ interest[fd] = DesiredMask(fd, handle)

(* Undispatched events are of distinct, still registered descriptors.      *)
BatchOK ==
    /\ batch # {} => pc = "dispatch"
    /\ \A e, f \in batch : e.fd = f.fd => e = f
    /\ \A e \in batch : e.fd \in Fd => interest[e.fd] # {}

(* After an error the loop only leaves.                                    *)
ErrorLeaves == loop_error # Null => pc \in {"check", "exit", "idle"}

WakeInv == Synced /\ BatchOK /\ ErrorLeaves /\ NoLostWakeup

-----------------------------------------------------------------------------
(* The requested mask contains all that can wake an armed side.            *)
LEMMA MaskCovers ==
    ASSUME NEW fd, NEW hs, NEW d \in Armed(fd, hs)
    PROVE  ReadyMask(d) \subseteq DesiredMask(fd, hs) /\ DesiredMask(fd, hs) # {}
BY DEF ReadyMask, DesiredMask, CommonFlags, RequestBit, Armed, Dir

(* The mask depends on the handles of its own slot only.                   *)
LEMMA MaskLocal ==
    ASSUME NEW fd, NEW hs, NEW gs, \A d \in Dir : hs[<<fd, d>>] = gs[<<fd, d>>]
    PROVE  DesiredMask(fd, hs) = DesiredMask(fd, gs)
BY DEF DesiredMask, Armed

(* The desired mask after a step is the one computed from the handles      *)
(* after it.                                                               *)
LEMMA MaskPrime == \A fd : DesiredMask(fd, handle)' = DesiredMask(fd, handle')
BY DEF DesiredMask, Armed, CommonFlags, RequestBit

(* On a registered descriptor refresh_interest succeeds.                   *)
LEMMA RegisteredOk ==
    ASSUME Synced, NEW fd \in Fd, interest[fd] # {}, NEW hs
    PROVE  RefreshResult(fd, hs) = "ok" /\ RefreshOp(fd, hs) # "ADD"
BY DEF Synced, RefreshResult, RefreshOp, CtlResult

(* What refresh_interest leaves in the kernel, other slots untouched.      *)
LEMMA RefreshEffect ==
    ASSUME TypeOK, Synced, NEW fd \in Fd, NEW hs, RefreshKernel(fd, hs)
    PROVE  /\ UNCHANGED <<open, level>>
           /\ \A x \in Fd : x # fd => /\ interest'[x] = interest[x]
                                      /\ x \in rdlist' <=> x \in rdlist
           /\ interest'[fd] # {} =>
                 /\ RefreshResult(fd, hs) = "ok"
                 /\ fd \in open
                 /\ interest'[fd] = DesiredMask(fd, hs)
                 /\ \/ interest[fd] = interest'[fd] /\ rdlist' = rdlist
                    \/ level[fd] \cap interest'[fd] # {} => fd \in rdlist'
<1>1. /\ UNCHANGED <<open, level>>
      /\ \A x \in Fd : x # fd => /\ interest'[x] = interest[x]
                                 /\ x \in rdlist' <=> x \in rdlist
  BY SMTT(30) DEF RefreshKernel, CtlEffect, TypeOK, KernelTypeOK
<1>2. ASSUME interest'[fd] # {}
      PROVE  /\ RefreshResult(fd, hs) = "ok"
             /\ fd \in open
             /\ interest'[fd] = DesiredMask(fd, hs)
             /\ \/ interest[fd] = interest'[fd] /\ rdlist' = rdlist
                \/ level[fd] \cap interest'[fd] # {} => fd \in rdlist'
  <2>1. CASE RefreshOp(fd, hs) = "NONE"
    <3>1. interest'[fd] = interest[fd] /\ rdlist' = rdlist
      BY <2>1 DEF RefreshKernel, CtlEffect
    <3>2. registered_mask[fd] = DesiredMask(fd, hs)
      BY <2>1 DEF RefreshOp
    <3> QED  BY <1>2, <3>1, <3>2, RegisteredOk DEF Synced
  <2>2. CASE RefreshOp(fd, hs) # "NONE" /\ RefreshResult(fd, hs) # "ok"
    <3>1. interest'[fd] = interest[fd]
      BY <2>2 DEF RefreshKernel, CtlEffect, RefreshResult
    <3> QED  BY <1>2, <2>2, <3>1, RegisteredOk
  <2>3. CASE RefreshOp(fd, hs) # "NONE" /\ RefreshResult(fd, hs) = "ok"
    <3>1. /\ interest'[fd] = DesiredMask(fd, hs)
          /\ rdlist' = IF DesiredMask(fd, hs) = {} THEN rdlist \ {fd}
                       ELSE IF level[fd] \cap DesiredMask(fd, hs) # {}
                            THEN rdlist \cup {fd} ELSE rdlist
      BY <2>3 DEF RefreshKernel, CtlEffect, RefreshResult, TypeOK, KernelTypeOK
    <3>2. fd \in open
      BY <2>3 DEF RefreshResult, CtlResult
    <3> QED  BY <1>2, <2>3, <3>1, <3>2
  <2> QED  BY <2>1, <2>2, <2>3
<1> QED  BY <1>1, <1>2

(* A change of the handles of one slot followed by refresh_interest keeps  *)
(* the kernel and the slots in step.                                       *)
LEMMA RefreshSynced ==
    ASSUME TypeOK, Synced, NEW fd \in Fd, RefreshKernel(fd, handle'),
           \A x \in Fd, d \in Dir : x # fd => handle'[<<x, d>>] = handle[<<x, d>>],
           \A x \in Fd : x # fd => registered_mask'[x] = registered_mask[x],
           RefreshResult(fd, handle') = "ok"
               => registered_mask'[fd] = DesiredMask(fd, handle')
    PROVE  Synced'
<1>1. ASSUME NEW x \in Fd, interest'[x] # {}
      PROVE  /\ x \in open'
             /\ registered_mask'[x] = interest'[x]
             /\ interest'[x] = DesiredMask(x, handle')
  <2>1. CASE x = fd
    BY <1>1, <2>1, RefreshEffect
  <2>2. CASE x # fd
    <3>1. interest'[x] = interest[x] /\ open' = open
      BY <2>2, RefreshEffect
    <3>2. DesiredMask(x, handle') = DesiredMask(x, handle)
      BY <2>2, MaskLocal
    <3> QED  BY <1>1, <2>2, <3>1, <3>2 DEF Synced
  <2> QED  BY <2>1, <2>2
<1> QED  BY <1>1, MaskPrime DEF Synced

(* The same for wakeups: a wait that stays or becomes registered keeps its *)
(* pending edge, because a changed mask makes the kernel poll again.       *)
LEMMA RefreshNoLost ==
    ASSUME TypeOK, Synced, NoLostWakeup, NEW fd \in Fd,
           RefreshKernel(fd, handle'),
           \A x \in Fd, d \in Dir : x # fd => handle'[<<x, d>>] = handle[<<x, d>>],
           \A d \in Dir : handle'[<<fd, d>>] # Null /\ handle[<<fd, d>>] = Null
                             => RequestBit(d) \notin interest[fd],
           \A e \in batch : e \in batch' \/
               /\ e.fd = fd
               /\ \A d \in Dir : handle'[<<fd, d>>] # Null
                                    => e.events \cap ReadyMask(d) = {}
    PROVE  NoLostWakeup'
<1> SUFFICES ASSUME NEW x \in Fd, NEW d \in Dir,
                    handle'[<<x, d>>] # Null, interest'[x] # {},
                    level'[x] \cap ReadyMask(d) # {}
             PROVE  \/ x \in rdlist'
                    \/ \E e \in batch' : /\ e.fd = x
                                         /\ e.events \cap ReadyMask(d) # {}
  BY SMTT(30) DEF NoLostWakeup
<1>0. level' = level
  BY RefreshEffect
<1>1. CASE x # fd
  <2>1. /\ interest'[x] = interest[x]
        /\ x \in rdlist' <=> x \in rdlist
        /\ handle'[<<x, d>>] = handle[<<x, d>>]
    BY <1>1, RefreshEffect
  <2>2. \/ x \in rdlist
        \/ \E e \in batch : e.fd = x /\ e.events \cap ReadyMask(d) # {}
    BY <1>0, <2>1 DEF NoLostWakeup
  <2> QED  BY <1>1, <2>1, <2>2
<1>2. CASE x = fd
  <2>1. d \in Armed(fd, handle')
    BY <1>2 DEF Armed
  <2>2. /\ interest'[fd] = DesiredMask(fd, handle')
        /\ \/ interest[fd] = interest'[fd] /\ rdlist' = rdlist
           \/ level[fd] \cap interest'[fd] # {} => fd \in rdlist'
    BY <1>2, RefreshEffect
  <2>3. /\ ReadyMask(d) \subseteq interest'[fd]
        /\ RequestBit(d) \in interest'[fd]
    <3>1. RequestBit(d) \in DesiredMask(fd, handle')
      BY <2>1 DEF DesiredMask
    <3> QED  BY SMTT(30), <2>1, <2>2, <3>1, MaskCovers
  <2>4. CASE level[fd] \cap interest'[fd] # {} => fd \in rdlist'
    BY <1>0, <1>2, <2>3, <2>4
  <2>5. CASE interest[fd] = interest'[fd] /\ rdlist' = rdlist
    <3>1. handle[<<fd, d>>] # Null
      BY <1>2, <2>3, <2>5
    <3>2. \/ fd \in rdlist
          \/ \E e \in batch : e.fd = fd /\ e.events \cap ReadyMask(d) # {}
      BY SMTT(30), <1>0, <1>2, <2>5, <3>1 DEF NoLostWakeup
    <3> QED  BY <1>2, <2>5, <3>2
  <2> QED  BY <2>2, <2>4, <2>5
<1> QED  BY <1>1, <1>2

(* Waking touches the handles of one slot, and only removes some.          *)
LEMMA WakeHandles ==
    ASSUME NEW fd \in Fd, NEW S \in SUBSET Dir, NEW r, WakeSides(fd, S, r)
    PROVE  \A x \in Fd, d \in Dir :
              handle'[<<x, d>>] = IF x = fd /\ d \in S THEN Null
                                  ELSE handle[<<x, d>>]
BY DEF WakeSides, Cleared, Waiter

(* process_expired_waiters on one slot.                                    *)
LEMMA ScanWake ==
    ASSUME TypeInv, WakeInv, NEW fd \in Fd, ScanSlot(fd)
    PROVE  WakeInv'
<1> USE DEF TypeInv
<1>0. /\ pc = "scan" /\ batch = {} /\ batch' = {} /\ loop_error = Null
      /\ Expired(fd) \in SUBSET Dir
  BY DEF ScanSlot, WakeInv, BatchOK, ErrorLeaves, Expired, Armed
<1>1. \A x \in Fd, d \in Dir :
         handle'[<<x, d>>] = IF x = fd /\ d \in Expired(fd) THEN Null
                             ELSE handle[<<x, d>>]
  <2>1. WakeSides(fd, Expired(fd), "ETIMEDOUT")
    BY DEF ScanSlot
  <2> QED  BY <1>0, <2>1, WakeHandles
<1>2. BatchOK' /\ ErrorLeaves'
  BY <1>0 DEF ScanSlot, BatchOK, ErrorLeaves
<1>3. CASE Expired(fd) # {}
  <2>1. RefreshSlot(fd)
    BY <1>3 DEF ScanSlot
  <2>2. /\ RefreshKernel(fd, handle')
        /\ \A x \in Fd : x # fd => registered_mask'[x] = registered_mask[x]
        /\ RefreshResult(fd, handle') = "ok"
              => registered_mask'[fd] = DesiredMask(fd, handle')
    BY <2>1 DEF RefreshSlot, TypeOK
  <2>3. Synced'
    BY <1>1, <2>2, RefreshSynced DEF WakeInv
  <2>4. NoLostWakeup'
    BY <1>0, <1>1, <2>2, RefreshNoLost DEF WakeInv
  <2> QED  BY <1>2, <2>3, <2>4 DEF WakeInv
<1>4. CASE Expired(fd) = {}
  <2>1. /\ UNCHANGED <<open, level, interest, rdlist>>
        /\ \A x \in Fd : registered_mask'[x] =
              IF x = fd /\ Armed(fd, handle) = {} THEN {} ELSE registered_mask[x]
    BY <1>4 DEF ScanSlot, kernelVars, TypeOK
  <2>2. \A x \in Fd, d \in Dir : handle'[<<x, d>>] = handle[<<x, d>>]
    BY <1>1, <1>4
  <2>3. \A x \in Fd : DesiredMask(x, handle') = DesiredMask(x, handle)
    BY <2>2, MaskLocal
  <2>4. \A x \in Fd : Armed(x, handle) = {} => DesiredMask(x, handle) = {}
    BY DEF DesiredMask
  <2>5. Synced'
    <3>1. ASSUME NEW x \in Fd, interest'[x] # {}
          PROVE  /\ x \in open'
                 /\ registered_mask'[x] = interest'[x]
                 /\ interest'[x] = DesiredMask(x, handle')
      BY <2>1, <2>3, <2>4, <3>1 DEF WakeInv, Synced
    <3> QED  BY <3>1, MaskPrime DEF Synced
  <2>6. NoLostWakeup'
    BY <1>0, <2>1, <2>2 DEF WakeInv, NoLostWakeup
  <2> QED  BY <1>2, <2>5, <2>6 DEF WakeInv
<1> QED  BY <1>3, <1>4

(* process_ready_event: the descriptor is registered, so it cannot fail.   *)
LEMMA DispatchWakeInv ==
    ASSUME TypeInv, WakeInv, NEW e \in batch, DispatchFd(e)
    PROVE  WakeInv' /\ loop_error' = Null
<1> USE DEF TypeInv
<1> DEFINE fd == e.fd
<1>0. /\ pc = "dispatch" /\ loop_error = Null
      /\ fd \in Fd /\ interest[fd] # {}
      /\ Fired(e) \in SUBSET Dir
  BY DEF DispatchFd, WakeInv, BatchOK, ErrorLeaves, Fired, Armed
<1>1. \A x \in Fd, d \in Dir :
         handle'[<<x, d>>] = IF x = fd /\ d \in Fired(e) THEN Null
                             ELSE handle[<<x, d>>]
  BY <1>0, WakeHandles DEF DispatchFd
<1>2. RefreshSlot(fd) /\ RefreshResult(fd, handle') = "ok"
  BY <1>0, RegisteredOk DEF DispatchFd, WakeInv
<1>3. /\ RefreshKernel(fd, handle')
      /\ \A x \in Fd : x # fd => registered_mask'[x] = registered_mask[x]
      /\ registered_mask'[fd] = DesiredMask(fd, handle')
      /\ loop_error' = Null
  BY <1>0, <1>2 DEF RefreshSlot, TypeOK
<1>4. batch' = batch \ {e}
  BY <1>3 DEF DispatchFd
<1>5. Synced'
  BY <1>0, <1>1, <1>3, RefreshSynced DEF WakeInv
<1>6. \A d \in Dir : handle'[<<fd, d>>] # Null => e.events \cap ReadyMask(d) = {}
  <2>1. ASSUME NEW d \in Dir, handle'[<<fd, d>>] # Null
        PROVE  e.events \cap ReadyMask(d) = {}
    <3>1. d \in Armed(fd, handle) /\ d \notin Fired(e)
      BY <1>0, <1>1, <2>1 DEF Armed
    <3> QED  BY <3>1 DEF Fired
  <2> QED  BY <2>1
<1>7. NoLostWakeup'
  <2>1. \A f \in batch : f \in batch' \/
           /\ f.fd = fd
           /\ \A d \in Dir : handle'[<<fd, d>>] # Null
                                => f.events \cap ReadyMask(d) = {}
    BY <1>4, <1>6
  <2>2. \A d \in Dir : handle'[<<fd, d>>] # Null /\ handle[<<fd, d>>] = Null
                          => RequestBit(d) \notin interest[fd]
    BY <1>0, <1>1
  <2> HIDE DEF fd
  <2> QED  BY <1>0, <1>1, <1>3, <2>1, <2>2, RefreshNoLost DEF WakeInv
<1>8. BatchOK'
  <2>1. \A x \in Fd : x # fd => interest'[x] = interest[x]
    BY <1>0, <1>3, RefreshEffect DEF WakeInv
  <2> QED  BY <1>4, <2>1 DEF DispatchFd, WakeInv, BatchOK
<1> QED  BY <1>3, <1>5, <1>7, <1>8 DEF WakeInv, ErrorLeaves

(* A step that leaves the registrations and the kernel alone.              *)
LEMMA WakeFrame ==
    ASSUME WakeInv, UNCHANGED <<handle, registered_mask, kernelVars, batch>>,
           batch # {} => pc' = "dispatch", ErrorLeaves'
    PROVE  WakeInv'
<1> USE DEF kernelVars
<1>1. Synced'
  BY MaskPrime DEF WakeInv, Synced
<1>2. BatchOK' /\ NoLostWakeup'
  BY DEF WakeInv, BatchOK, NoLostWakeup
<1> QED  BY <1>1, <1>2 DEF WakeInv

(* arm_waiter, when it succeeds and when it rolls back.                    *)
LEMMA ArmWake ==
    ASSUME TypeInv, WakeInv, NEW fd \in Fd, NEW d \in Dir, NEW t,
           Arm(fd, d, t)
    PROVE  WakeInv'
<1> USE DEF TypeInv
<1>0. /\ pc = "running" /\ batch = {} /\ batch' = {} /\ loop_error = Null
      /\ loop_error' = Null /\ handle[<<fd, d>>] = Null
  BY DEF Arm, WakeInv, BatchOK, ErrorLeaves, flagVars, localVars
<1>1. handle' = ArmedHandles(fd, d)
  BY DEF Arm
<1>2. /\ RefreshKernel(fd, handle')
      /\ registered_mask' =
            [registered_mask EXCEPT ![fd] = DesiredMask(fd, handle')]
  BY DEF Arm
<1>3. \A x \in Fd, b \in Dir :
         <<x, b>> # <<fd, d>> => handle'[<<x, b>>] = handle[<<x, b>>]
  BY <1>1 DEF ArmedHandles, TypeOK, Waiter
<1>4. Synced'
  BY SMTT(30), <1>2, <1>3, RefreshSynced DEF WakeInv, TypeOK
<1>5. interest[fd] # {} => RequestBit(d) \notin interest[fd]
  <2>1. ASSUME interest[fd] # {}, RequestBit(d) \in interest[fd]
        PROVE  FALSE
    <3>1. RequestBit(d) \in DesiredMask(fd, handle)
      BY <2>1 DEF WakeInv, Synced
    <3>2. RequestBit(d) \notin CommonFlags
      BY DEF RequestBit, CommonFlags
    <3>3. PICK b \in Armed(fd, handle) : RequestBit(b) = RequestBit(d)
      BY <3>1, <3>2 DEF DesiredMask
    <3>4. b = d
      BY SMTT(30), <3>3 DEF RequestBit, Armed, Dir
    <3> QED  BY <1>0, <3>3, <3>4 DEF Armed
  <2> QED  BY <2>1
<1>6. NoLostWakeup'
  <2>1. \A b \in Dir : handle'[<<fd, b>>] # Null /\ handle[<<fd, b>>] = Null
                          => RequestBit(b) \notin interest[fd]
    BY <1>3, <1>5
  <2> QED  BY <1>0, <1>2, <1>3, <2>1, RefreshNoLost DEF WakeInv
<1> QED  BY <1>0, <1>4, <1>6 DEF WakeInv, BatchOK, ErrorLeaves

(* An arm_waiter that rolls back after a failed epoll_ctl keeps WakeInv.   *)
LEMMA ArmFailsWake ==
    ASSUME TypeInv, WakeInv, NEW fd \in Fd, NEW d \in Dir, NEW t,
           ArmFails(fd, d, t)
    PROVE  WakeInv'
<1> USE DEF kernelVars, flagVars, localVars
<1>1. /\ UNCHANGED <<kernelVars, handle, batch, pc, loop_error>>
      /\ interest[fd] = {}
  BY RegisteredOk DEF ArmFails, WakeInv
<1>2. \A x \in Fd : x # fd => registered_mask'[x] = registered_mask[x]
  BY DEF ArmFails, TypeInv, TypeOK
<1>3. Synced'
  BY <1>1, <1>2
     DEF WakeInv, Synced, DesiredMask, Armed, CommonFlags, RequestBit
<1> QED  BY <1>1, <1>3 DEF WakeInv, BatchOK, ErrorLeaves, NoLostWakeup

(* Tasks that read, write, close and open; peers that raise conditions.    *)
LEMMA IoWake ==
    ASSUME TypeInv, WakeInv, TaskIo
    PROVE  WakeInv'
<1> USE DEF loopVars, waiterVars, flagVars, localVars, TypeInv
<1>0. /\ UNCHANGED <<handle, registered_mask, pc, loop_error>>
      /\ batch = {} /\ batch' = {}
  BY DEF TaskIo, WakeInv, BatchOK
<1>1. BatchOK' /\ ErrorLeaves'
  BY <1>0 DEF WakeInv, BatchOK, ErrorLeaves
<1>2. PICK fd \in Fd : (\E c \in {"in", "out"} : Consume(fd, c))
                          \/ Close(fd) \/ Open(fd)
  BY DEF TaskIo
<1>3. /\ \A x \in Fd : interest'[x] = interest[x] \/ interest'[x] = {}
      /\ \A x \in Fd : interest'[x] # {} /\ x \in open => x \in open'
      /\ \A x \in Fd : level'[x] \subseteq level[x]
      /\ \A x \in Fd : interest'[x] # {} /\ x \in rdlist => x \in rdlist'
  <2>0. KernelTypeOK
    BY DEF TypeOK
  <2>1. CASE \E c \in {"in", "out"} : Consume(fd, c)
    BY <2>0, <2>1 DEF Consume, KernelTypeOK
  <2>2. CASE Close(fd)
    BY <2>0, <2>2 DEF Close, KernelTypeOK
  <2>3. CASE Open(fd)
    BY <2>0, <2>3 DEF Open, KernelTypeOK
  <2> QED  BY <1>2, <2>1, <2>2, <2>3
<1>4. Synced'
  BY <1>0, <1>3, MaskPrime DEF WakeInv, Synced
<1>5. NoLostWakeup'
  BY <1>0, <1>3 DEF WakeInv, NoLostWakeup
<1> QED  BY <1>1, <1>4, <1>5 DEF WakeInv

(* A condition raised on a descriptor puts it on the kernel's ready list,  *)
(* which keeps WakeInv.                                                    *)
LEMMA EnvironmentWake ==
    ASSUME TypeInv, WakeInv, Environment
    PROVE  WakeInv'
<1> USE DEF loopVars, waiterVars, flagVars, localVars, TypeInv
<1>0. UNCHANGED <<handle, registered_mask, pc, loop_error, batch>>
  BY DEF Environment
<1>1. PICK fd \in Fd, c \in Conds : Raise(fd, c)
  BY DEF Environment
<1>2. /\ UNCHANGED <<open, interest>>
      /\ \A x \in Fd : x \in rdlist => x \in rdlist'
      /\ \A x \in Fd : level'[x] = IF x = fd THEN level[x] \cup {c} ELSE level[x]
      /\ c \in interest[fd] => fd \in rdlist'
  BY <1>1 DEF Raise, TypeOK, KernelTypeOK
<1>3. BatchOK' /\ ErrorLeaves'
  BY <1>0, <1>2 DEF WakeInv, BatchOK, ErrorLeaves
<1>4. Synced'
  BY <1>0, <1>2
     DEF WakeInv, Synced, DesiredMask, Armed, CommonFlags, RequestBit
<1>5. ASSUME NEW x \in Fd, NEW d \in Dir, handle[<<x, d>>] # Null,
             interest[x] # {}, level'[x] \cap ReadyMask(d) # {}
      PROVE  x \in rdlist' \/ \E e \in batch : /\ e.fd = x
                                               /\ e.events \cap ReadyMask(d) # {}
  <2>1. CASE level[x] \cap ReadyMask(d) # {}
    BY <1>2, <1>5, <2>1 DEF WakeInv, NoLostWakeup
  <2>2. CASE level[x] \cap ReadyMask(d) = {}
    <3>1. x = fd /\ c \in ReadyMask(d)
      BY <1>2, <1>5, <2>2
    <3>2. ReadyMask(d) \subseteq DesiredMask(x, handle)
      BY <1>5, MaskCovers DEF Armed
    <3> QED  BY <1>2, <1>5, <3>1, <3>2 DEF WakeInv, Synced
  <2> QED  BY <2>1, <2>2
<1>6. NoLostWakeup'
  BY <1>0, <1>2, <1>5 DEF NoLostWakeup
<1> QED  BY <1>3, <1>4, <1>6 DEF WakeInv

(* reactor::wait turns the ready list into events of the batch.            *)
LEMMA WaitWake ==
    ASSUME TypeInv, WakeInv, WaitReturn
    PROVE  WakeInv'
<1> USE DEF loopVars, waiterVars, flagVars, TypeInv
<1>0. /\ UNCHANGED <<open, level, interest, handle, registered_mask, loop_error>>
      /\ pc' = "dispatch" /\ batch = {} /\ loop_error = Null
  BY DEF WaitReturn, WakeInv, BatchOK, ErrorLeaves
<1>1. PICK S \in SUBSET AllReady : /\ batch' = {ReadyEvent(fd) : fd \in S}
                                   /\ rdlist' = Reportable \ S
  BY DEF WaitReturn
<1>2. \A e \in batch' : e.fd \in S /\ e = ReadyEvent(e.fd)
  BY SMTT(30), <1>1 DEF ReadyEvent
<1>3. BatchOK'
  <2>1. \A e, f \in batch' : e.fd = f.fd => e = f
    BY <1>2
  <2>2. \A e \in batch' : e.fd \in Fd => interest[e.fd] # {}
    BY <1>2, WakeFdAssumption DEF AllReady, Reportable, Reported
  <2> QED  BY <1>0, <2>1, <2>2 DEF BatchOK
<1>4. Synced' /\ ErrorLeaves'
  BY <1>0
     DEF WakeInv, Synced, ErrorLeaves, DesiredMask, Armed, CommonFlags,
              RequestBit
<1>5. ASSUME NEW x \in Fd, NEW d \in Dir, handle[<<x, d>>] # Null,
             interest[x] # {}, level[x] \cap ReadyMask(d) # {}
      PROVE  x \in rdlist' \/ \E e \in batch' : /\ e.fd = x
                                                /\ e.events \cap ReadyMask(d) # {}
  <2>1. x \in rdlist
    BY <1>0, <1>5 DEF WakeInv, NoLostWakeup
  <2>2. ReadyMask(d) \subseteq interest[x]
    BY SMTT(30), <1>5, MaskCovers DEF Armed, WakeInv, Synced
  <2>3. Reported(x) \cap ReadyMask(d) # {}
    BY <1>5, <2>2 DEF Reported
  <2>4. x \in Reportable
    BY <2>1, <2>3 DEF Reportable
  <2>5. CASE x \in S
    <3>1. ReadyEvent(x) \in batch'
      BY <1>1, <2>5
    <3>2. ReadyEvent(x).fd = x /\ ReadyEvent(x).events = Reported(x)
      BY WakeFdAssumption DEF ReadyEvent
    <3> QED  BY <2>3, <3>1, <3>2
  <2>6. CASE x \notin S
    BY <1>1, <2>4, <2>6
  <2> QED  BY <2>5, <2>6
<1>6. NoLostWakeup'
  BY <1>0, <1>5 DEF NoLostWakeup
<1> QED  BY <1>3, <1>4, <1>6 DEF WakeInv

-----------------------------------------------------------------------------
(* Construction, and destruction followed by construction.                 *)
LEMMA WakeInit ==
    Init => WakeInv
BY DEF Init, KernelInit, WakeInv, Synced, BatchOK, ErrorLeaves, NoLostWakeup,
       Waiter

(* Every step of the loop, of its tasks and of the outside keeps WakeInv.  *)
LEMMA WakeNext ==
    TypeInv /\ WakeInv /\ [Next]_vars => WakeInv'
<1> SUFFICES ASSUME TypeInv, WakeInv, [Next]_vars
             PROVE  WakeInv'
  OBVIOUS
<1> USE DEF waiterVars, loopVars, flagVars, localVars, dataVars, vars
<1>1. CASE RunStart \/ LoopTop \/ ExpireStart
  BY <1>1, WakeFrame
     DEF RunStart, LoopTop, ExpireStart, WakeInv, BatchOK, ErrorLeaves
<1>2. ASSUME NEW fd \in Fd, ScanSlot(fd)
      PROVE  WakeInv'
  BY <1>2, ScanWake
<1>3. CASE ScanEnd \/ LoopCheck \/ DrainPop
  BY <1>3, WakeFrame
     DEF ScanEnd, LoopCheck, DrainPop, WakeInv, BatchOK, ErrorLeaves
<1>4. CASE AfterResume \/ LoopExit \/ Block
  BY <1>4, WakeFrame
     DEF AfterResume, LoopExit, Block, WakeInv, BatchOK, ErrorLeaves
<1>5. CASE WaitReturn
  BY <1>5, WaitWake
<1>6. CASE WaitTimeout \/ WaitInterrupted
  BY <1>6, WakeFrame
     DEF WaitTimeout, WaitInterrupted, WaitEmpty, WakeInv, BatchOK, ErrorLeaves
<1>7. ASSUME NEW e \in batch, DispatchWake(e)
      PROVE  WakeInv'
  <2>1. /\ UNCHANGED <<handle, registered_mask, kernelVars, loop_error>>
        /\ batch' = batch \ {e} /\ e.fd \notin Fd
        /\ pc' = IF batch' = {} THEN "top" ELSE "dispatch"
        /\ loop_error = Null
    BY <1>7, WakeFdAssumption DEF DispatchWake, WakeInv, ErrorLeaves
  <2>2. Synced'
    BY <2>1, MaskPrime DEF WakeInv, Synced, kernelVars
  <2>3. BatchOK'
    BY <2>1 DEF WakeInv, BatchOK, kernelVars
  <2>4. ErrorLeaves'
    BY <2>1 DEF ErrorLeaves
  <2>5. NoLostWakeup'
    BY <2>1 DEF WakeInv, NoLostWakeup, kernelVars
  <2> QED  BY <2>2, <2>3, <2>4, <2>5 DEF WakeInv
<1>8. ASSUME NEW e \in batch, DispatchFd(e)
      PROVE  WakeInv'
  BY <1>8, DispatchWakeInv
<1>9. ASSUME NEW c \in Handle, Spawn(c) \/ TaskAwait(c)
      PROVE  WakeInv'
  BY <1>9, WakeFrame
     DEF Spawn, TaskAwait, Suspended, WakeInv, BatchOK, ErrorLeaves
<1>10. CASE TaskFinish \/ ArmElapsed
  BY <1>10, WakeFrame
     DEF TaskFinish, ArmElapsed, Suspended, WakeInv, BatchOK, ErrorLeaves
<1>11. ASSUME NEW fd \in Fd, NEW d \in Dir,
              NEW t \in (Timeout \ {0}) \cup {Null},
              Arm(fd, d, t) \/ ArmFails(fd, d, t)
       PROVE  WakeInv'
  BY <1>11, ArmWake, ArmFailsWake
<1>12. CASE TaskStop \/ StopStore \/ StopWrite \/ Tick \/ UNCHANGED vars
  BY <1>12, WakeFrame
     DEF TaskStop, StopStore, StopWrite, Tick, WakeInv, BatchOK, ErrorLeaves
<1>13. CASE TaskIo \/ Environment
  BY <1>13, IoWake, EnvironmentWake
<1>14. CASE Recreate
  BY <1>14
     DEF Recreate, WakeInv, Synced, BatchOK, ErrorLeaves, NoLostWakeup, Waiter
<1> QED  BY <1>1, <1>2, <1>3, <1>4, <1>5, <1>6, <1>7, <1>8,
            <1>9, <1>10,
            <1>11, <1>12, <1>13, <1>14
         DEF Next, LoopStep, Suspend, RunOn

(* Arming an edge-triggered descriptor after a would-block loses no edge,  *)
(* whatever the peers, other tasks, timeouts and the batch limit do.       *)
THEOREM NoLostWakeupHolds == Spec => []NoLostWakeup
<1>1. WakeInv => NoLostWakeup
  BY DEF WakeInv
<1> QED  BY <1>1, TypeInit, TypeNext, WakeInit, WakeNext, PTL DEF Spec

-----------------------------------------------------------------------------
(* The clock reading of a scan is not in the future.                       *)
ScanClock == pc = "scan" => scan.now <= now

(* The time process_expired_waiters has read is never ahead of the clock.  *)
LEMMA ClockNext ==
    TypeInv /\ ScanClock /\ [Next]_vars => ScanClock'
<1> SUFFICES ASSUME TypeInv, ScanClock, [Next]_vars
             PROVE  ScanClock'
  OBVIOUS
<1> USE DEF outsideVars, localVars, dataVars, vars, ScanClock, TypeInv, TypeOK
<1>1. CASE ExpireStart
  BY SMTT(30), <1>1 DEF ExpireStart
<1>2. ASSUME NEW fd \in Fd, ScanSlot(fd)
      PROVE  ScanClock'
  <2>1. now' = now /\ pc = "scan"
    BY <1>2 DEF ScanSlot
  <2>2. pc' = "scan" => loop_error' = Null
    BY <1>2 DEF ScanSlot
  <2>3. scan \in [todo : SUBSET Fd, now : Nat, next : Nat \cup {Null}]
    OBVIOUS
  <2>4. loop_error' = Null => scan'.now = scan.now
    BY <1>2, <2>3 DEF ScanSlot
  <2> QED  BY <2>1, <2>2, <2>4
<1>3. CASE \/ RunStart \/ LoopTop \/ LoopCheck \/ ScanEnd \/ DrainPop
           \/ AfterResume \/ LoopExit \/ Block \/ WaitReturn
           \/ WaitTimeout \/ WaitInterrupted
  BY <1>3
     DEF RunStart, LoopTop, LoopCheck, ScanEnd, DrainPop, AfterResume, LoopExit,
         Block, WaitReturn, WaitTimeout, WaitInterrupted, WaitEmpty
<1>4. ASSUME NEW e \in batch, DispatchWake(e) \/ DispatchFd(e)
      PROVE  ScanClock'
  BY <1>4 DEF DispatchWake, DispatchFd
<1>5. CASE (\E c \in Handle : Spawn(c)) \/ Suspend \/ RunOn
  BY <1>5
     DEF Spawn, Suspend, RunOn, TaskAwait, TaskFinish, ArmElapsed, Arm,
              ArmFails, TaskStop, TaskIo, Suspended
<1>6. CASE StopStore \/ StopWrite \/ Environment \/ Recreate \/ UNCHANGED vars
  BY <1>6 DEF StopStore, StopWrite, Environment, Recreate
<1>7. CASE Tick
  <2>1. now \in Nat /\ now' \in Nat /\ now' >= now
    BY <1>7, TickClock
  <2>2. UNCHANGED <<pc, scan>>
    BY <1>7 DEF Tick
  <2>3. scan.now \in Nat
    OBVIOUS
  <2> HIDE DEF TypeOK, TypeInv
  <2> QED  BY SMTT(30), <2>1, <2>2, <2>3
<1> QED  BY <1>1, <1>2, <1>3, <1>4, <1>5, <1>6, <1>7
            DEF Next, LoopStep

(* Only the owner of a woken side gets a result.                           *)
LEMMA WakeCaused ==
    ASSUME TypeOK, TaskInv, NEW fd \in Fd, NEW S \in SUBSET Armed(fd, handle),
           NEW r, WakeSides(fd, S, r), NEW w \in Waiter, handle[w] # Null,
           wait_results'[handle[w]] # wait_results[handle[w]]
    PROVE  w[1] = fd /\ w[2] \in S /\ wait_results'[handle[w]] = r
<1>1. handle[w] \in Handle
  BY ParkedWaits
<1>2. PICK d \in S : handle[<<fd, d>>] = handle[w]
  BY <1>1 DEF WakeSides
<1>3. <<fd, d>> \in Waiter
  BY DEF Waiter, Armed
<1>4. w = <<fd, d>>
  BY <1>2, <1>3 DEF TaskInv, SuspendedOnce
<1> QED  BY <1>1, <1>2, <1>4 DEF WakeSides

(* Every step that sets a wait result has a cause: a deadline that has     *)
(* passed or an event in the batch.                                        *)
LEMMA CausedNext ==
    ASSUME TypeInv, TaskInv, ScanClock, [Next]_vars, NEW w \in Waiter
    PROVE  CausedWake(w, handle[w])
<1> SUFFICES ASSUME handle[w] # Null,
                    wait_results'[handle[w]] # wait_results[handle[w]]
             PROVE  \/ /\ wait_results'[handle[w]] = "ETIMEDOUT"
                       /\ deadline[w] # Null /\ now >= deadline[w]
                    \/ /\ wait_results'[handle[w]] = "ok"
                       /\ \E e \in batch : /\ e.fd = w[1]
                                           /\ e.events \cap ReadyMask(w[2]) # {}
  BY DEF CausedWake
<1> USE DEF TypeInv
<1>0. PICK h \in Handle : /\ h = handle[w] /\ frame[h] = "waiting"
                          /\ wait_results[h] = Null
                          /\ ~In(ready_queue, h)
  BY ParkedWaits
<1>w. w = <<w[1], w[2]>> /\ w[1] \in Fd /\ w[2] \in Dir
  BY SMTT(30) DEF Waiter
<1>1. ASSUME NEW fd \in Fd, ScanSlot(fd)
      PROVE  /\ wait_results'[handle[w]] = "ETIMEDOUT"
             /\ deadline[w] # Null /\ now >= deadline[w]
  <2>1. Expired(fd) \in SUBSET Armed(fd, handle)
    BY DEF Expired
  <2>2. /\ w[1] = fd /\ w[2] \in Expired(fd)
        /\ wait_results'[handle[w]] = "ETIMEDOUT"
    BY <1>1, <2>1, WakeCaused DEF ScanSlot
  <2>3. deadline[w] # Null /\ scan.now >= deadline[w]
    BY <1>w, <2>2 DEF Expired
  <2>4. deadline[w] \in Nat /\ scan.now \in Nat /\ now \in Nat
    BY <2>3 DEF TypeOK
  <2> QED  BY SMTT(30), <1>1, <2>2, <2>3, <2>4 DEF ScanSlot, ScanClock
<1>2. ASSUME NEW e \in batch, DispatchFd(e)
      PROVE  /\ wait_results'[handle[w]] = "ok"
             /\ e.fd = w[1] /\ e.events \cap ReadyMask(w[2]) # {}
  <2>1. Fired(e) \in SUBSET Armed(e.fd, handle) /\ e.fd \in Fd
    BY <1>2 DEF Fired, DispatchFd
  <2>2. /\ w[1] = e.fd /\ w[2] \in Fired(e)
        /\ wait_results'[handle[w]] = "ok"
    BY <1>2, <2>1, WakeCaused DEF DispatchFd
  <2> QED  BY <2>2 DEF Fired
<1>3. ~DrainPop
  <2>1. ASSUME DrainPop
        PROVE  wait_results'[h] = wait_results[h]
    <3>1. In(ready_queue, Head(ready_queue))
      BY <2>1, TailOnce, SuspendedOnceParts DEF DrainPop, TypeOK, TaskInv
    <3>2. h # Head(ready_queue)
      BY <1>0, <3>1
    <3> QED  BY <2>1, <3>2 DEF DrainPop, TypeOK
  <2> QED  BY <1>0, <2>1
<1>4. ~ArmElapsed
  <2>1. ASSUME ArmElapsed
        PROVE  wait_results'[h] = wait_results[h]
    <3>1. h # current
      BY <1>0 DEF TaskInv, RunningOne
    <3> QED  BY <2>1, <3>1 DEF ArmElapsed, TypeOK
  <2> QED  BY <1>0, <2>1
<1>5. ~Recreate
  BY <1>0 DEF Recreate
<1>6. wait_results' # wait_results
  OBVIOUS
<1> USE DEF queueVars, loopVars, dataVars, vars
<1>7. ~(\/ RunStart \/ LoopTop \/ ExpireStart \/ ScanEnd \/ LoopCheck
        \/ AfterResume \/ Block \/ WaitReturn \/ WaitTimeout \/ LoopExit
        \/ WaitInterrupted)
  BY <1>6
     DEF RunStart, LoopTop, ExpireStart, ScanEnd, LoopCheck, AfterResume,
              Block, WaitReturn, WaitTimeout, WaitInterrupted, WaitEmpty, LoopExit
<1>8. ~(\E e \in batch : DispatchWake(e)) /\ ~(\E c \in Handle : Spawn(c))
  BY <1>6 DEF DispatchWake, Spawn
<1>9. ~Suspend /\ ~RunOn
  BY <1>4, <1>6
     DEF Suspend, RunOn, TaskAwait, TaskFinish, Arm, ArmFails,
                    TaskStop, TaskIo
<1>10. ~(StopStore \/ StopWrite \/ Environment \/ Tick \/ UNCHANGED vars)
  BY <1>6 DEF StopStore, StopWrite, Environment, Tick
<1>11. (\E fd \in Fd : ScanSlot(fd)) \/ (\E e \in batch : DispatchFd(e))
  BY <1>3, <1>5, <1>7, <1>8, <1>9, <1>10 DEF Next, LoopStep
<1> QED  BY <1>1, <1>2, <1>11

(* No wait is reported timed out before its deadline, none ready without   *)
(* an event of its own side.                                               *)
THEOREM WakeHasCauseHolds == Spec => WakeHasCause
<1>1. Init => ScanClock
  BY DEF Init, ScanClock
<1>2. TypeInv /\ TaskInv /\ ScanClock /\ [Next]_vars
         => [\A w \in Waiter : CausedWake(w, handle[w])]_vars
  BY CausedNext
<1> QED  BY <1>1, <1>2, TypeInit, TypeNext, TaskInvInit, TaskNext, ClockNext,
            PTL DEF Spec, WakeHasCause

-----------------------------------------------------------------------------
(* The refinement: every step is a step of Scheduler or a stutter.         *)
SchedStep == [Sched!SchedNext]_(Sched!schedVars)

(* A step that leaves coroutines, queue, waits and results alone maps to a *)
(* stuttering step.                                                        *)
LEMMA Stutters ==
    ASSUME UNCHANGED <<frame, continuation, ready_queue, handle, wait_results>>
    PROVE  SchedStep
<1>1. UNCHANGED <<LifeMap, ParkedSet>>
  BY DEF LifeMap, ParkedSet, Parked
<1> QED  BY <1>1 DEF SchedStep, Sched!schedVars

(* The life of each coroutine, seen through the mapping.                   *)
LEMMA LifeOf ==
    ASSUME NEW h \in Handle
    PROVE  LifeMap[h] = Life(frame[h]) /\ LifeMap'[h] = Life(frame'[h])
BY DEF LifeMap

(* spawn maps to Start.                                                    *)
LEMMA SpawnMaps ==
    ASSUME TypeInv, TaskInv, NEW c \in Handle, Spawn(c)
    PROVE  Sched!Start(c)
<1>1. /\ frame[c] = "free"
      /\ \A x \in Handle : frame'[x] = IF x = c THEN "initial" ELSE frame[x]
      /\ UNCHANGED <<continuation, wait_results, handle>>
      /\ ready_queue' = Append(ready_queue, c)
  BY DEF Spawn, CreateRoot, TypeInv, TypeOK, TaskTypeOK, waiterVars
<1>2. LifeMap[c] = "none"
  BY <1>1, LifeOf DEF Life
<1>3. LifeMap' = [LifeMap EXCEPT ![c] = "suspended"]
  BY <1>1 DEF LifeMap, Life
<1>4. ParkedSet' = ParkedSet
  BY <1>1 DEF ParkedSet, Parked
<1> QED  BY <1>1, <1>2, <1>3, <1>4 DEF Sched!Start

(* Resuming the head of ready_queue_ maps to Run.                          *)
LEMMA DrainMaps ==
    ASSUME TypeInv, TaskInv, DrainPop
    PROVE  \E h \in Handle : Sched!Run(h)
<1>0. PICK h0 \in Handle : h0 = Head(ready_queue)
  BY SMTT(30) DEF DrainPop, TypeInv, TypeOK
<1>1. /\ In(ready_queue, h0)
      /\ ~In(Tail(ready_queue), h0)
      /\ ready_queue # <<>> /\ ready_queue' = Tail(ready_queue)
  BY <1>0, TailOnce, SuspendedOnceParts DEF DrainPop, TypeInv, TypeOK, TaskInv
<1>2. Runnable(h0) /\ ~WaitOpen(h0) /\ frame[h0] # "final" /\ ~Parked(h0)
  BY <1>1, SuspendedOnceParts
     DEF TaskInv, QueuedRunnable, ParkedOpen, Runnable, WaitOpen
<1>3. ASSUME NEW x \in Handle, continuation[x] = h0
      PROVE  frame[x] = "final"
  <2>1. frame[h0] = "awaiting"
    BY <1>3, NullNotHandle DEF TaskInv, FramesOwned
  <2>2. PICK c \in Handle : continuation[c] = h0 /\ frame[c] = "final"
    BY <1>2, <2>1 DEF Runnable, ChildDone
  <2>3. x = c
    BY SMTT(30), <1>3, <2>2, NullNotHandle DEF TaskInv, FramesOwned
  <2> QED  BY <2>2, <2>3
<1>4. /\ current = Null
      /\ \A x \in Handle : frame'[x] = IF x = h0 THEN "running"
                                       ELSE IF continuation[x] = h0 THEN "free"
                                       ELSE frame[x]
      /\ continuation' = [x \in Handle |-> IF continuation[x] = h0 THEN Null
                                           ELSE continuation[x]]
      /\ UNCHANGED handle
  BY <1>0, <1>2 DEF DrainPop, ResumeFrame, TypeInv, CurrentOK, waiterVars
<1>5. wait_results' = [wait_results EXCEPT ![h0] = Null]
  BY <1>0, <1>2 DEF DrainPop, TypeInv, TypeOK, TaskInv, ResultsWait
<1>6. \A h \in Handle : LifeMap[h] # "running"
  BY <1>4, LifeOf, NullNotHandle DEF Life, TaskInv, RunningOne
<1>7. /\ LifeMap[h0] = "suspended" /\ h0 \notin ParkedSet
      /\ \A c \in Handle : continuation[c] = h0 => LifeMap[c] = "done"
  <2>1. frame[h0] \in {"initial", "waiting", "awaiting"}
    BY <1>2 DEF Runnable
  <2> QED  BY <1>2, <1>3, <2>1, LifeOf DEF Life, ParkedSet
<1>8. LifeMap' = [c \in Handle |-> IF c = h0 THEN "running"
                                   ELSE IF continuation[c] = h0 THEN "none"
                                   ELSE LifeMap[c]]
  BY <1>4 DEF LifeMap, Life
<1>9. ParkedSet' = ParkedSet
  BY <1>4 DEF ParkedSet, Parked
<1>10. \A i \in 1..Len(ready_queue') : ready_queue'[i] # h0
  BY <1>1 DEF In
<1> QED  BY <1>0, <1>1, <1>4, <1>5, <1>6, <1>7, <1>8, <1>9, <1>10
         DEF Sched!Run, Sched!Idle

(* co_await of a task maps to Await.                                       *)
LEMMA AwaitMaps ==
    ASSUME TypeInv, TaskInv, NEW c \in Handle, TaskAwait(c)
    PROVE  \E h \in Handle : Sched!Await(h, c)
<1>0. PICK p \in Handle : p = current /\ frame[p] = "running"
  BY DEF TaskAwait, TypeInv, TypeOK, CurrentOK, TaskInv, RunningOne
<1>1. /\ frame[c] = "free" /\ p # c
      /\ \A x \in Handle : frame'[x] = IF x = p THEN "awaiting"
                                       ELSE IF x = c THEN "initial"
                                       ELSE frame[x]
      /\ continuation' = [continuation EXCEPT ![c] = p]
      /\ UNCHANGED <<wait_results, handle>>
      /\ ready_queue' = Append(ready_queue, c)
  BY <1>0 DEF TaskAwait, AwaitChild, TypeInv, TypeOK, TaskTypeOK, waiterVars
<1>2. LifeMap[p] = "running" /\ LifeMap[c] = "none"
  BY <1>0, <1>1, LifeOf DEF Life
<1>3. LifeMap' = [LifeMap EXCEPT ![p] = "suspended", ![c] = "suspended"]
  BY <1>1 DEF LifeMap, Life
<1>4. ParkedSet' = ParkedSet
  BY <1>1 DEF ParkedSet, Parked
<1> QED  BY <1>1, <1>2, <1>3, <1>4 DEF Sched!Await

(* final_suspend maps to Finish: the parent was not queued yet.            *)
LEMMA FinishMaps ==
    ASSUME TypeInv, TaskInv, TaskFinish
    PROVE  \E h \in Handle : Sched!Finish(h)
<1>0. PICK p \in Handle : p = current /\ frame[p] = "running"
  BY DEF TaskFinish, TypeInv, TypeOK, CurrentOK, TaskInv, RunningOne
<1>1. /\ \A x \in Handle : frame'[x] = IF x = p THEN "final" ELSE frame[x]
      /\ UNCHANGED <<continuation, wait_results, handle>>
      /\ ready_queue' = IF continuation[p] = Null THEN ready_queue
                        ELSE Append(ready_queue, continuation[p])
  BY <1>0 DEF TaskFinish, FinishFrame, TypeInv, TypeOK, TaskTypeOK, waiterVars
<1>2. LifeMap[p] = "running"
  BY <1>0, LifeOf DEF Life
<1>3. LifeMap' = [LifeMap EXCEPT ![p] = "done"]
  BY <1>1 DEF LifeMap, Life
<1>4. ParkedSet' = ParkedSet
  BY <1>1 DEF ParkedSet, Parked
<1>5. continuation[p] # Null => ~In(ready_queue, continuation[p])
  <2> SUFFICES ASSUME continuation[p] # Null
               PROVE  ~In(ready_queue, continuation[p])
    OBVIOUS
  <2>1. continuation[p] \in Handle /\ frame[continuation[p]] = "awaiting"
    BY OwnedParts
  <2>2. ~ChildDone(continuation[p])
    BY SMTT(30), <1>0, <2>1, OwnedParts DEF ChildDone
  <2>3. ~Runnable(continuation[p])
    BY <2>1, <2>2 DEF Runnable
  <2> QED  BY <2>1, <2>3, SuspendedOnceParts DEF TaskInv, QueuedRunnable
<1> QED  BY <1>1, <1>2, <1>3, <1>4, <1>5
         DEF Sched!Finish, Sched!Queued, In

(* A wait that is over before it begins maps to Elapse.                    *)
LEMMA ElapsedMaps ==
    ASSUME TypeInv, TaskInv, ArmElapsed
    PROVE  \E h \in Handle : Sched!Elapse(h, "ETIMEDOUT")
<1>0. PICK p \in Handle : p = current /\ frame[p] = "running"
  BY DEF ArmElapsed, TypeInv, TypeOK, CurrentOK, TaskInv, RunningOne
<1>1. /\ \A x \in Handle : frame'[x] = IF x = p THEN "waiting" ELSE frame[x]
      /\ wait_results' = [wait_results EXCEPT ![p] = "ETIMEDOUT"]
      /\ UNCHANGED <<continuation, handle>>
      /\ ready_queue' = Append(ready_queue, p)
  BY <1>0
     DEF ArmElapsed, SuspendFrame, TypeInv, TypeOK, TaskTypeOK, waiterVars
<1>2. LifeMap[p] = "running" /\ wait_results[p] = Null
  BY <1>0, LifeOf, NotHeld DEF Life
<1>3. LifeMap' = [LifeMap EXCEPT ![p] = "suspended"]
  BY <1>1 DEF LifeMap, Life
<1>4. ParkedSet' = ParkedSet
  BY <1>1 DEF ParkedSet, Parked
<1> QED  BY <1>1, <1>2, <1>3, <1>4 DEF Sched!Elapse

(* An accepted registration maps to Park.                                  *)
LEMMA ArmMaps ==
    ASSUME TypeInv, TaskInv, NEW fd \in Fd, NEW d \in Dir, NEW t, Arm(fd, d, t)
    PROVE  \E h \in Handle : Sched!Park(h)
<1>0. PICK p \in Handle : p = current /\ frame[p] = "running"
  BY DEF Arm, TypeInv, TypeOK, CurrentOK, TaskInv, RunningOne
<1>1. /\ \A x \in Handle : frame'[x] = IF x = p THEN "waiting" ELSE frame[x]
      /\ UNCHANGED <<continuation, wait_results, ready_queue>>
      /\ <<fd, d>> \in Waiter /\ handle[<<fd, d>>] = Null
      /\ \A w \in Waiter : handle'[w] = IF w = <<fd, d>> THEN p ELSE handle[w]
  BY <1>0
     DEF Arm, ArmedHandles, SuspendFrame, TypeInv, TypeOK, TaskTypeOK, Waiter,
         queueVars
<1>2. LifeMap[p] = "running" /\ wait_results[p] = Null
  BY <1>0, LifeOf, NotHeld DEF Life
<1>3. LifeMap' = [LifeMap EXCEPT ![p] = "suspended"]
  BY <1>1 DEF LifeMap, Life
<1>4. ParkedSet' = ParkedSet \cup {p}
  BY <1>1, NullNotHandle DEF ParkedSet, Parked
<1> QED  BY <1>1, <1>2, <1>3, <1>4 DEF Sched!Park

(* Waking both sides, one side or none of a slot maps to Wake of two       *)
(* coroutines, of one, or to a stuttering step.                            *)
LEMMA WakeMaps ==
    ASSUME TypeInv, TaskInv, NEW fd \in Fd, NEW S \in SUBSET Armed(fd, handle),
           NEW r \in Outcome, WakeSides(fd, S, r), UNCHANGED taskVars
    PROVE  SchedStep
<1> DEFINE g == handle[<<fd, "readable">>]
           k == handle[<<fd, "writable">>]
<1>1. LifeMap' = LifeMap /\ continuation' = continuation
  BY DEF taskVars, LifeMap
<1>2. \A d \in S : /\ d \in Dir /\ <<fd, d>> \in Waiter
                   /\ handle[<<fd, d>>] \in Handle
                   /\ ~In(ready_queue, handle[<<fd, d>>])
                   /\ handle[<<fd, d>>] \in ParkedSet
  BY ParkedWaits DEF Waiter, Armed, ParkedSet, Parked, TypeInv
<1>3. \A v, w \in Waiter : handle[v] = handle[w] /\ handle[v] # Null => v = w
  BY SuspendedOnceParts DEF TaskInv, ParkedOnce
<1>4. \A h \in Handle : wait_results'[h] =
           IF \E d \in S : handle[<<fd, d>>] = h THEN r ELSE wait_results[h]
  BY DEF WakeSides
<1>5. wait_results' = [h \in Handle |->
           IF \E d \in S : handle[<<fd, d>>] = h THEN r ELSE wait_results[h]]
  BY DEF WakeSides
<1>6. \A w \in Waiter : handle'[w] =
           IF w[1] = fd /\ w[2] \in S THEN Null ELSE handle[w]
  BY DEF WakeSides, Cleared
<1>7. ParkedSet' = {h \in ParkedSet : \A d \in S : handle[<<fd, d>>] # h}
  <2>1. ASSUME NEW h \in Handle, NEW w \in Waiter, handle'[w] = h
        PROVE  handle[w] = h /\ \A d \in S : handle[<<fd, d>>] # h
    <3>1. handle[w] = h /\ ~(w[1] = fd /\ w[2] \in S)
      BY <1>6, <2>1, NullNotHandle
    <3>2. ASSUME NEW d \in S, handle[<<fd, d>>] = h
          PROVE  FALSE
      <4>1. w = <<fd, d>>
        BY <1>2, <1>3, <2>1, <3>1, <3>2, NullNotHandle
      <4> QED  BY <3>1, <4>1
    <3> QED  BY <3>1, <3>2
  <2>2. ASSUME NEW h \in Handle, NEW w \in Waiter, handle[w] = h,
               \A d \in S : handle[<<fd, d>>] # h
        PROVE  handle'[w] = h
    <3>1. w = <<w[1], w[2]>>
      BY SMTT(30) DEF Waiter
    <3> QED  BY <1>6, <2>2, <3>1
  <2> QED  BY <2>1, <2>2 DEF ParkedSet, Parked
<1>8. ready_queue' = (ready_queue \o Side(fd, S, "readable"))
                        \o Side(fd, S, "writable")
  BY DEF WakeSides
<1>9. ready_queue \in Seq(Handle)
  BY DEF TypeInv, TypeOK
<1>10. CASE S = {}
  <2>1. ready_queue' = ready_queue
    BY SMTT(30), <1>8, <1>9, <1>10 DEF Side
  <2>2. ParkedSet' = ParkedSet
    BY <1>7, <1>10
  <2>3. wait_results' = wait_results
    BY <1>5, <1>10 DEF TypeInv, TypeOK
  <2> QED  BY <1>1, <2>1, <2>2, <2>3 DEF SchedStep, Sched!schedVars
<1>11. ASSUME NEW h \in Handle, NEW d, S = {d}, h = handle[<<fd, d>>],
              ready_queue' = ready_queue \o <<h>>
       PROVE  SchedStep
  <2>1. Sched!Wake(<<h>>, r)
    <3>1. h \in ParkedSet /\ ~In(ready_queue, h)
      BY <1>2, <1>11
    <3>2. ParkedSet' = {x \in ParkedSet : \A i \in 1..Len(<<h>>) : <<h>>[i] # x}
      BY SMTT(30), <1>7, <1>11
    <3>3. wait_results' = [x \in Handle |->
              IF \E i \in 1..Len(<<h>>) : <<h>>[i] = x THEN r
              ELSE wait_results[x]]
      BY SMTT(30), <1>5, <1>11
    <3> QED  BY SMTT(30), <1>1, <1>11, <3>1, <3>2, <3>3
             DEF Sched!Wake, Sched!Queued, In
  <2> QED  BY <2>1 DEF SchedStep, Sched!SchedNext
<1>12. CASE S = {"readable"}
  <2>1. g \in Handle /\ ready_queue' = ready_queue \o <<g>>
    BY SMTT(30), <1>2, <1>8, <1>9, <1>12 DEF Side
  <2> QED  BY <1>11, <1>12, <2>1
<1>13. CASE S = {"writable"}
  <2>1. k \in Handle /\ ready_queue' = ready_queue \o <<k>>
    BY SMTT(30), <1>2, <1>8, <1>9, <1>13 DEF Side
  <2> QED  BY <1>11, <1>13, <2>1
<1>14. CASE S = {"readable", "writable"}
  <2>1. /\ g \in Handle /\ k \in Handle
        /\ ready_queue' = ready_queue \o <<g, k>>
    BY SMTT(30), <1>2, <1>8, <1>9, <1>14 DEF Side
  <2>2. g # k
    BY <1>2, <1>3, <1>14, NullNotHandle
  <2>3. Sched!Wake(<<g, k>>, r)
    <3>1. /\ g \in ParkedSet /\ ~In(ready_queue, g)
          /\ k \in ParkedSet /\ ~In(ready_queue, k)
      BY <1>2, <1>14
    <3>2. ParkedSet' =
             {x \in ParkedSet : \A i \in 1..Len(<<g, k>>) : <<g, k>>[i] # x}
      BY SMTT(30), <1>7, <1>14
    <3>3. wait_results' = [x \in Handle |->
              IF \E i \in 1..Len(<<g, k>>) : <<g, k>>[i] = x THEN r
              ELSE wait_results[x]]
      BY SMTT(30), <1>5, <1>14
    <3>4. Len(<<g, k>>) = 2 /\ <<g, k>>[1] = g /\ <<g, k>>[2] = k
      OBVIOUS
    <3>5. \A i \in 1..2 : /\ <<g, k>>[i] \in ParkedSet
                           /\ ~In(ready_queue, <<g, k>>[i])
      BY SMTT(30), <3>1, <3>4
    <3>6. \A i, j \in 1..2 : <<g, k>>[i] = <<g, k>>[j] => i = j
      BY SMTT(30), <2>2, <3>4
    <3> HIDE DEF g, k
    <3> QED  BY <1>1, <2>1, <3>2, <3>3, <3>4, <3>5, <3>6
             DEF Sched!Wake, Sched!Queued, In
  <2> QED  BY <2>1, <2>3 DEF SchedStep, Sched!SchedNext
<1> QED  BY <1>2, <1>10, <1>12, <1>13, <1>14 DEF Dir

(* cleanup_completed_roots maps to Reap: the roots that are done are the   *)
(* done coroutines nobody awaits.                                          *)
LEMMA CleanupMaps ==
    ASSUME TypeInv, TaskInv, CleanupCompletedRoots,
           UNCHANGED <<queueVars, handle>>
    PROVE  Sched!Reap
<1>1. /\ \A x \in Handle : frame'[x] = IF x \in DoneRoots THEN "free"
                                       ELSE frame[x]
      /\ continuation' = [x \in Handle |-> IF x \in DoneRoots THEN Null
                                           ELSE continuation[x]]
  BY DEF CleanupCompletedRoots, DestroyFrames
<1>2. \A x \in Handle : x \in DoneRoots
                           <=> frame[x] = "final" /\ continuation[x] = Null
  BY DEF DoneRoots, TaskInv, FramesOwned
<1>3. continuation' = continuation
  BY <1>1, <1>2 DEF TypeInv, TypeOK, TaskTypeOK
<1>4. LifeMap' = [x \in Handle |->
          IF LifeMap[x] = "done" /\ continuation[x] = Null THEN "none"
          ELSE LifeMap[x]]
  BY <1>1, <1>2 DEF LifeMap, Life
<1>5. ParkedSet' = ParkedSet
  BY DEF ParkedSet, Parked
<1> QED  BY <1>3, <1>4, <1>5 DEF Sched!Reap, queueVars

(* Destroying the loop maps to Discard.                                    *)
LEMMA RecreateMaps ==
    ASSUME TypeInv, TaskInv, Recreate
    PROVE  Sched!Discard
<1>1. current = Null
  BY DEF Recreate, TypeInv, CurrentOK
<1>2. \A h \in Handle : LifeMap[h] # "running"
  BY <1>1, LifeOf, NullNotHandle DEF Life, TaskInv, RunningOne
<1>3. /\ \A x \in Handle : frame'[x] = "free"
      /\ continuation' = [x \in Handle |-> Null]
      /\ ready_queue' = <<>>
      /\ wait_results' = [h \in Handle |-> Null]
      /\ \A w \in Waiter : handle'[w] = Null
  BY DEF Recreate, DestroyFrames
<1>4. LifeMap' = [h \in Handle |-> "none"]
  BY <1>3 DEF LifeMap, Life
<1>5. ParkedSet' = {}
  BY <1>3, NullNotHandle DEF ParkedSet, Parked
<1> QED  BY <1>2, <1>3, <1>4, <1>5 DEF Sched!Discard, Sched!Idle

(* A fresh loop maps to the initial state of Scheduler.                    *)
LEMMA InitMaps == Init => Sched!SchedInit
<1> SUFFICES ASSUME Init PROVE Sched!SchedInit
  OBVIOUS
<1>1. LifeMap = [h \in Handle |-> "none"]
  BY DEF Init, TaskInit, LifeMap, Life
<1>2. ParkedSet = {}
  BY NullNotHandle DEF Init, ParkedSet, Parked
<1> QED  BY <1>1, <1>2 DEF Init, TaskInit, Sched!SchedInit

-----------------------------------------------------------------------------
(* Every step of the loop maps to a step of Scheduler or to none.          *)
LEMMA StepMaps == TypeInv /\ TaskInv /\ [Next]_vars => SchedStep
<1> SUFFICES ASSUME TypeInv, TaskInv, [Next]_vars
             PROVE  SchedStep
  OBVIOUS
<1> USE DEF taskVars, queueVars, rootVars, waiterVars, loopVars, dataVars, vars
<1>1. CASE RunStart \/ LoopTop \/ ExpireStart \/ ScanEnd \/ LoopCheck \/ Block
  BY <1>1, Stutters
     DEF RunStart, LoopTop, ExpireStart, ScanEnd, LoopCheck, Block
<1>2. ASSUME NEW fd \in Fd, ScanSlot(fd)
      PROVE  SchedStep
  <2>1. Expired(fd) \in SUBSET Armed(fd, handle) /\ "ETIMEDOUT" \in Outcome
    BY DEF Expired, Outcome
  <2> QED  BY <1>2, <2>1, WakeMaps DEF ScanSlot
<1>3. CASE DrainPop
  BY <1>3, DrainMaps DEF SchedStep, Sched!SchedNext
<1>4. CASE AfterResume \/ LoopExit
  BY <1>4, CleanupMaps DEF AfterResume, LoopExit, SchedStep, Sched!SchedNext
<1>5. CASE WaitReturn \/ WaitTimeout \/ WaitInterrupted
  BY <1>5, Stutters DEF WaitReturn, WaitTimeout, WaitInterrupted, WaitEmpty
<1>6. ASSUME NEW e \in batch, DispatchWake(e)
      PROVE  SchedStep
  BY <1>6, Stutters DEF DispatchWake
<1>7. ASSUME NEW e \in batch, DispatchFd(e)
      PROVE  SchedStep
  <2>1. e.fd \in Fd /\ Fired(e) \in SUBSET Armed(e.fd, handle) /\ "ok" \in Outcome
    BY <1>7 DEF DispatchFd, Fired, Outcome
  <2> QED  BY <1>7, <2>1, WakeMaps DEF DispatchFd
<1>8. ASSUME NEW c \in Handle, Spawn(c)
      PROVE  SchedStep
  BY <1>8, SpawnMaps DEF SchedStep, Sched!SchedNext
<1>9. ASSUME NEW c \in Handle, TaskAwait(c)
      PROVE  SchedStep
  BY <1>9, AwaitMaps DEF SchedStep, Sched!SchedNext
<1>10. CASE TaskFinish
  BY <1>10, FinishMaps DEF SchedStep, Sched!SchedNext
<1>11. CASE ArmElapsed
  BY <1>11, ElapsedMaps DEF SchedStep, Sched!SchedNext, Outcome
<1>12. CASE Recreate
  BY <1>12, RecreateMaps DEF SchedStep, Sched!SchedNext
<1>13. ASSUME NEW fd \in Fd, NEW d \in Dir,
              NEW t \in (Timeout \ {0}) \cup {Null}, Arm(fd, d, t)
       PROVE  SchedStep
  BY <1>13, ArmMaps DEF SchedStep, Sched!SchedNext
<1>14. ASSUME NEW fd \in Fd, NEW d \in Dir,
              NEW t \in (Timeout \ {0}) \cup {Null}, ArmFails(fd, d, t)
       PROVE  SchedStep
  BY <1>14, Stutters DEF ArmFails
<1>15. CASE TaskStop \/ TaskIo \/ StopStore \/ StopWrite \/ Environment \/ Tick
  BY <1>15, Stutters
     DEF TaskStop, TaskIo, StopStore, StopWrite, Environment, Tick
<1>16. CASE UNCHANGED vars
  BY <1>16, Stutters
<1> QED  BY <1>1, <1>2, <1>3, <1>4, <1>5, <1>6, <1>7, <1>8, <1>9, <1>10,
            <1>11, <1>12, <1>13, <1>14, <1>15, <1>16
         DEF Next, LoopStep, Suspend, RunOn

(* event_loop implements Scheduler, for any number of coroutines and       *)
(* descriptors.                                                            *)
THEOREM LoopImplementsScheduler == Spec => ImplementsScheduler
<1>1. TypeInv /\ TaskInv /\ [Next]_vars => [Sched!SchedNext]_(Sched!schedVars)
  BY StepMaps DEF SchedStep
<1> QED  BY <1>1, InitMaps, TypeInit, TypeNext, TaskInvInit, TaskNext, PTL
         DEF Spec, ImplementsScheduler, Sched!SchedSpec
=============================================================================
