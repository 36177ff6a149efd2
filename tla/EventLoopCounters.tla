-------------------------- MODULE EventLoopCounters --------------------------
(***************************************************************************)
(* How long the loop of EventLoop may sleep, what its counters count, and, *)
(* from the counters, how run() ends.                                      *)
(* The first two invariants are inductive on TypeInv and TaskInv: that of  *)
(* the deadline index given two facts on the timed registrations, which    *)
(* that of the counters implies.                                           *)
(***************************************************************************)
EXTENDS EventLoopProofs, FiniteSetTheorems

(* Most leaves are first-order; those on arithmetic or sequences name SMT. *)
USE ZenonT(30)

(* A deadline belongs to a registration.                                   *)
DeadlineArmed == \A w \in Waiter : deadline[w] # Null => handle[w] # Null

(* A count of zero means that no registration has a deadline.              *)
TimedCounted ==
    timed_waiter_count = 0 => \A w \in Waiter : deadline[w] = Null

-----------------------------------------------------------------------------
(* n is no later than any registered deadline among the slots outside X.   *)
Bounds(n, X) ==
    \A w \in Waiter : deadline[w] # Null /\ w[1] \notin X
                         => n # Null /\ n <= deadline[w]

(* next_deadline_ bounds every deadline even while it is being recomputed; *)
(* the scan's own minimum bounds those of the slots already visited.       *)
IndexInv ==
    /\ Bounds(next_deadline, {})
    /\ pc = "scan" => Bounds(scan.next, scan.todo)
    /\ NoOversleep

(* The truncated and clamped timeout does not reach past the deadline.     *)
LEMMA TimeoutBound ==
    ASSUME TypeOK, NEW d \in Nat
    PROVE  LET u == now + TimeoutMs(d) * TicksPerMs IN u <= d \/ u <= now
<1> DEFINE ms == (d - now) \div TicksPerMs
<1>1. CASE d <= now
  BY SMTT(30), <1>1, TimeAssumption DEF TimeoutMs, TypeOK
<1>2. CASE d > now
  <2>1. d - now \in Nat /\ now \in Nat /\ TicksPerMs \in Nat \ {0}
    BY SMTT(30), <1>2, TimeAssumption DEF TypeOK
  <2>2. ms \in Nat /\ ms * TicksPerMs <= d - now
    BY <2>1, DivNat
  <2>3. TimeoutMs(d) \in Nat /\ TimeoutMs(d) <= ms
    BY SMTT(30), <1>2, <2>1, <2>2, TimeAssumption DEF TimeoutMs
  <2> HIDE DEF ms
  <2>4. TimeoutMs(d) * TicksPerMs <= ms * TicksPerMs
    BY <2>1, <2>2, <2>3, TimesMonotone
  <2>5. TimeoutMs(d) * TicksPerMs \in Nat /\ ms * TicksPerMs \in Nat
    BY <2>1, <2>2, <2>3, TimesNat
  <2> QED  BY SMTT(30), <2>1, <2>2, <2>4, <2>5
<1> QED  BY SMTT(30), <1>1, <1>2 DEF TypeOK

(* Steps that add no deadline and leave next_deadline_ alone, to a place   *)
(* that neither scans nor sleeps.                                          *)
LEMMA IndexFewer ==
    ASSUME IndexInv, \A w \in Waiter : deadline'[w] \in {Null, deadline[w]},
           next_deadline' = next_deadline, pc' \notin {"scan", "waiting"}
    PROVE  IndexInv'
BY DEF IndexInv, Bounds, NoOversleep

(* Waking a set of sides adds no deadline.                                 *)
LEMMA WakeFewer ==
    ASSUME NEW fd, NEW S, NEW r, WakeSides(fd, S, r)
    PROVE  \A w \in Waiter : deadline'[w] \in {Null, deadline[w]}
BY DEF WakeSides, Cleared

(* Steps of other threads, the network and the clock.                      *)
LEMMA IndexOutside ==
    ASSUME TypeOK, IndexInv, now' \in Nat, now' >= now,
           UNCHANGED <<deadline, next_deadline, pc, scan, wait_until>>
    PROVE  IndexInv'
<1>1. Bounds(next_deadline, {})' /\ (pc' = "scan" => Bounds(scan.next, scan.todo)')
  BY DEF IndexInv, Bounds
<1>2. NoOversleep'
  <2>1. ASSUME pc = "waiting", NEW w \in Waiter, deadline[w] # Null
        PROVE  /\ wait_until # Null
               /\ wait_until <= deadline[w] \/ wait_until <= now'
    <3>1. /\ wait_until # Null
          /\ wait_until <= deadline[w] \/ wait_until <= now
      BY <2>1 DEF IndexInv, NoOversleep
    <3>2. wait_until \in Nat /\ now \in Nat
      BY <3>1 DEF TypeOK
    <3> QED  BY SMTT(30), <3>1, <3>2
  <2> QED  BY <2>1 DEF NoOversleep
<1> QED  BY <1>1, <1>2 DEF IndexInv

(* process_expired_waiters starts with every deadline still to be visited. *)
LEMMA ExpireIndex ==
    ASSUME TypeInv, DeadlineArmed, TimedCounted, IndexInv, ExpireStart
    PROVE  IndexInv'
<1> USE DEF waiterVars
<1>1. CASE timed_waiter_count = 0
  <2>1. \A w \in Waiter : deadline'[w] = Null
    BY <1>1 DEF ExpireStart, TimedCounted
  <2> QED  BY <1>1, <2>1 DEF ExpireStart, IndexInv, Bounds, NoOversleep
<1>2. CASE timed_waiter_count # 0
  <2>1. \A w \in Waiter : deadline[w] # Null => w[1] \in Slots
    <3>1. ASSUME NEW w \in Waiter, deadline[w] # Null
          PROVE  w[1] \in Slots
      <4>1. w = <<w[1], w[2]>> /\ w[1] \in Fd /\ w[2] \in Dir
        BY SMTT(30) DEF Waiter
      <4>2. handle[<<w[1], w[2]>>] # Null
        BY <3>1, <4>1 DEF DeadlineArmed
      <4> QED  BY <4>1, <4>2 DEF Slots, Armed
    <3> QED  BY <3>1
  <2>2. /\ UNCHANGED <<deadline, next_deadline>>
        /\ pc' # "waiting"
        /\ pc' = "scan" => scan'.todo = Slots
    BY SMTT(30), <1>2 DEF ExpireStart, indexVars
  <2> QED  BY <2>1, <2>2 DEF IndexInv, Bounds, NoOversleep
<1> QED  BY <1>1, <1>2

(* One slot of the scan: what stays registered in it enters the minimum.   *)
LEMMA NextOfBound ==
    ASSUME NEW fd \in Fd, NEW d \in Dir, NEW n \in Nat \cup {Null},
           deadline' \in [Waiter -> Nat \cup {Null}]
    PROVE  /\ NextOf(fd, n, d) \in Nat \cup {Null}
           /\ n # Null => NextOf(fd, n, d) # Null /\ NextOf(fd, n, d) <= n
           /\ deadline'[<<fd, d>>] # Null
                 => /\ NextOf(fd, n, d) # Null
                    /\ NextOf(fd, n, d) <= deadline'[<<fd, d>>]
<1>1. deadline'[<<fd, d>>] \in Nat \cup {Null}
  BY DEF Waiter
<1> QED  BY SMTT(30), <1>1, TimeAssumption DEF NextOf, Earlier

(* One slot of the loop in process_expired_waiters keeps the deadline      *)
(* index a lower bound.                                                    *)
LEMMA ScanIndex ==
    ASSUME TypeInv, TypeInv', IndexInv, NEW fd \in Fd, ScanSlot(fd)
    PROVE  IndexInv'
<1>1. \A w \in Waiter : deadline'[w] \in {Null, deadline[w]}
  BY WakeFewer DEF ScanSlot
<1>2. next_deadline' = next_deadline /\ pc' # "waiting" /\ pc = "scan"
  BY DEF ScanSlot, indexVars
<1>3. CASE pc' # "scan"
  BY <1>1, <1>2, <1>3, IndexFewer
<1>4. CASE pc' = "scan"
  <2> DEFINE n0 == scan.next
             n1 == NextOf(fd, n0, "readable")
             n2 == NextOf(fd, n1, "writable")
  <2>1. scan'.next = n2 /\ scan'.todo = scan.todo \ {fd}
    BY <1>4 DEF ScanSlot, TypeInv, TypeOK
  <2>2. /\ deadline' \in [Waiter -> Nat \cup {Null}]
        /\ n0 \in Nat \cup {Null}
        /\ "readable" \in Dir /\ "writable" \in Dir
    BY DEF TypeInv, TypeOK, Dir
  <2>3. /\ n1 \in Nat \cup {Null}
        /\ n0 # Null => n1 # Null /\ n1 <= n0
        /\ deadline'[<<fd, "readable">>] # Null
              => n1 # Null /\ n1 <= deadline'[<<fd, "readable">>]
    BY <2>2, NextOfBound
  <2> HIDE DEF n1
  <2>4. /\ n2 \in Nat \cup {Null}
        /\ n1 # Null => n2 # Null /\ n2 <= n1
        /\ deadline'[<<fd, "writable">>] # Null
              => n2 # Null /\ n2 <= deadline'[<<fd, "writable">>]
    BY <2>2, <2>3, NextOfBound
  <2> HIDE DEF n2, n0
  <2>5. ASSUME NEW w \in Waiter, deadline'[w] # Null, w[1] \notin scan'.todo
        PROVE  n2 # Null /\ n2 <= deadline'[w]
    <3>0. deadline'[w] \in Nat /\ w = <<w[1], w[2]>> /\ w[2] \in Dir
      BY SMTT(30), <2>2, <2>5 DEF Waiter
    <3>1. CASE w[1] = fd /\ w[2] = "writable"
      BY <2>4, <2>5, <3>0, <3>1
    <3>2. CASE w[1] = fd /\ w[2] = "readable"
      BY SMTT(30), <2>2, <2>3, <2>4, <2>5, <3>0, <3>2, TimeAssumption
    <3>3. CASE w[1] # fd
      <4>1. w[1] \notin scan.todo /\ deadline[w] = deadline'[w]
        BY <1>1, <2>1, <2>5, <3>3
      <4>2. n0 # Null /\ n0 <= deadline'[w]
        BY <1>2, <2>5, <4>1 DEF n0, IndexInv, Bounds
      <4> QED  BY SMTT(30), <2>2, <2>3, <2>4, <3>0, <4>2, TimeAssumption
    <3> QED  BY <3>0, <3>1, <3>2, <3>3 DEF Dir
  <2>6. Bounds(scan.next, scan.todo)'
    BY <2>1, <2>5 DEF Bounds
  <2>7. Bounds(next_deadline, {})'
    BY <1>1, <1>2 DEF IndexInv, Bounds
  <2> QED  BY <1>2, <2>6, <2>7 DEF IndexInv, NoOversleep
<1> QED  BY <1>3, <1>4

(* Blocking: the sleep ends by next_deadline_, which bounds them all.      *)
LEMMA BlockIndex ==
    ASSUME TypeInv, IndexInv, Block
    PROVE  IndexInv'
<1> USE DEF loopVars, waiterVars, indexVars, outsideVars
<1>1. UNCHANGED <<deadline, next_deadline, now>> /\ pc' # "scan"
  BY DEF Block
<1>2. NoOversleep'
  <2>1. ASSUME pc' = "waiting", NEW w \in Waiter, deadline[w] # Null
        PROVE  /\ wait_until' # Null
               /\ wait_until' <= deadline[w] \/ wait_until' <= now
    <3> DEFINE u == now + TimeoutMs(next_deadline) * TicksPerMs
    <3>1. next_deadline # Null /\ next_deadline <= deadline[w]
      BY <2>1 DEF IndexInv, Bounds
    <3>2. next_deadline \in Nat /\ deadline[w] \in Nat /\ now \in Nat
      BY <2>1, <3>1 DEF TypeInv, TypeOK
    <3>3. u \in Nat /\ (u <= next_deadline \/ u <= now)
      BY <3>2, TimeoutBound, TimeoutType DEF TypeInv
    <3>4. wait_until' = u
      BY <2>1, <3>1 DEF Block
    <3> HIDE DEF u
    <3> QED  BY SMTT(30), <3>1, <3>2, <3>3, <3>4, TimeAssumption
  <2> QED  BY <1>1, <2>1 DEF NoOversleep
<1> QED  BY <1>1, <1>2 DEF IndexInv, Bounds

(* Arming lowers next_deadline_ to the new deadline where needed.          *)
LEMMA ArmIndexInv ==
    ASSUME TypeInv, IndexInv, NEW fd \in Fd, NEW d \in Dir,
           NEW t \in (Timeout \ {0}) \cup {Null},
           Arm(fd, d, t) \/ ArmFails(fd, d, t)
    PROVE  IndexInv'
<1> DEFINE nd == NewDeadline(t)
<1>1. nd \in Nat \cup {Null} /\ (nd = Null <=> t = Null)
  BY NewDeadlineType DEF TypeInv
<1>2. /\ next_deadline' = IF t = Null THEN next_deadline
                          ELSE Earlier(next_deadline, nd)
      /\ \A w \in Waiter : deadline'[w] \in {deadline[w], nd}
      /\ pc' \notin {"scan", "waiting"}
  BY DEF Arm, ArmFails, ArmIndex, Suspended, TypeInv, TypeOK
<1> HIDE DEF nd
<1>3. ASSUME NEW w \in Waiter, deadline'[w] # Null
      PROVE  next_deadline' # Null /\ next_deadline' <= deadline'[w]
  <2>1. /\ deadline[w] \in Nat \cup {Null} /\ next_deadline \in Nat \cup {Null}
        /\ deadline[w] # Null
              => next_deadline # Null /\ next_deadline <= deadline[w]
    BY DEF TypeInv, TypeOK, IndexInv, Bounds
  <2> QED  BY SMTT(30), <1>1, <1>2, <1>3, <2>1, TimeAssumption DEF Earlier
<1> QED  BY <1>2, <1>3 DEF IndexInv, Bounds, NoOversleep

(* The deadline index of a newly constructed loop is a lower bound.        *)
LEMMA IndexInit == Init => IndexInv
BY DEF Init, IndexInv, Bounds, NoOversleep

(* Every step keeps the deadline index and the sleep bounded.              *)
LEMMA IndexNext ==
    /\ TypeInv /\ TypeInv' /\ DeadlineArmed /\ TimedCounted /\ IndexInv
    /\ [Next]_vars
    => IndexInv'
<1> SUFFICES ASSUME TypeInv, TypeInv', DeadlineArmed, TimedCounted, IndexInv,
                    [Next]_vars
             PROVE  IndexInv'
  OBVIOUS
<1> USE DEF waiterVars, indexVars, loopVars, localVars, outsideVars, dataVars,
            vars
<1>1. CASE RunStart \/ LoopTop \/ LoopCheck
  BY <1>1, IndexFewer DEF RunStart, LoopTop, LoopCheck
<1>2. CASE ExpireStart
  BY <1>2, ExpireIndex
<1>3. ASSUME NEW fd \in Fd, ScanSlot(fd)
      PROVE  IndexInv'
  BY <1>3, ScanIndex
<1>4. CASE ScanEnd
  BY <1>4 DEF ScanEnd, IndexInv, Bounds, NoOversleep
<1>5. CASE DrainPop
  BY <1>5, IndexFewer DEF DrainPop
<1>6. CASE AfterResume \/ LoopExit
  BY <1>6, IndexFewer DEF AfterResume, LoopExit
<1>7. CASE Block
  BY <1>7, BlockIndex
<1>8. CASE WaitReturn \/ WaitTimeout \/ WaitInterrupted
  BY <1>8, IndexFewer DEF WaitReturn, WaitTimeout, WaitInterrupted, WaitEmpty
<1>9. ASSUME NEW e \in batch, DispatchWake(e)
      PROVE  IndexInv'
  BY <1>9, IndexFewer DEF DispatchWake
<1>10. ASSUME NEW e \in batch, DispatchFd(e)
       PROVE  IndexInv'
  BY <1>10, IndexFewer, WakeFewer DEF DispatchFd
<1>11. ASSUME NEW c \in Handle, Spawn(c) \/ TaskAwait(c)
       PROVE  IndexInv'
  BY <1>11, IndexFewer DEF Spawn, TaskAwait, Suspended
<1>12. CASE TaskFinish \/ ArmElapsed
  BY <1>12, IndexFewer DEF TaskFinish, ArmElapsed, Suspended
<1>13. ASSUME NEW fd \in Fd, NEW d \in Dir,
              NEW t \in (Timeout \ {0}) \cup {Null},
              Arm(fd, d, t) \/ ArmFails(fd, d, t)
       PROVE  IndexInv'
  BY <1>13, ArmIndexInv
<1>14. CASE TaskStop \/ TaskIo
  BY <1>14, IndexFewer DEF TaskStop, TaskIo
<1>15. CASE StopStore \/ StopWrite \/ Environment \/ Tick \/ UNCHANGED vars
  <2>1. UNCHANGED <<deadline, next_deadline, pc, scan, wait_until>>
    BY <1>15 DEF StopStore, StopWrite, Environment, Tick
  <2>2. UNCHANGED now \/ Tick
    BY <1>15 DEF StopStore, StopWrite, Environment
  <2>3. now \in Nat /\ (UNCHANGED now => now' >= now)
    <3>1. now \in Nat
      BY DEF TypeInv, TypeOK
    <3> QED  BY SMTT(30), <3>1
  <2>4. now' \in Nat /\ now' >= now
    BY <2>2, <2>3, TickClock DEF TypeInv
  <2> QED  BY <2>1, <2>3, <2>4, IndexOutside DEF TypeInv
<1>16. CASE Recreate
  BY <1>16 DEF Recreate, IndexInv, Bounds, NoOversleep
<1> QED  BY <1>1, <1>2, <1>3, <1>4, <1>5, <1>6, <1>7, <1>8,
            <1>9, <1>10,
            <1>11, <1>12, <1>13, <1>14, <1>15, <1>16
         DEF Next, LoopStep, Suspend, RunOn

-----------------------------------------------------------------------------
(* The counters are exact, and a deadline belongs to a registration.       *)
CountInv == CountersExact /\ DeadlineArmed

-----------------------------------------------------------------------------
(* The number of sides woken is the size of their set.                     *)
LEMMA SidesFinite ==
    ASSUME NEW S \in SUBSET Dir
    PROVE  IsFiniteSet(S) /\ SideCount(S) = Cardinality(S)
<1>1. /\ IsFiniteSet({"readable"}) /\ Cardinality({"readable"}) = 1
      /\ IsFiniteSet({"writable"}) /\ Cardinality({"writable"}) = 1
      /\ IsFiniteSet({}) /\ Cardinality({}) = 0
  BY FS_Singleton, FS_EmptySet
<1>2. CASE "readable" \in S /\ "writable" \in S
  <2>1. S = {"readable"} \cup {"writable"}
    BY <1>2 DEF Dir
  <2>2. "writable" \notin {"readable"}
    OBVIOUS
  <2>3. /\ IsFiniteSet(S)
        /\ Cardinality(S) = Cardinality({"readable"}) + 1
    BY <1>1, <2>1, <2>2, FS_AddElement
  <2> QED  BY <1>1, <1>2, <2>3 DEF SideCount
<1>3. CASE "readable" \in S /\ "writable" \notin S
  <2>1. S = {"readable"}
    BY <1>3 DEF Dir
  <2> QED  BY SMTT(30), <1>1, <1>3, <2>1 DEF SideCount
<1>4. CASE "readable" \notin S /\ "writable" \in S
  <2>1. S = {"writable"}
    BY <1>4 DEF Dir
  <2> QED  BY SMTT(30), <1>1, <1>4, <2>1 DEF SideCount
<1>5. CASE "readable" \notin S /\ "writable" \notin S
  <2>1. S = {}
    BY <1>5 DEF Dir
  <2> QED  BY SMTT(30), <1>1, <1>5, <2>1 DEF SideCount
<1> QED  BY <1>2, <1>3, <1>4, <1>5

(* There are finitely many registrations, two for each descriptor.         *)
LEMMA WaiterFinite == IsFiniteSet(Waiter)
<1>1. IsFiniteSet(Dir)
  BY SidesFinite
<1> QED  BY <1>1, FdFinite, FS_Product DEF Waiter

(* Taking the sides S of one slot out of a set of registrations.           *)
LEMMA RemoveSides ==
    ASSUME NEW T \in SUBSET Waiter, NEW fd, NEW S \in SUBSET Dir,
           {fd} \X S \subseteq T
    PROVE  /\ Cardinality(T) \in Nat /\ SideCount(S) \in Nat
           /\ Cardinality(T) >= SideCount(S)
           /\ Cardinality(T \ ({fd} \X S)) = Cardinality(T) - SideCount(S)
<1>1. IsFiniteSet(T) /\ Cardinality(T) \in Nat
  BY WaiterFinite, FS_Subset, FS_CardinalityType
<1>2. IsFiniteSet(S) /\ SideCount(S) = Cardinality(S) /\ SideCount(S) \in Nat
  BY SidesFinite, FS_CardinalityType
<1>3. IsFiniteSet({fd}) /\ Cardinality({fd}) = 1
  BY FS_Singleton
<1>4. Cardinality({fd} \X S) = Cardinality(S)
  BY SMTT(30), <1>2, <1>3, FS_Product
<1>5. Cardinality({fd} \X S) <= Cardinality(T)
  BY <1>1, FS_Subset
<1>6. T \cap ({fd} \X S) = {fd} \X S
  OBVIOUS
<1>7. Cardinality(T \ ({fd} \X S))
         = Cardinality(T) - Cardinality(T \cap ({fd} \X S))
  BY <1>1, FS_Difference
<1> QED  BY <1>1, <1>2, <1>4, <1>5, <1>6, <1>7

(* Waking decrements pending_waiter_count_ and timed_waiter_count_ by what *)
(* it takes out of the slot.                                               *)
LEMMA WakeCount ==
    ASSUME TypeOK, CountInv, NEW fd \in Fd,
           NEW S \in SUBSET Armed(fd, handle), NEW r, WakeSides(fd, S, r),
           UNCHANGED <<frame, rootVars>>
    PROVE  CountInv'
<1> DEFINE H == {w \in Waiter : handle[w] # Null}
           D == {w \in Waiter : deadline[w] # Null}
           Td == Timed(fd, S)
<1>1. /\ S \in SUBSET Dir /\ Td \in SUBSET Dir
      /\ {fd} \X S \subseteq H /\ {fd} \X Td \subseteq D
  <2>1. S \in SUBSET Dir /\ Td \in SUBSET S
    BY DEF Armed, Timed
  <2>2. \A d \in S : <<fd, d>> \in H
    BY <2>1 DEF Armed, Waiter
  <2>3. \A d \in Td : <<fd, d>> \in D
    BY <2>1 DEF Timed, Waiter
  <2> QED  BY SMTT(30), <2>1, <2>2, <2>3
<1>2. \A w \in Waiter : /\ w = <<w[1], w[2]>> /\ w[1] \in Fd /\ w[2] \in Dir
                        /\ w \in {fd} \X S <=> w[1] = fd /\ w[2] \in S
                        /\ w \in {fd} \X Td <=> w \in {fd} \X S /\ w \in D
  BY SMTT(30) DEF Waiter, Timed
<1>3. \A w \in Waiter :
         /\ handle'[w] = IF w \in {fd} \X S THEN Null ELSE handle[w]
         /\ deadline'[w] = IF w \in {fd} \X S THEN Null ELSE deadline[w]
  BY <1>2 DEF WakeSides, Cleared
<1>4. /\ {w \in Waiter : handle'[w] # Null} = H \ ({fd} \X S)
      /\ {w \in Waiter : deadline'[w] # Null} = D \ ({fd} \X Td)
  BY SMTT(30), <1>2, <1>3
<1>5. pending_waiter_count = Cardinality(H) /\ timed_waiter_count = Cardinality(D)
  BY DEF CountInv, CountersExact
<1>6. H \in SUBSET Waiter /\ D \in SUBSET Waiter
  OBVIOUS
<1>7. /\ pending_waiter_count' = Decrement(pending_waiter_count, SideCount(S))
      /\ timed_waiter_count' = Decrement(timed_waiter_count, SideCount(Td))
  BY DEF WakeSides
<1> HIDE DEF H, D, Td
<1>8. pending_waiter_count' = Cardinality(H \ ({fd} \X S))
  BY <1>1, <1>5, <1>6, <1>7, RemoveSides DEF Decrement
<1>9. timed_waiter_count' = Cardinality(D \ ({fd} \X Td))
  BY <1>1, <1>5, <1>6, <1>7, RemoveSides DEF Decrement
<1>10. DeadlineArmed'
  BY <1>3 DEF CountInv, DeadlineArmed
<1>11. CountersExact'
  BY <1>4, <1>8, <1>9 DEF CountInv, CountersExact, rootVars
<1> QED  BY <1>10, <1>11 DEF CountInv

(* The unfinished roots are finitely many.                                 *)
LEMMA UnfinishedFinite ==
    ASSUME TypeOK, NEW T \in SUBSET root_tasks
    PROVE  IsFiniteSet(T) /\ Cardinality(T) \in Nat
<1>1. T \in SUBSET Handle
  BY DEF TypeOK
<1> QED  BY <1>1, HandleFinite, FS_Subset, FS_CardinalityType

(* Steps that change neither registrations, roots nor counters, and change *)
(* no frame to or from final.                                              *)
LEMMA CountFrame ==
    ASSUME CountInv, UNCHANGED <<handle, deadline, pending_waiter_count,
                                 timed_waiter_count, active_task_count>>,
           {h \in root_tasks' : frame'[h] # "final"}
              = {h \in root_tasks : frame[h] # "final"}
    PROVE  CountInv'
BY DEF CountInv, CountersExact, DeadlineArmed

(* A new root is unfinished; a finished one is not counted.                *)
LEMMA SpawnCount ==
    ASSUME TypeInv, TaskInv, CountInv, NEW c \in Handle, Spawn(c)
    PROVE  CountInv'
<1> DEFINE A == {h \in root_tasks : frame[h] # "final"}
<1>1. c \notin root_tasks /\ root_tasks \in SUBSET Handle
  BY DEF Spawn, CreateRoot, TaskInv, FramesOwned, TypeInv, TypeOK
<1>2. {h \in root_tasks' : frame'[h] # "final"} = A \cup {c}
  BY <1>1 DEF Spawn, CreateRoot, TypeInv, TypeOK, TaskTypeOK
<1>3. IsFiniteSet(A) /\ c \notin A
  BY <1>1, UnfinishedFinite DEF TypeInv
<1>4. Cardinality(A \cup {c}) = Cardinality(A) + 1
  BY <1>3, FS_AddElement
<1>5. active_task_count' = Cardinality(A) + 1
  BY DEF Spawn, CountInv, CountersExact
<1> QED  BY <1>2, <1>4, <1>5
         DEF Spawn, waiterVars, CountInv, CountersExact, DeadlineArmed

(* Completing a coroutine keeps the counters exact: active_task_count_     *)
(* drops for a root only.                                                  *)
LEMMA FinishCount ==
    ASSUME TypeInv, TaskInv, CountInv, TaskFinish
    PROVE  CountInv'
<1> DEFINE A == {h \in root_tasks : frame[h] # "final"}
<1>0. PICK p \in Handle : p = current /\ frame[p] = "running"
  BY DEF TaskFinish, TypeInv, TypeOK, CurrentOK, TaskInv, RunningOne
<1>1. {h \in root_tasks' : frame'[h] # "final"} = A \ {p}
  BY <1>0 DEF TaskFinish, FinishFrame, TypeInv, TypeOK, TaskTypeOK
<1>2. IsFiniteSet(A) /\ Cardinality(A) \in Nat
  BY UnfinishedFinite DEF TypeInv
<1>3. p \in A <=> p \in root_tasks
  BY <1>0
<1>4. Cardinality(A \ {p}) = IF p \in A THEN Cardinality(A) - 1
                             ELSE Cardinality(A)
  BY <1>2, FS_RemoveElement
<1>5. p \in A => Cardinality(A) # 0
  BY <1>2, FS_EmptySet
<1>6. active_task_count = Cardinality(A)
  BY DEF CountInv, CountersExact
<1> HIDE DEF A
<1>7. active_task_count' = Cardinality(A \ {p})
  BY SMTT(30), <1>0, <1>2, <1>3, <1>4, <1>5, <1>6 DEF TaskFinish, Decrement
<1> QED  BY <1>1, <1>7
         DEF TaskFinish, waiterVars, CountInv, CountersExact, DeadlineArmed

(* An accepted wait is counted once, and once more if it has a deadline.   *)
LEMMA ArmCount ==
    ASSUME TypeInv, TaskInv, CountInv, NEW fd \in Fd, NEW d \in Dir,
           NEW t \in (Timeout \ {0}) \cup {Null}, Arm(fd, d, t)
    PROVE  CountInv'
<1> DEFINE H == {w \in Waiter : handle[w] # Null}
           D == {w \in Waiter : deadline[w] # Null}
           w0 == <<fd, d>>
<1>1. /\ w0 \in Waiter /\ handle[w0] = Null /\ deadline[w0] = Null
      /\ current # Null
  BY DEF Arm, Waiter, CountInv, DeadlineArmed, TypeInv, CurrentOK
<1>2. NewDeadline(t) = Null <=> t = Null
  BY NewDeadlineType, TimeAssumption DEF TypeInv
<1>3. \A w \in Waiter :
         /\ handle'[w] = IF w = w0 THEN current ELSE handle[w]
         /\ deadline'[w] = IF w = w0 THEN NewDeadline(t) ELSE deadline[w]
  BY DEF Arm, ArmedHandles, TypeInv, TypeOK
<1>4. /\ {w \in Waiter : handle'[w] # Null} = H \cup {w0}
      /\ {w \in Waiter : deadline'[w] # Null} =
            IF t = Null THEN D ELSE D \cup {w0}
  BY <1>1, <1>2, <1>3
<1>5. IsFiniteSet(H) /\ IsFiniteSet(D) /\ w0 \notin H /\ w0 \notin D
  BY <1>1, WaiterFinite, FS_Subset
<1>6. /\ Cardinality(H \cup {w0}) = Cardinality(H) + 1
      /\ Cardinality(D \cup {w0}) = Cardinality(D) + 1
      /\ Cardinality(D) \in Nat
  BY <1>5, FS_AddElement, FS_CardinalityType
<1>7. /\ pending_waiter_count' = Cardinality(H) + 1
      /\ timed_waiter_count' = Cardinality(D) + (IF t = Null THEN 0 ELSE 1)
  BY DEF Arm, CountInv, CountersExact
<1>8. {h \in root_tasks' : frame'[h] # "final"}
         = {h \in root_tasks : frame[h] # "final"}
  BY DEF Arm, SuspendFrame, rootVars, TypeInv, TypeOK, TaskTypeOK, CurrentOK,
         TaskInv, RunningOne
<1>9. DeadlineArmed'
  BY <1>1, <1>3 DEF CountInv, DeadlineArmed
<1>10. /\ pending_waiter_count' = Cardinality({w \in Waiter : handle'[w] # Null})
       /\ timed_waiter_count' = Cardinality({w \in Waiter : deadline'[w] # Null})
  <2> HIDE DEF H, D, w0
  <2>1. CASE t = Null
    <3>1. timed_waiter_count' = Cardinality(D)
      BY SMTT(30), <1>6, <1>7, <2>1
    <3> QED  BY <1>4, <1>6, <1>7, <2>1, <3>1
  <2>2. CASE t # Null
    <3>1. timed_waiter_count' = Cardinality(D) + 1
      BY <1>7, <2>2
    <3> QED  BY <1>4, <1>6, <1>7, <2>2, <3>1
  <2> QED  BY <2>1, <2>2
<1>11. active_task_count' =
          Cardinality({h \in root_tasks' : frame'[h] # "final"})
  BY <1>8 DEF Arm, rootVars, CountInv, CountersExact
<1> QED  BY <1>9, <1>10, <1>11 DEF CountInv, CountersExact

(* The counters of a new loop.                                             *)
LEMMA CountInit == Init => CountInv
<1> SUFFICES ASSUME Init
             PROVE  CountInv
  OBVIOUS
<1>1. /\ {w \in Waiter : handle[w] # Null} = {}
      /\ {w \in Waiter : deadline[w] # Null} = {}
      /\ {h \in root_tasks : frame[h] # "final"} = {}
  BY DEF Init
<1> QED  BY <1>1, FS_EmptySet
            DEF Init, CountInv, CountersExact, DeadlineArmed

(* The counters of a newly constructed loop are exact.                     *)
LEMMA RecreateCount == ASSUME Recreate
                       PROVE  CountInv'
<1>1. /\ {w \in Waiter : handle'[w] # Null} = {}
      /\ {w \in Waiter : deadline'[w] # Null} = {}
      /\ {h \in root_tasks' : frame'[h] # "final"} = {}
  BY DEF Recreate
<1> QED  BY <1>1, FS_EmptySet
            DEF Recreate, CountInv, CountersExact, DeadlineArmed

(* Every step keeps the counters exact.                                    *)
LEMMA CountNext == TypeInv /\ TaskInv /\ CountInv /\ [Next]_vars => CountInv'
<1> SUFFICES ASSUME TypeInv, TaskInv, CountInv, [Next]_vars
             PROVE  CountInv'
  OBVIOUS
<1> USE DEF taskVars, queueVars, rootVars, waiterVars, loopVars, dataVars, vars
<1>1. CASE RunStart \/ LoopTop \/ ExpireStart \/ ScanEnd \/ LoopCheck \/ Block
  BY <1>1, CountFrame
     DEF RunStart, LoopTop, ExpireStart, ScanEnd, LoopCheck, Block
<1>2. ASSUME NEW fd \in Fd, ScanSlot(fd)
      PROVE  CountInv'
  <2>1. Expired(fd) \in SUBSET Armed(fd, handle)
    BY DEF Expired
  <2> QED  BY <1>2, <2>1, WakeCount DEF ScanSlot, TypeInv
<1>3. CASE DrainPop
  <2>1. ASSUME NEW h \in root_tasks
        PROVE  frame'[h] # "final" <=> frame[h] # "final"
    BY SMTT(30), <1>3, NullNotHandle
       DEF DrainPop, ResumeFrame, TaskInv, FramesOwned, TypeInv, TypeOK
  <2> QED  BY <1>3, <2>1, CountFrame DEF DrainPop
<1>4. CASE AfterResume \/ LoopExit
  <2>1. {h \in root_tasks' : frame'[h] # "final"}
           = {h \in root_tasks : frame[h] # "final"}
    BY <1>4 DEF AfterResume, LoopExit, CleanupCompletedRoots, DestroyFrames,
                DoneRoots, TypeInv, TypeOK
  <2> QED  BY <1>4, <2>1, CountFrame DEF AfterResume, LoopExit
<1>5. CASE WaitReturn \/ WaitTimeout \/ WaitInterrupted
  BY <1>5, CountFrame DEF WaitReturn, WaitTimeout, WaitInterrupted, WaitEmpty
<1>6. ASSUME NEW e \in batch, DispatchWake(e)
      PROVE  CountInv'
  BY <1>6, CountFrame DEF DispatchWake
<1>7. ASSUME NEW e \in batch, DispatchFd(e)
      PROVE  CountInv'
  <2>1. e.fd \in Fd /\ Fired(e) \in SUBSET Armed(e.fd, handle)
    BY <1>7 DEF DispatchFd, Fired
  <2> QED  BY <1>7, <2>1, WakeCount DEF DispatchFd, TypeInv
<1>8. ASSUME NEW c \in Handle, Spawn(c)
      PROVE  CountInv'
  BY <1>8, SpawnCount
<1>9. ASSUME NEW c \in Handle, TaskAwait(c)
      PROVE  CountInv'
  <2>1. ASSUME NEW h \in root_tasks
        PROVE  frame'[h] # "final" <=> frame[h] # "final"
    BY <1>9 DEF TaskAwait, AwaitChild, TaskInv, RunningOne, CurrentOK,
                TypeInv, TypeOK, TaskTypeOK
  <2> QED  BY <1>9, <2>1, CountFrame DEF TaskAwait
<1>10. CASE TaskFinish
  BY <1>10, FinishCount
<1>11. CASE ArmElapsed
  <2>1. ASSUME NEW h \in root_tasks
        PROVE  frame'[h] # "final" <=> frame[h] # "final"
    BY <1>11 DEF ArmElapsed, SuspendFrame, TaskInv, RunningOne, CurrentOK,
                 TypeInv, TypeOK, TaskTypeOK
  <2> QED  BY <1>11, <2>1, CountFrame DEF ArmElapsed
<1>12. ASSUME NEW fd \in Fd, NEW d \in Dir,
              NEW t \in (Timeout \ {0}) \cup {Null},
              Arm(fd, d, t) \/ ArmFails(fd, d, t)
       PROVE  CountInv'
  BY <1>12, ArmCount, CountFrame DEF ArmFails
<1>13. CASE TaskStop \/ TaskIo \/ StopStore \/ StopWrite \/ Environment \/ Tick
  BY <1>13, CountFrame
     DEF TaskStop, TaskIo, StopStore, StopWrite, Environment, Tick
<1>14. CASE Recreate
  BY <1>14, RecreateCount
<1>15. CASE UNCHANGED vars
  BY <1>15, CountFrame
<1> QED  BY <1>1, <1>2, <1>3, <1>4, <1>5, <1>6, <1>7, <1>8, <1>9, <1>10,
            <1>11, <1>12, <1>13, <1>14, <1>15
         DEF Next, LoopStep, Suspend, RunOn

(* The three counters that decide whether run() polls, blocks, returns or  *)
(* reports a deadlock are exact in every reachable state.                  *)
THEOREM CountersExactHolds == Spec => []CountersExact
<1>1. CountInv => CountersExact
  BY DEF CountInv
<1> QED  BY <1>1, TypeInit, TypeNext, TaskInvInit, TaskNext, CountInit,
            CountNext, PTL DEF Spec

(* No registration has a deadline when timed_waiter_count_ is zero.        *)
LEMMA CountTimed == CountersExact => TimedCounted
<1> DEFINE D == {w \in Waiter : deadline[w] # Null}
<1> SUFFICES ASSUME CountersExact, timed_waiter_count = 0
             PROVE  \A w \in Waiter : deadline[w] = Null
  BY DEF TimedCounted
<1>1. Cardinality(D) = 0
  BY DEF CountersExact
<1>2. IsFiniteSet(D)
  BY WaiterFinite, FS_Subset
<1>3. D = {}
  BY <1>1, <1>2, FS_EmptySet
<1> QED  BY <1>3

(* While it blocks, the loop's epoll_wait timeout ends no later than any   *)
(* registered deadline, for every clock rate, timeout and clamp.           *)
THEOREM NoOversleepHolds == Spec => []NoOversleep
<1>1. IndexInv => NoOversleep
  BY DEF IndexInv
<1>2. CountInv => DeadlineArmed /\ TimedCounted
  BY CountTimed DEF CountInv
<1> QED  BY <1>1, <1>2, TypeInit, TypeNext, TaskInvInit, TaskNext, CountInit,
            CountNext, IndexInit, IndexNext, PTL DEF Spec

-----------------------------------------------------------------------------
(* How run() ends: never with EDEADLK, and without a stop request only     *)
(* when nothing is left.  The argument goes down the chain of coroutines   *)
(* that await each other: it has an end (Grounded), and what is at the end *)
(* is queued or waits for a descriptor.                                    *)

(* Every set of frames has one that no other of the set was called by.     *)
Childless(S, f) == \E h \in S : \A c \in S : f[c] # h
Grounded == \A S \in SUBSET Handle : S # {} => Childless(S, continuation)

(* A finished root is destroyed before anything else happens.              *)
RootsLive == pc # "resumed" => \A h \in root_tasks : frame[h] # "final"

BlockEmpty == pc = "block" => ready_queue = <<>>
ErrorStops == loop_error # Null => stop_requested

EndInv == /\ Grounded /\ RootsLive /\ BlockEmpty /\ ErrorStops
          /\ NoTaskLeftBehind /\ NoFalseDeadlock

-----------------------------------------------------------------------------
(* Frames that lose their continuation keep the others grounded.           *)
LEMMA GroundedFewer ==
    ASSUME Grounded,
           \A h \in Handle : continuation'[h] \in {continuation[h], Null}
    PROVE  Grounded'
<1> SUFFICES ASSUME NEW S \in SUBSET Handle, S # {}
             PROVE  \E h \in S : \A c \in S : continuation'[c] # h
  BY DEF Grounded, Childless
<1>1. PICK h \in S : \A c \in S : continuation[c] # h
  BY DEF Grounded, Childless
<1>2. h # Null
  BY NullNotHandle
<1>3. ASSUME NEW c \in S
      PROVE  continuation'[c] # h
  BY <1>1, <1>2
<1> QED  BY <1>3

(* co_await: the child is new, so nobody was called by it.                 *)
LEMMA GroundedAwait ==
    ASSUME TypeInv, TaskInv, Grounded, NEW c \in Handle, TaskAwait(c)
    PROVE  Grounded'
<1> SUFFICES ASSUME NEW S \in SUBSET Handle, S # {}
             PROVE  \E h \in S : \A x \in S : continuation'[x] # h
  BY DEF Grounded, Childless
<1>0. current \in Handle /\ frame[current] = "running" /\ frame[c] = "free"
  BY DEF TaskAwait, AwaitChild, TypeInv, TypeOK, CurrentOK, TaskInv, RunningOne
<1>1. \A x \in Handle : continuation'[x] = IF x = c THEN current
                                           ELSE continuation[x]
  BY DEF TaskAwait, AwaitChild, TypeInv, TypeOK, TaskTypeOK
<1>2. \A x \in Handle : continuation[x] # c
  BY SMTT(30), <1>0, NullNotHandle DEF TaskInv, FramesOwned
<1>3. CASE c \in S
  <2>1. \A x \in S : continuation'[x] # c
    BY <1>0, <1>1, <1>2
  <2> QED  BY <1>3, <2>1
<1>4. CASE c \notin S
  <2>1. PICK h \in S : \A x \in S : continuation[x] # h
    BY DEF Grounded, Childless
  <2>2. \A x \in S : continuation'[x] # h
    BY <1>1, <1>4, <2>1
  <2> QED  BY <2>2
<1> QED  BY <1>3, <1>4

(* The whole invariant when nothing it is about changes.                   *)
LEMMA EndFrame ==
    ASSUME EndInv, UNCHANGED <<frame, continuation, ready_queue, handle,
                               root_tasks, run_result>>,
           pc' # "exit" \/ UNCHANGED pc,
           pc' # "block" \/ UNCHANGED pc,
           pc # "resumed",
           ErrorStops', stop_requested => stop_requested'
    PROVE  EndInv'
<1>1. Grounded'
  BY DEF EndInv, Grounded
<1>2. RootsLive' /\ BlockEmpty'
  BY DEF EndInv, RootsLive, BlockEmpty
<1>3. NoTaskLeftBehind' /\ NoFalseDeadlock'
  BY DEF EndInv, NoTaskLeftBehind, NoFalseDeadlock
<1> QED  BY <1>1, <1>2, <1>3 DEF EndInv

(* No registration is open when pending_waiter_count_ is zero.             *)
LEMMA CountPending ==
    ASSUME CountersExact, pending_waiter_count = 0
    PROVE  \A w \in Waiter : handle[w] = Null
<1> DEFINE H == {w \in Waiter : handle[w] # Null}
<1>1. IsFiniteSet(H) /\ Cardinality(H) = 0
  BY WaiterFinite, FS_Subset DEF CountersExact
<1>2. H = {}
  BY <1>1, FS_EmptySet
<1> QED  BY <1>2

(* Where the loop finds no handle queued and no wait open, every coroutine *)
(* has come to its end.                                                    *)
LEMMA NothingLeft ==
    ASSUME TypeInv, TaskInv, EndInv, pc = "block",
           \A w \in Waiter : handle[w] = Null
    PROVE  root_tasks = {} /\ \A h \in Handle : frame[h] = "free"
<1> DEFINE A == {h \in Handle : frame[h] = "awaiting"}
<1>1. \A h \in Handle : ~In(ready_queue, h) /\ ~Parked(h)
  <2>1. Len(ready_queue) = 0
    BY SMTT(30) DEF EndInv, BlockEmpty
  <2> QED  BY SMTT(30), <2>1, NullNotHandle DEF In, Parked
<1>2. \A h \in Handle : ~Runnable(h) /\ ~WaitOpen(h) /\ frame[h] # "running"
  <2>1. \A h \in Handle : ~Runnable(h) /\ ~WaitOpen(h)
    BY <1>1, SuspendedOnceParts
       DEF TaskInv, QueuedRunnable, ParkedOpen
  <2>2. \A h \in Handle : frame[h] # "running"
    BY NullNotHandle DEF TaskInv, RunningOne, TypeInv, CurrentOK
  <2> QED  BY <2>1, <2>2
<1>3. \A h \in Handle : frame[h] \in {"free", "awaiting", "final"}
  BY <1>2 DEF Runnable, WaitOpen, TypeInv, TypeOK, TaskTypeOK, FrameState
<1>4. ASSUME NEW h \in A
      PROVE  \E c \in A : continuation[c] = h
  <2>1. PICK c \in Handle : continuation[c] = h
    BY DEF TaskInv, FramesOwned
  <2>2. frame[c] # "free"
    BY SMTT(30), <2>1, NullNotHandle DEF TaskInv, FramesOwned
  <2>3. frame[c] # "final"
    BY <1>2, <2>1 DEF Runnable, ChildDone
  <2> QED  BY <1>3, <2>1, <2>2, <2>3
<1>5. A = {}
  BY <1>4 DEF EndInv, Grounded, Childless
<1>6. \A h \in Handle : continuation[h] = Null
  <2> SUFFICES ASSUME NEW h \in Handle, continuation[h] # Null
               PROVE  FALSE
    OBVIOUS
  <2>1. continuation[h] \in Handle
    BY DEF TypeInv, TypeOK, TaskTypeOK
  <2>2. frame[continuation[h]] = "awaiting"
    BY DEF TaskInv, FramesOwned
  <2> QED  BY <1>5, <2>1, <2>2
<1>7. root_tasks = {}
  <2> SUFFICES ASSUME NEW h \in root_tasks
               PROVE  FALSE
    OBVIOUS
  <2>1. h \in Handle
    BY DEF TypeInv, TypeOK
  <2>2. frame[h] # "final"
    BY DEF EndInv, RootsLive
  <2>3. frame[h] # "free"
    BY <2>1 DEF TaskInv, FramesOwned
  <2> QED  BY <1>3, <1>5, <2>1, <2>2, <2>3
<1> QED  BY <1>6, <1>7 DEF TaskInv, FramesOwned

(* How run() goes on from there: it blocks, or returns with nothing left.  *)
LEMMA BlockEnd ==
    ASSUME TypeInv, TaskInv, CountInv, EndInv, Block
    PROVE  EndInv'
<1> USE DEF taskVars, queueVars, rootVars, waiterVars, loopVars, flagVars
<1>1. CASE pending_waiter_count > 0
  <2>1. pc' = "waiting" /\ run_result' = run_result /\ pc = "block"
    BY <1>1 DEF Block
  <2>2. ErrorStops'
    BY DEF Block, EndInv, ErrorStops
  <2> QED  BY <2>1, <2>2, EndFrame DEF Block
<1>2. CASE ~(pending_waiter_count > 0)
  <2>1. pending_waiter_count = 0 /\ pc = "block"
    <3>1. pending_waiter_count \in Nat
      BY DEF TypeInv, TypeOK
    <3>2. pc = "block"
      BY DEF Block
    <3> QED  BY SMTT(30), <1>2, <3>1, <3>2
  <2>2. \A w \in Waiter : handle[w] = Null
    BY <2>1, CountPending DEF CountInv
  <2>3. root_tasks = {} /\ \A h \in Handle : frame[h] = "free"
    BY <2>1, <2>2, NothingLeft
  <2>4. {h \in root_tasks : frame[h] # "final"} = {}
    BY <2>3
  <2>5. active_task_count = 0
    BY <2>4, FS_EmptySet DEF CountInv, CountersExact
  <2>6. pc' = "exit" /\ run_result' = run_result
    BY <1>2, <2>5 DEF Block
  <2>7. NoTaskLeftBehind'
    BY <2>1, <2>2, <2>3 DEF Block, NoTaskLeftBehind, EndInv, BlockEmpty
  <2>8. RootsLive' /\ BlockEmpty' /\ ErrorStops' /\ NoFalseDeadlock'
    BY <2>1, <2>3, <2>6 DEF Block, EndInv, RootsLive, BlockEmpty, ErrorStops,
                            NoFalseDeadlock
  <2>9. Grounded'
    BY GroundedFewer DEF Block, EndInv
  <2> QED  BY <2>7, <2>8, <2>9 DEF EndInv
<1> QED  BY <1>1, <1>2

(* Roots that completed are destroyed after every resume(), and before     *)
(* run() returns.                                                          *)
LEMMA CleanupEnd ==
    ASSUME TypeInv, TaskInv, EndInv, AfterResume \/ LoopExit
    PROVE  EndInv'
<1>1. Grounded'
  BY GroundedFewer DEF AfterResume, LoopExit, CleanupCompletedRoots,
                       DestroyFrames, EndInv
<1>2. RootsLive'
  BY DEF AfterResume, LoopExit, CleanupCompletedRoots, DestroyFrames,
     DoneRoots,
         RootsLive, TypeInv, TypeOK
<1>3. BlockEmpty' /\ ErrorStops'
  BY DEF AfterResume, LoopExit, EndInv, BlockEmpty, ErrorStops, flagVars
<1>4. NoTaskLeftBehind'
  BY DEF AfterResume, LoopExit, NoTaskLeftBehind
<1>5. NoFalseDeadlock'
  BY OutcomeNotNull
     DEF AfterResume, LoopExit, EndInv, NoFalseDeadlock, TypeInv,
                        TypeOK, Errno, localVars
<1> QED  BY <1>1, <1>2, <1>3, <1>4, <1>5 DEF EndInv

(* A wake puts the loop neither at its exit nor at its poll.               *)
LEMMA WakeEnd ==
    ASSUME EndInv, UNCHANGED <<taskVars, rootVars, run_result>>,
           pc \in {"scan", "dispatch"},
           pc' \in {"scan", "check", "top", "dispatch"},
           ErrorStops'
    PROVE  EndInv'
<1>1. Grounded'
  BY GroundedFewer DEF EndInv, taskVars
<1> QED  BY <1>1 DEF EndInv, RootsLive, BlockEmpty, NoTaskLeftBehind,
                     NoFalseDeadlock, taskVars, rootVars

(* A failed refresh stops the loop.                                        *)
LEMMA RefreshStops ==
    ASSUME TypeInv, EndInv, NEW fd \in Fd, RefreshSlot(fd)
    PROVE  ErrorStops'
BY DEF RefreshSlot, EndInv, ErrorStops

(* Every step keeps the end in order.                                      *)
LEMMA EndNext ==
    TypeInv /\ TaskInv /\ CountInv /\ EndInv /\ [Next]_vars => EndInv'
<1> SUFFICES ASSUME TypeInv, TaskInv, CountInv, EndInv, [Next]_vars
             PROVE  EndInv'
  OBVIOUS
<1> USE DEF taskVars, queueVars, rootVars, waiterVars, loopVars, flagVars,
            localVars, dataVars, vars
<1>0. ErrorStops
  BY DEF EndInv
<1>1. CASE RunStart
  BY <1>1, GroundedFewer, OutcomeNotNull
     DEF RunStart, EndInv, RootsLive, BlockEmpty, ErrorStops, NoTaskLeftBehind,
         NoFalseDeadlock
<1>2. CASE LoopTop \/ LoopCheck
  <2>1. Grounded'
    BY <1>2, GroundedFewer DEF LoopTop, LoopCheck, EndInv
  <2>2. RootsLive' /\ ErrorStops' /\ NoFalseDeadlock'
    BY <1>2 DEF LoopTop, LoopCheck, EndInv, RootsLive, ErrorStops,
                NoFalseDeadlock
  <2>3. BlockEmpty' /\ NoTaskLeftBehind'
    BY <1>0, <1>2 DEF LoopTop, LoopCheck, BlockEmpty, ErrorStops,
                      NoTaskLeftBehind
  <2> QED  BY <2>1, <2>2, <2>3 DEF EndInv
<1>3. CASE ExpireStart \/ ScanEnd
  <2>1. ErrorStops'
    BY <1>0, <1>3 DEF ExpireStart, ScanEnd, ErrorStops
  <2>2. /\ pc # "resumed" /\ pc' # "exit" /\ pc' # "block"
        /\ UNCHANGED <<frame, continuation, ready_queue, handle, root_tasks,
                       run_result, stop_requested>>
    BY <1>3 DEF ExpireStart, ScanEnd
  <2> QED  BY <2>1, <2>2, EndFrame
<1>4. ASSUME NEW fd \in Fd, ScanSlot(fd)
      PROVE  EndInv'
  <2>1. ErrorStops'
    BY <1>0, <1>4, RefreshStops DEF ScanSlot, ErrorStops
  <2> QED  BY <1>4, <2>1, WakeEnd DEF ScanSlot
<1>5. CASE DrainPop
  <2>1. \A h \in Handle : continuation'[h] \in {continuation[h], Null}
    BY <1>5 DEF DrainPop, ResumeFrame
  <2>2. \A h \in root_tasks : frame'[h] # "final"
    BY <1>5 DEF DrainPop, ResumeFrame, EndInv, RootsLive, TypeInv, TypeOK
  <2>3. Grounded'
    BY <2>1, GroundedFewer DEF EndInv
  <2> QED  BY <1>5, <2>2, <2>3
              DEF DrainPop, EndInv, RootsLive, BlockEmpty, ErrorStops,
                  NoTaskLeftBehind, NoFalseDeadlock
<1>6. CASE AfterResume \/ LoopExit
  BY <1>6, CleanupEnd
<1>7. CASE Block
  BY <1>7, BlockEnd
<1>8. CASE WaitReturn \/ WaitTimeout \/ WaitInterrupted
  <2>1. ErrorStops'
    BY <1>0, <1>8 DEF WaitReturn, WaitTimeout, WaitInterrupted, WaitEmpty,
                      ErrorStops
  <2>2. /\ pc # "resumed" /\ pc' # "exit" /\ pc' # "block"
        /\ UNCHANGED <<frame, continuation, ready_queue, handle, root_tasks,
                       run_result, stop_requested>>
    BY <1>8 DEF WaitReturn, WaitTimeout, WaitInterrupted, WaitEmpty
  <2> QED  BY <2>1, <2>2, EndFrame
<1>9. ASSUME NEW e \in batch, DispatchWake(e)
      PROVE  EndInv'
  <2>1. ErrorStops'
    BY <1>0, <1>9 DEF DispatchWake, ErrorStops
  <2> QED  BY <1>9, <2>1, WakeEnd DEF DispatchWake
<1>10. ASSUME NEW e \in batch, DispatchFd(e)
       PROVE  EndInv'
  <2>1. ErrorStops'
    BY <1>10, RefreshStops DEF DispatchFd
  <2> QED  BY <1>10, <2>1, WakeEnd DEF DispatchFd
<1>11. ASSUME NEW c \in Handle, Spawn(c)
       PROVE  EndInv'
  <2>1. \A h \in root_tasks' : pc' # "resumed" => frame'[h] # "final"
    BY <1>11 DEF Spawn, CreateRoot, EndInv, RootsLive, TypeInv, TypeOK,
                 TaskTypeOK
  <2>2. Grounded'
    BY <1>11, GroundedFewer DEF Spawn, CreateRoot, EndInv
  <2> QED  BY <1>11, <2>1, <2>2
              DEF Spawn, EndInv, RootsLive, BlockEmpty, ErrorStops,
                  NoTaskLeftBehind, NoFalseDeadlock
<1>12. ASSUME NEW c \in Handle, TaskAwait(c)
       PROVE  EndInv'
  <2>1. Grounded'
    BY <1>12, GroundedAwait DEF EndInv
  <2> QED  BY <1>12, <2>1
              DEF TaskAwait, Suspended, EndInv, RootsLive, BlockEmpty,
                  ErrorStops, NoTaskLeftBehind, NoFalseDeadlock
<1>13. ASSUME TaskFinish \/ ArmElapsed
              \/ \E fd \in Fd, d \in Dir, t \in (Timeout \ {0}) \cup {Null} :
                    Arm(fd, d, t)
       PROVE  EndInv'
  <2>1. /\ UNCHANGED <<continuation, flagVars, run_result>>
        /\ pc' = "resumed"
    BY <1>13 DEF TaskFinish, ArmElapsed, Arm, FinishFrame,
                             SuspendFrame, Suspended
  <2>2. Grounded'
    BY <2>1, GroundedFewer DEF EndInv
  <2> QED  BY <2>1, <2>2
              DEF EndInv, RootsLive, BlockEmpty, ErrorStops, NoTaskLeftBehind,
                  NoFalseDeadlock
<1>14. ASSUME \/ TaskStop \/ TaskIo \/ StopStore \/ StopWrite
              \/ Environment \/ Tick
              \/ \E fd \in Fd, d \in Dir, t \in (Timeout \ {0}) \cup {Null} :
                    ArmFails(fd, d, t)
       PROVE  EndInv'
  <2>1. /\ UNCHANGED <<pc, taskVars, ready_queue, handle, root_tasks,
                       run_result, loop_error>>
        /\ stop_requested' = TRUE \/ UNCHANGED stop_requested
    BY <1>14 DEF TaskStop, TaskIo, StopStore, StopWrite,
                             Environment, Tick, ArmFails
  <2>2. Grounded'
    BY <2>1, GroundedFewer DEF EndInv
  <2> QED  BY <2>1, <2>2
              DEF EndInv, RootsLive, BlockEmpty, ErrorStops, NoTaskLeftBehind,
                  NoFalseDeadlock
<1>15. CASE Recreate
  <2>1. Grounded'
    BY <1>15, GroundedFewer DEF Recreate, DestroyFrames, EndInv
  <2> QED  BY <1>15, <2>1, OutcomeNotNull
              DEF Recreate, EndInv, RootsLive, BlockEmpty, ErrorStops,
                  NoTaskLeftBehind, NoFalseDeadlock
<1>16. CASE UNCHANGED vars
  BY <1>16, GroundedFewer
     DEF EndInv, RootsLive, BlockEmpty, ErrorStops, NoTaskLeftBehind,
         NoFalseDeadlock
<1> QED  BY <1>1, <1>2, <1>3, <1>4, <1>5, <1>6, <1>7, <1>8, <1>9, <1>10,
            <1>11, <1>12, <1>13, <1>14, <1>15, <1>16
         DEF Next, LoopStep, Suspend, RunOn

(* A new loop has nothing to end.                                          *)
LEMMA EndInit == Init => EndInv
<1> SUFFICES ASSUME Init
             PROVE  EndInv
  OBVIOUS
<1>1. \A h \in Handle : continuation[h] = Null
  BY DEF Init, TaskInit
<1>2. Grounded
  BY SMTT(30), <1>1, NullNotHandle DEF Grounded, Childless
<1> QED  BY <1>2, OutcomeNotNull
            DEF Init, EndInv, RootsLive, BlockEmpty, ErrorStops,
                NoTaskLeftBehind, NoFalseDeadlock

(* When run() leaves its loop without a stop request, nothing is left: no  *)
(* frame, no queued handle, no registration, for any number of tasks.      *)
THEOREM NoTaskLeftBehindHolds == Spec => []NoTaskLeftBehind
<1>1. EndInv => NoTaskLeftBehind
  BY DEF EndInv
<1> QED  BY <1>1, TypeInit, TypeNext, TaskInvInit, TaskNext, CountInit,
            CountNext, EndInit, EndNext, PTL DEF Spec

(* run() never reports EDEADLK: a chain of coroutines that await each      *)
(* other has an end, and the end can run or waits for a descriptor.        *)
THEOREM NoFalseDeadlockHolds == Spec => []NoFalseDeadlock
<1>1. EndInv => NoFalseDeadlock
  BY DEF EndInv
<1> QED  BY <1>1, TypeInit, TypeNext, TaskInvInit, TaskNext, CountInit,
            CountNext, EndInit, EndNext, PTL DEF Spec
=============================================================================
