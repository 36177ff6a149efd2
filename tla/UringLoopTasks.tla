--------------------------- MODULE UringLoopTasks ---------------------------
(***************************************************************************)
(* What uring_event_loop does to coroutines, for every set of frames,      *)
(* descriptors and timeouts: where a suspended coroutine is held, who owns *)
(* a frame, that the counters are exact, and that every step is a step of  *)
(* Scheduler or a stutter.                                                 *)
(***************************************************************************)
EXTENDS UringLoopProofs, UringLoopScheduler, FiniteSetTheorems

(* Most leaves are first-order; those on arithmetic or sequences name SMT. *)
USE ZenonT(30)

-----------------------------------------------------------------------------
(* The coroutine each side of a slot holds.                                *)
handle == [w \in Waiter |-> waiters[w].handle]

Queued(h) == \E i \in 1..Len(ready_queue) : ready_queue[i] = h
Parked(h) == \E w \in Waiter : handle[w] = h
ChildDone(h) == \E c \in Handle : continuation[c] = h /\ frame[c] = "final"

(* A suspended coroutine is held in exactly one place: queued once in      *)
(* ready_queue_ when it can run (new, woken, or its child is done), in one *)
(* registration while its wait is open, nowhere else; so resume() never    *)
(* meets a finished or destroyed frame and no coroutine is forgotten.      *)
SuspendedOnce ==
    /\ \A i, j \in 1..Len(ready_queue) :
          ready_queue[i] = ready_queue[j] => i = j
    /\ \A v, w \in Waiter : handle[v] = handle[w] /\ handle[v] # Null => v = w
    /\ \A h \in Handle :
          /\ Queued(h) <=> \/ frame[h] = "initial"
                           \/ frame[h] = "waiting" /\ wait_results[h] # Null
                           \/ frame[h] = "awaiting" /\ ChildDone(h)
          /\ Parked(h) <=> frame[h] = "waiting" /\ wait_results[h] = Null

(* Every live frame is owned: by root_tasks_, or by the one parent that    *)
(* awaits it; so destroying the roots destroys everything.                 *)
FramesOwned ==
    /\ \A h \in Handle :
          /\ frame[h] = "free" <=> h \notin root_tasks /\ continuation[h] = Null
          /\ continuation[h] # Null => /\ h \notin root_tasks
                                       /\ frame[continuation[h]] = "awaiting"
          /\ frame[h] = "awaiting" => \E c \in Handle : continuation[c] = h
    /\ \A b, c \in Handle :
          continuation[b] = continuation[c] /\ continuation[b] # Null => b = c

(* The handle h occurs in the queue q; no handle occurs twice.             *)
In(q, h) == \E i \in 1..Len(q) : q[i] = h
Distinct(q) == \A i, j \in 1..Len(q) : q[i] = q[j] => i = j

(* Only current runs, and only a waiting coroutine has a wait result.      *)
RunningOne == \A h \in Handle : frame[h] = "running" <=> h = current
ResultsWait == \A h \in Handle : wait_results[h] # Null => frame[h] = "waiting"

TaskInv == RunningOne /\ ResultsWait /\ SuspendedOnce /\ FramesOwned

-----------------------------------------------------------------------------
(* schedule() of a handle that is not queued.                              *)
LEMMA AppendOnce ==
    ASSUME NEW q \in Seq(Handle), NEW x \in Handle, Distinct(q), ~In(q, x)
    PROVE  /\ Distinct(Append(q, x))
           /\ \A h : In(Append(q, x), h) <=> In(q, h) \/ h = x
<1>1. /\ Append(q, x) \in Seq(Handle)
      /\ Len(Append(q, x)) = Len(q) + 1
      /\ \A i \in 1..Len(q) : Append(q, x)[i] = q[i]
      /\ Append(q, x)[Len(q) + 1] = x
      /\ Len(q) \in Nat
  BY SMTT(30)
<1>2. Distinct(Append(q, x))
  BY SMTT(30), <1>1 DEF Distinct, In
<1>3. ASSUME NEW h
      PROVE  In(Append(q, x), h) <=> In(q, h) \/ h = x
  BY SMTT(30), <1>1 DEF In
<1> QED  BY <1>2, <1>3

(* pop_front() of ready_queue_.                                            *)
LEMMA TailOnce ==
    ASSUME NEW q \in Seq(Handle), q # <<>>, Distinct(q)
    PROVE  /\ In(q, Head(q))
           /\ Distinct(Tail(q))
           /\ \A h : In(Tail(q), h) <=> In(q, h) /\ h # Head(q)
<1>1. /\ Tail(q) \in Seq(Handle)
      /\ Len(Tail(q)) = Len(q) - 1
      /\ \A i \in 1..Len(Tail(q)) : Tail(q)[i] = q[i + 1]
      /\ Head(q) = q[1]
      /\ Len(q) \in Nat \ {0}
  BY SMTT(30)
<1>2. In(q, Head(q))
  BY SMTT(30), <1>1 DEF In
<1>3. Distinct(Tail(q))
  BY SMTT(30), <1>1 DEF Distinct
<1>4. ASSUME NEW h
      PROVE  In(Tail(q), h) <=> In(q, h) /\ h # Head(q)
  <2>1. ASSUME In(Tail(q), h)
        PROVE  In(q, h) /\ h # Head(q)
    BY SMTT(30), <1>1, <2>1 DEF In, Distinct
  <2>2. ASSUME In(q, h), h # Head(q)
        PROVE  In(Tail(q), h)
    <3>1. PICK i \in 1..Len(q) : q[i] = h
      BY <2>2 DEF In
    <3>2. i # 1 /\ i - 1 \in 1..Len(Tail(q))
      BY SMTT(30), <1>1, <2>2, <3>1
    <3>3. Tail(q)[i - 1] = h
      BY SMTT(30), <1>1, <3>1, <3>2
    <3> QED  BY <3>2, <3>3 DEF In
  <2> QED  BY <2>1, <2>2
<1> QED  BY <1>2, <1>3, <1>4

(* handle holds exactly the handles of the open registrations.             *)
LEMMA HandleType ==
    ASSUME TypeInv
    PROVE  /\ handle \in [Waiter -> Handle \cup {Null}]
           /\ \A w \in Waiter : Armed(w) <=> handle[w] # Null
           /\ \A w \in Waiter : handle[w] = waiters[w].handle
<1>1. \A w \in Waiter : handle[w] = waiters[w].handle
  BY DEF handle
<1>2. \A w \in Waiter : handle[w] \in Handle \cup {Null}
  BY SMTT(30), <1>1, RegParts DEF NoReg
<1>3. handle = [w \in Waiter |-> handle[w]]
  BY DEF handle
<1>4. handle \in [Waiter -> Handle \cup {Null}]
  <2> HIDE DEF handle
  <2> QED  BY <1>2, <1>3
<1> QED  BY <1>1, <1>4 DEF Armed

(* It changes only with waiters_.                                          *)
LEMMA HandleFrame ==
    /\ \A w \in Waiter : handle'[w] = waiters'[w].handle
    /\ UNCHANGED waiters => UNCHANGED handle
BY DEF handle

-----------------------------------------------------------------------------
(* The parts of SuspendedOnce by name.  A coroutine is runnable when it is *)
(* new, its wait has a result or its child is done.                        *)
Runnable(h) == \/ frame[h] = "initial"
               \/ frame[h] = "waiting" /\ wait_results[h] # Null
               \/ frame[h] = "awaiting" /\ ChildDone(h)
WaitOpen(h) == frame[h] = "waiting" /\ wait_results[h] = Null
ParkedOnce ==
    \A v, w \in Waiter : handle[v] = handle[w] /\ handle[v] # Null => v = w
QueuedRunnable == \A h \in Handle : In(ready_queue, h) <=> Runnable(h)
ParkedOpen == \A h \in Handle : Parked(h) <=> WaitOpen(h)

(* SuspendedOnce is the conjunction of the four facts about ready_queue_   *)
(* and waiters_ above.                                                     *)
LEMMA SuspendedOnceParts ==
    SuspendedOnce <=> /\ Distinct(ready_queue)
                      /\ ParkedOnce
                      /\ QueuedRunnable
                      /\ ParkedOpen
BY DEF SuspendedOnce, ParkedOnce, QueuedRunnable, ParkedOpen, Distinct, In,
       Queued, Runnable, WaitOpen

(* The same after a step.                                                  *)
LEMMA SuspendedOncePartsPrime ==
    SuspendedOnce' <=> /\ Distinct(ready_queue')
                       /\ ParkedOnce'
                       /\ QueuedRunnable'
                       /\ ParkedOpen'
BY DEF SuspendedOnce, ParkedOnce, QueuedRunnable, ParkedOpen, Distinct, In,
       Queued, Runnable, WaitOpen

(* Who owns a frame, with the type of the continuation.                    *)
LEMMA OwnedParts ==
    ASSUME TypeInv, TaskInv
    PROVE  /\ \A h \in Handle :
                 /\ frame[h] = "free"
                       <=> h \notin root_tasks /\ continuation[h] = Null
                 /\ continuation[h] # Null
                       => /\ continuation[h] \in Handle
                          /\ h \notin root_tasks
                          /\ frame[continuation[h]] = "awaiting"
                 /\ frame[h] = "awaiting"
                       => \E x \in Handle : continuation[x] = h
           /\ \A a, b \in Handle :
                 continuation[a] = continuation[b] /\ continuation[a] # Null
                    => a = b
<1>1. \A h \in Handle : continuation[h] \in Handle \cup {Null}
  BY DEF TypeInv, TaskTypeOK
<1>2. FramesOwned
  BY DEF TaskInv
<1> QED  BY <1>1, <1>2 DEF FramesOwned

(* Steps that touch no frame, queue, registration or root.                 *)
LEMMA TaskInvFrame ==
    ASSUME TaskInv,
           UNCHANGED <<frame, continuation, ready_queue, wait_results, handle,
                       root_tasks, current>>
    PROVE  TaskInv'
BY SMTT(30)
   DEF TaskInv, RunningOne, ResultsWait, SuspendedOnce, FramesOwned, Queued,
       Parked, ChildDone

(* A registered wait is neither finished nor queued yet.                   *)
LEMMA ParkedWaits ==
    ASSUME TypeInv, TaskInv, NEW w \in Waiter, handle[w] # Null
    PROVE  /\ handle[w] \in Handle
           /\ frame[handle[w]] = "waiting"
           /\ wait_results[handle[w]] = Null
           /\ ~In(ready_queue, handle[w])
<1>1. handle[w] \in Handle /\ Parked(handle[w])
  BY HandleType DEF Parked
<1>2. WaitOpen(handle[w]) /\ ~Runnable(handle[w])
  BY <1>1, SuspendedOnceParts DEF TaskInv, ParkedOpen, WaitOpen, Runnable
<1> QED  BY <1>1, <1>2, SuspendedOnceParts
            DEF TaskInv, QueuedRunnable, WaitOpen

(* The end of a wait moves its handle from its registration to             *)
(* ready_queue_ and keeps TaskInv.                                         *)
LEMMA WakeTaskInv ==
    ASSUME TypeInv, TaskInv, NEW v \in Waiter, Armed(v),
           NEW r \in Outcome, WakeSide(v, r),
           UNCHANGED <<taskVars, root_tasks, current>>
    PROVE  TaskInv'
<1> USE DEF taskVars
<1>0. PICK p \in Handle : p = handle[v]
  BY HandleType
<1>1. /\ frame[p] = "waiting" /\ wait_results[p] = Null
      /\ ~In(ready_queue, p) /\ waiters[v].handle = p
  BY <1>0, HandleType, ParkedWaits
<1>2. /\ \A h \in Handle : wait_results'[h] = IF h = p THEN r ELSE wait_results[h]
      /\ ready_queue' = Append(ready_queue, p)
  BY <1>1 DEF WakeSide, TypeInv, QueueType
<1>3. \A w \in Waiter : handle'[w] = IF w = v THEN Null ELSE handle[w]
  BY HandleType, HandleFrame DEF WakeSide, TypeInv, WaiterType, NoReg
<1>4. r # Null
  BY NullIsNoValue
<1>5. RunningOne' /\ FramesOwned'
  BY DEF TaskInv, RunningOne, FramesOwned
<1>6. ResultsWait'
  BY <1>1, <1>2 DEF TaskInv, ResultsWait
<1>7. ParkedOnce'
  BY <1>3, SuspendedOnceParts DEF TaskInv, ParkedOnce
<1>8. /\ Distinct(ready_queue')
      /\ \A h \in Handle : In(ready_queue', h) <=> In(ready_queue, h) \/ h = p
  BY <1>1, <1>2, AppendOnce, SuspendedOnceParts DEF TypeInv, QueueType, TaskInv
<1>9. QueuedRunnable'
  <2>1. \A h \in Handle : Runnable(h)' <=> Runnable(h) \/ h = p
    BY <1>1, <1>2, <1>4 DEF Runnable, ChildDone
  <2>2. \A h \in Handle : In(ready_queue', h) <=> Runnable(h)'
    BY <1>8, <2>1, SuspendedOnceParts DEF TaskInv, QueuedRunnable
  <2> QED  BY <2>2 DEF QueuedRunnable, In
<1>10. ParkedOpen'
  <2>1. \A h \in Handle : Parked(h)' <=> Parked(h) /\ h # p
    <3>1. \A w \in Waiter : handle[w] = p <=> w = v
      BY <1>0, NullNotHandle, SuspendedOnceParts DEF TaskInv, ParkedOnce
    <3> QED  BY <1>3, <3>1, NullNotHandle DEF Parked
  <2>2. \A h \in Handle : WaitOpen(h)' <=> WaitOpen(h) /\ h # p
    BY <1>1, <1>2, <1>4 DEF WaitOpen
  <2> QED  BY <2>1, <2>2, SuspendedOnceParts DEF TaskInv, ParkedOpen
<1> QED  BY <1>5, <1>6, <1>7, <1>8, <1>9, <1>10, SuspendedOncePartsPrime
         DEF TaskInv

-----------------------------------------------------------------------------
(* resume(): only a finished child is freed with it.                       *)
LEMMA DrainTaskInv ==
    ASSUME TypeInv, TaskInv, DrainPop
    PROVE  TaskInv'
<1> USE DEF taskVars, waiterVars, rootVars
<1>0. PICK h0 \in Handle : h0 = Head(ready_queue)
  BY SMTT(30) DEF DrainPop, TypeInv, QueueType
<1>1. /\ In(ready_queue, h0)
      /\ Distinct(ready_queue')
      /\ \A h \in Handle :
            In(ready_queue', h) <=> In(ready_queue, h) /\ h # h0
  BY <1>0, TailOnce, SuspendedOnceParts
     DEF DrainPop, TypeInv, QueueType, TaskInv
<1>2. Runnable(h0) /\ ~WaitOpen(h0) /\ frame[h0] # "final"
  BY <1>1, SuspendedOnceParts
     DEF TaskInv, QueuedRunnable, Runnable, WaitOpen
<1>3. ASSUME NEW x \in Handle, continuation[x] = h0
      PROVE  frame[x] = "final" /\ frame[h0] = "awaiting"
  <2>1. frame[h0] = "awaiting"
    BY <1>1, <1>3, NullNotHandle DEF TaskInv, FramesOwned
  <2>2. PICK c \in Handle : continuation[c] = h0 /\ frame[c] = "final"
    BY <1>2, <2>1 DEF Runnable, ChildDone
  <2>3. x = c
    BY SMTT(30), <1>1, <1>3, <2>2, NullNotHandle DEF TaskInv, FramesOwned
  <2> QED  BY <2>1, <2>2, <2>3
<1>4. /\ current = Null /\ current' = h0
      /\ \A x \in Handle : frame'[x] = IF x = h0 THEN "running"
                                       ELSE IF continuation[x] = h0 THEN "free"
                                       ELSE frame[x]
      /\ \A x \in Handle : continuation'[x] = IF continuation[x] = h0 THEN Null
                                              ELSE continuation[x]
      /\ UNCHANGED <<handle, root_tasks>>
  BY <1>0, <1>2, HandleFrame
     DEF DrainPop, ResumeFrame, TypeInv, ControlType, CurrentOK
<1>5. \A x \in Handle : wait_results'[x] = IF x = h0 THEN Null
                                           ELSE wait_results[x]
  BY <1>0, <1>2 DEF DrainPop, TypeInv, QueueType, TaskInv, ResultsWait
<1>6. RunningOne'
  BY <1>1, <1>4, NullNotHandle DEF TaskInv, RunningOne
<1>7. ResultsWait'
  BY <1>3, <1>4, <1>5 DEF TaskInv, ResultsWait
<1>8. FramesOwned'
  <2>1. ASSUME NEW h \in Handle
        PROVE  /\ frame'[h] = "free"
                     <=> h \notin root_tasks' /\ continuation'[h] = Null
               /\ frame'[h] = "awaiting"
                     => \E c \in Handle : continuation'[c] = h
    <3>1. frame[h] = "free" <=> h \notin root_tasks /\ continuation[h] = Null
      BY DEF TaskInv, FramesOwned
    <3>2. CASE h = h0
      BY <1>2, <1>3, <1>4, <3>1, <3>2 DEF Runnable
    <3>3. CASE continuation[h] = h0
      BY <1>3, <1>4, <3>3, NullNotHandle DEF TaskInv, FramesOwned
    <3>4. CASE h # h0 /\ continuation[h] # h0
      <4>1. frame[h] = "awaiting" => \E c \in Handle : continuation[c] = h
        BY DEF TaskInv, FramesOwned
      <4> QED  BY <1>4, <3>1, <3>4, <4>1
    <3> QED  BY <3>2, <3>3, <3>4
  <2>2. ASSUME NEW h \in Handle, continuation'[h] # Null
        PROVE  h \notin root_tasks' /\ frame'[continuation'[h]] = "awaiting"
    <3>1. /\ continuation'[h] = continuation[h]
          /\ continuation[h] # h0
          /\ continuation[h] \in Handle
      BY <1>4, <2>2 DEF TypeInv, TaskTypeOK
    <3>2. frame[continuation[h]] = "awaiting"
      BY <2>2, <3>1 DEF TaskInv, FramesOwned
    <3>3. frame'[continuation[h]] = "awaiting"
      BY <1>3, <1>4, <3>1, <3>2
    <3> QED  BY <1>4, <2>2, <3>1, <3>3 DEF TaskInv, FramesOwned
  <2>3. \A b, c \in Handle :
           continuation'[b] = continuation'[c] /\ continuation'[b] # Null => b = c
    BY SMTT(30), <1>4 DEF TaskInv, FramesOwned
  <2> QED  BY <2>1, <2>2, <2>3 DEF FramesOwned
<1>9. QueuedRunnable'
  <2>1. \A h \in Handle : h # h0 => (ChildDone(h)' <=> ChildDone(h))
    BY <1>2, <1>4, NullNotHandle DEF ChildDone
  <2>2. \A h \in Handle : h # h0 => (Runnable(h)' <=> Runnable(h))
    BY <1>3, <1>4, <1>5, <2>1 DEF Runnable
  <2>3. ~Runnable(h0)'
    BY <1>1, <1>4 DEF Runnable
  <2>4. \A h \in Handle : In(ready_queue', h) <=> Runnable(h)'
    BY <1>1, <2>2, <2>3, SuspendedOnceParts DEF TaskInv, QueuedRunnable
  <2> QED  BY <2>4 DEF QueuedRunnable, In
<1>10. ParkedOnce' /\ ParkedOpen'
  <2>1. \A h \in Handle : WaitOpen(h)' <=> WaitOpen(h)
    BY <1>1, <1>2, <1>3, <1>4, <1>5 DEF WaitOpen
  <2>2. \A h \in Handle : Parked(h)' <=> Parked(h)
    BY <1>4 DEF Parked
  <2> QED  BY <1>4, <2>1, <2>2, SuspendedOnceParts
           DEF TaskInv, ParkedOnce, ParkedOpen
<1> QED  BY <1>1, <1>6, <1>7, <1>8, <1>9, <1>10, SuspendedOncePartsPrime
         DEF TaskInv

(* cleanup_completed_roots destroys frames that nothing refers to.         *)
LEMMA CleanupTaskInv ==
    ASSUME TypeInv, TaskInv, CleanupCompletedRoots,
           UNCHANGED <<queueVars, handle, current>>
    PROVE  TaskInv'
<1> USE DEF queueVars
<1>1. /\ \A x \in Handle : frame'[x] = IF x \in DoneRoots THEN "free"
                                       ELSE frame[x]
      /\ \A x \in Handle : continuation'[x] = IF x \in DoneRoots THEN Null
                                              ELSE continuation[x]
      /\ root_tasks' = root_tasks \ DoneRoots
      /\ \A x \in DoneRoots : x \in root_tasks /\ frame[x] = "final"
  BY DEF CleanupCompletedRoots, DestroyFrames, DoneRoots
<1>2. \A x \in Handle : continuation'[x] = continuation[x]
  BY SMTT(30), <1>1 DEF TaskInv, FramesOwned
<1>3. RunningOne' /\ ResultsWait'
  BY <1>1 DEF TaskInv, RunningOne, ResultsWait
<1>4. FramesOwned'
  <2>1. ASSUME NEW h \in Handle
        PROVE  /\ frame'[h] = "free"
                     <=> h \notin root_tasks' /\ continuation'[h] = Null
               /\ frame'[h] = "awaiting"
                     => \E c \in Handle : continuation'[c] = h
    BY SMTT(30), <1>1, <1>2 DEF TaskInv, FramesOwned
  <2>2. ASSUME NEW h \in Handle, continuation'[h] # Null
        PROVE  h \notin root_tasks' /\ frame'[continuation'[h]] = "awaiting"
    <3>1. continuation[h] \in Handle /\ frame[continuation[h]] = "awaiting"
      BY SMTT(30), <1>2, <2>2 DEF TypeInv, TaskTypeOK, TaskInv, FramesOwned
    <3> QED  BY SMTT(30), <1>1, <1>2, <2>2, <3>1 DEF TaskInv, FramesOwned
  <2>3. \A b, c \in Handle :
           continuation'[b] = continuation'[c] /\ continuation'[b] # Null => b = c
    BY SMTT(30), <1>2 DEF TaskInv, FramesOwned
  <2> QED  BY <2>1, <2>2, <2>3 DEF FramesOwned
<1>5. \A h \in Handle : ChildDone(h)' <=> ChildDone(h)
  <2>1. \A c \in Handle : continuation[c] # Null => frame'[c] = frame[c]
    BY <1>1 DEF TaskInv, FramesOwned
  <2> QED  BY SMTT(30), <1>2, <2>1, NullNotHandle
              DEF ChildDone, TaskInv, FramesOwned
<1>6. SuspendedOnce'
  <2>1. \A h \in Handle : /\ Runnable(h)' <=> Runnable(h)
                          /\ WaitOpen(h)' <=> WaitOpen(h)
                          /\ Parked(h)' <=> Parked(h)
    BY <1>1, <1>5 DEF Runnable, WaitOpen, Parked
  <2> QED  BY <2>1, SuspendedOnceParts, SuspendedOncePartsPrime
           DEF TaskInv, QueuedRunnable, ParkedOpen, ParkedOnce
<1> QED  BY <1>3, <1>4, <1>6 DEF TaskInv

-----------------------------------------------------------------------------
(* Nothing refers to a free frame or to the running one.                   *)
LEMMA NotHeld ==
    ASSUME TypeInv, TaskInv, NEW h \in Handle, frame[h] \in {"free", "running"}
    PROVE  /\ ~In(ready_queue, h)
           /\ ~Parked(h)
           /\ wait_results[h] = Null
           /\ \A x \in Handle : continuation[x] # h
<1>1. ~In(ready_queue, h) /\ ~Parked(h)
  BY SuspendedOnceParts
     DEF TaskInv, QueuedRunnable, ParkedOpen, Runnable, WaitOpen
<1>2. wait_results[h] = Null
  BY DEF TaskInv, ResultsWait
<1>3. \A x \in Handle : continuation[x] # h
  BY SMTT(30), NullNotHandle DEF TaskInv, FramesOwned
<1> QED  BY <1>1, <1>2, <1>3

(* spawn() makes a new root runnable.                                      *)
LEMMA SpawnTaskInv ==
    ASSUME TypeInv, TaskInv, NEW c \in Handle, Spawn(c)
    PROVE  TaskInv'
<1> USE DEF waiterVars
<1>1. /\ frame[c] = "free"
      /\ \A x \in Handle : frame'[x] = IF x = c THEN "initial" ELSE frame[x]
      /\ UNCHANGED <<continuation, wait_results, handle, current>>
      /\ root_tasks' = root_tasks \cup {c}
      /\ ready_queue' = Append(ready_queue, c)
  BY HandleFrame DEF Spawn, CreateRoot, TypeInv, TaskTypeOK
<1>2. /\ ~In(ready_queue, c) /\ ~Parked(c) /\ wait_results[c] = Null
      /\ \A x \in Handle : continuation[x] # c
  BY <1>1, NotHeld
<1>3. /\ Distinct(ready_queue')
      /\ \A h \in Handle : In(ready_queue', h) <=> In(ready_queue, h) \/ h = c
  BY <1>1, <1>2, AppendOnce, SuspendedOnceParts DEF TypeInv, QueueType, TaskInv
<1>4. RunningOne' /\ ResultsWait'
  BY <1>1, <1>2 DEF TaskInv, RunningOne, ResultsWait
<1>5. FramesOwned'
  <2>1. ASSUME NEW h \in Handle
        PROVE  /\ frame'[h] = "free"
                     <=> h \notin root_tasks' /\ continuation'[h] = Null
               /\ frame'[h] = "awaiting"
                     => \E x \in Handle : continuation'[x] = h
    BY <1>1 DEF TaskInv, FramesOwned
  <2>2. ASSUME NEW h \in Handle, continuation'[h] # Null
        PROVE  h \notin root_tasks' /\ frame'[continuation'[h]] = "awaiting"
    <3>1. /\ continuation[h] \in Handle /\ frame[continuation[h]] = "awaiting"
          /\ h \notin root_tasks /\ frame[h] # "free"
      BY SMTT(30), <1>1, <2>2 DEF TypeInv, TaskTypeOK, TaskInv, FramesOwned
    <3> QED  BY <1>1, <1>2, <3>1
  <2> QED  BY SMTT(30), <1>1, <2>1, <2>2 DEF TaskInv, FramesOwned
<1>6. \A h \in Handle : /\ Runnable(h)' <=> Runnable(h) \/ h = c
                        /\ WaitOpen(h)' <=> WaitOpen(h)
                        /\ Parked(h)' <=> Parked(h)
  BY <1>1, <1>2 DEF Runnable, ChildDone, WaitOpen, Parked
<1>7. \A h \in Handle : In(ready_queue', h) <=> Runnable(h)'
  BY <1>3, <1>6, SuspendedOnceParts DEF TaskInv, QueuedRunnable
<1>8. QueuedRunnable'
  BY <1>7 DEF QueuedRunnable, In
<1>9. ParkedOnce' /\ ParkedOpen'
  BY <1>1, <1>6, SuspendedOnceParts DEF TaskInv, ParkedOnce, ParkedOpen
<1> QED  BY <1>3, <1>4, <1>5, <1>8, <1>9, SuspendedOncePartsPrime DEF TaskInv

(* co_await of a child: the parent waits for exactly this child.           *)
LEMMA AwaitTaskInv ==
    ASSUME TypeInv, TaskInv, NEW c \in Handle, TaskAwait(c)
    PROVE  TaskInv'
<1> USE DEF waiterVars, rootVars
<1>0. PICK p \in Handle : p = current /\ frame[p] = "running"
  BY DEF TaskAwait, TypeInv, ControlType, CurrentOK, TaskInv, RunningOne
<1>1. /\ frame[c] = "free" /\ p # c
      /\ \A x \in Handle : frame'[x] = IF x = p THEN "awaiting"
                                       ELSE IF x = c THEN "initial"
                                       ELSE frame[x]
      /\ \A x \in Handle : continuation'[x] = IF x = c THEN p
                                              ELSE continuation[x]
      /\ UNCHANGED <<wait_results, handle, root_tasks>> /\ current' = Null
      /\ ready_queue' = Append(ready_queue, c)
  BY <1>0, HandleFrame
     DEF TaskAwait, AwaitChild, Suspended, TypeInv, TaskTypeOK
<1>2. /\ ~In(ready_queue, c) /\ ~Parked(c) /\ wait_results[c] = Null
      /\ ~In(ready_queue, p) /\ ~Parked(p) /\ wait_results[p] = Null
      /\ \A x \in Handle : continuation[x] # c /\ continuation[x] # p
  BY <1>0, <1>1, NotHeld
<1>3. /\ Distinct(ready_queue')
      /\ \A h \in Handle : In(ready_queue', h) <=> In(ready_queue, h) \/ h = c
  BY <1>1, <1>2, AppendOnce, SuspendedOnceParts
     DEF TypeInv, QueueType, TaskInv
<1>4. RunningOne' /\ ResultsWait'
  BY <1>0, <1>1, <1>2, NullNotHandle
     DEF TaskInv, RunningOne, ResultsWait
<1>5. FramesOwned'
  <2>1. ASSUME NEW h \in Handle
        PROVE  /\ frame'[h] = "free"
                     <=> h \notin root_tasks' /\ continuation'[h] = Null
               /\ frame'[h] = "awaiting"
                     => \E x \in Handle : continuation'[x] = h
    <3>0. frame[h] = "free" <=> h \notin root_tasks /\ continuation[h] = Null
      BY DEF TaskInv, FramesOwned
    <3>1. frame'[h] = "free" <=> h \notin root_tasks' /\ continuation'[h] = Null
      BY <1>0, <1>1, <3>0, NullNotHandle
    <3>2. CASE h = p
      BY <1>0, <1>1, <1>2, <3>1, <3>2
    <3>3. CASE h # p
      <4>1. frame'[h] = "awaiting" => frame[h] = "awaiting"
        BY <1>1, <3>3
      <4>2. frame[h] = "awaiting" => \E x \in Handle : continuation[x] = h
        BY DEF TaskInv, FramesOwned
      <4>3. continuation[c] = Null
        BY <1>1 DEF TaskInv, FramesOwned
      <4>4. \A x \in Handle : continuation[x] = h => continuation'[x] = h
        BY <1>1, <4>3, NullNotHandle
      <4>5. frame'[h] = "awaiting" => \E x \in Handle : continuation'[x] = h
        BY <4>1, <4>2, <4>4
      <4> QED  BY <3>1, <4>5
    <3> QED  BY <3>1, <3>2, <3>3
  <2>2. ASSUME NEW h \in Handle, continuation'[h] # Null
        PROVE  h \notin root_tasks' /\ frame'[continuation'[h]] = "awaiting"
    <3>1. CASE h = c
      BY SMTT(30), <1>0, <1>1, <3>1 DEF TaskInv, FramesOwned
    <3>2. CASE h # c
      <4>1. /\ continuation[h] \in Handle /\ frame[continuation[h]] = "awaiting"
            /\ h \notin root_tasks
        <5>1. continuation[h] # Null
          BY <1>1, <2>2, <3>2
        <5> QED  BY <5>1, OwnedParts
      <4> QED  BY <1>1, <1>2, <3>2, <4>1
    <3> QED  BY <3>1, <3>2
  <2>3. ASSUME NEW a \in Handle, NEW b \in Handle,
               continuation'[a] = continuation'[b], continuation'[a] # Null
        PROVE  a = b
    <3>1. CASE a = c \/ b = c
      BY <1>1, <1>2, <2>3, <3>1
    <3>2. CASE a # c /\ b # c
      <4>1. continuation[a] = continuation[b] /\ continuation[a] # Null
        BY <1>1, <2>3, <3>2
      <4> QED  BY <4>1, OwnedParts
    <3> QED  BY <3>1, <3>2
  <2> QED  BY <2>1, <2>2, <2>3 DEF FramesOwned
<1>6. \A h \in Handle : ChildDone(h)' <=> h # p /\ ChildDone(h)
  BY <1>0, <1>1, <1>2 DEF ChildDone
<1>7. \A h \in Handle : /\ Runnable(h)' <=> Runnable(h) \/ h = c
                        /\ WaitOpen(h)' <=> WaitOpen(h)
                        /\ Parked(h)' <=> Parked(h)
  BY <1>0, <1>1, <1>2, <1>6 DEF Runnable, WaitOpen, Parked
<1>8. \A h \in Handle : In(ready_queue', h) <=> Runnable(h)'
  BY <1>3, <1>7, SuspendedOnceParts DEF TaskInv, QueuedRunnable
<1>9. QueuedRunnable'
  BY <1>8 DEF QueuedRunnable, In
<1>10. ParkedOnce' /\ ParkedOpen'
  BY <1>1, <1>7, SuspendedOnceParts DEF TaskInv, ParkedOnce, ParkedOpen
<1> QED  BY <1>3, <1>4, <1>5, <1>9, <1>10, SuspendedOncePartsPrime DEF TaskInv

(* co_return: the continuation, if any, becomes runnable.                  *)
LEMMA FinishTaskInv ==
    ASSUME TypeInv, TaskInv, TaskFinish
    PROVE  TaskInv'
<1> USE DEF waiterVars
<1>0. PICK p \in Handle : p = current /\ frame[p] = "running"
  BY DEF TaskFinish, TypeInv, ControlType, CurrentOK, TaskInv, RunningOne
<1>1. /\ \A x \in Handle : frame'[x] = IF x = p THEN "final" ELSE frame[x]
      /\ UNCHANGED <<continuation, wait_results, handle, root_tasks>>
      /\ current' = Null
      /\ ready_queue' = IF continuation[p] = Null THEN ready_queue
                        ELSE Append(ready_queue, continuation[p])
  BY <1>0, HandleFrame
     DEF TaskFinish, FinishFrame, Suspended, TypeInv, TaskTypeOK
<1>2. /\ ~In(ready_queue, p) /\ ~Parked(p) /\ wait_results[p] = Null
      /\ \A x \in Handle : continuation[x] # p
  BY <1>0, NotHeld
<1>3. ASSUME continuation[p] # Null
      PROVE  /\ continuation[p] \in Handle
             /\ frame[continuation[p]] = "awaiting"
             /\ ~ChildDone(continuation[p])
             /\ ~In(ready_queue, continuation[p])
  <2>1. continuation[p] \in Handle /\ frame[continuation[p]] = "awaiting"
    BY <1>3, OwnedParts
  <2>2. ~ChildDone(continuation[p])
    BY SMTT(30), <1>0, <1>3, OwnedParts DEF ChildDone
  <2> QED  BY <2>1, <2>2, SuspendedOnceParts
           DEF TaskInv, QueuedRunnable, Runnable
<1>4. /\ Distinct(ready_queue')
      /\ \A h \in Handle :
            In(ready_queue', h) <=> In(ready_queue, h) \/ h = continuation[p]
  <2>1. CASE continuation[p] = Null
    BY <1>1, <2>1, NullNotHandle, SuspendedOnceParts DEF TaskInv
  <2>2. CASE continuation[p] # Null
    BY <1>1, <1>3, <2>2, AppendOnce, SuspendedOnceParts
       DEF TypeInv, QueueType, TaskInv
  <2> QED  BY <2>1, <2>2
<1>5. RunningOne' /\ ResultsWait'
  BY <1>0, <1>1, <1>2, NullNotHandle DEF TaskInv, RunningOne, ResultsWait
<1>6. FramesOwned'
  <2>1. ASSUME NEW h \in Handle
        PROVE  /\ frame'[h] = "free"
                     <=> h \notin root_tasks' /\ continuation'[h] = Null
               /\ frame'[h] = "awaiting"
                     => \E x \in Handle : continuation'[x] = h
    <3>1. /\ frame'[h] = "free" <=> frame[h] = "free"
          /\ frame'[h] = "awaiting" => frame[h] = "awaiting"
      BY <1>0, <1>1
    <3> QED  BY <1>1, <3>1, OwnedParts
  <2>2. ASSUME NEW h \in Handle, continuation'[h] # Null
        PROVE  h \notin root_tasks' /\ frame'[continuation'[h]] = "awaiting"
    <3>1. /\ continuation[h] \in Handle /\ frame[continuation[h]] = "awaiting"
          /\ h \notin root_tasks
      BY <1>1, <2>2, OwnedParts
    <3> QED  BY <1>1, <1>2, <3>1
  <2>3. \A a, b \in Handle :
           continuation'[a] = continuation'[b] /\ continuation'[a] # Null => a = b
    BY <1>1, OwnedParts
  <2> QED  BY <2>1, <2>2, <2>3 DEF FramesOwned
<1>7. \A h \in Handle : ChildDone(h)' <=> ChildDone(h) \/ h = continuation[p]
  BY <1>0, <1>1 DEF ChildDone
<1>8. \A h \in Handle : /\ Runnable(h)' <=> Runnable(h) \/ h = continuation[p]
                        /\ WaitOpen(h)' <=> WaitOpen(h)
                        /\ Parked(h)' <=> Parked(h)
  BY <1>0, <1>1, <1>2, <1>3, <1>7, NullNotHandle
     DEF Runnable, WaitOpen, Parked
<1>9. \A h \in Handle : In(ready_queue', h) <=> Runnable(h)'
  BY <1>4, <1>8, SuspendedOnceParts DEF TaskInv, QueuedRunnable
<1>10. QueuedRunnable'
  BY <1>9 DEF QueuedRunnable, In
<1>11. ParkedOnce' /\ ParkedOpen'
  BY <1>1, <1>8, SuspendedOnceParts DEF TaskInv, ParkedOnce, ParkedOpen
<1> QED  BY <1>4, <1>5, <1>6, <1>10, <1>11, SuspendedOncePartsPrime
         DEF TaskInv

(* A coroutine suspends in a wait: frames and ownership either way.        *)
LEMMA SuspendFrames ==
    ASSUME TypeInv, TaskInv, NEW p \in Handle, frame[p] = "running",
           \A x \in Handle : frame'[x] = IF x = p THEN "waiting" ELSE frame[x],
           UNCHANGED <<continuation, root_tasks>>, current' = Null,
           \A x \in Handle : x # p => wait_results'[x] = wait_results[x]
    PROVE  RunningOne' /\ ResultsWait' /\ FramesOwned'
<1>1. \A x \in Handle : continuation[x] # p
  BY NotHeld
<1>2. RunningOne' /\ ResultsWait'
  BY NullNotHandle DEF TaskInv, RunningOne, ResultsWait
<1>3. FramesOwned'
  <2>1. ASSUME NEW h \in Handle
        PROVE  /\ frame'[h] = "free"
                     <=> h \notin root_tasks' /\ continuation'[h] = Null
               /\ frame'[h] = "awaiting"
                     => \E x \in Handle : continuation'[x] = h
    BY SMTT(30) DEF TaskInv, FramesOwned
  <2>2. ASSUME NEW h \in Handle, continuation'[h] # Null
        PROVE  h \notin root_tasks' /\ frame'[continuation'[h]] = "awaiting"
    <3>1. /\ continuation[h] \in Handle /\ frame[continuation[h]] = "awaiting"
          /\ h \notin root_tasks
      BY SMTT(30), <2>2 DEF TypeInv, TaskTypeOK, TaskInv, FramesOwned
    <3> QED  BY <1>1, <3>1
  <2> QED  BY SMTT(30), <2>1, <2>2 DEF TaskInv, FramesOwned
<1> QED  BY <1>2, <1>3

(* A wait whose timeout is not positive is queued with its result.         *)
LEMMA ElapsedTaskInv ==
    ASSUME TypeInv, TaskInv, ArmElapsed
    PROVE  TaskInv'
<1> USE DEF waiterVars, rootVars
<1>0. PICK p \in Handle : p = current /\ frame[p] = "running"
  BY DEF ArmElapsed, TypeInv, ControlType, CurrentOK, TaskInv, RunningOne
<1>1. /\ \A x \in Handle : frame'[x] = IF x = p THEN "waiting" ELSE frame[x]
      /\ \A x \in Handle : wait_results'[x] = IF x = p THEN "ETIMEDOUT"
                                              ELSE wait_results[x]
      /\ UNCHANGED <<continuation, handle, root_tasks>> /\ current' = Null
      /\ ready_queue' = Append(ready_queue, p)
  BY <1>0, HandleFrame
     DEF ArmElapsed, SuspendFrame, Suspended, TypeInv, TaskTypeOK, QueueType
<1>2. ~In(ready_queue, p) /\ ~Parked(p)
  BY <1>0, NotHeld
<1>3. /\ Distinct(ready_queue')
      /\ \A h \in Handle : In(ready_queue', h) <=> In(ready_queue, h) \/ h = p
  BY <1>1, <1>2, AppendOnce, SuspendedOnceParts
     DEF TypeInv, QueueType, TaskInv
<1>4. RunningOne' /\ ResultsWait' /\ FramesOwned'
  BY <1>0, <1>1, SuspendFrames
<1>5. "ETIMEDOUT" # Null
  BY NullIsNoValue DEF Outcome
<1>6. \A h \in Handle : /\ Runnable(h)' <=> Runnable(h) \/ h = p
                        /\ WaitOpen(h)' <=> WaitOpen(h)
                        /\ Parked(h)' <=> Parked(h)
  BY <1>0, <1>1, <1>5 DEF Runnable, ChildDone, WaitOpen, Parked
<1>7. \A h \in Handle : In(ready_queue', h) <=> Runnable(h)'
  BY <1>3, <1>6, SuspendedOnceParts DEF TaskInv, QueuedRunnable
<1>8. QueuedRunnable'
  BY <1>7 DEF QueuedRunnable, In
<1>9. ParkedOnce' /\ ParkedOpen'
  BY <1>1, <1>6, SuspendedOnceParts DEF TaskInv, ParkedOnce, ParkedOpen
<1> QED  BY <1>3, <1>4, <1>8, <1>9, SuspendedOncePartsPrime DEF TaskInv

(* An accepted wait is registered on a side that was free.                 *)
LEMMA ArmTaskInv ==
    ASSUME TypeInv, TaskInv, NEW v \in Waiter, NEW t, Arm(v, t, "ok")
    PROVE  TaskInv'
<1> USE DEF queueVars, rootVars
<1>0. PICK p \in Handle : p = current /\ frame[p] = "running"
  BY DEF Arm, TypeInv, ControlType, CurrentOK, TaskInv, RunningOne
<1>1. /\ \A x \in Handle : frame'[x] = IF x = p THEN "waiting" ELSE frame[x]
      /\ UNCHANGED <<continuation, root_tasks, wait_results, ready_queue>>
      /\ current' = Null
  BY <1>0 DEF Arm, SuspendFrame, Suspended, TypeInv, TaskTypeOK
<1>h. /\ handle[v] = Null
      /\ \A w \in Waiter : handle'[w] = IF w = v THEN p ELSE handle[w]
  <2>1. ~Armed(v) /\ \E g : g.handle = p /\ waiters' = [waiters EXCEPT ![v] = g]
    BY <1>0 DEF Arm
  <2> QED  BY <2>1, HandleType, HandleFrame DEF TypeInv, WaiterType
<1>2. ~In(ready_queue, p) /\ ~Parked(p) /\ wait_results[p] = Null
  BY <1>0, NotHeld
<1>3. RunningOne' /\ ResultsWait' /\ FramesOwned'
  BY <1>0, <1>1, SuspendFrames
<1>4. \A h \in Handle : /\ Runnable(h)' <=> Runnable(h)
                        /\ WaitOpen(h)' <=> WaitOpen(h) \/ h = p
  BY <1>0, <1>1, <1>2 DEF Runnable, ChildDone, WaitOpen
<1>5. \A h \in Handle : Parked(h)' <=> Parked(h) \/ h = p
  BY <1>1, <1>h, NullNotHandle DEF Parked
<1>6. Distinct(ready_queue')
  BY <1>1, SuspendedOnceParts DEF TaskInv
<1>7. QueuedRunnable'
  BY <1>1, <1>4, SuspendedOnceParts DEF TaskInv, QueuedRunnable, In
<1>8. ParkedOpen'
  BY <1>4, <1>5, SuspendedOnceParts DEF TaskInv, ParkedOpen
<1>9. ParkedOnce'
  BY <1>1, <1>2, <1>h, SuspendedOnceParts DEF TaskInv, ParkedOnce, Parked
<1> QED  BY <1>3, <1>6, <1>7, <1>8, <1>9, SuspendedOncePartsPrime DEF TaskInv

(* A new loop holds nothing.                                               *)
LEMMA FreshTaskInv ==
    ASSUME \A h \in Handle : /\ frame[h] = "free"
                             /\ continuation[h] = Null
                             /\ wait_results[h] = Null,
           \A w \in Waiter : handle[w] = Null,
           ready_queue = <<>>, root_tasks = {}, current = Null
    PROVE  TaskInv
<1>1. Len(ready_queue) = 0
  OBVIOUS
<1>2. RunningOne /\ ResultsWait /\ FramesOwned
  BY NullNotHandle DEF RunningOne, ResultsWait, FramesOwned
<1>3. SuspendedOnce
  BY SMTT(30), <1>1, NullNotHandle DEF SuspendedOnce, Queued, Parked
<1> QED  BY <1>2, <1>3 DEF TaskInv

(* A newly constructed loop satisfies TaskInv.                             *)
LEMMA TaskInvInit == Init => TaskInv
BY SMTT(30), FreshTaskInv DEF Init, TaskInit, handle, NoReg

(* Destroying a loop with its roots and constructing another one           *)
(* establishes TaskInv.                                                    *)
LEMMA RecreateTaskInv ==
    ASSUME TypeInv, Recreate
    PROVE  TaskInv'
<1>1. /\ \A h \in Handle : /\ frame'[h] = "free"
                           /\ continuation'[h] = Null
                           /\ wait_results'[h] = Null
      /\ \A w \in Waiter : handle'[w] = Null
      /\ ready_queue' = <<>> /\ root_tasks' = {} /\ current' = Null
  BY HandleFrame
     DEF Recreate, DestroyFrames, NoReg, TypeInv, ControlType, CurrentOK
<1>2. Len(ready_queue') = 0
  BY <1>1
<1>3. RunningOne' /\ ResultsWait' /\ FramesOwned'
  BY <1>1, NullNotHandle DEF RunningOne, ResultsWait, FramesOwned
<1>4. SuspendedOnce'
  BY SMTT(30), <1>1, <1>2, NullNotHandle DEF SuspendedOnce, Queued, Parked
<1> QED  BY <1>3, <1>4 DEF TaskInv

(* Every step keeps the frames, their owners and their places in order.    *)
LEMMA TaskNext == TypeInv /\ TaskInv /\ [Next]_vars => TaskInv'
<1> SUFFICES ASSUME TypeInv, TaskInv, [Next]_vars
             PROVE  TaskInv'
  OBVIOUS
<1>1. CASE UNCHANGED <<frame, continuation, ready_queue, wait_results, waiters,
                       root_tasks, current>>
  BY <1>1, TaskInvFrame, HandleFrame
<1>2. CASE ScanSide
  <2> DEFINE w == Head(scan.todo)
  <2>1. CASE Expired(w)
    <3>1. /\ WakeSide(w, "ETIMEDOUT")
          /\ UNCHANGED <<taskVars, root_tasks, current>>
      BY <1>2, <2>1 DEF ScanSide, rootVars
    <3>2. scan.todo \in Seq(Waiter) /\ scan.todo # <<>>
      BY <1>2 DEF ScanSide, TypeInv, LocalType, ScanType
    <3>3. w \in Waiter
      BY SMTT(30), <3>2
    <3>4. Armed(w) /\ "ETIMEDOUT" \in Outcome
      BY <2>1 DEF Expired, Outcome
    <3> HIDE DEF w
    <3> QED  BY <3>1, <3>3, <3>4, WakeTaskInv
  <2>2. CASE ~Expired(w)
    BY <1>1, <1>2, <2>2 DEF ScanSide, queueVars, waiterVars, taskVars, rootVars
  <2> QED  BY <2>1, <2>2
<1>3. CASE DrainPop
  BY <1>3, DrainTaskInv
<1>4. CASE AfterResume \/ LoopExit
  BY <1>4, CleanupTaskInv, HandleFrame
     DEF AfterResume, LoopExit, waiterVars
<1>5. CASE ProcessPoll
  <2>1. PICK t \in Token \ {wake_token} :
           /\ Completed(t) /\ Known(t)
           /\ IF waiters[inflight_polls[t]].token = t
              THEN WakeSide(inflight_polls[t], Head(batch).res)
              ELSE UNCHANGED <<queueVars, waiters>>
    BY <1>5 DEF ProcessPoll
  <2>2. UNCHANGED <<taskVars, rootVars, current>>
    BY <1>5 DEF ProcessPoll
  <2>3. CASE waiters[inflight_polls[t]].token = t
    <3>1. inflight_polls[t] \in Waiter /\ Armed(inflight_polls[t])
      BY <2>1, <2>3, CompletedSide
    <3>2. Head(batch).res \in Outcome
      BY <2>1, CompletedSide
    <3> QED  BY <2>1, <2>2, <2>3, <3>1, <3>2, WakeTaskInv
                DEF rootVars
  <2>4. CASE waiters[inflight_polls[t]].token # t
    BY <1>1, <2>1, <2>2, <2>4 DEF queueVars, taskVars, rootVars
  <2> QED  BY <2>3, <2>4
<1>6. ASSUME NEW c \in Handle, Spawn(c) \/ TaskAwait(c)
      PROVE  TaskInv'
  BY <1>6, SpawnTaskInv, AwaitTaskInv
<1>7. CASE TaskFinish \/ ArmElapsed \/ Recreate
  BY <1>7, FinishTaskInv, ElapsedTaskInv, RecreateTaskInv
<1>8. ASSUME NEW w \in Waiter, NEW t \in (Timeout \ {0}) \cup {Null},
             NEW r \in {"ok"} \cup Errno, Arm(w, t, r)
      PROVE  TaskInv'
  <2>1. CASE r = "ok"
    BY <1>8, <2>1, ArmTaskInv
  <2>2. CASE r # "ok"
    BY <1>1, <1>8, <2>2
       DEF Arm, waiterVars, taskVars, queueVars, rootVars
  <2> QED  BY <2>1, <2>2
<1> USE DEF taskVars, queueVars, rootVars, waiterVars, dataVars, vars
<1>9. CASE RunStart \/ LoopTop \/ ExpireStart \/ ScanEnd \/ LoopCheck \/ Block
  BY <1>1, <1>9
     DEF RunStart, LoopTop, ExpireStart, ScanEnd, LoopCheck, Block
<1>10. CASE \/ WaitReturn \/ WaitTimeout \/ WaitInterrupted \/ ProcessStale
            \/ ProcessWake \/ ProcessRearm
  BY <1>1, <1>10 DEF WaitReturn, WaitTimeout, WaitInterrupted,
     WaitEmpty, ProcessStale, ProcessWake, ProcessRearm
<1>11. CASE TaskStop \/ TaskIo \/ StopStore \/ StopWrite \/ Environment \/ Tick
  BY <1>1, <1>11
     DEF TaskStop, TaskIo, StopStore, StopWrite, Environment, Tick
<1>12. CASE UNCHANGED vars
  BY <1>1, <1>12
<1>13. Suspend \/ RunOn => TaskInv'
  BY <1>6, <1>7, <1>8, <1>11 DEF Suspend, RunOn
<1> QED  BY <1>2, <1>3, <1>4, <1>5, <1>6, <1>7, <1>9, <1>10, <1>11,
            <1>12, <1>13 DEF Next, LoopStep
-----------------------------------------------------------------------------
(* uring_event_loop implements Scheduler: the steps of the mapping.        *)
SchedStep == [Sched!SchedNext]_(Sched!schedVars)

(* The parked coroutines of the mapping are those a registration holds.    *)
LEMMA ParkedIs ==
    /\ ParkedSet = {h \in Handle : Parked(h)}
    /\ ParkedSet' = {h \in Handle : Parked(h)'}
BY DEF ParkedSet, Parked, handle

(* A step that leaves coroutines, queue, waits and results alone maps to a *)
(* stuttering step.                                                        *)
LEMMA Stutters ==
    ASSUME UNCHANGED <<frame, continuation, ready_queue, handle, wait_results>>
    PROVE  SchedStep
<1>1. UNCHANGED <<LifeMap, ParkedSet>>
  BY ParkedIs DEF LifeMap, Parked
<1> QED  BY <1>1 DEF SchedStep, Sched!schedVars

(* The life of each coroutine, seen through the mapping.                   *)
LEMMA LifeOf ==
    ASSUME NEW h \in Handle
    PROVE  LifeMap[h] = Life(frame[h]) /\ LifeMap'[h] = Life(frame'[h])
BY DEF LifeMap

(* spawn maps to Start.                                                    *)
LEMMA SpawnMaps ==
    ASSUME TypeInv, TaskInv, NEW c \in Handle, Spawn(c)
    PROVE  Sched!Start(c)
<1>1. /\ frame[c] = "free"
      /\ \A x \in Handle : frame'[x] = IF x = c THEN "initial" ELSE frame[x]
      /\ UNCHANGED <<continuation, wait_results, handle>>
      /\ ready_queue' = Append(ready_queue, c)
  BY HandleFrame DEF Spawn, CreateRoot, TypeInv, TaskTypeOK, waiterVars
<1>2. LifeMap[c] = "none"
  BY <1>1, LifeOf DEF Life
<1>3. LifeMap' = [LifeMap EXCEPT ![c] = "suspended"]
  BY <1>1 DEF LifeMap, Life
<1>4. ParkedSet' = ParkedSet
  BY <1>1, ParkedIs DEF Parked
<1> QED  BY <1>1, <1>2, <1>3, <1>4 DEF Sched!Start

(* Resuming the head of ready_queue_ maps to Run.                          *)
LEMMA DrainMaps ==
    ASSUME TypeInv, TaskInv, DrainPop
    PROVE  \E h \in Handle : Sched!Run(h)
<1>0. PICK h0 \in Handle : h0 = Head(ready_queue)
  BY SMTT(30) DEF DrainPop, TypeInv, QueueType
<1>1. /\ In(ready_queue, h0)
      /\ ~In(Tail(ready_queue), h0)
      /\ ready_queue # <<>> /\ ready_queue' = Tail(ready_queue)
  BY <1>0, TailOnce, SuspendedOnceParts
     DEF DrainPop, TypeInv, QueueType, TaskInv
<1>2. Runnable(h0) /\ ~WaitOpen(h0) /\ frame[h0] # "final" /\ ~Parked(h0)
  BY <1>1, SuspendedOnceParts
     DEF TaskInv, QueuedRunnable, ParkedOpen, Runnable, WaitOpen
<1>3. ASSUME NEW x \in Handle, continuation[x] = h0
      PROVE  frame[x] = "final"
  <2>1. frame[h0] = "awaiting"
    BY <1>3, NullNotHandle DEF TaskInv, FramesOwned
  <2>2. PICK c \in Handle : continuation[c] = h0 /\ frame[c] = "final"
    BY <1>2, <2>1 DEF Runnable, ChildDone
  <2>3. x = c
    BY SMTT(30), <1>3, <2>2, NullNotHandle DEF TaskInv, FramesOwned
  <2> QED  BY <2>2, <2>3
<1>4. /\ current = Null
      /\ \A x \in Handle : frame'[x] = IF x = h0 THEN "running"
                                       ELSE IF continuation[x] = h0 THEN "free"
                                       ELSE frame[x]
      /\ continuation' = [x \in Handle |-> IF continuation[x] = h0 THEN Null
                                           ELSE continuation[x]]
      /\ UNCHANGED handle
  BY <1>0, <1>2, HandleFrame
     DEF DrainPop, ResumeFrame, TypeInv, ControlType, CurrentOK, waiterVars
<1>5. wait_results' = [wait_results EXCEPT ![h0] = Null]
  BY <1>0, <1>2 DEF DrainPop, TypeInv, QueueType, TaskInv, ResultsWait
<1>6. \A h \in Handle : LifeMap[h] # "running"
  BY <1>4, LifeOf, NullNotHandle DEF Life, TaskInv, RunningOne
<1>7. /\ LifeMap[h0] = "suspended" /\ h0 \notin ParkedSet
      /\ \A c \in Handle : continuation[c] = h0 => LifeMap[c] = "done"
  <2>1. frame[h0] \in {"initial", "waiting", "awaiting"}
    BY <1>2 DEF Runnable
  <2> QED  BY <1>2, <1>3, <2>1, LifeOf, ParkedIs DEF Life
<1>8. LifeMap' = [c \in Handle |-> IF c = h0 THEN "running"
                                   ELSE IF continuation[c] = h0 THEN "none"
                                   ELSE LifeMap[c]]
  BY <1>4 DEF LifeMap, Life
<1>9. ParkedSet' = ParkedSet
  BY <1>4, ParkedIs DEF Parked
<1>10. \A i \in 1..Len(ready_queue') : ready_queue'[i] # h0
  BY <1>1 DEF In
<1> QED  BY <1>0, <1>1, <1>4, <1>5, <1>6, <1>7, <1>8, <1>9, <1>10
         DEF Sched!Run, Sched!Idle

(* co_await of a task maps to Await.                                       *)
LEMMA AwaitMaps ==
    ASSUME TypeInv, TaskInv, NEW c \in Handle, TaskAwait(c)
    PROVE  \E h \in Handle : Sched!Await(h, c)
<1>0. PICK p \in Handle : p = current /\ frame[p] = "running"
  BY DEF TaskAwait, TypeInv, ControlType, CurrentOK, TaskInv, RunningOne
<1>1. /\ frame[c] = "free" /\ p # c
      /\ \A x \in Handle : frame'[x] = IF x = p THEN "awaiting"
                                       ELSE IF x = c THEN "initial"
                                       ELSE frame[x]
      /\ continuation' = [continuation EXCEPT ![c] = p]
      /\ UNCHANGED <<wait_results, handle>>
      /\ ready_queue' = Append(ready_queue, c)
  BY <1>0, HandleFrame
     DEF TaskAwait, AwaitChild, TypeInv, TaskTypeOK, waiterVars
<1>2. LifeMap[p] = "running" /\ LifeMap[c] = "none"
  BY <1>0, <1>1, LifeOf DEF Life
<1>3. LifeMap' = [LifeMap EXCEPT ![p] = "suspended", ![c] = "suspended"]
  BY <1>1 DEF LifeMap, Life
<1>4. ParkedSet' = ParkedSet
  BY <1>1, ParkedIs DEF Parked
<1> QED  BY <1>1, <1>2, <1>3, <1>4 DEF Sched!Await

(* final_suspend maps to Finish: the parent was not queued yet.            *)
LEMMA FinishMaps ==
    ASSUME TypeInv, TaskInv, TaskFinish
    PROVE  \E h \in Handle : Sched!Finish(h)
<1>0. PICK p \in Handle : p = current /\ frame[p] = "running"
  BY DEF TaskFinish, TypeInv, ControlType, CurrentOK, TaskInv, RunningOne
<1>1. /\ \A x \in Handle : frame'[x] = IF x = p THEN "final" ELSE frame[x]
      /\ UNCHANGED <<continuation, wait_results, handle>>
      /\ ready_queue' = IF continuation[p] = Null THEN ready_queue
                        ELSE Append(ready_queue, continuation[p])
  BY <1>0, HandleFrame
     DEF TaskFinish, FinishFrame, TypeInv, TaskTypeOK, waiterVars
<1>2. LifeMap[p] = "running"
  BY <1>0, LifeOf DEF Life
<1>3. LifeMap' = [LifeMap EXCEPT ![p] = "done"]
  BY <1>1 DEF LifeMap, Life
<1>4. ParkedSet' = ParkedSet
  BY <1>1, ParkedIs DEF Parked
<1>5. continuation[p] # Null => ~In(ready_queue, continuation[p])
  <2> SUFFICES ASSUME continuation[p] # Null
               PROVE  ~In(ready_queue, continuation[p])
    OBVIOUS
  <2>1. continuation[p] \in Handle /\ frame[continuation[p]] = "awaiting"
    BY OwnedParts
  <2>2. ~ChildDone(continuation[p])
    BY SMTT(30), <1>0, <2>1, OwnedParts DEF ChildDone
  <2>3. ~Runnable(continuation[p])
    BY <2>1, <2>2 DEF Runnable
  <2> QED  BY <2>1, <2>3, SuspendedOnceParts DEF TaskInv, QueuedRunnable
<1> QED  BY <1>1, <1>2, <1>3, <1>4, <1>5
         DEF Sched!Finish, Sched!Queued, In

(* A wait that is over before it begins maps to Elapse.                    *)
LEMMA ElapsedMaps ==
    ASSUME TypeInv, TaskInv, ArmElapsed
    PROVE  \E h \in Handle : Sched!Elapse(h, "ETIMEDOUT")
<1>0. PICK p \in Handle : p = current /\ frame[p] = "running"
  BY DEF ArmElapsed, TypeInv, ControlType, CurrentOK, TaskInv, RunningOne
<1>1. /\ \A x \in Handle : frame'[x] = IF x = p THEN "waiting" ELSE frame[x]
      /\ wait_results' = [wait_results EXCEPT ![p] = "ETIMEDOUT"]
      /\ UNCHANGED <<continuation, handle>>
      /\ ready_queue' = Append(ready_queue, p)
  BY <1>0, HandleFrame
     DEF ArmElapsed, SuspendFrame, TypeInv, TaskTypeOK, waiterVars
<1>2. LifeMap[p] = "running" /\ wait_results[p] = Null
  BY <1>0, LifeOf, NotHeld DEF Life
<1>3. LifeMap' = [LifeMap EXCEPT ![p] = "suspended"]
  BY <1>1 DEF LifeMap, Life
<1>4. ParkedSet' = ParkedSet
  BY <1>1, ParkedIs DEF Parked
<1> QED  BY <1>1, <1>2, <1>3, <1>4 DEF Sched!Elapse

(* An accepted registration maps to Park.                                  *)
LEMMA ArmMaps ==
    ASSUME TypeInv, TaskInv, NEW v \in Waiter, NEW t, Arm(v, t, "ok")
    PROVE  \E h \in Handle : Sched!Park(h)
<1>0. PICK p \in Handle : p = current /\ frame[p] = "running"
  BY DEF Arm, TypeInv, ControlType, CurrentOK, TaskInv, RunningOne
<1>1. /\ \A x \in Handle : frame'[x] = IF x = p THEN "waiting" ELSE frame[x]
      /\ UNCHANGED <<continuation, wait_results, ready_queue>>
  BY <1>0 DEF Arm, SuspendFrame, TypeInv, TaskTypeOK, queueVars
<1>h. /\ handle[v] = Null
      /\ \A w \in Waiter : handle'[w] = IF w = v THEN p ELSE handle[w]
  <2>1. ~Armed(v) /\ \E g : g.handle = p /\ waiters' = [waiters EXCEPT ![v] = g]
    BY <1>0 DEF Arm
  <2> QED  BY <2>1, HandleType, HandleFrame DEF TypeInv, WaiterType
<1>2. LifeMap[p] = "running" /\ wait_results[p] = Null
  BY <1>0, LifeOf, NotHeld DEF Life
<1>3. LifeMap' = [LifeMap EXCEPT ![p] = "suspended"]
  BY <1>1 DEF LifeMap, Life
<1>4. ParkedSet' = ParkedSet \cup {p}
  BY <1>h, NullNotHandle, ParkedIs DEF Parked
<1> QED  BY <1>1, <1>2, <1>3, <1>4 DEF Sched!Park

(* The end of a wait maps to Wake of its coroutine.                        *)
LEMMA WakeMaps ==
    ASSUME TypeInv, TaskInv, NEW v \in Waiter, Armed(v),
           NEW r \in Outcome, WakeSide(v, r), UNCHANGED taskVars
    PROVE  SchedStep
<1>0. PICK p \in Handle : p = handle[v]
  BY HandleType
<1>1. /\ ~In(ready_queue, p) /\ waiters[v].handle = p /\ p \in ParkedSet
      /\ LifeMap' = LifeMap /\ continuation' = continuation
  BY <1>0, HandleType, ParkedWaits, ParkedIs DEF taskVars, LifeMap, Parked
<1>2. /\ wait_results' = [wait_results EXCEPT ![p] = r]
      /\ ready_queue' = Append(ready_queue, p)
      /\ ready_queue \in Seq(Handle)
      /\ wait_results \in [Handle -> Outcome \cup {Null}]
  BY <1>1 DEF WakeSide, TypeInv, QueueType
<1>3. \A w \in Waiter : handle'[w] = IF w = v THEN Null ELSE handle[w]
  BY HandleType, HandleFrame DEF WakeSide, TypeInv, WaiterType, NoReg
<1>4. \A w \in Waiter : handle[w] = p <=> w = v
  BY <1>0, NullNotHandle, SuspendedOnceParts DEF TaskInv, ParkedOnce
<1>5. ParkedSet' = {x \in ParkedSet : x # p}
  BY <1>3, <1>4, NullNotHandle, ParkedIs DEF Parked
<1> DEFINE s == <<p>>
<1>6. /\ Len(s) = 1 /\ s[1] = p /\ s \in Seq(Handle)
      /\ ready_queue' = ready_queue \o s
  BY SMTT(30), <1>2
<1> HIDE DEF s
<1>7. /\ ParkedSet' = {x \in ParkedSet : \A i \in 1..Len(s) : s[i] # x}
      /\ wait_results' = [x \in Handle |-> IF \E i \in 1..Len(s) : s[i] = x
                                          THEN r ELSE wait_results[x]]
  <2>1. \A x : (\E i \in 1..Len(s) : s[i] = x) <=> x = p
    BY SMTT(30), <1>6
  <2>2. ParkedSet' = {x \in ParkedSet : \A i \in 1..Len(s) : s[i] # x}
    BY <1>5, <2>1
  <2>3. wait_results' = [x \in Handle |-> IF x = p THEN r ELSE wait_results[x]]
    BY <1>2
  <2>4. \A x \in Handle : (\E i \in 1..Len(s) : s[i] = x) <=> x = p
    BY <2>1
  <2>5. [x \in Handle |-> IF x = p THEN r ELSE wait_results[x]]
            = [x \in Handle |-> IF \E i \in 1..Len(s) : s[i] = x
                                THEN r ELSE wait_results[x]]
    BY <2>4
  <2> QED  BY <2>2, <2>3, <2>5
<1>8. Sched!Wake(s, r)
  <2>0. s # <<>> /\ \A i \in 1..Len(s) : i = 1
    <3>1. Len(s) = 1
      BY <1>6
    <3>2. Len(<<>>) # 1 /\ \A i \in 1..1 : i = 1
      BY SMTT(30)
    <3> QED  BY <3>1, <3>2
  <2>1. /\ \A i \in 1..Len(s) : s[i] = p
        /\ \A i, j \in 1..Len(s) : s[i] = s[j] => i = j
    BY <1>6, <2>0
  <2>2. \A i \in 1..Len(s) : s[i] \in ParkedSet /\ ~Sched!Queued(s[i])
    BY <1>1, <2>1 DEF Sched!Queued, In
  <2> QED  BY <1>1, <1>6, <1>7, <2>0, <2>1, <2>2 DEF Sched!Wake
<1> QED  BY <1>0, <1>8 DEF s, SchedStep, Sched!SchedNext

(* cleanup_completed_roots maps to Reap: the roots that are done are the   *)
(* done coroutines nobody awaits.                                          *)
LEMMA CleanupMaps ==
    ASSUME TypeInv, TaskInv, CleanupCompletedRoots,
           UNCHANGED <<queueVars, handle>>
    PROVE  Sched!Reap
<1>1. /\ \A x \in Handle : frame'[x] = IF x \in DoneRoots THEN "free"
                                       ELSE frame[x]
      /\ continuation' = [x \in Handle |-> IF x \in DoneRoots THEN Null
                                           ELSE continuation[x]]
  BY DEF CleanupCompletedRoots, DestroyFrames
<1>2. \A x \in Handle : x \in DoneRoots
                           <=> frame[x] = "final" /\ continuation[x] = Null
  BY DEF DoneRoots, TaskInv, FramesOwned
<1>3. continuation' = continuation
  BY <1>1, <1>2 DEF TypeInv, TaskTypeOK
<1>4. LifeMap' = [x \in Handle |->
          IF LifeMap[x] = "done" /\ continuation[x] = Null THEN "none"
          ELSE LifeMap[x]]
  BY <1>1, <1>2 DEF LifeMap, Life
<1>5. ParkedSet' = ParkedSet
  BY ParkedIs DEF Parked
<1> QED  BY <1>3, <1>4, <1>5 DEF Sched!Reap, queueVars

(* Destroying the loop maps to Discard.                                    *)
LEMMA RecreateMaps ==
    ASSUME TypeInv, TaskInv, Recreate
    PROVE  Sched!Discard
<1>1. current = Null
  BY DEF Recreate, TypeInv, ControlType, CurrentOK
<1>2. \A h \in Handle : LifeMap[h] # "running"
  BY <1>1, LifeOf, NullNotHandle DEF Life, TaskInv, RunningOne
<1>3. /\ \A x \in Handle : frame'[x] = "free"
      /\ continuation' = [x \in Handle |-> Null]
      /\ ready_queue' = <<>>
      /\ wait_results' = [h \in Handle |-> Null]
      /\ \A w \in Waiter : handle'[w] = Null
  BY HandleFrame DEF Recreate, DestroyFrames, NoReg
<1>4. LifeMap' = [h \in Handle |-> "none"]
  BY <1>3 DEF LifeMap, Life
<1>5. ParkedSet' = {}
  BY <1>3, NullNotHandle, ParkedIs DEF Parked
<1> QED  BY <1>2, <1>3, <1>4, <1>5 DEF Sched!Discard, Sched!Idle

(* A fresh loop maps to the initial state of Scheduler.                    *)
LEMMA InitMaps == Init => Sched!SchedInit
<1> SUFFICES ASSUME Init PROVE Sched!SchedInit
  OBVIOUS
<1>1. LifeMap = [h \in Handle |-> "none"]
  BY DEF Init, TaskInit, LifeMap, Life
<1>2. ParkedSet = {}
  BY NullNotHandle DEF Init, ParkedSet, NoReg
<1> QED  BY <1>1, <1>2 DEF Init, TaskInit, Sched!SchedInit

-----------------------------------------------------------------------------
(* Every step of the loop maps to a step of Scheduler or to none.          *)
LEMMA StepMaps == TypeInv /\ TaskInv /\ [Next]_vars => SchedStep
<1> SUFFICES ASSUME TypeInv, TaskInv, [Next]_vars
             PROVE  SchedStep
  OBVIOUS
<1>1. CASE UNCHANGED <<frame, continuation, ready_queue, waiters, wait_results>>
  BY <1>1, Stutters, HandleFrame
<1>2. CASE ScanSide
  <2> DEFINE w == Head(scan.todo)
  <2>1. CASE Expired(w)
    <3>1. WakeSide(w, "ETIMEDOUT") /\ UNCHANGED taskVars
      BY <1>2, <2>1 DEF ScanSide
    <3>2. scan.todo \in Seq(Waiter) /\ scan.todo # <<>>
      BY <1>2 DEF ScanSide, TypeInv, LocalType, ScanType
    <3>3. w \in Waiter
      BY SMTT(30), <3>2
    <3>4. Armed(w) /\ "ETIMEDOUT" \in Outcome
      BY <2>1 DEF Expired, Outcome
    <3> HIDE DEF w
    <3> QED  BY <3>1, <3>3, <3>4, WakeMaps
  <2>2. CASE ~Expired(w)
    BY <1>1, <1>2, <2>2 DEF ScanSide, queueVars, waiterVars, taskVars
  <2> QED  BY <2>1, <2>2
<1>3. CASE DrainPop
  BY <1>3, DrainMaps DEF SchedStep, Sched!SchedNext
<1>4. CASE AfterResume \/ LoopExit
  BY <1>4, CleanupMaps, HandleFrame
     DEF AfterResume, LoopExit, waiterVars, SchedStep, Sched!SchedNext
<1>5. CASE ProcessPoll
  <2>1. PICK t \in Token \ {wake_token} :
           /\ Completed(t) /\ Known(t)
           /\ IF waiters[inflight_polls[t]].token = t
              THEN WakeSide(inflight_polls[t], Head(batch).res)
              ELSE UNCHANGED <<queueVars, waiters>>
    BY <1>5 DEF ProcessPoll
  <2>2. UNCHANGED taskVars
    BY <1>5 DEF ProcessPoll
  <2>3. CASE waiters[inflight_polls[t]].token = t
    <3>1. inflight_polls[t] \in Waiter /\ Armed(inflight_polls[t])
      BY <2>1, <2>3, CompletedSide
    <3>2. Head(batch).res \in Outcome
      BY <2>1, CompletedSide
    <3> QED  BY <2>1, <2>2, <2>3, <3>1, <3>2, WakeMaps
  <2>4. CASE waiters[inflight_polls[t]].token # t
    BY <1>1, <2>1, <2>2, <2>4 DEF queueVars, taskVars
  <2> QED  BY <2>3, <2>4
<1>6. ASSUME NEW c \in Handle, Spawn(c)
      PROVE  SchedStep
  BY <1>6, SpawnMaps DEF SchedStep, Sched!SchedNext
<1>7. ASSUME NEW c \in Handle, TaskAwait(c)
      PROVE  SchedStep
  BY <1>7, AwaitMaps DEF SchedStep, Sched!SchedNext
<1>8. CASE TaskFinish
  BY <1>8, FinishMaps DEF SchedStep, Sched!SchedNext
<1>9. CASE ArmElapsed
  BY <1>9, ElapsedMaps DEF SchedStep, Sched!SchedNext, Outcome
<1>10. CASE Recreate
  BY <1>10, RecreateMaps DEF SchedStep, Sched!SchedNext
<1>11. ASSUME NEW w \in Waiter, NEW t \in (Timeout \ {0}) \cup {Null},
              NEW r \in {"ok"} \cup Errno, Arm(w, t, r)
       PROVE  SchedStep
  <2>1. CASE r = "ok"
    BY <1>11, <2>1, ArmMaps DEF SchedStep, Sched!SchedNext
  <2>2. CASE r # "ok"
    BY <1>1, <1>11, <2>2 DEF Arm, waiterVars, taskVars, queueVars
  <2> QED  BY <2>1, <2>2
<1> USE DEF taskVars, queueVars, rootVars, waiterVars, dataVars, vars
<1>12. CASE RunStart \/ LoopTop \/ ExpireStart \/ ScanEnd \/ LoopCheck \/ Block
  BY <1>1, <1>12
     DEF RunStart, LoopTop, ExpireStart, ScanEnd, LoopCheck, Block
<1>13. CASE \/ WaitReturn \/ WaitTimeout \/ WaitInterrupted \/ ProcessStale
            \/ ProcessWake \/ ProcessRearm
  BY <1>1, <1>13 DEF WaitReturn, WaitTimeout, WaitInterrupted,
     WaitEmpty, ProcessStale, ProcessWake, ProcessRearm
<1>14. CASE TaskStop \/ TaskIo \/ StopStore \/ StopWrite \/ Environment \/ Tick
  BY <1>1, <1>14
     DEF TaskStop, TaskIo, StopStore, StopWrite, Environment, Tick
<1>15. CASE UNCHANGED vars
  BY <1>1, <1>15
<1>16. Suspend \/ RunOn => SchedStep
  BY <1>7, <1>8, <1>9, <1>11, <1>14 DEF Suspend, RunOn
<1> QED  BY <1>2, <1>3, <1>4, <1>5, <1>6, <1>10, <1>12, <1>13, <1>14,
            <1>15, <1>16 DEF Next, LoopStep

-----------------------------------------------------------------------------
(* The counters: open waits, those with a deadline, unfinished roots.      *)
ArmedSides == {w \in Waiter : Armed(w)}
TimedSides == {w \in Waiter : TimedSide(w)}
LiveRoots == {h \in root_tasks : frame[h] # "final"}
WaitsCounted ==
    /\ IsFiniteSet(ArmedSides)
    /\ pending_waiter_count = Cardinality(ArmedSides)
    /\ timed_waiter_count = Cardinality(TimedSides)
RootsCounted ==
    IsFiniteSet(LiveRoots) /\ active_task_count = Cardinality(LiveRoots)

(* Only an open wait has a deadline.                                       *)
LEMMA TimedFinite ==
    ASSUME TypeInv, WaitsCounted
    PROVE  IsFiniteSet(TimedSides) /\ TimedSides \subseteq ArmedSides
<1>1. TimedSides \subseteq ArmedSides
  BY SMTT(30), RegParts DEF TimedSides, ArmedSides, TimedSide, NoReg
<1> QED  BY <1>1, FS_Subset DEF WaitsCounted

(* A size_t that counts the elements of S counts those that are left.      *)
LEMMA CountRemove ==
    ASSUME NEW S, IsFiniteSet(S), NEW x \in S
    PROVE  /\ IsFiniteSet(S \ {x})
           /\ Decrement(Cardinality(S)) = Cardinality(S \ {x})
<1>1. /\ Cardinality(S) \in Nat /\ Cardinality(S \ {x}) \in Nat
      /\ Cardinality(S \ {x}) = Cardinality(S) - 1
      /\ IsFiniteSet(S \ {x})
  BY FS_RemoveElement, FS_CardinalityType
<1> QED  BY SMTT(30), <1>1 DEF Decrement

(* It counts a new one, too.                                               *)
LEMMA CountAdd ==
    ASSUME NEW S, IsFiniteSet(S), NEW x, x \notin S
    PROVE  /\ IsFiniteSet(S \cup {x})
           /\ Cardinality(S) + 1 = Cardinality(S \cup {x})
BY FS_AddElement

(* The end of a wait.                                                      *)
LEMMA WakeCounted ==
    ASSUME TypeInv, WaitsCounted, NEW v \in Waiter, Armed(v), NEW r,
           WakeSide(v, r)
    PROVE  WaitsCounted'
<1>0. waiters' = [waiters EXCEPT ![v] = NoReg] /\ waiters \in [Waiter -> Reg]
  BY DEF WakeSide, TypeInv, WaiterType
<1>1. ArmedSides' = ArmedSides \ {v} /\ v \in ArmedSides
  BY <1>0 DEF ArmedSides, Armed, NoReg
<1>2. TimedSides' = TimedSides \ {v}
  BY <1>0 DEF TimedSides, TimedSide, NoReg
<1>3. /\ pending_waiter_count' = Cardinality(ArmedSides')
      /\ IsFiniteSet(ArmedSides')
  BY <1>1, CountRemove DEF WaitsCounted, WakeSide
<1>4. timed_waiter_count' = Cardinality(TimedSides')
  <2>1. CASE TimedSide(v)
    BY <1>2, <2>1, CountRemove, TimedFinite
       DEF WaitsCounted, WakeSide, TimedSides
  <2>2. CASE ~TimedSide(v)
    <3>1. TimedSides' = TimedSides
      BY <1>2, <2>2 DEF TimedSides
    <3> QED  BY <2>2, <3>1 DEF WaitsCounted, WakeSide
  <2> QED  BY <2>1, <2>2
<1> QED  BY <1>3, <1>4 DEF WaitsCounted

(* A new wait.                                                             *)
LEMMA ArmCounted ==
    ASSUME TypeInv, WaitsCounted, NEW v \in Waiter,
           NEW t \in (Timeout \ {0}) \cup {Null}, Arm(v, t, "ok")
    PROVE  WaitsCounted'
<1>1. PICK g \in Reg :
         /\ waiters' = [waiters EXCEPT ![v] = g] /\ ~Armed(v)
         /\ g.handle # Null /\ g.token = next_token
         /\ g.deadline = Null <=> t = Null
  BY SMTT(30), ArmEffect
<1>2. waiters \in [Waiter -> Reg]
  BY DEF TypeInv, WaiterType
<1>3. ArmedSides' = ArmedSides \cup {v} /\ v \notin ArmedSides
  BY <1>1, <1>2 DEF ArmedSides, Armed
<1>4. /\ pending_waiter_count' = Cardinality(ArmedSides')
      /\ IsFiniteSet(ArmedSides')
  <2>1. pending_waiter_count' = pending_waiter_count + 1
    BY DEF Arm
  <2> QED  BY <1>3, <2>1, CountAdd DEF WaitsCounted
<1>5. v \notin TimedSides
  BY <1>3, TimedFinite
<1>6. timed_waiter_count' = timed_waiter_count + (IF t = Null THEN 0 ELSE 1)
  BY DEF Arm
<1>7. timed_waiter_count' = Cardinality(TimedSides')
  <2>1. CASE t = Null
    <3>1. TimedSides' = TimedSides
      BY <1>1, <1>2, <1>5, <2>1 DEF TimedSides, TimedSide
    <3> QED  BY SMTT(30), <1>6, <2>1, <3>1
                DEF WaitsCounted, TypeInv, WaiterType
  <2>2. CASE t # Null
    <3>1. TimedSides' = TimedSides \cup {v}
      BY <1>1, <1>2, <2>2 DEF TimedSides, TimedSide
    <3> QED  BY <1>5, <1>6, <2>2, <3>1, CountAdd, TimedFinite
             DEF WaitsCounted
  <2> QED  BY <2>1, <2>2
<1> QED  BY <1>4, <1>7 DEF WaitsCounted

(* Steps that change no unfinished root.                                   *)
LEMMA RootsFrame ==
    ASSUME RootsCounted, UNCHANGED active_task_count,
           \A h : /\ h \in root_tasks /\ frame[h] # "final"
                        => h \in root_tasks' /\ frame'[h] # "final"
                  /\ h \in root_tasks' /\ frame'[h] # "final"
                        => h \in root_tasks /\ frame[h] # "final"
    PROVE  RootsCounted'
<1>1. LiveRoots' = LiveRoots
  BY DEF LiveRoots
<1> QED  BY <1>1 DEF RootsCounted

(* resume() frees no root: only the child the coroutine awaited.           *)
LEMMA DrainRoots ==
    ASSUME TypeInv, TaskInv, RootsCounted, DrainPop
    PROVE  RootsCounted'
<1> DEFINE h0 == Head(ready_queue)
<1>1. UNCHANGED rootVars
  BY DEF DrainPop
<1>2. CASE frame[h0] = "final"
  BY <1>1, <1>2, RootsFrame DEF DrainPop, rootVars, taskVars
<1>3. CASE frame[h0] # "final"
  <2>0. ready_queue \in Seq(Handle) /\ ready_queue # <<>>
    BY DEF DrainPop, TypeInv, QueueType
  <2>1. h0 \in Handle
    BY SMTT(30), <2>0
  <2>2. \A x \in Handle : frame'[x] = IF x = h0 THEN "running"
                                      ELSE IF continuation[x] = h0 THEN "free"
                                      ELSE frame[x]
    BY <1>3 DEF DrainPop, ResumeFrame
  <2> HIDE DEF h0
  <2>3. \A x \in root_tasks : x \in Handle /\ continuation[x] # h0
    BY <2>1, NullNotHandle, OwnedParts DEF TypeInv, RootType
  <2> QED  BY <1>1, <1>3, <2>1, <2>2, <2>3, RootsFrame
              DEF rootVars, h0
<1> QED  BY <1>2, <1>3

(* co_await and a wait suspend a coroutine that runs.                      *)
LEMMA SuspendRoots ==
    ASSUME TypeInv, TaskInv, RootsCounted, pc = "running", UNCHANGED rootVars,
           NEW s \in {"waiting", "awaiting"},
           \A x \in root_tasks : frame'[x] = IF x = current THEN s ELSE frame[x]
    PROVE  RootsCounted'
<1>1. current \in Handle /\ frame[current] = "running"
  BY DEF TypeInv, ControlType, CurrentOK, TaskInv, RunningOne
<1> QED  BY <1>1, RootsFrame DEF rootVars

(* spawn() adds an unfinished root.                                        *)
LEMMA SpawnRoots ==
    ASSUME TypeInv, TaskInv, RootsCounted, NEW c \in Handle, Spawn(c)
    PROVE  RootsCounted'
<1>1. /\ frame[c] = "free" /\ c \notin root_tasks
      /\ frame' = [frame EXCEPT ![c] = "initial"] /\ frame \in [Handle -> FrameState]
      /\ root_tasks' = root_tasks \cup {c} /\ root_tasks \subseteq Handle
      /\ active_task_count' = active_task_count + 1
  BY OwnedParts
     DEF Spawn, CreateRoot, TypeInv, TaskTypeOK, RootType
<1>2. LiveRoots' = LiveRoots \cup {c} /\ c \notin LiveRoots
  BY <1>1 DEF LiveRoots
<1> QED  BY <1>1, <1>2, CountAdd, FS_AddElement DEF RootsCounted

(* co_return of a root leaves one unfinished root less.                    *)
LEMMA FinishRoots ==
    ASSUME TypeInv, TaskInv, RootsCounted, TaskFinish
    PROVE  RootsCounted'
<1>1. current \in Handle /\ frame[current] = "running"
  BY DEF TaskFinish, TypeInv, ControlType, CurrentOK, TaskInv, RunningOne
<1>2. /\ frame' = [frame EXCEPT ![current] = "final"]
      /\ frame \in [Handle -> FrameState]
      /\ root_tasks' = root_tasks /\ root_tasks \subseteq Handle
      /\ active_task_count' = IF current \in root_tasks
                              THEN Decrement(active_task_count)
                              ELSE active_task_count
  BY DEF TaskFinish, FinishFrame, TypeInv, TaskTypeOK, RootType
<1>3. LiveRoots' = LiveRoots \ {current}
  BY <1>1, <1>2 DEF LiveRoots
<1>4. CASE current \in root_tasks
  <2>1. current \in LiveRoots
    BY <1>1, <1>4 DEF LiveRoots
  <2> QED  BY <1>2, <1>3, <1>4, <2>1, CountRemove, FS_RemoveElement
           DEF RootsCounted
<1>5. CASE current \notin root_tasks
  <2>1. LiveRoots' = LiveRoots
    BY <1>3, <1>5 DEF LiveRoots
  <2> QED  BY <1>2, <1>5, <2>1 DEF RootsCounted
<1> QED  BY <1>4, <1>5

-----------------------------------------------------------------------------
(* A constructed loop counts nothing.                                      *)
LEMMA CountedInit == Init => WaitsCounted /\ RootsCounted
<1> SUFFICES ASSUME Init
             PROVE  WaitsCounted /\ RootsCounted
  OBVIOUS
<1>1. NoReg.handle = Null /\ NoReg.deadline = Null
  BY DEF NoReg
<1>2. ArmedSides = {} /\ TimedSides = {} /\ LiveRoots = {}
  BY <1>1
     DEF Init, ArmedSides, TimedSides, LiveRoots, Armed, TimedSide
<1> QED  BY <1>2, FS_EmptySet DEF Init, WaitsCounted, RootsCounted

(* Every step keeps the counters of waits exact.                           *)
LEMMA WaitsNext ==
    TypeInv /\ TokensLead /\ WaitsCounted /\ [Next]_vars => WaitsCounted'
<1> SUFFICES ASSUME TypeInv, TokensLead, WaitsCounted, [Next]_vars
             PROVE  WaitsCounted'
  OBVIOUS
<1>1. CASE UNCHANGED <<waiters, pending_waiter_count, timed_waiter_count>>
  BY <1>1 DEF WaitsCounted, ArmedSides, TimedSides, Armed, TimedSide
<1>2. CASE ScanSide
  <2> DEFINE w == Head(scan.todo)
  <2>1. CASE Expired(w)
    <3>1. WakeSide(w, "ETIMEDOUT")
      BY <1>2, <2>1 DEF ScanSide
    <3>2. scan.todo \in Seq(Waiter) /\ scan.todo # <<>>
      BY <1>2 DEF ScanSide, TypeInv, LocalType, ScanType
    <3>3. w \in Waiter
      BY SMTT(30), <3>2
    <3>4. Armed(w) /\ "ETIMEDOUT" \in Outcome
      BY <2>1 DEF Expired, Outcome
    <3> HIDE DEF w
    <3> QED  BY <3>1, <3>3, <3>4, WakeCounted
  <2>2. CASE ~Expired(w)
    BY <1>1, <1>2, <2>2 DEF ScanSide, waiterVars
  <2> QED  BY <2>1, <2>2
<1>3. CASE ProcessPoll
  <2>1. PICK t \in Token \ {wake_token} :
           /\ Completed(t) /\ Known(t)
           /\ waiters[inflight_polls[t]].token = t
                 => WakeSide(inflight_polls[t], Head(batch).res)
    BY <1>3 DEF ProcessPoll
  <2>2. inflight_polls[t] \in Waiter /\ Head(batch).res \in Outcome
    BY <2>1, CompletedSide
  <2>3. Armed(inflight_polls[t]) /\ waiters[inflight_polls[t]].token = t
    BY <2>2 DEF TokensLead
  <2> QED  BY <2>1, <2>2, <2>3, WakeCounted
<1>4. CASE Recreate
  <2>1. NoReg.handle = Null /\ NoReg.deadline = Null
    BY DEF NoReg
  <2>2. ArmedSides' = {} /\ TimedSides' = {}
    BY <1>4, <2>1
       DEF Recreate, ArmedSides, TimedSides, Armed, TimedSide
  <2> QED  BY <1>4, <2>2, FS_EmptySet
              DEF Recreate, WaitsCounted
<1>5. ASSUME NEW w \in Waiter, NEW t \in (Timeout \ {0}) \cup {Null},
             NEW r \in {"ok"} \cup Errno, Arm(w, t, r)
      PROVE  WaitsCounted'
  <2>1. CASE r = "ok"
    BY <1>5, <2>1, ArmCounted
  <2>2. CASE r # "ok"
    BY <1>1, <1>5, <2>2 DEF Arm, waiterVars
  <2> QED  BY <2>1, <2>2
<1> USE DEF waiterVars, dataVars, vars
<1>6. CASE RunStart \/ LoopTop \/ ExpireStart \/ ScanEnd \/ LoopCheck \/ Block
  BY <1>1, <1>6
     DEF RunStart, LoopTop, ExpireStart, ScanEnd, LoopCheck, Block
<1>7. CASE \/ WaitReturn \/ WaitTimeout \/ WaitInterrupted \/ ProcessStale
           \/ ProcessWake \/ ProcessRearm
  BY <1>1, <1>7 DEF WaitReturn, WaitTimeout, WaitInterrupted,
     WaitEmpty, ProcessStale, ProcessWake, ProcessRearm
<1>8. CASE TaskStop \/ TaskIo \/ StopStore \/ StopWrite \/ Environment \/ Tick
  BY <1>1, <1>8
     DEF TaskStop, TaskIo, StopStore, StopWrite, Environment, Tick
<1>9. CASE \/ DrainPop \/ AfterResume \/ LoopExit \/ TaskFinish \/ ArmElapsed
           \/ \E c \in Handle : Spawn(c) \/ TaskAwait(c)
  BY <1>1, <1>9
     DEF DrainPop, AfterResume, LoopExit, TaskFinish, ArmElapsed, Spawn, TaskAwait
<1>10. CASE UNCHANGED vars
  BY <1>1, <1>10
<1>11. Suspend \/ RunOn => WaitsCounted'
  BY <1>5, <1>8, <1>9 DEF Suspend, RunOn
<1> QED  BY <1>2, <1>3, <1>4, <1>6, <1>7, <1>8, <1>9, <1>10, <1>11
         DEF Next, LoopStep

(* Every step keeps the count of unfinished roots exact.                   *)
LEMMA RootsNext ==
    TypeInv /\ TaskInv /\ RootsCounted /\ [Next]_vars => RootsCounted'
<1> SUFFICES ASSUME TypeInv, TaskInv, RootsCounted, [Next]_vars
             PROVE  RootsCounted'
  OBVIOUS
<1>0. root_tasks \subseteq Handle /\ frame \in [Handle -> FrameState]
  BY DEF TypeInv, RootType, TaskTypeOK
<1>1. CASE UNCHANGED <<frame, rootVars>>
  BY <1>1, RootsFrame DEF rootVars
<1>2. CASE DrainPop \/ TaskFinish
  BY <1>2, DrainRoots, FinishRoots
<1>3. CASE AfterResume \/ LoopExit
  <2>1. CleanupCompletedRoots /\ UNCHANGED active_task_count
    BY <1>3 DEF AfterResume, LoopExit
  <2>2. \A h \in Handle : frame'[h] = IF h \in DoneRoots THEN "free" ELSE frame[h]
    BY <2>1 DEF CleanupCompletedRoots, DestroyFrames
  <2> QED  BY <1>0, <2>1, <2>2, RootsFrame DEF CleanupCompletedRoots, DoneRoots
<1>4. ASSUME NEW c \in Handle, Spawn(c)
      PROVE  RootsCounted'
  BY <1>4, SpawnRoots
<1>5. ASSUME NEW c \in Handle, TaskAwait(c)
      PROVE  RootsCounted'
  <2>1. pc = "running" /\ UNCHANGED rootVars /\ c \notin root_tasks
    BY <1>5, OwnedParts DEF TaskAwait, AwaitChild
  <2>2. \A x \in root_tasks : frame'[x] = IF x = current THEN "awaiting"
                                         ELSE frame[x]
    BY <1>0, <1>5, <2>1 DEF TaskAwait, AwaitChild
  <2> QED  BY <2>1, <2>2, SuspendRoots
<1>6. ASSUME SuspendFrame(current), pc = "running", UNCHANGED rootVars
      PROVE  RootsCounted'
  BY <1>0, <1>6, SuspendRoots DEF SuspendFrame
<1>7. ASSUME NEW w \in Waiter, NEW t \in (Timeout \ {0}) \cup {Null},
             NEW r \in {"ok"} \cup Errno, Arm(w, t, r)
      PROVE  RootsCounted'
  BY <1>1, <1>6, <1>7 DEF Arm, taskVars
<1>8. CASE ArmElapsed
  BY <1>6, <1>8 DEF ArmElapsed
<1>9. CASE Recreate
  <2>1. LiveRoots' = {} /\ active_task_count' = 0
    BY <1>9 DEF Recreate, LiveRoots
  <2> QED  BY <2>1, FS_EmptySet DEF RootsCounted
<1> USE DEF taskVars, dataVars, vars
<1>10. CASE RunStart \/ LoopTop \/ ExpireStart \/ ScanEnd \/ LoopCheck \/ Block
  BY <1>1, <1>10
     DEF RunStart, LoopTop, ExpireStart, ScanEnd, LoopCheck, Block
<1>11. CASE \/ WaitReturn \/ WaitTimeout \/ WaitInterrupted \/ ProcessStale
            \/ ProcessWake \/ ProcessRearm \/ ProcessPoll \/ ScanSide
  BY <1>1, <1>11 DEF WaitReturn, WaitTimeout, WaitInterrupted,
     WaitEmpty, ProcessStale, ProcessWake, ProcessRearm, ProcessPoll, ScanSide
<1>12. CASE TaskStop \/ TaskIo \/ StopStore \/ StopWrite \/ Environment \/ Tick
  BY <1>1, <1>12
     DEF TaskStop, TaskIo, StopStore, StopWrite, Environment, Tick
<1>13. CASE UNCHANGED vars
  BY <1>1, <1>13
<1>14. Suspend \/ RunOn => RootsCounted'
  BY <1>2, <1>5, <1>7, <1>8, <1>12 DEF Suspend, RunOn
<1> QED  BY <1>2, <1>3, <1>4, <1>9, <1>10, <1>11, <1>12, <1>13, <1>14
         DEF Next, LoopStep

-----------------------------------------------------------------------------
(* A suspended coroutine is held in exactly one place, for any number of   *)
(* coroutines, descriptors and completions: ready_queue_ never holds a     *)
(* handle twice and no coroutine is forgotten.                             *)
THEOREM SuspendedOnceHolds == Spec => []SuspendedOnce
<1>1. TypeInv /\ TaskInv => SuspendedOnce
  BY DEF TaskInv
<1> QED  BY <1>1, TypeInit, TypeNext, TaskInvInit, TaskNext, PTL DEF Spec

(* Every live frame has one owner: root_tasks_ or the parent awaiting it.  *)
THEOREM FramesOwnedHolds == Spec => []FramesOwned
<1>1. TypeInv /\ TaskInv => FramesOwned
  BY DEF TaskInv
<1> QED  BY <1>1, TypeInit, TypeNext, TaskInvInit, TaskNext, PTL DEF Spec

(* pending_waiter_count_, timed_waiter_count_ and active_task_count_ are   *)
(* exact and inflight_polls_ holds the tokens of the open waits and no     *)
(* others, for any number of waits, timeouts and roots.                    *)
THEOREM CountersExactHold == Spec => []CountersExact
<1>1. WaitsCounted /\ RootsCounted /\ TokensLead => CountersExact
  BY DEF WaitsCounted, RootsCounted, CountersExact, TokensLead, ArmedSides,
         TimedSides, LiveRoots
<1> QED  BY <1>1, TypeInit, TypeNext, TaskInvInit, TaskNext, LeadInit,
            LeadNext, CountedInit, WaitsNext, RootsNext, PTL DEF Spec

(* uring_event_loop implements Scheduler: late completions, removed polls  *)
(* and failed submissions included, coroutines get the service event_loop  *)
(* gives.                                                                  *)
THEOREM UringLoopImplementsScheduler == Spec => ImplementsScheduler
<1>1. TypeInv /\ TaskInv /\ [Next]_vars => [Sched!SchedNext]_(Sched!schedVars)
  BY StepMaps DEF SchedStep
<1> QED  BY <1>1, InitMaps, TypeInit, TypeNext, TaskInvInit, TaskNext, PTL
         DEF Spec, ImplementsScheduler, Sched!SchedSpec
=============================================================================
