--------------------------- MODULE OperationProofs ---------------------------
(***************************************************************************)
(* What the operations of the runtime give their callers.                  *)
(*                                                                         *)
(* The job queue of Resolver, for any number of requests: every job is in  *)
(* one place, the worker never sleeps over one, an answer is given once    *)
(* and to the request that asked for it, and the destructor leaves none    *)
(* behind.                                                                 *)
(*                                                                         *)
(* async_connect and async_accept of Connect, for any number of clients,   *)
(* acceptors and places in the backlog: no refusal and no connection is    *)
(* lost.                                                                   *)
(*                                                                         *)
(* Reads and writes of Transfer, for any sizes of buffers and any          *)
(* timeouts: the bytes arrive in order, each once.                         *)
(***************************************************************************)
EXTENDS Resolver, Connect, Transfer, FiniteSetTheorems, TLAPS

(* Most leaves are first-order; those on arithmetic or sequences name SMT. *)
USE ZenonT(30)

In(q, r) == \E i \in 1..Len(q) : q[i] = r
Distinct(q) == \A i, j \in 1..Len(q) : q[i] = q[j] => i = j

(* push_back of something that is not queued.                              *)
LEMMA PushOnce ==
    ASSUME NEW S, NEW q \in Seq(S), NEW x \in S, Distinct(q), ~In(q, x)
    PROVE  /\ Append(q, x) \in Seq(S) /\ Append(q, x) # <<>>
           /\ Distinct(Append(q, x))
           /\ \A r : In(Append(q, x), r) <=> In(q, r) \/ r = x
<1>1. /\ Append(q, x) \in Seq(S)
      /\ Len(Append(q, x)) = Len(q) + 1
      /\ \A i \in 1..Len(q) : Append(q, x)[i] = q[i]
      /\ Append(q, x)[Len(q) + 1] = x
      /\ Len(q) \in Nat
  BY SMTT(30)
<1>2. Distinct(Append(q, x))
  BY SMTT(30), <1>1 DEF Distinct, In
<1>3. ASSUME NEW r
      PROVE  In(Append(q, x), r) <=> In(q, r) \/ r = x
  BY SMTT(30), <1>1 DEF In
<1> QED  BY SMTT(30), <1>1, <1>2, <1>3

(* pop_front.                                                              *)
LEMMA PopOnce ==
    ASSUME NEW S, NEW q \in Seq(S), q # <<>>, Distinct(q)
    PROVE  /\ Head(q) \in S /\ In(q, Head(q))
           /\ Tail(q) \in Seq(S) /\ Distinct(Tail(q))
           /\ \A r : In(Tail(q), r) <=> In(q, r) /\ r # Head(q)
<1>1. /\ Tail(q) \in Seq(S)
      /\ Len(Tail(q)) = Len(q) - 1
      /\ \A i \in 1..Len(Tail(q)) : Tail(q)[i] = q[i + 1]
      /\ Head(q) = q[1] /\ Head(q) \in S
      /\ Len(q) \in Nat \ {0}
  BY SMTT(30)
<1>2. In(q, Head(q)) /\ Distinct(Tail(q))
  BY SMTT(30), <1>1 DEF In, Distinct
<1>3. ASSUME NEW r
      PROVE  In(Tail(q), r) <=> In(q, r) /\ r # Head(q)
  <2>1. ASSUME In(Tail(q), r)
        PROVE  In(q, r) /\ r # Head(q)
    BY SMTT(30), <1>1, <2>1 DEF In, Distinct
  <2>2. ASSUME In(q, r), r # Head(q)
        PROVE  In(Tail(q), r)
    <3>1. PICK i \in 1..Len(q) : q[i] = r
      BY <2>2 DEF In
    <3>2. i - 1 \in 1..Len(Tail(q)) /\ Tail(q)[i - 1] = r
      BY SMTT(30), <1>1, <2>2, <3>1
    <3> QED  BY <3>2 DEF In
  <2> QED  BY <2>1, <2>2
<1> QED  BY <1>1, <1>2, <1>3

-----------------------------------------------------------------------------
(* JobsExact by parts, with what it needs: a request that was not made has *)
(* no job, one that was made has one until it is answered, and a state is  *)
(* marked canceled only for a request that was made.                       *)
Placed(r) == In(jobs, r) \/ next = r \/ ready[r]
PlacedOnce(r) ==
    /\ In(jobs, r) => ~ready[r] /\ next # r
    /\ next = r => ~ready[r]
    /\ pc[r] \in {"notify", "loop", "sleep"} => Placed(r)
    /\ pc[r] = "new" => ~Placed(r)
    /\ canceled[r] => Placed(r)
Places == Distinct(jobs) /\ \A r \in Request : PlacedOnce(r)

(* The worker ends after stop_, with the queue empty, and stop_ comes when *)
(* no more requests are made.                                              *)
Ending ==
    /\ wpc = "ended" => jobs = <<>> /\ stop_
    /\ stop_ => main # "running"
    /\ main = "joined" => wpc = "ended"
    /\ wpc = "unborn" => jobs = <<>>
    /\ wpc = "unborn" => main = "running"

ResolverInv == TypeOK /\ Places /\ NoLostJob /\ Ending

-----------------------------------------------------------------------------
(* No requests, no worker.                                                 *)
LEMMA ResolverInit == Init => ResolverInv
<1> SUFFICES ASSUME Init
             PROVE  ResolverInv
  OBVIOUS
<1>1. TypeOK
  <2>1. jobs \in Seq(Request)
    BY SMTT(30) DEF Init
  <2>2. /\ next \in Request \cup {Null}
        /\ wpc \in {"taken", "publish"} <=> next # Null
    BY DEF Init
  <2> QED  BY <2>1, <2>2 DEF Init, TypeOK
<1>2. Len(jobs) = 0
  BY DEF Init
<1> QED  BY SMTT(30), <1>1, <1>2, ResolverAssumption
            DEF Init, ResolverInv, Places, PlacedOnce, Placed, In,
                Distinct, NoLostJob, Ending

(* A job is queued before its request waits for it.                        *)
LEMMA ResolveStep ==
    ASSUME ResolverInv, NEW r \in Request, Resolve(r)
    PROVE  ResolverInv'
<1> USE DEF ResolverInv, stateVars, workerVars
<1>1. CASE token[r]
  <2>1. TypeOK'
    BY <1>1 DEF Resolve, Return, TypeOK
  <2>2. /\ UNCHANGED <<jobs, wpc, next, ready, canceled, stop_, main>>
        /\ \A x \in Request : pc'[x] = IF x = r THEN "done" ELSE pc[x]
    BY <1>1 DEF Resolve, Return, TypeOK
  <2>3. Places'
    BY <2>2 DEF Places, PlacedOnce, Placed, In, Distinct
  <2>4. NoLostJob'
    <3>1. pc[r] = "new"
      BY DEF Resolve
    <3> QED  BY <2>2, <3>1 DEF NoLostJob
  <2>5. Ending'
    BY <2>2 DEF Ending
  <2> QED  BY <2>1, <2>3, <2>4, <2>5
<1>2. CASE ~token[r]
  <2>1. /\ UNCHANGED <<next, ready, canceled, stop_, main, token>>
        /\ \A x \in Request : pc'[x] = IF x = r THEN "notify" ELSE pc[x]
        /\ pc[r] = "new" /\ main = "running" /\ jobs' = Append(jobs, r)
        /\ wpc' = IF wpc = "unborn" THEN "test" ELSE wpc
        /\ pc' = [pc EXCEPT ![r] = "notify"]
    BY <1>2 DEF Resolve, TypeOK
  <2>2. ~Placed(r) /\ jobs \in Seq(Request) /\ Distinct(jobs)
    BY <2>1 DEF Places, PlacedOnce, TypeOK
  <2>3. /\ jobs' \in Seq(Request) /\ Distinct(jobs')
        /\ \A x : In(jobs', x) <=> In(jobs, x) \/ x = r
    BY <2>1, <2>2, PushOnce DEF Placed
  <2>4. TypeOK'
    BY <2>1, <2>3 DEF TypeOK
  <2>5. \A x \in Request : Placed(x)' <=> Placed(x) \/ x = r
    BY <2>1, <2>3 DEF Placed, In
  <2>6. ASSUME NEW x \in Request
        PROVE  PlacedOnce(x)'
    <3>1. PlacedOnce(x) /\ PlacedOnce(r)
      BY DEF Places
    <3>2. In(jobs, x)' => ~ready'[x] /\ next' # x
      BY <2>1, <2>2, <2>3, <3>1 DEF PlacedOnce, Placed, In
    <3>3. next' = x => ~ready'[x]
      BY <2>1, <3>1 DEF PlacedOnce
    <3>4. /\ pc'[x] \in {"notify", "loop", "sleep"} => Placed(x)'
          /\ pc'[x] = "new" => ~Placed(x)'
          /\ canceled'[x] => Placed(x)'
      BY <2>1, <2>5, <3>1 DEF PlacedOnce
    <3> QED  BY <3>2, <3>3, <3>4 DEF PlacedOnce
  <2>8. Places'
    BY <2>3, <2>6 DEF Places, Distinct
  <2>9. NoLostJob'
    BY <2>1 DEF NoLostJob
  <2>10. Ending'
    BY <2>1 DEF Ending
  <2> QED  BY <2>4, <2>8, <2>9, <2>10
<1> QED  BY <1>1, <1>2

(* The other steps of a request and of its token leave the jobs alone.     *)
LEMMA RequestStep ==
    ASSUME ResolverInv, NEW r \in Request,
           Notify(r) \/ Loop(r) \/ SleepOver(r) \/ RequestStop(r)
    PROVE  ResolverInv'
<1> USE DEF ResolverInv
<1>1. TypeOK'
  BY DEF Notify, Loop, SleepOver, RequestStop, Return, Woken, TypeOK,
         workerVars, stateVars
<1>2. /\ UNCHANGED <<jobs, next, ready, stop_, main>>
      /\ \A x \in Request : x # r => /\ pc'[x] = pc[x]
                                     /\ canceled'[x] = canceled[x]
      /\ \/ pc'[r] = pc[r]
         \/ pc[r] \in {"notify", "loop", "sleep"} /\ pc'[r] # "new"
      /\ canceled'[r] => canceled[r] \/ pc[r] = "loop"
    BY DEF Notify, Loop, SleepOver, RequestStop, Return, TypeOK, workerVars,
           stateVars
<1>3. Places'
  <2>1. \A x \in Request : Placed(x)' <=> Placed(x)
    BY <1>2 DEF Placed, In
  <2>2. \A x \in Request :
           /\ pc'[x] \in {"notify", "loop", "sleep"} => Placed(x)'
           /\ pc'[x] = "new" => ~Placed(x)'
           /\ canceled'[x] => Placed(x)'
    BY <1>2, <2>1 DEF Places, PlacedOnce
  <2> QED  BY <1>2, <2>2 DEF Places, PlacedOnce, In, Distinct
<1>4. NoLostJob' /\ Ending'
  <2>1. CASE Notify(r)
    BY SMTT(30), <1>2, <2>1 DEF Notify, Woken, NoLostJob, Ending
  <2>2. CASE ~Notify(r)
    <3>1. wpc' = wpc /\ (pc[r] # "notify" \/ UNCHANGED pc)
      BY <2>2 DEF Loop, SleepOver, RequestStop, workerVars
    <3> QED  BY <1>2, <3>1 DEF NoLostJob, Ending
  <2> QED  BY <2>1, <2>2
<1> QED  BY <1>1, <1>3, <1>4

-----------------------------------------------------------------------------
(* pop_front: the job goes from the queue into the worker's hands.         *)
LEMMA TakeStep ==
    ASSUME ResolverInv, WorkerTest
    PROVE  ResolverInv'
<1> USE DEF ResolverInv, callVars, stateVars
<1>1. CASE jobs = <<>>
  <2>1. /\ UNCHANGED <<jobs, next, ready, canceled, pc, token, stop_, main>>
        /\ wpc' = IF stop_ THEN "ended" ELSE "blocked"
    BY <1>1 DEF WorkerTest, Exit
  <2>2. TypeOK'
    BY <2>1 DEF TypeOK, WorkerTest
  <2>3. Places'
    BY <2>1 DEF Places, PlacedOnce, Placed, In, Distinct
  <2>4. NoLostJob' /\ Ending'
    BY SMTT(30), <1>1, <2>1 DEF NoLostJob, Ending, WorkerTest
  <2> QED  BY <2>2, <2>3, <2>4
<1>2. CASE jobs # <<>>
  <2>1. /\ UNCHANGED <<ready, canceled, pc, token, stop_, main>>
        /\ wpc = "test" /\ wpc' = "taken"
        /\ next' = Head(jobs) /\ jobs' = Tail(jobs)
    BY <1>2 DEF WorkerTest, Take
  <2>2. jobs \in Seq(Request) /\ Distinct(jobs) /\ next = Null
    BY <2>1 DEF TypeOK, Places
  <2>3. /\ next' \in Request /\ jobs' \in Seq(Request) /\ Distinct(jobs')
        /\ In(jobs, next')
        /\ \A x : In(jobs', x) <=> In(jobs, x) /\ x # next'
    BY <1>2, <2>1, <2>2, PopOnce
  <2>4. TypeOK'
    BY <2>1, <2>3, ResolverAssumption DEF TypeOK
  <2>5. ASSUME NEW x \in Request
        PROVE  PlacedOnce(x)'
    <3>1. PlacedOnce(x)
      BY DEF Places
    <3>2. next # x
      BY <2>2, ResolverAssumption
    <3>3. Placed(x)' <=> Placed(x)
      BY <2>1, <2>3, <3>2 DEF Placed, In
    <3>4. In(jobs, x)' => ~ready'[x] /\ next' # x
      BY <2>1, <2>3, <3>1 DEF PlacedOnce, In
    <3>5. next' = x => ~ready'[x]
      BY <2>1, <2>3, <3>1 DEF PlacedOnce
    <3> QED  BY <2>1, <3>1, <3>3, <3>4, <3>5 DEF PlacedOnce
  <2>6. Places'
    BY <2>3, <2>5 DEF Places, Distinct
  <2>7. NoLostJob' /\ Ending'
    BY <2>1 DEF NoLostJob, Ending
  <2> QED  BY <2>4, <2>6, <2>7
<1> QED  BY <1>1, <1>2

(* The answer: the job leaves the worker's hands as ready.                 *)
LEMMA PublishStep ==
    ASSUME ResolverInv, NEW x, Publish(x), wpc \in {"taken", "publish"}
    PROVE  ResolverInv'
<1> USE DEF ResolverInv, callVars
<1>1. /\ next \in Request /\ next # Null
      /\ UNCHANGED <<jobs, canceled, pc, token, stop_, main>>
      /\ wpc' = "test" /\ next' = Null
      /\ ready' = [ready EXCEPT ![next] = TRUE]
  BY DEF TypeOK, Publish
<1>2. TypeOK'
  BY <1>1 DEF TypeOK
<1>3. ASSUME NEW r \in Request
      PROVE  PlacedOnce(r)'
  <2>1. PlacedOnce(r) /\ r # Null
    BY ResolverAssumption DEF Places
  <2>2. ready'[r] <=> ready[r] \/ r = next
    BY <1>1 DEF TypeOK
  <2>3. Placed(r)' <=> Placed(r)
    BY <1>1, <2>1, <2>2 DEF Placed, In
  <2>4. In(jobs, r)' <=> In(jobs, r)
    BY <1>1 DEF In
  <2> QED  BY <1>1, <2>1, <2>2, <2>3, <2>4 DEF PlacedOnce
<1>4. Places'
  BY <1>1, <1>3 DEF Places, Distinct
<1>5. NoLostJob' /\ Ending'
  BY <1>1 DEF NoLostJob, Ending
<1> QED  BY <1>2, <1>4, <1>5

(* Wake-ups, the lookup and the destructor leave every job where it is.    *)
LEMMA QuietStep ==
    ASSUME ResolverInv,
           Spurious \/ Lookup \/ SetStop \/ StopNotify \/ Join
    PROVE  ResolverInv'
<1> USE DEF ResolverInv, callVars, stateVars, workerVars
<1>1. UNCHANGED <<jobs, next, ready, canceled, pc, token>>
  BY DEF Spurious, Lookup, SetStop, StopNotify, Join
<1>2. TypeOK'
  BY <1>1
     DEF TypeOK, Spurious, Lookup, SetStop, StopNotify, Join, Woken
<1>3. Places'
  BY <1>1 DEF Places, PlacedOnce, Placed, In, Distinct
<1>4. NoLostJob'
  BY <1>1 DEF NoLostJob, Spurious, Lookup, SetStop, StopNotify, Join, Woken
<1>5. Ending'
  BY SMTT(30), <1>1
     DEF Ending, Spurious, Lookup, SetStop, StopNotify, Join, Woken
<1> QED  BY <1>2, <1>3, <1>4, <1>5

(* ResolverInv is inductive.                                               *)
LEMMA ResolverStep ==
    ASSUME ResolverInv, [Next]_vars
    PROVE  ResolverInv'
<1>1. CASE \E r \in Request : Resolve(r)
  BY <1>1, ResolveStep
<1>2. CASE \E r \in Request :
              Notify(r) \/ Loop(r) \/ SleepOver(r) \/ RequestStop(r)
  BY <1>2, RequestStep
<1>3. CASE WorkerTest
  BY <1>3, TakeStep
<1>4. CASE SkipCanceled \/ PublishFound
  BY <1>4, PublishStep DEF SkipCanceled, PublishFound
<1>5. CASE Spurious \/ Lookup \/ SetStop \/ StopNotify \/ Join
  BY <1>5, QuietStep
<1>6. CASE UNCHANGED vars
  BY SMTT(30), <1>6
     DEF ResolverInv, TypeOK, Places, PlacedOnce, Placed, In, Distinct,
              NoLostJob, Ending, vars, callVars, stateVars, workerVars
<1> QED  BY <1>1, <1>2, <1>3, <1>4, <1>5, <1>6 DEF Next

(* ResolverInv holds in every reachable state of the resolver.             *)
THEOREM ResolverInvHolds == Spec => []ResolverInv
BY ResolverInit, ResolverStep, PTL DEF Spec

(* The states of the worker, the queue and the requests have their types.  *)
THEOREM TypeOKHolds == Spec => []TypeOK
BY ResolverInvHolds, PTL DEF ResolverInv

(* enqueue() and run() keep every job in one place, for any number of      *)
(* requests: queued once, in the worker's hands, or answered.              *)
THEOREM JobsExactHolds == Spec => []JobsExact
<1>1. ResolverInv => JobsExact
  BY DEF ResolverInv, Places, PlacedOnce, Placed, In, Distinct, JobsExact,
         Queued
<1> QED  BY <1>1, ResolverInvHolds, PTL

(* cv_.wait in run() never sleeps over a job or over stop_ unless the      *)
(* thread that changed them is still to notify.                            *)
THEOREM NoLostJobHolds == Spec => []NoLostJob
BY ResolverInvHolds, PTL DEF ResolverInv

(* After the destructor has joined the worker no job is left unanswered.   *)
THEOREM DrainedHolds == Spec => []Drained
<1>1. ResolverInv => Drained
  BY SMTT(30), ResolverAssumption
     DEF ResolverInv, TypeOK, Places, PlacedOnce, Placed, In, Ending, Drained
<1> QED  BY <1>1, ResolverInvHolds, PTL

(* run() never answers a state a second time: a result that is ready is    *)
(* final.                                                                  *)
THEOREM AnsweredOnceHolds == Spec => AnsweredOnce
<1> DEFINE Final == \A r \in Request : ready[r] =>
                       ready'[r] /\ result'[r] = result[r]
           Answers == DOMAIN result = Request
<1>1. Init => Answers
  BY DEF Init
<1>2. ASSUME Answers, [Next]_vars
      PROVE  Answers'
  BY <1>2 DEF Next, vars, Resolve, Notify, Loop, SleepOver, RequestStop,
     WorkerTest, Spurious, Lookup, SkipCanceled, PublishFound, Publish, SetStop,
     StopNotify, Join, stateVars
<1>3. ASSUME ResolverInv, Answers, [Next]_vars
      PROVE  [Final]_vars
  <2>1. CASE SkipCanceled \/ PublishFound
    <3>1. PICK x : Publish(x) /\ wpc \in {"taken", "publish"}
      BY <2>1 DEF SkipCanceled, PublishFound
    <3>2. next \in Request /\ ~ready[next]
      BY <1>3, <3>1 DEF ResolverInv, TypeOK, Places, PlacedOnce
    <3> QED  BY <1>3, <3>1, <3>2 DEF Publish, ResolverInv, TypeOK
  <2>2. CASE ~(SkipCanceled \/ PublishFound)
    BY <1>3, <2>2
       DEF Next, vars, Resolve, Notify, Loop, SleepOver, RequestStop,
       WorkerTest, Spurious, Lookup, SetStop, StopNotify, Join, stateVars
  <2> QED  BY <2>1, <2>2
<1> QED  BY <1>1, <1>2, <1>3, ResolverInvHolds, PTL DEF Spec, AnsweredOnce

-----------------------------------------------------------------------------
(* Induction over the naturals, with the predicate given as a set: the     *)
(* intervals 0..k of the numbers outside S have no smallest one.           *)
LEMMA NatSetInduction ==
    ASSUME NEW S \in SUBSET Nat, 0 \in S, \A n \in S : n + 1 \in S
    PROVE  S = Nat
<1> SUFFICES ASSUME S # Nat
             PROVE  FALSE
  OBVIOUS
<1> DEFINE T == {0..k : k \in Nat \ S}
<1>1. T # {}
  OBVIOUS
<1>2. T \subseteq FiniteSubsetsOf(Nat)
  <2>1. \A k \in Nat : IsFiniteSet(0..k) /\ 0..k \subseteq Nat
    BY SMTT(30), FS_Interval
  <2> QED  BY <2>1 DEF FiniteSubsetsOf
<1>3. PICK x \in T : \A y \in T : ~ (<<y, x>> \in StrictSubsetOrdering(Nat))
  <2> HIDE DEF T
  <2> QED  BY <1>1, <1>2, FS_StrictSubsetOrderingWellFounded, WFMin
<1>4. PICK k \in Nat \ S : x = 0..k
  OBVIOUS
<1>5. k # 0 /\ k - 1 \in Nat /\ (k - 1) + 1 = k
  BY SMTT(30)
<1>6. k - 1 \notin S
  BY <1>4, <1>5
<1>7. 0..(k - 1) \in T
  BY <1>5, <1>6
<1>8. <<0..(k - 1), 0..k>> \in StrictSubsetOrdering(Nat)
  BY SMTT(30), <1>5 DEF StrictSubsetOrdering
<1> QED  BY <1>3, <1>4, <1>7, <1>8

(* The endpoints after each entry of a list.                               *)
Pushed(v, e) == IF e \in Usable THEN Append(v, e) ELSE v
IsConversion(f, l, n) ==
    f = [k \in 0..n |-> IF k = 0 THEN <<>> ELSE Pushed(f[k - 1], l[k])]

(* Its value entry by entry.                                               *)
LEMMA ConversionSteps ==
    ASSUME NEW l, NEW n \in Nat, NEW f, IsConversion(f, l, n)
    PROVE  /\ f[0] = <<>>
           /\ \A k \in 1..n : f[k] = Pushed(f[k - 1], l[k])
<1> DEFINE G(g) == [k \in 0..n |-> IF k = 0 THEN <<>> ELSE Pushed(g[k - 1], l[k])]
<1>1. f = G(f)
  BY DEF IsConversion
<1>2. ASSUME NEW g
      PROVE  /\ G(g)[0] = <<>>
             /\ \A k \in 1..n : G(g)[k] = Pushed(g[k - 1], l[k])
  BY SMTT(30)
<1> HIDE DEF G
<1> QED  BY <1>1, <1>2

(* The loop over the list has a result for every list.                     *)
LEMMA ConversionExists ==
    ASSUME NEW l
    PROVE  \A n \in Nat : \E f : IsConversion(f, l, n)
<1> DEFINE S == {n \in Nat : \E f : IsConversion(f, l, n)}
<1>1. 0 \in S
  <2> DEFINE f == [k \in 0..0 |-> <<>>]
  <2>1. IsConversion(f, l, 0)
    BY SMTT(30) DEF IsConversion
  <2> QED  BY <2>1
<1>2. ASSUME NEW n \in S
      PROVE  n + 1 \in S
  <2>1. PICK f : IsConversion(f, l, n)
    OBVIOUS
  <2> DEFINE g == [k \in 0..(n + 1) |-> IF k <= n THEN f[k]
                                        ELSE Pushed(f[n], l[n + 1])]
  <2>2. /\ f[0] = <<>>
        /\ \A k \in 1..n : f[k] = Pushed(f[k - 1], l[k])
    BY <2>1, ConversionSteps
  <2>3. ASSUME NEW k \in 0..(n + 1)
        PROVE  g[k] = IF k = 0 THEN <<>> ELSE Pushed(g[k - 1], l[k])
    <3>1. g[0] = <<>>
      BY SMTT(30), <2>2
    <3>2. \A j \in 1..n : g[j] = f[j] /\ g[j - 1] = f[j - 1]
      BY SMTT(30)
    <3>3. g[n + 1] = Pushed(f[n], l[n + 1]) /\ g[n] = f[n]
      BY SMTT(30)
    <3> HIDE DEF g
    <3>4. CASE k = 0
      BY <3>1, <3>4
    <3>5. CASE k \in 1..n
      BY <2>2, <3>2, <3>5
    <3>6. CASE k = n + 1
      BY SMTT(30), <3>3, <3>6
    <3> QED  BY SMTT(30), <3>4, <3>5, <3>6
  <2>4. g = [k \in 0..(n + 1) |-> g[k]]
    OBVIOUS
  <2> HIDE DEF g
  <2>5. IsConversion(g, l, n + 1)
    BY <2>3, <2>4 DEF IsConversion
  <2> QED  BY SMTT(30), <2>5
<1> HIDE DEF S
<1>3. S = Nat
  <2>1. S \in SUBSET Nat
    BY DEF S
  <2> QED  BY <1>1, <1>2, <2>1, NatSetInduction
<1> QED  BY <1>3 DEF S

(* Only the entries that convert are kept, whatever getaddrinfo returned.  *)
LEMMA ConvertedUsable ==
    ASSUME NEW l \in Lists
    PROVE  Converted(l) \in Seq(Usable)
<1>1. Len(l) \in Nat /\ l \in Seq(Entry)
  BY SMTT(30), ResolverAssumption DEF Lists
<1> DEFINE after == CHOOSE f : IsConversion(f, l, Len(l))
<1>2. IsConversion(after, l, Len(l))
  BY <1>1, ConversionExists
<1>3. Converted(l) = after[Len(l)]
  BY DEF Converted, IsConversion, Pushed
<1> HIDE DEF after
<1>4. /\ after[0] = <<>>
      /\ \A k \in 1..Len(l) : after[k] = Pushed(after[k - 1], l[k])
  BY <1>1, <1>2, ConversionSteps
<1> DEFINE S == {n \in Nat : n <= Len(l) => after[n] \in Seq(Usable)}
<1>5. 0 \in S
  <2>1. after[0] \in Seq(Usable)
    BY SMTT(30), <1>4
  <2> QED  BY <2>1
<1>6. ASSUME NEW n \in S
      PROVE  n + 1 \in S
  <2>1. CASE n + 1 <= Len(l)
    <3>1. /\ n \in Nat /\ n + 1 \in 1..Len(l) /\ (n + 1) - 1 = n
          /\ after[n] \in Seq(Usable)
      BY SMTT(30), <1>1, <2>1
    <3>2. after[n + 1] = Pushed(after[n], l[n + 1])
      BY <1>4, <3>1
    <3>3. after[n + 1] \in Seq(Usable)
      BY SMTT(30), <3>1, <3>2 DEF Pushed
    <3> QED  BY SMTT(30), <3>1, <3>3
  <2>2. CASE ~(n + 1 <= Len(l))
    BY SMTT(30), <2>2
  <2> QED  BY <2>1, <2>2
<1> HIDE DEF S
<1>7. S = Nat
  <2>1. S \in SUBSET Nat
    BY DEF S
  <2> QED  BY <1>5, <1>6, <2>1, NatSetInduction
<1> QED  BY SMTT(30), <1>1, <1>3, <1>7 DEF S

-----------------------------------------------------------------------------
(* An answer that r may be given: an error, or usable endpoints of its own *)
(* host.                                                                   *)
AnswerTo(r, x) ==
    \/ x.err \in Error
    \/ /\ x.of = r /\ x.list # <<>>
       /\ \A i \in 1..Len(x.list) : x.list[i] \in Usable

(* OwnAnswer and what it needs: the answer is r's own on its whole way,    *)
(* from the worker through the resolve_state to the caller.                *)
AnswersOwn ==
    /\ DOMAIN result = Request /\ DOMAIN outcome = Request
    /\ wpc = "publish" => AnswerTo(next, found)
    /\ \A r \in Request : /\ ready[r] => AnswerTo(r, result[r])
                          /\ pc[r] = "done" => AnswerTo(r, outcome[r])

(* What the functions on the way return.                                   *)
LEMMA FailAnswers ==
    ASSUME NEW r, NEW e \in Error
    PROVE  AnswerTo(r, Fail(e))
BY DEF AnswerTo, Fail

(* resolve_ipv4_tcp_endpoints.                                             *)
LEMMA EndpointsAnswer ==
    ASSUME NEW r, NEW l \in Lists
    PROVE  AnswerTo(r, Endpoints(r, l))
<1>1. CASE Converted(l) = <<>>
  BY <1>1, FailAnswers DEF Endpoints, Error
<1>2. CASE Converted(l) # <<>>
  <2> DEFINE x == Found(r, Converted(l))
  <2>1. Endpoints(r, l) = x /\ x.of = r /\ x.list = Converted(l)
    BY <1>2 DEF Endpoints, Found
  <2>2. \A i \in 1..Len(Converted(l)) : Converted(l)[i] \in Usable
    BY SMTT(30), ConvertedUsable
  <2> QED  BY <1>2, <2>1, <2>2 DEF AnswerTo
<1> QED  BY <1>1, <1>2

(* The steps of a request: what it returns is an error or what is ready.   *)
LEMMA OwnRequest ==
    ASSUME ResolverInv, AnswersOwn, NEW r \in Request,
           \/ Resolve(r) \/ Notify(r) \/ Loop(r) \/ SleepOver(r)
           \/ RequestStop(r)
    PROVE  AnswersOwn'
<1>1. /\ UNCHANGED <<found, next, ready, result>>
      /\ wpc' = "publish" => wpc = "publish"
  BY DEF Resolve, Notify, Loop, SleepOver, RequestStop, Woken, stateVars,
         workerVars
<1>2. \/ UNCHANGED outcome /\ \A x \in Request : pc'[x] = "done" => pc[x] = "done"
      \/ \E o : Return(r, o) /\ AnswerTo(r, o)
  <2>1. AnswerTo(r, Fail("ECANCELED")) /\ AnswerTo(r, Fail("EBUSY"))
    BY FailAnswers DEF Error
  <2>2. ready[r] => AnswerTo(r, result[r])
    BY DEF AnswersOwn
  <2>3. CASE Resolve(r)
    BY <2>1, <2>3 DEF Resolve, ResolverInv, TypeOK
  <2>4. CASE Notify(r) \/ RequestStop(r)
    BY <2>4 DEF Notify, RequestStop, ResolverInv, TypeOK
  <2>5. CASE Loop(r)
    BY <2>1, <2>2, <2>5 DEF Loop, ResolverInv, TypeOK
  <2>6. CASE SleepOver(r)
    BY <2>1, <2>6 DEF SleepOver, ResolverInv, TypeOK
  <2> QED  BY <2>3, <2>4, <2>5, <2>6
<1>3. CASE UNCHANGED outcome /\ \A x \in Request : pc'[x] = "done" => pc[x] = "done"
  BY <1>1, <1>3 DEF AnswersOwn
<1>4. CASE \E o : Return(r, o) /\ AnswerTo(r, o)
  <2>1. PICK o : Return(r, o) /\ AnswerTo(r, o)
    BY <1>4
  <2>2. /\ DOMAIN outcome' = Request /\ outcome'[r] = o
        /\ \A x \in Request \ {r} : pc'[x] = pc[x] /\ outcome'[x] = outcome[x]
    BY <2>1 DEF Return, AnswersOwn, ResolverInv, TypeOK
  <2> QED  BY <1>1, <2>1, <2>2 DEF AnswersOwn
<1> QED  BY <1>2, <1>3, <1>4

(* The steps of the worker: the answer it publishes is that of its job.    *)
LEMMA OwnWorker ==
    ASSUME ResolverInv, AnswersOwn,
           \/ WorkerTest \/ Spurious \/ SkipCanceled \/ Lookup \/ PublishFound
    PROVE  AnswersOwn'
<1>1. UNCHANGED <<pc, outcome>>
  BY DEF WorkerTest, Spurious, SkipCanceled, Lookup, PublishFound, Publish,
         callVars
<1>2. CASE WorkerTest \/ Spurious
  <2>1. UNCHANGED <<found, ready, result>> /\ wpc' # "publish"
    BY <1>2 DEF WorkerTest, Spurious, Take, Exit, stateVars
  <2> QED  BY <1>1, <2>1 DEF AnswersOwn
<1>3. CASE SkipCanceled \/ PublishFound
  <2>1. PICK x : /\ Publish(x) /\ wpc \in {"taken", "publish"}
                 /\ AnswerTo(next, x)
    <3>1. AnswerTo(next, Fail("ECANCELED"))
      BY FailAnswers DEF Error
    <3> QED  BY <1>3, <3>1 DEF SkipCanceled, PublishFound, AnswersOwn
  <2>2. next \in Request
    BY <2>1 DEF ResolverInv, TypeOK
  <2>3. /\ wpc' = "test" /\ DOMAIN result' = Request /\ result'[next] = x
        /\ \A r \in Request \ {next} : ready'[r] = ready[r] /\ result'[r] = result[r]
    BY <2>1, <2>2 DEF Publish, AnswersOwn, ResolverInv, TypeOK
  <2> QED  BY <1>1, <2>1, <2>2, <2>3 DEF AnswersOwn
<1>4. CASE Lookup
  <2>1. UNCHANGED <<next, ready, result>>
    BY <1>4 DEF Lookup, stateVars
  <2>2. AnswerTo(next, found')
    BY <1>4, FailAnswers, EndpointsAnswer DEF Lookup, MappedStatus, Error
  <2> QED  BY <1>1, <2>1, <2>2 DEF AnswersOwn
<1> QED  BY <1>2, <1>3, <1>4

(* async_resolve returns an error, or usable addresses of the host it was  *)
(* asked for and at least one, whichever requests share the worker.        *)
THEOREM OwnAnswerHolds == Spec => []OwnAnswer
<1>1. Init => AnswersOwn
  BY DEF Init, AnswersOwn
<1>2. ASSUME ResolverInv, AnswersOwn, [Next]_vars
      PROVE  AnswersOwn'
  <2>1. CASE \E r \in Request : \/ Resolve(r) \/ Notify(r) \/ Loop(r)
                                \/ SleepOver(r) \/ RequestStop(r)
    BY <1>2, <2>1, OwnRequest
  <2>2. CASE \/ WorkerTest \/ Spurious \/ SkipCanceled \/ Lookup \/ PublishFound
    BY <1>2, <2>2, OwnWorker
  <2>3. CASE SetStop \/ StopNotify \/ Join \/ UNCHANGED vars
    <3>1. /\ UNCHANGED <<found, next, ready, result, pc, outcome>>
          /\ wpc' = "publish" => wpc = "publish"
      BY <2>3 DEF SetStop, StopNotify, Join, Woken, vars, callVars, stateVars,
                  workerVars
    <3> QED  BY <1>2, <3>1 DEF AnswersOwn
  <2> QED  BY <1>2, <2>1, <2>2, <2>3 DEF Next
<1>3. AnswersOwn => OwnAnswer
  BY DEF AnswersOwn, AnswerTo, OwnAnswer
<1> QED  BY <1>1, <1>2, <1>3, ResolverInvHolds, PTL DEF Spec

-----------------------------------------------------------------------------
(* Making connections.  The states of one client: what its socket, the     *)
(* pending error and the calls of its coroutine have to do with each other.*)
ClientType ==
    /\ net \in [Client -> {"closed", "handshake", "established", "refused"}]
    /\ sockerr \in [Client -> {"0", "ECONNREFUSED"}]
    /\ cpc \in [Client -> {"new", "finish", "returned"}]
    /\ cres \in [Client -> {"none", "ok", "errno", "ECONNREFUSED"}]
    /\ used \in [Client -> {"none", "ok", "EPIPE", "ECONNREFUSED"}]

(* A refusal is pending until it is reported, and nothing but a refusal    *)
(* is; the first write comes after the handshake and settles what it gave. *)
ErrorKept(c) ==
    /\ cpc[c] = "new" => net[c] = "closed"
    /\ sockerr[c] # "0" => net[c] = "refused"
    /\ net[c] = "refused" => sockerr[c] # "0" \/ used[c] = "ECONNREFUSED"
    /\ used[c] # "none" => /\ cpc[c] = "returned" /\ net[c] # "handshake"
                           /\ sockerr[c] = "0"
    /\ used[c] = "ok" => net[c] = "established"
ConnectInv == ClientType /\ \A c \in Client : ErrorKept(c)

(* The calls and the handshake of c leave the other clients alone.         *)
LEMMA ClientStep ==
    ASSUME ConnectInv, NEW c \in Client,
           Connect(c) \/ FinishConnect(c) \/ FirstWrite(c) \/ HandshakeEnds(c)
    PROVE  ConnectInv'
<1> DEFINE Same(d) == /\ net'[d] = net[d] /\ sockerr'[d] = sockerr[d]
                      /\ cpc'[d] = cpc[d] /\ used'[d] = used[d]
<1>0. ASSUME NEW d \in Client, Same(d)
      PROVE  ErrorKept(d)'
  BY <1>0 DEF ConnectInv, ErrorKept
<1>1. SUFFICES ClientType' /\ ErrorKept(c)' /\ \A d \in Client : d # c => Same(d)
  <2> HIDE DEF Same
  <2> QED  BY <1>0 DEF ConnectInv
<1>2. ClientType /\ ErrorKept(c)
  BY DEF ConnectInv
<1>3. CASE Connect(c)
  BY <1>2, <1>3 DEF Connect, Give, FailConnect, ClientType, ErrorKept
<1>4. CASE FinishConnect(c)
  BY <1>2, <1>4 DEF FinishConnect, Give, FailConnect, ClientType, ErrorKept
<1>5. CASE FirstWrite(c)
  BY <1>2, <1>5 DEF FirstWrite, ClientType, ErrorKept
<1>6. CASE Establish(c)
  BY <1>2, <1>6 DEF Establish, ClientType, ErrorKept
<1>7. CASE Refuse(c)
  BY <1>2, <1>7 DEF Refuse, ClientType, ErrorKept
<1> QED  BY <1>3, <1>4, <1>5, <1>6, <1>7 DEF HandshakeEnds

(* ConnectInv is inductive.                                                *)
LEMMA ConnectStart == ConnectInit => ConnectInv
<1> SUFFICES ASSUME ConnectInit
             PROVE  ConnectInv
  OBVIOUS
<1>1. ClientType
  BY DEF ConnectInit, ClientType
<1>2. \A c \in Client : ErrorKept(c)
  BY DEF ConnectInit, ErrorKept
<1> QED  BY <1>1, <1>2 DEF ConnectInv
LEMMA ConnectKept == ConnectInv /\ [ConnectNext]_connectVars => ConnectInv'
<1>1. ASSUME ConnectInv, UNCHANGED clientVars
      PROVE  ConnectInv'
  BY <1>1 DEF ConnectInv, ClientType, ErrorKept, clientVars
<1>2. ASSUME NEW a \in Acceptor, AcceptStep(a)
      PROVE  UNCHANGED clientVars
  BY <1>2 DEF AcceptStep, Accept, Accept4, WaitReadable, AcceptFailed
<1>3. Readable => UNCHANGED clientVars
  BY DEF Readable
<1> QED  BY <1>1, <1>2, <1>3, ClientStep DEF ConnectNext, connectVars

(* A refused connection is reported as refused, by async_connect or by the *)
(* first write on the stream it returned, for any number of clients: the   *)
(* early SO_ERROR of finish_connect loses no error.                        *)
THEOREM RefusalReportedHolds == ConnectSpec => []RefusalReported
<1>1. ConnectInv => RefusalReported
  BY DEF ConnectInv, ErrorKept, RefusalReported, ClientType
<1> QED  BY <1>1, ConnectStart, ConnectKept, PTL DEF ConnectSpec

-----------------------------------------------------------------------------
(* The accept queue next to what the clients know.                         *)
AcceptInv ==
    /\ ConnectInv /\ AcceptedOnce
    /\ queue \in Seq(Client)
    /\ accepted \in [Client -> Acceptor \cup {None}]

(* AcceptedOnce by parts.                                                  *)
Settled(c) ==
    /\ net[c] = "established" <=> In(queue, c) \/ accepted[c] # None
    /\ ~(In(queue, c) /\ accepted[c] # None)
LEMMA AcceptedParts ==
    /\ AcceptedOnce <=> Distinct(queue) /\ \A c \in Client : Settled(c)
    /\ AcceptedOnce' <=> Distinct(queue') /\ \A c \in Client : Settled(c)'
BY DEF AcceptedOnce, Pending, Distinct, In, Settled

(* A connection that gets established takes its place in the queue.        *)
LEMMA EstablishedPending ==
    ASSUME AcceptInv, NEW c \in Client, net[c] # "established",
           net' = [net EXCEPT ![c] = "established"], accepted[c] = None,
           queue' = Append(queue, c), UNCHANGED accepted
    PROVE  AcceptedOnce' /\ queue' \in Seq(Client)
<1>1. queue \in Seq(Client) /\ Distinct(queue) /\ ~In(queue, c)
  BY AcceptedParts DEF AcceptInv, Settled
<1>3. /\ queue' \in Seq(Client) /\ Distinct(queue')
      /\ \A d : In(queue', d) <=> In(queue, d) \/ d = c
  BY <1>1, PushOnce
<1>4. \A d \in Client : net'[d] = IF d = c THEN "established" ELSE net[d]
  BY DEF AcceptInv, ConnectInv, ClientType
<1>5. ASSUME NEW d \in Client
      PROVE  Settled(d)'
  <2>1. Settled(d)
    BY AcceptedParts DEF AcceptInv
  <2> QED  BY <1>3, <1>4, <2>1 DEF Settled
<1> QED  BY <1>3, <1>5, AcceptedParts

(* accept4 takes the head of the queue.                                    *)
LEMMA AcceptedHead ==
    ASSUME AcceptInv, NEW a \in Acceptor, queue # <<>>, UNCHANGED net,
           accepted' = [accepted EXCEPT ![Head(queue)] = a],
           queue' = Tail(queue)
    PROVE  /\ AcceptedOnce' /\ queue' \in Seq(Client)
           /\ accepted' \in [Client -> Acceptor \cup {None}]
<1>1. queue \in Seq(Client) /\ Distinct(queue)
  BY AcceptedParts DEF AcceptInv
<1>2. /\ Head(queue) \in Client /\ In(queue, Head(queue))
      /\ queue' \in Seq(Client) /\ Distinct(queue')
      /\ \A d : In(queue', d) <=> In(queue, d) /\ d # Head(queue)
  BY <1>1, PopOnce
<1>3. /\ accepted' \in [Client -> Acceptor \cup {None}]
      /\ \A d \in Client : accepted'[d] = IF d = Head(queue) THEN a
                                          ELSE accepted[d]
  BY <1>2 DEF AcceptInv
<1>4. a # None
  BY ConnectAssumption
<1>5. ASSUME NEW d \in Client
      PROVE  Settled(d)'
  <2>1. Settled(d)
    BY AcceptedParts DEF AcceptInv
  <2> QED  BY <1>2, <1>3, <1>4, <2>1 DEF Settled
<1> QED  BY <1>2, <1>3, <1>5, AcceptedParts

(* Every step that leaves the queue alone changes no connection between    *)
(* established and not.                                                    *)
LEMMA QueueUnmoved ==
    ASSUME AcceptInv, UNCHANGED <<queue, accepted>>,
           \A d \in Client : net'[d] = "established" <=> net[d] = "established"
    PROVE  AcceptedOnce'
BY AcceptedParts DEF AcceptInv, Settled

(* No connection is lost between the kernel and the acceptors and none is  *)
(* accepted twice, for any number of clients, acceptors and places in the  *)
(* backlog.                                                                *)
THEOREM AcceptedOnceHolds == ConnectSpec => []AcceptedOnce
<1>1. ConnectInit => AcceptInv
  <2>1. <<>> \in Seq(Client) /\ Len(<<>>) = 0 /\ 1..0 = {}
    BY SMTT(30)
  <2> QED  BY <2>1, ConnectStart
           DEF ConnectInit, AcceptInv, AcceptedOnce, Pending
<1>2. ASSUME AcceptInv, [ConnectNext]_connectVars
      PROVE  AcceptInv'
  <2>0. ConnectInv'
    BY <1>2, ConnectKept DEF AcceptInv
  <2>t. /\ ClientType /\ queue \in Seq(Client)
        /\ accepted \in [Client -> Acceptor \cup {None}]
    BY <1>2 DEF AcceptInv, ConnectInv
  <2>1. ASSUME NEW c \in Client, net[c] # "established", UNCHANGED accepted,
               net' = [net EXCEPT ![c] = "established"],
               queue' = Append(queue, c)
        PROVE  AcceptInv'
    <3>1. accepted[c] = None
      BY <1>2, <2>1 DEF AcceptInv, AcceptedOnce
    <3> QED  BY <1>2, <2>0, <2>1, <3>1, EstablishedPending DEF AcceptInv
  <2>2. ASSUME UNCHANGED <<queue, accepted>>,
               \A d \in Client :
                  net'[d] = "established" <=> net[d] = "established"
        PROVE  AcceptInv'
    BY <1>2, <2>0, <2>2, QueueUnmoved DEF AcceptInv
  <2>3. ASSUME NEW c \in Client, Connect(c)
        PROVE  AcceptInv'
    <3>1. net[c] = "closed" /\ UNCHANGED accepted
      BY <1>2, <2>3 DEF AcceptInv, ConnectInv, ErrorKept, Connect, acceptVars
    <3>2. CASE net' = [net EXCEPT ![c] = "established"]
      <4>1. queue' = Append(queue, c)
        BY <2>3, <2>t, <3>2 DEF Connect, ClientType
      <4> QED  BY <2>1, <3>1, <3>2, <4>1
    <3>3. CASE \E p \in {"handshake", "closed"} : net' = [net EXCEPT ![c] = p]
      <4>1. net'[c] # "established"
        BY <2>t, <3>3 DEF ClientType
      <4>2. queue' = queue
        BY <2>3, <4>1 DEF Connect
      <4> QED  BY <2>2, <2>t, <3>1, <3>3, <4>2 DEF ClientType
    <3> QED  BY <2>3, <3>2, <3>3 DEF Connect, FailConnect
  <2>4. ASSUME NEW c \in Client, FinishConnect(c)
        PROVE  AcceptInv'
    <3>1. UNCHANGED <<queue, accepted>>
      BY <2>4 DEF FinishConnect, acceptVars
    <3>2. CASE sockerr[c] = "0"
      BY <2>2, <2>4, <3>1, <3>2 DEF FinishConnect
    <3>3. CASE sockerr[c] # "0"
      <4>1. net[c] = "refused" /\ net' = [net EXCEPT ![c] = "closed"]
        BY <1>2, <2>4, <3>3
           DEF AcceptInv, ConnectInv, ErrorKept, FinishConnect, FailConnect
      <4> QED  BY <2>2, <2>t, <3>1, <4>1 DEF ClientType
    <3> QED  BY <3>2, <3>3
  <2>5. ASSUME NEW c \in Client, FirstWrite(c)
        PROVE  AcceptInv'
    BY <2>2, <2>5 DEF FirstWrite, acceptVars
  <2>6. ASSUME NEW c \in Client, HandshakeEnds(c)
        PROVE  AcceptInv'
    <3>1. CASE Establish(c)
      BY <2>1, <3>1 DEF Establish, acceptVars
    <3>2. CASE Refuse(c)
      BY <2>2, <2>t, <3>2 DEF Refuse, acceptVars, ClientType
    <3> QED  BY <2>6, <3>1, <3>2 DEF HandshakeEnds
  <2>7. ASSUME NEW a \in Acceptor, AcceptStep(a)
        PROVE  AcceptInv'
    <3>1. UNCHANGED net
      BY <2>7 DEF AcceptStep, Accept, Accept4, WaitReadable, AcceptFailed,
                  clientVars
    <3>2. CASE UNCHANGED <<queue, accepted>>
      BY <2>2, <3>1, <3>2
    <3>3. CASE /\ queue # <<>>
               /\ accepted' = [accepted EXCEPT ![Head(queue)] = a]
               /\ queue' = Tail(queue)
      BY <1>2, <2>0, <3>1, <3>3, AcceptedHead DEF AcceptInv
    <3> QED  BY <2>7, <3>2, <3>3
             DEF AcceptStep, Accept, Accept4, WaitReadable, AcceptFailed
  <2>8. CASE Readable
    BY <2>2, <2>8 DEF Readable, clientVars
  <2>9. CASE UNCHANGED connectVars
    BY <2>2, <2>9 DEF connectVars, clientVars, acceptVars
  <2> QED  BY <1>2, <2>3, <2>4, <2>5, <2>6, <2>7, <2>8, <2>9 DEF ConnectNext
<1>3. AcceptInv => AcceptedOnce
  BY DEF AcceptInv
<1> QED  BY <1>1, <1>2, <1>3, PTL DEF ConnectSpec

-----------------------------------------------------------------------------
(* Moving bytes.                                                           *)
Results == {"none", "ok", "EINVAL", "ECANCELED", "ETIMEDOUT"} \cup Failed
TransferType ==
    /\ pipe \in Seq(Nat) /\ got \in Seq(Nat) /\ put \in Nat
    /\ broken \in BOOLEAN
    /\ at \in [Side -> {"idle", "try", "wait"}]
    /\ kind \in [Side -> {"none", "all", "exact", "some", "timed"}]
    /\ len \in [Side -> Nat] /\ total \in [Side -> Nat]
    /\ res \in [Side -> Results]

(* Byte n is the n-th received, and the bytes under way follow those that  *)
(* were received and end with the last one sent.                           *)
InOrder(g, p, n, b) ==
    /\ \A k \in 1..Len(g) : g[k] = k
    /\ ~b => /\ n = Len(g) + Len(p)
             /\ \A k \in 1..Len(p) : p[k] = Len(g) + k

(* An operation under way has no result; a whole one that succeeded has    *)
(* moved its whole buffer, any other that did not has moved nothing.       *)
ResultOK(s) == /\ at[s] # "idle" => res[s] = "none"
               /\ Whole(s) /\ res[s] = "ok" => total[s] = len[s]
               /\ ~Whole(s) /\ res[s] # "ok" => total[s] = 0
TransferInv ==
    /\ TransferType
    /\ InOrder(got, pipe, put, broken)
    /\ \A s \in Side : ResultOK(s)

(* A sequence of the numbers from 1 on is determined by its length.        *)
LEMMA Counting ==
    ASSUME NEW q \in Seq(Nat), NEW n \in Nat, n = Len(q),
           \A k \in 1..Len(q) : q[k] = k
    PROVE  q = [k \in 1..n |-> k]
<1>1. DOMAIN q = 1..n /\ q = [k \in DOMAIN q |-> q[k]]
  BY SMTT(30)
<1>2. \A k \in 1..n : q[k] = k
  OBVIOUS
<1>3. [k \in 1..n |-> q[k]] = [k \in 1..n |-> k]
  BY <1>2
<1> QED  BY <1>1, <1>3

(* The invariant gives the property.                                       *)
LEMMA InOrderDelivers ==
    ASSUME TransferInv
    PROVE  Delivered
<1>1. pipe \in Seq(Nat) /\ got \in Seq(Nat) /\ put \in Nat
  BY DEF TransferInv, TransferType
<1>2. InOrder(got, pipe, put, broken)
  BY DEF TransferInv
<1>3. got = [i \in 1..Len(got) |-> i]
  <2>1. Len(got) \in Nat /\ \A k \in 1..Len(got) : got[k] = k
    BY SMTT(30), <1>1, <1>2 DEF InOrder
  <2> QED  BY <1>1, <2>1, Counting
<1>4. ASSUME ~broken
      PROVE  got \o pipe = [i \in 1..put |-> i]
  <2>1. /\ put = Len(got) + Len(pipe)
        /\ \A k \in 1..Len(got) : got[k] = k
        /\ \A k \in 1..Len(pipe) : pipe[k] = Len(got) + k
    BY <1>2, <1>4 DEF InOrder
  <2>2. got \o pipe \in Seq(Nat) /\ put = Len(got \o pipe)
    BY SMTT(30), <1>1, <2>1
  <2>3. \A k \in 1..Len(got \o pipe) : (got \o pipe)[k] = k
    BY SMTT(30), <1>1, <2>1
  <2> QED  BY <1>1, <2>2, <2>3, Counting
<1> QED  BY <1>3, <1>4 DEF TransferInv, ResultOK, Delivered

(* Two sequences in a row.                                                 *)
LEMMA Joined ==
    ASSUME NEW a \in Seq(Nat), NEW b \in Seq(Nat)
    PROVE  /\ a \o b \in Seq(Nat) /\ Len(a \o b) = Len(a) + Len(b)
           /\ \A k \in 1..Len(a) : (a \o b)[k] = a[k]
           /\ \A k \in 1..Len(b) : (a \o b)[Len(a) + k] = b[k]
<1>1. a \o b \in Seq(Nat) /\ Len(a \o b) = Len(a) + Len(b)
  BY SMTT(30)
<1>2. \A k \in 1..Len(a) : (a \o b)[k] = a[k]
  BY SMTT(30)
<1>3. \A k \in 1..Len(b) : (a \o b)[Len(a) + k] = b[k]
  BY SMTT(30)
<1> QED  BY <1>1, <1>2, <1>3

(* send appends the next n bytes to those under way.                       *)
LEMMA SendsNext ==
    ASSUME NEW g \in Seq(Nat), NEW p \in Seq(Nat), NEW m \in Nat,
           NEW b \in BOOLEAN, NEW n \in Nat, InOrder(g, p, m, b)
    PROVE  LET q == p \o [k \in 1..n |-> m + k]
           IN  q \in Seq(Nat) /\ InOrder(g, q, m + n, b)
<1> DEFINE e == [k \in 1..n |-> m + k]
           q == p \o e
<1>1. e \in Seq(Nat) /\ Len(e) = n /\ \A k \in 1..n : e[k] = m + k
  BY SMTT(30)
<1> HIDE DEF e
<1>2. /\ q \in Seq(Nat) /\ Len(q) = Len(p) + n
      /\ \A k \in 1..Len(p) : q[k] = p[k]
      /\ \A k \in 1..n : q[Len(p) + k] = m + k
  BY <1>1, Joined
<1> HIDE DEF q
<1>3. ASSUME ~b
      PROVE  /\ m + n = Len(g) + Len(q)
             /\ \A k \in 1..Len(q) : q[k] = Len(g) + k
  <2>1. /\ m = Len(g) + Len(p) /\ Len(g) \in Nat /\ Len(p) \in Nat
        /\ \A k \in 1..Len(p) : p[k] = Len(g) + k
    BY SMTT(30), <1>3 DEF InOrder
  <2>2. m + n = Len(g) + Len(q)
    BY SMTT(30), <1>2, <2>1
  <2>3. ASSUME NEW k \in 1..Len(q)
        PROVE  q[k] = Len(g) + k
    <3>1. CASE k \in 1..Len(p)
      BY <1>2, <2>1, <3>1
    <3>2. CASE k \notin 1..Len(p)
      <4>1. k - Len(p) \in 1..n /\ k = Len(p) + (k - Len(p))
        BY SMTT(30), <1>2, <2>1, <3>2
      <4>2. q[k] = m + (k - Len(p))
        BY <1>2, <4>1
      <4> QED  BY SMTT(30), <2>1, <4>1, <4>2
    <3> QED  BY <3>1, <3>2
  <2> QED  BY <2>2, <2>3
<1> QED  BY <1>2, <1>3 DEF InOrder, q, e

(* recv moves the first n bytes under way to the reader.                   *)
LEMMA ReceivesNext ==
    ASSUME NEW g \in Seq(Nat), NEW p \in Seq(Nat), NEW m \in Nat,
           NEW b \in BOOLEAN, NEW n \in 0..Len(p), InOrder(g, p, m, b),
           b => n = 0
    PROVE  LET h == g \o SubSeq(p, 1, n)
               q == SubSeq(p, n + 1, Len(p))
           IN  h \in Seq(Nat) /\ q \in Seq(Nat) /\ InOrder(h, q, m, b)
<1> DEFINE f == SubSeq(p, 1, n)
           h == g \o f
           q == SubSeq(p, n + 1, Len(p))
<1>0. Len(g) \in Nat /\ Len(p) \in Nat /\ n \in Nat /\ n <= Len(p)
  BY SMTT(30)
<1>f. f \in Seq(Nat) /\ Len(f) = n /\ \A k \in 1..n : f[k] = p[k]
  BY SMTT(30), <1>0
<1> HIDE DEF f
<1>1. /\ h \in Seq(Nat) /\ Len(h) = Len(g) + n
      /\ \A k \in 1..Len(g) : h[k] = g[k]
      /\ \A k \in 1..n : h[Len(g) + k] = p[k]
  BY <1>f, Joined
<1>2. /\ q \in Seq(Nat) /\ Len(q) = Len(p) - n
      /\ \A k \in 1..Len(q) : q[k] = p[n + k]
  BY SMTT(30), <1>0
<1> HIDE DEF h, q
<1>3. ASSUME NEW k \in 1..Len(h)
      PROVE  h[k] = k
  <2>1. CASE k \in 1..Len(g)
    BY <1>1, <2>1 DEF InOrder
  <2>2. CASE k \notin 1..Len(g)
    <3>1. k - Len(g) \in 1..n /\ k = Len(g) + (k - Len(g)) /\ n > 0
      BY SMTT(30), <1>0, <1>1, <2>2
    <3>2. ~b /\ k - Len(g) \in 1..Len(p)
      BY SMTT(30), <1>0, <3>1
    <3>3. h[k] = p[k - Len(g)]
      BY <1>1, <3>1
    <3>4. p[k - Len(g)] = Len(g) + (k - Len(g))
      BY <3>2 DEF InOrder
    <3> QED  BY <3>1, <3>3, <3>4
  <2> QED  BY <2>1, <2>2
<1>4. ASSUME ~b
      PROVE  /\ m = Len(h) + Len(q)
             /\ \A k \in 1..Len(q) : q[k] = Len(h) + k
  <2>1. m = Len(g) + Len(p) /\ \A k \in 1..Len(p) : p[k] = Len(g) + k
    BY <1>4 DEF InOrder
  <2>2. m = Len(h) + Len(q)
    BY SMTT(30), <1>0, <1>1, <1>2, <2>1
  <2>3. ASSUME NEW k \in 1..Len(q)
        PROVE  q[k] = Len(h) + k
    <3>1. n + k \in 1..Len(p) /\ Len(g) + (n + k) = Len(h) + k
      BY SMTT(30), <1>0, <1>1, <1>2
    <3>2. q[k] = p[n + k] /\ p[n + k] = Len(g) + (n + k)
      BY <1>2, <2>1, <3>1
    <3> QED  BY <3>1, <3>2
  <2> QED  BY <2>2, <2>3
<1> QED  BY <1>1, <1>2, <1>3, <1>4 DEF InOrder, f, h, q

(* Moved ends an operation on a whole buffer only when it has all of it.   *)
LEMMA MovedResult ==
    ASSUME TransferInv, NEW s \in Side, NEW n \in 0..Want(s), Trying(s),
           Moved(s, n), UNCHANGED opVars
    PROVE  /\ at' \in [Side -> {"idle", "try", "wait"}]
           /\ total' \in [Side -> Nat] /\ res' \in [Side -> Results]
           /\ kind' = kind /\ len' = len
           /\ \A t \in Side : ResultOK(t)'
<1>1. /\ at \in [Side -> {"idle", "try", "wait"}] /\ res \in [Side -> Results]
      /\ total \in [Side -> Nat] /\ len \in [Side -> Nat]
      /\ total' = [total EXCEPT ![s] = total[s] + n]
      /\ kind' = kind /\ len' = len /\ at[s] = "try"
  BY DEF TransferInv, TransferType, Moved, Trying, opVars
<1>2. /\ n \in Nat /\ n <= len[s] - total[s] /\ total[s] + n \in Nat
      /\ ~(n < len[s] - total[s]) => total[s] + n = len[s]
  BY SMTT(30), <1>1 DEF Want
<1>3. total' \in [Side -> Nat] /\ total'[s] = total[s] + n
  BY <1>1, <1>2
<1>4. CASE Whole(s) /\ n < Want(s)
  <2>1. UNCHANGED <<at, res>>
    BY <1>4 DEF Moved
  <2>2. res[s] = "none"
    BY <1>1 DEF TransferInv, ResultOK
  <2>3. ASSUME NEW t \in Side
        PROVE  ResultOK(t)'
    <3>1. CASE t = s
      BY <1>1, <1>4, <2>1, <2>2, <3>1 DEF ResultOK, Whole
    <3>2. CASE t # s
      BY <1>1, <2>1, <3>2 DEF TransferInv, ResultOK, Whole
    <3> QED  BY <3>1, <3>2
  <2> QED  BY <1>1, <1>3, <2>1, <2>3
<1>5. CASE ~(Whole(s) /\ n < Want(s))
  <2>1. /\ at' = [at EXCEPT ![s] = "idle"] /\ res' = [res EXCEPT ![s] = "ok"]
    BY <1>5 DEF Moved, Finish
  <2>2. at' \in [Side -> {"idle", "try", "wait"}] /\ res' \in [Side -> Results]
    BY <1>1, <2>1 DEF Results
  <2>3. ASSUME NEW t \in Side
        PROVE  ResultOK(t)'
    <3>1. CASE t = s
      BY <1>1, <1>2, <1>3, <1>5, <2>1, <3>1 DEF ResultOK, Whole, Want
    <3>2. CASE t # s
      BY <1>1, <2>1, <3>2 DEF TransferInv, ResultOK, Whole
    <3> QED  BY <3>1, <3>2
  <2> QED  BY <1>1, <1>3, <2>2, <2>3
<1> QED  BY <1>4, <1>5

(* send and recv.                                                          *)
LEMMA SendKeeps == TransferInv /\ Send => TransferInv'
<1> SUFFICES ASSUME TransferInv, Send
             PROVE  TransferInv'
  OBVIOUS
<1>1. PICK n \in 0..Want("writer") :
         /\ pipe' = pipe \o Span("writer", n) /\ put' = put + n
         /\ Moved("writer", n)
         /\ UNCHANGED <<got, broken, opVars>> /\ Trying("writer")
  BY DEF Send
<1>2. /\ pipe \in Seq(Nat) /\ got \in Seq(Nat) /\ put \in Nat
      /\ broken \in BOOLEAN /\ InOrder(got, pipe, put, broken)
      /\ len["writer"] \in Nat /\ total["writer"] \in Nat
      /\ "writer" \in Side
  BY DEF TransferInv, TransferType, Side
<1>3. n \in Nat /\ put + n \in Nat
  BY SMTT(30), <1>2 DEF Want
<1>4. pipe' \in Seq(Nat) /\ InOrder(got, pipe', put + n, broken)
  BY <1>1, <1>2, <1>3, SendsNext DEF Span
<1>5. InOrder(got', pipe', put', broken')
  BY <1>1, <1>4
<1>6. /\ at' \in [Side -> {"idle", "try", "wait"}]
      /\ total' \in [Side -> Nat] /\ res' \in [Side -> Results]
      /\ kind' = kind /\ len' = len
      /\ \A t \in Side : ResultOK(t)'
  BY <1>1, <1>2, MovedResult
<1>7. TransferType'
  BY <1>1, <1>2, <1>3, <1>4, <1>6 DEF TransferInv, TransferType
<1> QED  BY <1>5, <1>6, <1>7 DEF TransferInv
LEMMA ReceiveKeeps == TransferInv /\ Receive => TransferInv'
<1> SUFFICES ASSUME TransferInv, Receive
             PROVE  TransferInv'
  OBVIOUS
<1>1. PICK n \in 0..Want("reader") :
         /\ IF Want("reader") = 0 THEN n = 0
            ELSE ~broken /\ n > 0 /\ n <= Len(pipe)
         /\ got' = got \o SubSeq(pipe, 1, n)
         /\ pipe' = SubSeq(pipe, n + 1, Len(pipe))
         /\ Moved("reader", n)
         /\ UNCHANGED <<put, broken, opVars>> /\ Trying("reader")
  BY DEF Receive
<1>2. /\ pipe \in Seq(Nat) /\ got \in Seq(Nat) /\ put \in Nat
      /\ broken \in BOOLEAN /\ InOrder(got, pipe, put, broken)
      /\ len["reader"] \in Nat /\ total["reader"] \in Nat
      /\ "reader" \in Side
  BY DEF TransferInv, TransferType, Side
<1>3. n \in 0..Len(pipe) /\ (broken => n = 0)
  <2>1. CASE Want("reader") = 0
    BY SMTT(30), <1>1, <1>2, <2>1
  <2>2. CASE Want("reader") # 0
    BY SMTT(30), <1>1, <1>2, <2>2 DEF Want
  <2> QED  BY <2>1, <2>2
<1>4. /\ got' \in Seq(Nat) /\ pipe' \in Seq(Nat)
      /\ InOrder(got', pipe', put, broken)
  BY <1>1, <1>2, <1>3, ReceivesNext
<1>5. InOrder(got', pipe', put', broken')
  BY <1>1, <1>4
<1>6. /\ at' \in [Side -> {"idle", "try", "wait"}]
      /\ total' \in [Side -> Nat] /\ res' \in [Side -> Results]
      /\ kind' = kind /\ len' = len
      /\ \A t \in Side : ResultOK(t)'
  BY <1>1, <1>2, MovedResult
<1>7. TransferType'
  BY <1>1, <1>2, <1>4, <1>6 DEF TransferInv, TransferType
<1> QED  BY <1>5, <1>6, <1>7 DEF TransferInv

(* A step that moves no bytes: an operation begins, waits or ends.         *)
LEMMA NoBytes ==
    ASSUME TransferInv, UNCHANGED <<pipe, put, got, broken, total, opVars>>,
           NEW s \in Side, NEW p \in {"idle", "try", "wait"},
           NEW r \in Results, at' = [at EXCEPT ![s] = p],
           res' = [res EXCEPT ![s] = r],
           res[s] = "none", p # "idle" => r = "none",
           r = "ok" => ~Whole(s)
    PROVE  TransferInv'
<1>1. TransferType'
  BY DEF TransferInv, TransferType, opVars
<1>2. InOrder(got', pipe', put', broken')
  BY DEF TransferInv
<1>3. \A t \in Side : /\ at'[t] = (IF t = s THEN p ELSE at[t])
                      /\ res'[t] = (IF t = s THEN r ELSE res[t])
  BY DEF TransferInv, TransferType
<1>4. ASSUME NEW t \in Side
      PROVE  ResultOK(t)'
  <2>1. ResultOK(t)
    BY DEF TransferInv
  <2> QED  BY <1>3, <2>1 DEF ResultOK, Whole, opVars
<1> QED  BY <1>1, <1>2, <1>4 DEF TransferInv

(* A call: the operation starts with nothing moved.                        *)
LEMMA BeginKeeps ==
    ASSUME TransferInv, NEW s \in Side, Begin(s)
    PROVE  TransferInv'
<1>1. PICK k \in Kinds(s), n \in Length, t \in Timeout :
         /\ kind' = [kind EXCEPT ![s] = k] /\ len' = [len EXCEPT ![s] = n]
         /\ total' = [total EXCEPT ![s] = 0] /\ UNCHANGED netVars
         /\ \/ /\ at' = [at EXCEPT ![s] = "idle"]
               /\ res' = [res EXCEPT ![s] = "EINVAL"]
            \/ /\ at' = [at EXCEPT ![s] = "try"]
               /\ res' = [res EXCEPT ![s] = "none"]
  BY DEF Begin, Finish
<1>2. k \in {"none", "all", "exact", "some", "timed"} /\ n \in Nat /\ 0 \in Nat
  BY SMTT(30), <1>1, TransferAssumption DEF Kinds
<1>3. PICK p \in {"idle", "try"}, r \in {"EINVAL", "none"} :
         /\ at' = [at EXCEPT ![s] = p] /\ res' = [res EXCEPT ![s] = r]
         /\ p # "idle" => r = "none"
  BY <1>1
<1>4. TransferType
  BY DEF TransferInv
<1>5. TransferType'
  <2>1. /\ kind' \in [Side -> {"none", "all", "exact", "some", "timed"}]
        /\ len' \in [Side -> Nat] /\ total' \in [Side -> Nat]
    BY <1>1, <1>2, <1>4 DEF TransferType
  <2>2. at' \in [Side -> {"idle", "try", "wait"}] /\ res' \in [Side -> Results]
    BY <1>3, <1>4 DEF TransferType, Results
  <2> QED  BY <1>1, <1>4, <2>1, <2>2 DEF TransferType, netVars
<1>6. InOrder(got', pipe', put', broken')
  BY <1>1 DEF TransferInv, netVars
<1>7. ASSUME NEW t2 \in Side
      PROVE  ResultOK(t2)'
  <2>1. CASE t2 = s
    BY <1>1, <1>3, <1>4, <2>1 DEF ResultOK, TransferType
  <2>2. CASE t2 # s
    <3>1. /\ at'[t2] = at[t2] /\ res'[t2] = res[t2] /\ kind'[t2] = kind[t2]
          /\ total'[t2] = total[t2] /\ len'[t2] = len[t2]
      BY <1>1, <1>3, <1>4, <2>2 DEF TransferType
    <3> QED  BY <3>1 DEF TransferInv, ResultOK, Whole
  <2> QED  BY <2>1, <2>2
<1> QED  BY <1>5, <1>6, <1>7 DEF TransferInv

(* A round without bytes, and the end of a wait.                           *)
LEMMA QuietKeepsBytes ==
    ASSUME TransferInv, NEW s \in Side,
           \/ Cancel(s) \/ Broken(s) \/ WouldBlock(s)
           \/ WaitOver(s) \/ WaitFails(s)
           \/ (s = "reader" /\ EndOfStream)
    PROVE  TransferInv'
<1>1. at[s] # "idle" /\ res[s] = "none" /\ res \in [Side -> Results]
      /\ UNCHANGED <<pipe, put, got, broken, total, opVars>>
  <2>1. at[s] \in {"try", "wait"}
    BY DEF Cancel, Broken, WouldBlock, WaitOver, WaitFails, EndOfStream,
           Trying
  <2>2. UNCHANGED <<pipe, put, got, broken, total, opVars>>
    BY DEF Cancel, Broken, WouldBlock, WaitOver, WaitFails, EndOfStream,
           netVars
  <2> QED  BY <2>1, <2>2 DEF TransferInv, TransferType, ResultOK
<1>2. ASSUME NEW r \in Results, Finish(s, r), r = "ok" => ~Whole(s)
      PROVE  TransferInv'
  BY <1>1, <1>2, NoBytes DEF Finish
<1>3. ASSUME NEW p \in {"try", "wait"}, at' = [at EXCEPT ![s] = p],
             UNCHANGED res
      PROVE  TransferInv'
  <2>1. res' = [res EXCEPT ![s] = "none"] /\ "none" \in Results
    BY <1>1, <1>3 DEF Results
  <2> QED  BY <1>1, <1>3, <2>1, NoBytes
<1>4. {"ECANCELED", "EPIPE", "ECONNRESET", "ETIMEDOUT", "EBUSY", "ok"}
         \subseteq Results
  BY DEF Results, Failed
<1>5. CASE Cancel(s)
  BY <1>2, <1>4, <1>5 DEF Cancel
<1>6. CASE Broken(s)
  BY <1>2, <1>4, <1>6 DEF Broken
<1>7. CASE WouldBlock(s)
  BY <1>2, <1>3, <1>4, <1>7 DEF WouldBlock
<1>8. CASE WaitOver(s)
  BY <1>3, <1>8 DEF WaitOver
<1>9. CASE WaitFails(s)
  BY <1>2, <1>4, <1>9 DEF WaitFails
<1>10. CASE s = "reader" /\ EndOfStream
  BY <1>2, <1>4, <1>10 DEF EndOfStream
<1> QED  BY <1>5, <1>6, <1>7, <1>8, <1>9, <1>10

(* The bytes arrive in order, each once, a whole read or write that        *)
(* succeeds has moved its whole buffer, and any other operation that       *)
(* reports a timeout, a cancellation or an error has moved nothing, for    *)
(* every size of the socket buffer and of the callers' buffers, with       *)
(* partial transfers, timeouts, cancellations and resets.                  *)
THEOREM DeliveredHolds == TransferSpec => []Delivered
<1>1. TransferInit => TransferInv
  <2> SUFFICES ASSUME TransferInit
               PROVE  TransferInv
    OBVIOUS
  <2>1. <<>> \in Seq(Nat) /\ Len(<<>>) = 0 /\ 1..0 = {} /\ 0 \in Nat
        /\ 0 + 0 = 0
    BY SMTT(30)
  <2>2. TransferType
    BY <2>1 DEF TransferInit, TransferType, Results
  <2>3. InOrder(got, pipe, put, broken)
    BY <2>1 DEF TransferInit, InOrder
  <2>4. \A s \in Side : ResultOK(s)
    BY DEF TransferInit, ResultOK
  <2> QED  BY <2>2, <2>3, <2>4 DEF TransferInv
<1>2. ASSUME TransferInv, [TransferNext]_transferVars
      PROVE  TransferInv'
  <2>1. CASE \E s \in Side : Begin(s)
    BY <1>2, <2>1, BeginKeeps
  <2>2. CASE \E s \in Side : Step(s) \/ WaitFails(s)
    BY <1>2, <2>2, SendKeeps, ReceiveKeeps, QuietKeepsBytes DEF Step
  <2>3. ASSUME UNCHANGED <<pipe, put, got, broken, opVars, at, total, res>>
        PROVE  TransferInv'
    <3>1. TransferType' /\ InOrder(got', pipe', put', broken')
      BY <1>2, <2>3 DEF TransferInv, TransferType, opVars
    <3>2. \A s \in Side : ResultOK(s)'
      BY <1>2, <2>3 DEF TransferInv, ResultOK, Whole, opVars
    <3> QED  BY <3>1, <3>2 DEF TransferInv
  <2>4. CASE \/ \E s \in Side : CancelToken(s)
             \/ ShutdownWrite \/ Tick \/ UNCHANGED transferVars
    BY <2>3, <2>4 DEF CancelToken, ShutdownWrite, Tick, transferVars, netVars
  <2>5. CASE Reset
    <3>1. /\ pipe' = <<>> /\ broken' = TRUE
          /\ UNCHANGED <<put, got, opVars, at, total, res>>
      BY <2>5 DEF Reset
    <3>2. <<>> \in Seq(Nat)
      BY SMTT(30)
    <3>3. TransferType'
      BY <1>2, <3>1, <3>2 DEF TransferInv, TransferType, opVars
    <3>4. InOrder(got', pipe', put', broken')
      BY <1>2, <3>1 DEF TransferInv, InOrder
    <3>5. \A s \in Side : ResultOK(s)'
      BY <1>2, <3>1 DEF TransferInv, ResultOK, Whole, opVars
    <3> QED  BY <3>3, <3>4, <3>5 DEF TransferInv
  <2> QED  BY <1>2, <2>1, <2>2, <2>4, <2>5 DEF TransferNext
<1> QED  BY <1>1, <1>2, InOrderDelivers, PTL DEF TransferSpec
=============================================================================
