--------------------------- MODULE UringLoopProofs ---------------------------
(***************************************************************************)
(* Proofs about UringLoop, for every set of frames and descriptors, every  *)
(* depth of the submission queue, batch size, timeout and clock rate: the  *)
(* types, and what a submission, a raised condition and a wait do.         *)
(***************************************************************************)
EXTENDS UringLoop, WellFoundedInduction, TLAPS

(* Most leaves are first-order; those on arithmetic or sequences name SMT. *)
USE ZenonT(30)

-----------------------------------------------------------------------------
(* The types, by groups of variables, one for each tuple that actions      *)
(* leave unchanged.  A registration is empty or complete.                  *)
Reg == {NoReg} \cup [handle : Handle, deadline : Nat \cup {Null}, token : Token]
Location == {"idle", "top", "expire", "scan", "check", "drain", "running",
             "resumed", "block", "waiting", "dispatch", "rearm", "exit"}

FileType == open \in SUBSET File /\ level \in [File -> SUBSET Condition]
RingType ==
    /\ sq \in Seq(Entry)
    /\ polls \in SUBSET Poll
    /\ cq \in Seq(Completion)
    /\ submission_pending \in BOOLEAN
QueueType ==
    /\ ready_queue \in Seq(Handle)
    /\ wait_results \in [Handle -> Outcome \cup {Null}]
RootType == root_tasks \in SUBSET Handle /\ active_task_count \in Nat
WaiterType ==
    /\ waiters \in [Waiter -> Reg]
    /\ inflight_polls \in [Token -> Waiter \cup {Null}]
    /\ pending_waiter_count \in Nat
    /\ timed_waiter_count \in Nat
    /\ seen \in SUBSET Waiter
IndexType ==
    next_deadline \in Nat \cup {Null} /\ deadline_index_dirty \in BOOLEAN
TokenType ==
    next_token \in 2..(MaxToken + 1) /\ dropped \in SUBSET (Token \cup {NoToken})
FlagType == stop_requested \in BOOLEAN /\ loop_error \in Errno \cup {Null}
ClockType == stopper \in {"idle", "stored"} /\ now \in Nat
ScanType == scan \in [todo : Seq(Waiter), now : Nat, next : Nat \cup {Null}]
LocalType ==
    /\ ScanType
    /\ batch \in Seq(Completion)
    /\ wait_until \in Nat \cup {Null}
    /\ run_result \in Errno \cup {"ok", "EDEADLK", Null}

(* While a coroutine body runs, current names it; while completions are    *)
(* processed, batch holds those that are left.                             *)
CurrentOK == current # Null <=> pc = "running"
BatchOK == batch # <<>> <=> pc \in {"dispatch", "rearm"}
ControlType ==
    /\ pc \in Location
    /\ current \in Handle \cup {Null}
    /\ CurrentOK
    /\ BatchOK

(* Tokens not handed out yet lead nowhere.                                 *)
TokensFresh == \A t \in Token : t >= next_token => inflight_polls[t] = Null

TypeInv ==
    /\ TaskTypeOK /\ FileType /\ RingType /\ QueueType /\ RootType
    /\ WaiterType /\ IndexType /\ TokenType /\ FlagType /\ ClockType
    /\ LocalType /\ ControlType /\ TokensFresh

(* A registration is empty exactly when its handle is.                     *)
LEMMA RegParts ==
    ASSUME TypeInv, NEW w \in Waiter
    PROVE  /\ ~Armed(w) => waiters[w] = NoReg
           /\ Armed(w) => /\ waiters[w].handle \in Handle
                          /\ waiters[w].deadline \in Nat \cup {Null}
                          /\ waiters[w].token \in Token
<1>1. waiters[w] \in Reg
  BY DEF TypeInv, WaiterType
<1> QED  BY SMTT(30), <1>1, NullNotHandle DEF Reg, NoReg, Armed

(* A completion whose token leads to a side that carries the token is that *)
(* of an open wait.                                                        *)
LEMMA CompletedSide ==
    ASSUME TypeInv, NEW t \in Token, Completed(t)
    PROVE  /\ Head(batch).res \in Outcome
           /\ Known(t) => /\ inflight_polls[t] \in Waiter
                          /\ waiters[inflight_polls[t]].token = t
                                => Armed(inflight_polls[t])
<1>1. batch \in Seq(Completion) /\ batch # <<>>
  BY DEF TypeInv, LocalType, Completed
<1>2. Head(batch) \in Completion
  BY SMTT(30), <1>1
<1>3. Head(batch).res \in Outcome
  BY <1>2 DEF Completion, Outcome
<1>4. Known(t) => inflight_polls[t] \in Waiter
  BY DEF Known, TypeInv, WaiterType
<1>5. t # NoToken
  BY SMTT(30) DEF Token, NoToken
<1> QED  BY SMTT(30), <1>3, <1>4, <1>5, RegParts DEF NoReg

-----------------------------------------------------------------------------
(* Induction over the naturals, with the predicate given as a set: < is    *)
(* well founded, so the numbers outside S have a smallest one.             *)
LEMMA NatSetInduction ==
    ASSUME NEW S \in SUBSET Nat, 0 \in S, \A n \in S : n + 1 \in S
    PROVE  S = Nat
<1> SUFFICES ASSUME Nat \ S # {}
             PROVE  FALSE
  OBVIOUS
<1> DEFINE R == {ss \in Nat \X Nat : ss[1] < ss[2]}
<1>1. IsWellFoundedOn(R, Nat)
  BY NatLessThanWellFounded DEF OpToRel
<1>2. \A m, n \in Nat : m < n => <<m, n>> \in R
  OBVIOUS
<1> HIDE DEF R
<1>3. PICK x \in Nat \ S : \A y \in Nat \ S : ~(<<y, x>> \in R)
  BY <1>1, WFMin
<1>4. x # 0 /\ x - 1 \in Nat /\ x - 1 < x
  BY SMTT(30), <1>3
<1>5. x - 1 \in S
  BY <1>2, <1>3, <1>4
<1>6. x \in S
  BY SMTT(30), <1>4, <1>5
<1> QED  BY <1>3, <1>6

(* What the kernel has done after i entries of s.                          *)
IsSubmission(f, s, n) ==
    f = [i \in 0..n |-> IF i = 0 THEN <<polls, cq>> ELSE Taken(f[i - 1], s[i])]

(* Its value entry by entry.                                               *)
LEMMA SubmissionSteps ==
    ASSUME NEW s, NEW n \in Nat, NEW f, IsSubmission(f, s, n)
    PROVE  /\ f[0] = <<polls, cq>>
           /\ \A i \in 1..n : f[i] = Taken(f[i - 1], s[i])
<1> DEFINE G(g) == [i \in 0..n |-> IF i = 0 THEN <<polls, cq>>
                                   ELSE Taken(g[i - 1], s[i])]
<1>1. f = G(f)
  BY DEF IsSubmission
<1>2. ASSUME NEW g
      PROVE  /\ G(g)[0] = <<polls, cq>>
             /\ \A i \in 1..n : G(g)[i] = Taken(g[i - 1], s[i])
  BY SMTT(30)
<1> HIDE DEF G
<1> QED  BY <1>1, <1>2

(* The recursion of Submitted has a solution for every queue.              *)
LEMMA SubmissionExists ==
    ASSUME NEW s
    PROVE  \A n \in Nat : \E f : IsSubmission(f, s, n)
<1> DEFINE S == {n \in Nat : \E f : IsSubmission(f, s, n)}
<1>1. 0 \in S
  <2> DEFINE f == [i \in 0..0 |-> <<polls, cq>>]
  <2>1. IsSubmission(f, s, 0)
    BY SMTT(30) DEF IsSubmission
  <2> QED  BY <2>1
<1>2. ASSUME NEW n \in S
      PROVE  n + 1 \in S
  <2>1. PICK f : IsSubmission(f, s, n)
    OBVIOUS
  <2> DEFINE g == [i \in 0..(n + 1) |-> IF i <= n THEN f[i]
                                        ELSE Taken(f[n], s[n + 1])]
  <2>2. /\ f[0] = <<polls, cq>>
        /\ \A i \in 1..n : f[i] = Taken(f[i - 1], s[i])
    BY <2>1, SubmissionSteps
  <2>3. \A i \in 0..(n + 1) :
           g[i] = IF i = 0 THEN <<polls, cq>> ELSE Taken(g[i - 1], s[i])
    <3>1. g[0] = <<polls, cq>>
      BY SMTT(30), <2>2
    <3>2. \A i \in 1..n : g[i] = f[i] /\ g[i - 1] = f[i - 1]
      BY SMTT(30)
    <3>3. g[n + 1] = Taken(f[n], s[n + 1]) /\ g[n] = f[n]
      BY SMTT(30)
    <3> HIDE DEF g
    <3>4. ASSUME NEW i \in 0..(n + 1)
          PROVE  g[i] = IF i = 0 THEN <<polls, cq>> ELSE Taken(g[i - 1], s[i])
      <4>1. CASE i = 0
        BY <3>1, <4>1
      <4>2. CASE i \in 1..n
        BY <2>2, <3>2, <4>2
      <4>3. CASE i = n + 1
        BY SMTT(30), <3>3, <4>3
      <4> QED  BY SMTT(30), <4>1, <4>2, <4>3
    <3> QED  BY <3>4
  <2>4. g = [i \in 0..(n + 1) |-> g[i]]
    OBVIOUS
  <2> HIDE DEF g
  <2>5. IsSubmission(g, s, n + 1)
    BY <2>3, <2>4 DEF IsSubmission
  <2> QED  BY SMTT(30), <2>5
<1> HIDE DEF S
<1>3. S = Nat
  <2>1. S \in SUBSET Nat
    BY DEF S
  <2> QED  BY <1>1, <1>2, <2>1, NatSetInduction
<1> QED  BY <1>3 DEF S

(* What holds before a submission and is kept by every entry the kernel    *)
(* takes holds after it: K[i] are the kernel states allowed after i        *)
(* entries.                                                                *)
LEMMA SubmittedKeeps ==
    ASSUME NEW T, NEW s \in Seq(T), NEW K,
           <<polls, cq>> \in K[0],
           \A i \in 1..Len(s) : \A k \in K[i - 1] : Taken(k, s[i]) \in K[i]
    PROVE  Submitted(s) \in K[Len(s)]
<1>1. Len(s) \in Nat
  BY SMTT(30)
<1> DEFINE after == CHOOSE f : IsSubmission(f, s, Len(s))
<1>2. IsSubmission(after, s, Len(s))
  BY <1>1, SubmissionExists
<1>3. Submitted(s) = after[Len(s)]
  BY DEF Submitted, IsSubmission
<1> HIDE DEF after
<1>4. /\ after[0] = <<polls, cq>>
      /\ \A i \in 1..Len(s) : after[i] = Taken(after[i - 1], s[i])
  BY <1>1, <1>2, SubmissionSteps
<1> DEFINE S == {n \in Nat : n <= Len(s) => after[n] \in K[n]}
<1>5. 0 \in S
  BY <1>4
<1>6. ASSUME NEW n \in S
      PROVE  n + 1 \in S
  <2>1. CASE n + 1 <= Len(s)
    <3>1. n \in Nat /\ n + 1 \in 1..Len(s) /\ (n + 1) - 1 = n /\ after[n] \in K[n]
      BY SMTT(30), <1>1, <2>1
    <3>2. after[n + 1] = Taken(after[n], s[n + 1])
      BY <1>4, <3>1
    <3> QED  BY SMTT(30), <3>1, <3>2
  <2>2. CASE ~(n + 1 <= Len(s))
    BY SMTT(30), <2>2
  <2> QED  BY <2>1, <2>2
<1> HIDE DEF S
<1>7. S = Nat
  <2>1. S \in SUBSET Nat
    BY DEF S
  <2> QED  BY <1>5, <1>6, <2>1, NatSetInduction
<1> QED  BY SMTT(30), <1>1, <1>3, <1>7 DEF S

-----------------------------------------------------------------------------
(* Variables that a step leaves alone keep their types.                    *)
LEMMA TypeFrame ==
    ASSUME TypeInv
    PROVE  /\ UNCHANGED taskVars => TaskTypeOK'
           /\ UNCHANGED fileVars => FileType'
           /\ UNCHANGED submitVars => RingType'
           /\ UNCHANGED queueVars => QueueType'
           /\ UNCHANGED rootVars => RootType'
           /\ UNCHANGED waiterVars => WaiterType'
           /\ UNCHANGED indexVars => IndexType'
           /\ UNCHANGED tokenVars => TokenType'
           /\ UNCHANGED flagVars => FlagType'
           /\ UNCHANGED <<stopper, now>> => ClockType'
           /\ UNCHANGED localVars => LocalType'
           /\ UNCHANGED <<pc, current, batch>> => ControlType'
           /\ UNCHANGED <<inflight_polls, next_token>> => TokensFresh'
<1> USE DEF TypeInv
<1>1. UNCHANGED taskVars => TaskTypeOK'
  BY DEF taskVars, TaskTypeOK
<1>2. UNCHANGED fileVars => FileType'
  BY DEF fileVars, FileType
<1>3. UNCHANGED submitVars => RingType'
  BY DEF submitVars, ringVars, RingType
<1>4. UNCHANGED queueVars => QueueType'
  BY DEF queueVars, QueueType
<1>5. UNCHANGED rootVars => RootType'
  BY DEF rootVars, RootType
<1>6. UNCHANGED waiterVars => WaiterType'
  BY DEF waiterVars, WaiterType
<1>7. UNCHANGED indexVars => IndexType'
  BY DEF indexVars, IndexType
<1>8. UNCHANGED tokenVars => TokenType'
  BY DEF tokenVars, TokenType
<1>9. UNCHANGED flagVars => FlagType'
  BY DEF flagVars, FlagType
<1>10. UNCHANGED <<stopper, now>> => ClockType'
  BY DEF ClockType
<1>11. UNCHANGED localVars => LocalType'
  BY DEF localVars, LocalType, ScanType
<1>12. UNCHANGED <<pc, current, batch>> => ControlType'
  BY DEF ControlType, CurrentOK, BatchOK
<1>13. UNCHANGED <<inflight_polls, next_token>> => TokensFresh'
  BY DEF TokensFresh
<1> QED  BY <1>1, <1>2, <1>3, <1>4, <1>5, <1>6, <1>7, <1>8, <1>9, <1>10,
            <1>11, <1>12, <1>13

(* So a step keeps the types when every group is unchanged or typed.       *)
LEMMA TypeStep ==
    ASSUME TypeInv,
           UNCHANGED taskVars \/ TaskTypeOK',
           UNCHANGED fileVars \/ FileType',
           UNCHANGED submitVars \/ RingType',
           UNCHANGED queueVars \/ QueueType',
           UNCHANGED rootVars \/ RootType',
           UNCHANGED waiterVars \/ WaiterType',
           UNCHANGED indexVars \/ IndexType',
           UNCHANGED tokenVars \/ TokenType',
           UNCHANGED flagVars \/ FlagType',
           UNCHANGED <<stopper, now>> \/ ClockType',
           UNCHANGED localVars \/ LocalType',
           UNCHANGED <<pc, current, batch>> \/ ControlType',
           UNCHANGED <<inflight_polls, next_token>> \/ TokensFresh'
    PROVE  TypeInv'
BY SMTT(30), TypeFrame DEF TypeInv

-----------------------------------------------------------------------------
(* Submission queue, kernel and completion queue.                          *)
Kernel == (SUBSET Poll) \X Seq(Completion)

(* The poll of the wake descriptor, and the entry that arms it again.      *)
LEMMA WakePollType == {WakePoll} \in SUBSET Poll /\ WakeAdd \in Entry
<1>1. wake_token \in Token /\ WakeFd \in File
  BY SMTT(30), RingAssumption, LoopAssumption DEF Token, wake_token
<1>2. PollMask("readable") \in SUBSET Condition
  BY DEF PollMask, Condition
<1>3. WakePoll \in Poll
  BY <1>1, <1>2 DEF WakePoll, Poll
<1>4. WakeAdd \in Entry
  BY <1>1, <1>2 DEF WakeAdd, PollAdd, Entry
<1> QED  BY <1>3, <1>4

(* The kernel takes a well-typed entry to a well-typed state.              *)
LEMMA TakenType ==
    ASSUME FileType, NEW k \in Kernel, NEW e \in Entry
    PROVE  Taken(k, e) \in Kernel
<1>1. PICK P \in SUBSET Poll, q \in Seq(Completion) : k = <<P, q>>
  BY SMTT(30) DEF Kernel
<1>2. ASSUME NEW x \in Kernel, NEW t \in Token \cup {NoToken},
             NEW r \in {"ok", "EBADF", "ECANCELED", "ENOENT"}
      PROVE  Complete(x, t, r) \in Kernel
  <2>1. x[1] \in SUBSET Poll /\ x[2] \in Seq(Completion)
    BY DEF Kernel
  <2>2. [token |-> t, res |-> r] \in Completion
    BY DEF Completion
  <2>3. Append(x[2], [token |-> t, res |-> r]) \in Seq(Completion)
    BY SMTT(30), <2>1, <2>2
  <2> QED  BY <2>1, <2>3 DEF Complete, Kernel
<1>3. CASE e.op = "add"
  <2>1. e.token \in Token /\ e.fd \in File /\ e.mask \in SUBSET Condition
    BY <1>3 DEF Entry
  <2>2. CASE e.fd \notin open \/ level[e.fd] \cap e.mask # {}
    BY <1>2, <1>3, <2>1, <2>2 DEF Taken
  <2>3. CASE e.fd \in open /\ level[e.fd] \cap e.mask = {}
    <3> DEFINE p == [token |-> e.token, fd |-> e.fd, mask |-> e.mask]
    <3>1. p \in Poll
      BY <2>1 DEF Poll
    <3>2. P \cup {p} \in SUBSET Poll
      BY <3>1
    <3>3. Taken(k, e) = <<P \cup {p}, q>>
      BY <1>1, <1>3, <2>3 DEF Taken
    <3> HIDE DEF p
    <3>4. <<P \cup {p}, q>> \in Kernel
      BY <3>2 DEF Kernel
    <3> QED  BY <3>3, <3>4
  <2> QED  BY <2>2, <2>3
<1>4. CASE e.op # "add"
  <2> DEFINE hit == {p \in P : p.token = e.token}
  <2>1. e.token \in Token
    BY DEF Entry
  <2>2. P \ hit \in SUBSET Poll
    OBVIOUS
  <2>3. CASE hit = {}
    <3>1. Taken(k, e) = Complete(k, NoToken, "ENOENT")
      BY <1>1, <1>4, <2>3 DEF Taken
    <3> QED  BY <1>2, <3>1
  <2>4. CASE hit # {}
    <3>1. Taken(k, e) = Complete(Complete(<<P \ hit, q>>, e.token, "ECANCELED"),
                                 NoToken, "ok")
      BY <1>1, <1>4, <2>4 DEF Taken
    <3> HIDE DEF hit
    <3>2. <<P \ hit, q>> \in Kernel
      BY <2>2 DEF Kernel
    <3>3. Complete(<<P \ hit, q>>, e.token, "ECANCELED") \in Kernel
      BY <1>2, <2>1, <3>2
    <3> QED  BY <1>2, <3>1, <3>3
  <2> QED  BY <2>3, <2>4
<1> QED  BY <1>3, <1>4

(* io_uring_submit keeps the kernel's types.                               *)
LEMMA SubmitType ==
    ASSUME FileType, RingType, NEW s \in Seq(Entry), SubmitEntries(s)
    PROVE  polls' \in SUBSET Poll /\ cq' \in Seq(Completion)
<1> DEFINE K == [i \in Nat |-> Kernel]
<1>1. <<polls, cq>> \in K[0]
  BY DEF RingType, Kernel
<1>2. ASSUME NEW i \in 1..Len(s), NEW k \in K[i - 1]
      PROVE  Taken(k, s[i]) \in K[i]
  <2>1. i \in Nat /\ i - 1 \in Nat /\ s[i] \in Entry
    BY SMTT(30)
  <2> QED  BY <2>1, TakenType
<1>3. Submitted(s) \in K[Len(s)]
  <2> HIDE DEF K
  <2> QED  BY <1>1, <1>2, SubmittedKeeps
<1>4. Submitted(s) \in Kernel
  BY SMTT(30), <1>3
<1> QED  BY <1>4 DEF SubmitEntries, Kernel

(* flush_submissions, queue_poll_add and queue_poll_remove.                *)
LEMMA FlushType ==
    ASSUME TypeInv, NEW r, Flush(r)
    PROVE  RingType'
<1>1. CASE submission_pending /\ r = "ok"
  <2>1. SubmitEntries(sq) /\ sq' = <<>> /\ submission_pending' = FALSE
    BY <1>1 DEF Flush
  <2>2. polls' \in SUBSET Poll /\ cq' \in Seq(Completion)
    BY <2>1, SubmitType DEF TypeInv, RingType
  <2>3. sq' \in Seq(Entry)
    BY SMTT(30), <2>1
  <2> QED  BY <2>1, <2>2, <2>3 DEF RingType
<1>2. CASE ~(submission_pending /\ r = "ok")
  BY <1>2, TypeFrame DEF Flush
<1> QED  BY <1>1, <1>2

(* Queueing an entry, after a flush when the queue is full.                *)
LEMMA QueueEntryType ==
    ASSUME TypeInv, NEW e \in Entry, NEW r, QueueEntry(e, r)
    PROVE  RingType' /\ r \in {"ok"} \cup Errno
<1>1. CASE HasRoom
  <2>1. /\ r = "ok" /\ sq' = Append(sq, e)
        /\ submission_pending' = TRUE /\ UNCHANGED <<polls, cq>>
    BY <1>1 DEF QueueEntry
  <2> QED  BY SMTT(30), <2>1 DEF TypeInv, RingType
<1>2. CASE ~HasRoom /\ submission_pending /\ r = "ok"
  <2>1. SubmitEntries(sq) /\ sq' = <<e>> /\ UNCHANGED submission_pending
    BY <1>2 DEF QueueEntry
  <2>2. polls' \in SUBSET Poll /\ cq' \in Seq(Completion)
    BY <2>1, SubmitType DEF TypeInv, RingType
  <2>3. sq' \in Seq(Entry)
    BY SMTT(30), <2>1
  <2> QED  BY <1>2, <2>1, <2>2, <2>3 DEF TypeInv, RingType
<1>3. CASE ~HasRoom /\ ~(submission_pending /\ r = "ok")
  <2>1. /\ r = (IF submission_pending THEN "EAGAIN" ELSE "EBUSY")
        /\ UNCHANGED submitVars
    BY <1>3 DEF QueueEntry
  <2> QED  BY <2>1, TypeFrame DEF Errno
<1> QED  BY <1>1, <1>2, <1>3

(* A condition that starts to hold: the hit polls leave the kernel and     *)
(* each adds one completion behind those that are there.                   *)
RaisedAs(fd, c, hit, m) ==
    /\ hit = {p \in polls : p.fd = fd /\ c \in p.mask}
    /\ polls' = polls \ hit /\ cq' = cq \o m
    /\ \A i \in 1..Len(m) : /\ m[i].res = "ok"
                            /\ \E p \in hit : p.token = m[i].token
    /\ \A p \in hit : \E i \in 1..Len(m) : m[i].token = p.token
(* Raise does that.                                                        *)
LEMMA RaiseEffect ==
    ASSUME TypeInv, NEW fd \in File, NEW c \in Condition, Raise(fd, c)
    PROVE  \E hit \in SUBSET polls, m \in Seq(Completion) : RaisedAs(fd, c, hit, m)
<1> DEFINE hit == {p \in polls : p.fd = fd /\ c \in p.mask}
<1>1. PICK s \in Orders(hit) :
         cq' = cq \o [i \in DOMAIN s |-> [token |-> s[i].token, res |-> "ok"]]
  BY DEF Raise
<1>2. hit \in SUBSET polls /\ polls \in SUBSET Poll
  BY DEF TypeInv, RingType
<1>3. polls' = polls \ hit
  BY DEF Raise
<1> HIDE DEF hit
<1>4. PICK n \in 0..MaxToken : s \in [1..n -> hit]
  BY DEF Orders
<1>5. n \in Nat /\ DOMAIN s = 1..n /\ \A i \in 1..n : s[i] \in hit
  BY SMTT(30), <1>4, RingAssumption
<1>a. \A p \in hit : \E i \in 1..n : s[i] = p
  BY <1>5 DEF Orders
<1> DEFINE m == [i \in 1..n |-> [token |-> s[i].token, res |-> "ok"]]
<1>6. \A i \in 1..n : m[i] \in Completion
  BY <1>2, <1>5 DEF Completion, Poll
<1>7. m \in Seq(Completion) /\ Len(m) = n
  <2>1. m \in [1..n -> Completion]
    BY <1>6
  <2> HIDE DEF m
  <2> QED  BY SMTT(30), <1>5, <2>1
<1>8. cq' = cq \o m
  BY <1>1, <1>5
<1>9. \A i \in 1..Len(m) : m[i].res = "ok" /\ m[i].token = s[i].token
  BY <1>7
<1> HIDE DEF m
<1>10. \A i \in 1..Len(m) : \E p \in hit : p.token = m[i].token
  BY <1>5, <1>7, <1>9
<1>11. \A p \in hit : \E i \in 1..Len(m) : m[i].token = p.token
  BY <1>a, <1>7, <1>9
<1>12. hit = {p \in polls : p.fd = fd /\ c \in p.mask}
  BY DEF hit
<1>13. RaisedAs(fd, c, hit, m)
  BY <1>3, <1>8, <1>9, <1>10, <1>11, <1>12 DEF RaisedAs
<1> QED  BY <1>2, <1>7, <1>13

(* Raise keeps the types of the ring and of the descriptors.               *)
LEMMA RaiseType ==
    ASSUME TypeInv, NEW fd \in File, NEW c \in Condition, Raise(fd, c),
           UNCHANGED submission_pending
    PROVE  RingType' /\ FileType'
<1>1. PICK hit \in SUBSET polls, m \in Seq(Completion) :
         polls' = polls \ hit /\ cq' = cq \o m
  BY RaiseEffect DEF RaisedAs
<1>2. polls' \in SUBSET Poll
  BY <1>1 DEF TypeInv, RingType
<1>3. cq \in Seq(Completion) /\ sq \in Seq(Entry)
  BY DEF TypeInv, RingType
<1>4. cq' \in Seq(Completion)
  BY SMTT(30), <1>1, <1>3
<1>5. sq' = sq
  BY DEF Raise
<1>6. FileType'
  BY DEF TypeInv, FileType, Raise
<1> QED  BY <1>2, <1>3, <1>4, <1>5, <1>6 DEF TypeInv, RingType

(* What tasks do to descriptors keeps the types.                           *)
LEMMA IoType ==
    ASSUME TypeInv, NEW fd \in Fd, UNCHANGED submission_pending,
           \/ \E c \in {"in", "out"} : Consume(fd, c)
           \/ Close(fd)
           \/ Open(fd)
    PROVE  RingType' /\ FileType'
<1> USE DEF TypeInv, Fd
<1>1. FileType'
  BY DEF FileType, Consume, Close, Open
<1>2. CASE UNCHANGED ringVars
  BY <1>1, <1>2, TypeFrame DEF submitVars
<1>3. CASE Close(fd)
  <2> DEFINE g == [p \in polls |-> IF p.fd = fd THEN [p EXCEPT !.fd = Gone] ELSE p]
  <2>1. polls' = {g[p] : p \in polls} /\ UNCHANGED <<sq, cq>>
    BY <1>3 DEF Close
  <2>2. polls \in SUBSET Poll
    BY DEF RingType
  <2>3. \A p \in polls : g[p] \in Poll
    BY <2>2 DEF Poll
  <2> HIDE DEF g
  <2>7. polls' \in SUBSET Poll
    BY <2>1, <2>3
  <2> QED  BY <1>1, <2>1, <2>7 DEF RingType
<1> QED  BY <1>2, <1>3 DEF Consume, Open

(* A poll whose descriptor is gone completes.                              *)
LEMMA GoneType ==
    ASSUME TypeInv, NEW p \in polls, GoneEvent(p), UNCHANGED submission_pending
    PROVE  RingType' /\ FileType'
<1> USE DEF TypeInv, GoneEvent
<1>1. FileType'
  BY DEF FileType
<1>2. p \in Poll
  BY DEF RingType
<1>3. [token |-> p.token, res |-> "ok"] \in Completion
  BY <1>2 DEF Poll, Completion
<1>4. cq' \in Seq(Completion)
  BY SMTT(30), <1>3 DEF RingType
<1>5. polls' \in SUBSET Poll
  BY DEF RingType
<1> QED  BY <1>1, <1>4, <1>5 DEF RingType

-----------------------------------------------------------------------------
(* A wait ends.                                                            *)
LEMMA WakeType ==
    ASSUME TypeInv, NEW w \in Waiter, Armed(w), NEW r \in Outcome,
           WakeSide(w, r)
    PROVE  QueueType' /\ WaiterType'
<1>1. /\ waiters[w].handle \in Handle
      /\ waiters[w].token \in Token
  BY RegParts
<1>2. QueueType'
  <2>1. ready_queue' \in Seq(Handle)
    BY SMTT(30), <1>1 DEF WakeSide, TypeInv, QueueType
  <2>2. wait_results' \in [Handle -> Outcome \cup {Null}]
    BY DEF WakeSide, TypeInv, QueueType
  <2> QED  BY <2>1, <2>2 DEF QueueType
<1>3. waiters' = [waiters EXCEPT ![w] = NoReg] /\ waiters \in [Waiter -> Reg]
  BY DEF WakeSide, TypeInv, WaiterType
<1>4. waiters' \in [Waiter -> Reg]
  BY <1>3 DEF Reg
<1>7. inflight_polls' \in [Token -> Waiter \cup {Null}]
  BY DEF WakeSide, TypeInv, WaiterType
<1>8. pending_waiter_count' \in Nat /\ timed_waiter_count' \in Nat
  BY SMTT(30) DEF WakeSide, TypeInv, WaiterType, Decrement
<1>9. seen' \in SUBSET Waiter
  BY DEF WakeSide, TypeInv, WaiterType
<1> QED  BY <1>2, <1>4, <1>7, <1>8, <1>9 DEF WaiterType

(* Ending a wait hands out no token.                                       *)
LEMMA WakeFresh ==
    ASSUME TypeInv, NEW w, NEW r, WakeSide(w, r), UNCHANGED next_token
    PROVE  TokensFresh'
BY DEF TypeInv, TokensFresh, WakeSide, WaiterType

(* The order in which process_expired_waiters visits the sides.            *)
LEMMA SidesType ==
    ASSUME TypeInv, NEW s \in Orders(Slots)
    PROVE  Sides(s) \in Seq(Waiter)
<1>7. s \in Seq(Fd)
  <2>1. Slots \subseteq Fd
    BY DEF Slots
  <2>2. PICK n \in 0..MaxToken : s \in [1..n -> Slots]
    BY DEF Orders
  <2> QED  BY SMTT(30), <2>1, <2>2
<1>8. ASSUME NEW i \in 1..(2 * Len(s))
      PROVE  <<s[(i + 1) \div 2],
               IF i % 2 = 1 THEN "readable" ELSE "writable">> \in Waiter
  <2>1. (i + 1) \div 2 \in 1..Len(s)
    BY SMTT(30), <1>7
  <2>2. s[(i + 1) \div 2] \in Fd
    BY SMTT(30), <1>7, <2>1
  <2> QED  BY <2>2 DEF Waiter, Dir
<1>9. 2 * Len(s) \in Nat
  BY SMTT(30), <1>7
<1>10. Sides(s) \in [1..(2 * Len(s)) -> Waiter]
  BY <1>8 DEF Sides
<1> QED  BY SMTT(30), <1>9, <1>10

(* A token that is not handed out yet exists while next_token is in range, *)
(* and allocate_token returns it.                                          *)
LEMMA AllocateFresh ==
    ASSUME TypeInv, next_token <= MaxToken
    PROVE  AllocateToken = next_token /\ next_token \in Token
<1>1. next_token \in Token /\ next_token \in Nat /\ Token \subseteq Nat
  BY SMTT(30), RingAssumption DEF TypeInv, TokenType, Token
<1>2. inflight_polls[next_token] = Null
  BY SMTT(30), <1>1 DEF TypeInv, TokensFresh
<1> DEFINE P(t) == /\ t >= next_token /\ inflight_polls[t] = Null
                   /\ \A u \in next_token..(t - 1) : inflight_polls[u] # Null
<1>3. P(next_token)
  BY SMTT(30), <1>1, <1>2
<1>4. \A t \in Token : P(t) => t = next_token
  BY SMTT(30), <1>1, <1>2
<1>5. AllocateToken = CHOOSE t \in Token : P(t)
  BY DEF AllocateToken
<1> HIDE DEF P
<1> QED  BY <1>1, <1>3, <1>4, <1>5

-----------------------------------------------------------------------------
(* The clock as in EventLoop: deadlines and timeouts are naturals.         *)
LEMMA TimesNat ==
    ASSUME NEW a \in Nat, NEW b \in Nat
    PROVE  a * b \in Nat
BY SMTT(30)

(* The deadline arm_waiter computes is a time exactly when the wait has a  *)
(* timeout.                                                                *)
LEMMA NewDeadlineType ==
    ASSUME TypeInv, NEW t \in (Timeout \ {0}) \cup {Null}
    PROVE  /\ NewDeadline(t) \in Nat \cup {Null}
           /\ NewDeadline(t) = Null <=> t = Null
<1>1. CASE t = Null
  BY <1>1 DEF NewDeadline
<1>2. CASE t # Null
  <2>1. t * TicksPerMs \in Nat
    BY <1>2, TimesNat, LoopAssumption
  <2>2. now + t * TicksPerMs \in Nat
    BY SMTT(30), <2>1 DEF TypeInv, ClockType
  <2> QED  BY <1>2, <2>2, LoopAssumption DEF NewDeadline
<1> QED  BY <1>1, <1>2

(* The timeout that run() passes to reactor_.wait.                         *)
LEMMA TimeoutType ==
    ASSUME TypeInv, NEW d \in Nat
    PROVE  now + TimeoutMs(d) * TicksPerMs \in Nat
<1>0. now \in Nat
  BY DEF TypeInv, ClockType
<1>1. TimeoutMs(d) \in Nat
  <2>1. CASE d <= now
    BY <2>1 DEF TimeoutMs
  <2>2. CASE d > now
    <3>1. d - now \in Nat
      BY SMTT(30), <1>0, <2>2
    <3>2. (d - now) \div TicksPerMs \in Nat
      BY SMTT(30), <3>1, LoopAssumption
    <3> QED  BY <1>0, <2>2, <3>2, LoopAssumption DEF TimeoutMs
  <2> QED  BY SMTT(30), <1>0, <2>1, <2>2
<1>2. TimeoutMs(d) * TicksPerMs \in Nat
  BY <1>1, TimesNat, LoopAssumption
<1> QED  BY SMTT(30), <1>0, <1>2


(* The constructor's state is well typed.                                  *)
LEMMA TypeInit == Init => TypeInv
<1> SUFFICES ASSUME Init
             PROVE  TypeInv
  OBVIOUS
<1> USE DEF Init
<1>1. TaskTypeOK
  BY DEF TaskInit, TaskTypeOK, FrameState
<1>2. FileType
  BY DEF FileType
<1>4. {WakePoll} \in SUBSET Poll
  BY WakePollType
<1>5. RingType
  <2>1. sq \in Seq(Entry) /\ cq \in Seq(Completion)
    BY SMTT(30)
  <2> QED  BY <1>4, <2>1 DEF RingType
<1>6. QueueType /\ RootType /\ IndexType /\ FlagType /\ ClockType
  <2>1. ready_queue \in Seq(Handle) /\ RootType /\ ClockType
    BY SMTT(30) DEF RootType, ClockType
  <2> QED  BY <2>1 DEF QueueType, IndexType, FlagType
<1>7. NoReg.handle = Null /\ NoReg \in Reg
  BY DEF NoReg, Reg
<1>10. WaiterType
  BY <1>7 DEF WaiterType
<1>11. TokenType /\ TokensFresh
  BY SMTT(30), RingAssumption DEF TokenType, TokensFresh, wake_token
<1>12. LocalType
  BY SMTT(30) DEF LocalType, ScanType, NoScan
<1>13. ControlType
  BY DEF ControlType, CurrentOK, BatchOK, Location
<1> QED  BY <1>1, <1>2, <1>5, <1>6, <1>10, <1>11, <1>12, <1>13 DEF TypeInv

(* Every step of the loop thread: run() and process_expired_waiters.       *)
LEMMA TypeLoop ==
    ASSUME TypeInv,
           \/ RunStart \/ LoopTop \/ ExpireStart \/ ScanSide \/ ScanEnd
           \/ LoopCheck \/ DrainPop \/ AfterResume \/ LoopExit \/ Block
    PROVE  TypeInv'
<1> USE DEF outsideVars, localVars, tokenVars
<1>1. CASE RunStart
  <2>1. FlagType'
    BY <1>1 DEF RunStart, FlagType
  <2>2. ControlType'
    BY <1>1 DEF RunStart, TypeInv, ControlType, CurrentOK, BatchOK, Location
  <2>3. LocalType'
    BY <1>1 DEF RunStart, TypeInv, LocalType, ScanType
  <2> QED  BY <1>1, <2>1, <2>2, <2>3, TypeStep DEF RunStart, waiterVars
<1>2. CASE LoopTop \/ LoopCheck
  <2>1. ControlType'
    BY <1>2 DEF LoopTop, LoopCheck, dataVars, TypeInv, ControlType, CurrentOK,
                BatchOK, Location
  <2> QED  BY <1>2, <2>1, TypeStep DEF LoopTop, LoopCheck, dataVars, waiterVars
<1>3. CASE ExpireStart
  <2>1. ControlType'
    BY <1>3 DEF ExpireStart, TypeInv, ControlType, CurrentOK, BatchOK, Location
  <2>2. IndexType'
    BY <1>3 DEF ExpireStart, indexVars, TypeInv, IndexType
  <2>3. ScanType'
    <3>1. CASE scan' = scan
      BY <3>1 DEF TypeInv, LocalType, ScanType
    <3>2. CASE scan' # scan
      <4>1. PICK s \in Orders(Slots) :
               scan' = [todo |-> Sides(s), now |-> now, next |-> Null]
        BY <1>3, <3>2 DEF ExpireStart
      <4>2. Sides(s) \in Seq(Waiter) /\ now \in Nat
        BY SidesType DEF TypeInv, ClockType
      <4> QED  BY <4>1, <4>2 DEF ScanType
    <3> QED  BY <3>1, <3>2
  <2>4. LocalType'
    BY <1>3, <2>3 DEF ExpireStart, TypeInv, LocalType
  <2> QED  BY <1>3, <2>1, <2>2, <2>4, TypeStep DEF ExpireStart, waiterVars
<1>4. CASE ScanSide
  <2> DEFINE w == Head(scan.todo)
  <2>1. /\ scan \in [todo : Seq(Waiter), now : Nat, next : Nat \cup {Null}]
        /\ scan.todo # <<>> /\ scan.todo \in Seq(Waiter)
    BY <1>4 DEF ScanSide, TypeInv, LocalType, ScanType
  <2>2. w \in Waiter /\ Tail(scan.todo) \in Seq(Waiter)
    BY SMTT(30), <2>1
  <2>3. QueueType' /\ WaiterType' /\ RingType' /\ FlagType' /\ TokensFresh'
    <3>1. CASE Expired(w)
      <4>1. PICK r \in {"ok"} \cup Errno :
               /\ WakeSide(w, "ETIMEDOUT")
               /\ QueueEntry(PollRemove(waiters[w].token), r)
               /\ NoteError(r)
        BY <1>4, <3>1 DEF ScanSide
      <4> HIDE DEF w
      <4>2. Armed(w) /\ "ETIMEDOUT" \in Outcome /\ UNCHANGED next_token
        BY <1>4, <3>1 DEF Expired, Outcome, ScanSide
      <4>3. PollRemove(waiters[w].token) \in Entry
        BY <2>2, <4>2, RegParts DEF PollRemove, Entry
      <4>4. FlagType'
        BY <4>1 DEF NoteError, TypeInv, FlagType
      <4> QED  BY <2>2, <4>1, <4>2, <4>3, <4>4, WakeType, WakeFresh,
                  QueueEntryType
    <3>2. CASE ~Expired(w)
      BY <1>4, <3>2, TypeFrame DEF ScanSide, waiterVars
    <3> QED  BY <3>1, <3>2
  <2>4. ScanType'
    <3>1. CASE loop_error' # Null
      <4>1. scan' = NoScan
        BY <1>4, <3>1 DEF ScanSide
      <4> QED  BY SMTT(30), <4>1 DEF ScanType, NoScan
    <3>2. CASE loop_error' = Null
      <4> DEFINE n == IF Expired(w) \/ ~TimedSide(w) THEN scan.next
                      ELSE Earlier(scan.next, waiters[w].deadline)
      <4>1. scan' = [scan EXCEPT !.todo = Tail(scan.todo), !.next = n]
        BY <1>4, <3>2 DEF ScanSide
      <4>2. waiters[w].deadline \in Nat \cup {Null}
        <5> HIDE DEF w
        <5> QED  BY SMTT(30), <2>2, RegParts DEF NoReg
      <4>3. n \in Nat \cup {Null}
        BY <2>1, <4>2 DEF Earlier, TimedSide
      <4> HIDE DEF n, w
      <4> QED  BY <2>1, <2>2, <4>1, <4>3 DEF ScanType
    <3> QED  BY <3>1, <3>2
  <2>5. LocalType'
    BY <1>4, <2>4 DEF ScanSide, TypeInv, LocalType
  <2>6. ControlType'
    BY <1>4 DEF ScanSide, TypeInv, ControlType, CurrentOK, BatchOK, Location
  <2> QED  BY <1>4, <2>3, <2>5, <2>6, TypeStep DEF ScanSide
<1>5. CASE ScanEnd
  <2>1. scan \in [todo : Seq(Waiter), now : Nat, next : Nat \cup {Null}]
    BY DEF TypeInv, LocalType, ScanType
  <2>2. IndexType'
    BY <1>5, <2>1 DEF ScanEnd, IndexType
  <2>3. ScanType'
    <3>1. scan' = NoScan
      BY <1>5 DEF ScanEnd
    <3> QED  BY SMTT(30), <3>1 DEF NoScan, ScanType
  <2>4. LocalType'
    <3>1. UNCHANGED <<batch, wait_until, run_result>>
      BY <1>5 DEF ScanEnd
    <3> QED  BY <2>3, <3>1 DEF TypeInv, LocalType
  <2>5. ControlType'
    BY <1>5 DEF ScanEnd, TypeInv, ControlType, CurrentOK, BatchOK, Location
  <2> QED  BY <1>5, <2>2, <2>4, <2>5, TypeStep DEF ScanEnd, waiterVars
<1>6. CASE DrainPop
  <2>1. ready_queue \in Seq(Handle) /\ ready_queue # <<>>
    BY <1>6 DEF DrainPop, TypeInv, QueueType
  <2>2. Head(ready_queue) \in Handle /\ Tail(ready_queue) \in Seq(Handle)
    BY SMTT(30), <2>1
  <2>3. TaskTypeOK'
    BY <1>6, <2>2
    DEF DrainPop, ResumeFrame, TypeInv, TaskTypeOK, FrameState, taskVars
  <2>4. QueueType'
    BY <1>6, <2>2 DEF DrainPop, TypeInv, QueueType
  <2>5. ControlType'
    BY <1>6, <2>2, NullNotHandle
    DEF DrainPop, TypeInv, ControlType, CurrentOK, BatchOK, Location
  <2> QED  BY <1>6, <2>3, <2>4, <2>5, TypeStep DEF DrainPop, waiterVars
<1>7. CASE AfterResume \/ LoopExit
  <2>1. CleanupCompletedRoots
    BY <1>7 DEF AfterResume, LoopExit
  <2>2. TaskTypeOK'
    BY <2>1
    DEF CleanupCompletedRoots, DestroyFrames, TypeInv, TaskTypeOK, FrameState
  <2>3. root_tasks' \in SUBSET Handle
    BY <2>1 DEF CleanupCompletedRoots, TypeInv, RootType
  <2>4. RootType'
    BY <1>7, <2>3 DEF AfterResume, LoopExit, TypeInv, RootType
  <2>5. ControlType'
    BY <1>7 DEF AfterResume, LoopExit, TypeInv, ControlType, CurrentOK,
                BatchOK, Location
  <2>6. CASE AfterResume
    BY <2>2, <2>4, <2>5, <2>6, TypeStep DEF AfterResume, waiterVars
  <2>7. CASE LoopExit
    <3>1. PICK r \in SubmitResult :
             /\ Flush(r)
             /\ loop_error' = IF loop_error = Null /\ r # "ok" THEN r
                              ELSE loop_error
      BY <2>7 DEF LoopExit
    <3>2. FlagType'
      BY <2>7, <3>1 DEF LoopExit, TypeInv, FlagType, SubmitResult, Errno
    <3>3. RingType'
      BY <3>1, FlushType
    <3>4. run_result' \in Errno \cup {"ok", "EDEADLK", Null}
      BY <2>7, <3>2 DEF LoopExit, FlagType
    <3>5. LocalType'
      BY <2>7, <3>4 DEF LoopExit, TypeInv, LocalType, ScanType
    <3> QED  BY <2>2, <2>4, <2>5, <2>7, <3>2, <3>3, <3>5, TypeStep
             DEF LoopExit, waiterVars
  <2> QED  BY <1>7, <2>6, <2>7
<1>8. CASE Block
  <2>1. next_deadline # Null
            => now + TimeoutMs(next_deadline) * TicksPerMs \in Nat
    BY TimeoutType DEF TypeInv, IndexType
  <2>2. wait_until' \in Nat \cup {Null}
    BY <1>8, <2>1 DEF Block, TypeInv, LocalType
  <2>3. run_result' \in Errno \cup {"ok", "EDEADLK", Null}
    BY <1>8 DEF Block, TypeInv, LocalType, SubmitResult, Errno
  <2>4. LocalType'
    BY <1>8, <2>2, <2>3 DEF Block, TypeInv, LocalType, ScanType
  <2>5. ControlType'
    BY <1>8 DEF Block, TypeInv, ControlType, CurrentOK, BatchOK, Location
  <2>6. UNCHANGED submitVars \/ RingType'
    BY <1>8, FlushType DEF Block
  <2> QED  BY <1>8, <2>4, <2>5, <2>6, TypeStep
              DEF Block, waiterVars
<1> QED  BY <1>1, <1>2, <1>3, <1>4, <1>5, <1>6, <1>7, <1>8

(* One completion is processed: the rest of the batch, or none of it.      *)
LEMMA ProcessedType ==
    ASSUME TypeInv, pc \in {"dispatch", "rearm"}, NEW r, Processed(r),
           UNCHANGED <<current, scan, wait_until, run_result>>
    PROVE  LocalType' /\ ControlType'
<1>1. batch \in Seq(Completion) /\ batch # <<>>
  BY DEF TypeInv, LocalType, ControlType, BatchOK
<1>2. batch' \in Seq(Completion)
  BY SMTT(30), <1>1 DEF Processed
<1>3. LocalType'
  BY <1>2 DEF TypeInv, LocalType, ScanType
<1>4. ControlType'
  BY DEF Processed, TypeInv, ControlType, CurrentOK, BatchOK, Location
<1> QED  BY <1>3, <1>4

(* The wait in reactor_.wait, and process_completion.                      *)
LEMMA TypeWait ==
    ASSUME TypeInv,
           \/ WaitReturn \/ WaitEmpty \/ ProcessStale \/ ProcessWake
           \/ ProcessRearm \/ ProcessPoll
    PROVE  TypeInv'
<1> USE DEF outsideVars, tokenVars
<1>0. Token \subseteq Nat /\ batch \in Seq(Completion) /\ cq \in Seq(Completion)
  BY SMTT(30) DEF Token, TypeInv, LocalType, RingType
<1>1. CASE WaitReturn
  <2>1. Batch \in Seq(Completion) /\ Batch # <<>> /\ Len(Batch) \in Nat
    <3> DEFINE n == IF Len(cq) < MaxBatch THEN Len(cq) ELSE MaxBatch
    <3>1. Len(cq) \in Nat /\ Len(cq) > 0
      <4>1. cq # <<>>
        BY <1>1 DEF WaitReturn
      <4> QED  BY SMTT(30), <1>0, <4>1
    <3>2. n \in 1..Len(cq)
      BY SMTT(30), <3>1, RingAssumption
    <3>3. Batch = SubSeq(cq, 1, n)
      BY DEF Batch
    <3> HIDE DEF n
    <3>4. Batch \in Seq(Completion) /\ Len(Batch) = n
      BY SMTT(30), <1>0, <3>1, <3>2, <3>3
    <3> QED  BY SMTT(30), <3>1, <3>2, <3>4
  <2>2. cq' \in Seq(Completion)
    <3>1. Consumed
      BY <1>1 DEF WaitReturn
    <3> QED  BY SMTT(30), <1>0, <2>1, <3>1 DEF Consumed
  <2>3. RingType'
    BY <1>1, <2>2 DEF WaitReturn, TypeInv, RingType
  <2>4. LocalType'
    BY <1>1, <2>1 DEF WaitReturn, TypeInv, LocalType, ScanType
  <2>5. ControlType'
    BY <1>1, <2>1
       DEF WaitReturn, TypeInv, ControlType, CurrentOK, BatchOK, Location
  <2> QED  BY <1>1, <2>3, <2>4, <2>5, TypeStep DEF WaitReturn, waiterVars
<1>2. CASE WaitEmpty
  <2>1. LocalType'
    BY <1>2 DEF WaitEmpty, TypeInv, LocalType, ScanType
  <2>2. ControlType'
    BY <1>2 DEF WaitEmpty, TypeInv, ControlType, CurrentOK, BatchOK, Location
  <2> QED  BY <1>2, <2>1, <2>2, TypeStep DEF WaitEmpty, waiterVars
<1>3. CASE ProcessStale
  <2>1. LocalType' /\ ControlType'
    BY <1>3, ProcessedType DEF ProcessStale, Completed
  <2> QED  BY <1>3, <2>1, TypeStep DEF ProcessStale, waiterVars
<1>4. CASE ProcessWake
  <2>1. FileType'
    <3>1. level' = [level EXCEPT ![WakeFd] = {}] /\ open' = open
      BY <1>4 DEF ProcessWake
    <3> QED  BY <3>1, LoopAssumption DEF TypeInv, FileType
  <2>2. ControlType'
    BY <1>4
       DEF ProcessWake, Completed, localVars, TypeInv, ControlType,
                CurrentOK, BatchOK, Location
  <2> QED  BY <1>4, <2>1, <2>2, TypeStep
              DEF ProcessWake, waiterVars
<1>5. CASE ProcessRearm
  <2>1. LocalType' /\ ControlType'
    BY <1>5, ProcessedType DEF ProcessRearm
  <2>2. CASE stop_requested
    BY <1>5, <2>1, <2>2, TypeStep DEF ProcessRearm, waiterVars
  <2>3. CASE ~stop_requested
    <3>1. PICK r \in SubmitResult :
             /\ NoteError(r) /\ RearmWake(r)
             /\ dropped' = IF r = "ok" THEN dropped
                           ELSE dropped \cup {batch[i].token : i \in 2..Len(batch)}
      BY <1>5, <2>3 DEF ProcessRearm
    <3>2. FlagType'
      BY <3>1 DEF NoteError, SubmitResult, Errno, TypeInv, FlagType
    <3>3. WakeAdd \in Entry
      BY WakePollType
    <3>4. sq \in Seq(Entry) /\ Append(sq, WakeAdd) \in Seq(Entry)
      BY SMTT(30), <3>3 DEF TypeInv, RingType
    <3>5. RingType'
      <4>1. CASE r = "ok"
        <5> DEFINE s == Append(sq, WakeAdd)
        <5>1. /\ SubmitEntries(s) /\ sq' = <<>> /\ submission_pending' = FALSE
          BY <3>1, <4>1 DEF RearmWake
        <5>2. s \in Seq(Entry)
          BY <3>4
        <5> HIDE DEF s
        <5>3. polls' \in SUBSET Poll /\ cq' \in Seq(Completion)
          BY <5>1, <5>2, SubmitType DEF TypeInv
        <5>4. sq' \in Seq(Entry)
          BY SMTT(30), <5>1
        <5> QED  BY <5>1, <5>3, <5>4 DEF RingType
      <4>2. CASE r # "ok"
        <5>1. /\ sq' \in {sq, Append(sq, WakeAdd)}
              /\ submission_pending' = TRUE /\ UNCHANGED <<polls, cq>>
          BY <3>1, <4>2 DEF RearmWake
        <5>2. sq' \in Seq(Entry)
          BY <3>4, <5>1
        <5> QED  BY <5>1, <5>2 DEF TypeInv, RingType
      <4> QED  BY <4>1, <4>2
    <3>6. TokenType'
      <4>1. \A i \in 2..Len(batch) : batch[i] \in Completion
        BY SMTT(30), <1>0
      <4>3. \A i \in 2..Len(batch) : batch[i].token \in Token \cup {NoToken}
        BY <4>1 DEF Completion
      <4>4. dropped' \in SUBSET (Token \cup {NoToken})
        BY <3>1, <4>3 DEF TypeInv, TokenType
      <4> QED  BY <1>5, <4>4 DEF ProcessRearm, TypeInv, TokenType
    <3> QED  BY <1>5, <2>1, <3>2, <3>5, <3>6, TypeStep
             DEF ProcessRearm, waiterVars
  <2> QED  BY <2>2, <2>3
<1>6. CASE ProcessPoll
  <2>1. LocalType' /\ ControlType'
    BY <1>6, ProcessedType DEF ProcessPoll, Completed
  <2>2. PICK t \in Token \ {wake_token} :
           /\ Completed(t) /\ Known(t)
           /\ IF waiters[inflight_polls[t]].token = t
              THEN /\ WakeSide(inflight_polls[t], Head(batch).res)
                   /\ deadline_index_dirty' =
                         (deadline_index_dirty \/ TimedSide(inflight_polls[t]))
              ELSE /\ inflight_polls' = [inflight_polls EXCEPT ![t] = Null]
                   /\ UNCHANGED <<queueVars, waiters, pending_waiter_count,
                                  timed_waiter_count, seen,
                                  deadline_index_dirty>>
    BY <1>6 DEF ProcessPoll
  <2>3. /\ UNCHANGED <<next_deadline, next_token>>
        /\ inflight_polls[t] \in Waiter /\ t \in Nat
    BY <1>0, <1>6, <2>2 DEF ProcessPoll, Known, TypeInv, WaiterType
  <2>4. QueueType' /\ WaiterType' /\ TokensFresh' /\ IndexType'
    <3>1. CASE waiters[inflight_polls[t]].token = t
      <4>1. Armed(inflight_polls[t])
        BY SMTT(30), <2>3, <3>1, RegParts DEF NoReg, NoToken, Token
      <4>2. batch # <<>>
        BY <2>2 DEF Completed
      <4>3. Head(batch).res \in Outcome
        <5>1. Head(batch) \in Completion
          BY SMTT(30), <1>0, <4>2
        <5> QED  BY <5>1 DEF Completion, Outcome
      <4>4. IndexType'
        BY <2>2, <2>3, <3>1 DEF TypeInv, IndexType
      <4> QED  BY <2>2, <2>3, <3>1, <4>1, <4>3, <4>4, WakeType,
                  WakeFresh
    <3>2. CASE waiters[inflight_polls[t]].token # t
      <4>1. /\ inflight_polls' = [inflight_polls EXCEPT ![t] = Null]
            /\ UNCHANGED <<queueVars, waiters, pending_waiter_count,
                           timed_waiter_count, seen, deadline_index_dirty>>
        BY <2>2, <3>2
      <4>2. inflight_polls' \in [Token -> Waiter \cup {Null}]
        BY <4>1 DEF TypeInv, WaiterType
      <4>3. WaiterType'
        BY <4>1, <4>2 DEF TypeInv, WaiterType
      <4>4. TokensFresh'
        BY <2>3, <4>1 DEF TypeInv, TokensFresh, WaiterType
      <4> QED  BY <2>3, <4>1, <4>3, <4>4, TypeFrame DEF indexVars
    <3> QED  BY <3>1, <3>2
  <2> QED  BY <1>6, <2>1, <2>4, TypeStep DEF ProcessPoll
<1> QED  BY <1>1, <1>2, <1>3, <1>4, <1>5, <1>6

(* What a coroutine body does.                                             *)
LEMMA TypeTask ==
    ASSUME TypeInv,
           \/ \E c \in Handle : Spawn(c) \/ TaskAwait(c)
           \/ TaskFinish \/ ArmElapsed \/ TaskStop \/ TaskIo
           \/ \E w \in Waiter, t \in (Timeout \ {0}) \cup {Null},
                 r \in {"ok"} \cup Errno : Arm(w, t, r)
    PROVE  TypeInv'
<1> USE DEF outsideVars, tokenVars
<1>0. pc = "running" => current \in Handle
  BY DEF TypeInv, ControlType, CurrentOK
<1>s. ASSUME pc = "running", Suspended, UNCHANGED batch
      PROVE  ControlType'
  BY <1>s DEF Suspended, TypeInv, ControlType, CurrentOK, BatchOK, Location
<1>1. ASSUME NEW c \in Handle, Spawn(c)
      PROVE  TypeInv'
  <2>1. TaskTypeOK'
    BY <1>1 DEF Spawn, CreateRoot, TypeInv, TaskTypeOK, FrameState
  <2>2. QueueType'
    <3>1. ready_queue' = Append(ready_queue, c) /\ UNCHANGED wait_results
      BY <1>1 DEF Spawn
    <3> QED  BY SMTT(30), <3>1 DEF TypeInv, QueueType
  <2>3. RootType'
    <3>1. /\ active_task_count' = active_task_count + 1
          /\ root_tasks' = root_tasks \cup {c}
      BY <1>1 DEF Spawn
    <3> QED  BY SMTT(30), <3>1 DEF TypeInv, RootType
  <2> QED  BY <1>1, <2>1, <2>2, <2>3, TypeStep
              DEF Spawn, waiterVars, localVars
<1>2. ASSUME NEW c \in Handle, TaskAwait(c)
      PROVE  TypeInv'
  <2>1. TaskTypeOK'
    BY <1>0, <1>2 DEF TaskAwait, AwaitChild, TypeInv, TaskTypeOK, FrameState
  <2>2. QueueType'
    <3>1. ready_queue' = Append(ready_queue, c) /\ UNCHANGED wait_results
      BY <1>2 DEF TaskAwait
    <3> QED  BY SMTT(30), <3>1 DEF TypeInv, QueueType
  <2>3. ControlType'
    BY <1>s, <1>2 DEF TaskAwait, localVars
  <2> QED  BY <1>2, <2>1, <2>2, <2>3, TypeStep DEF TaskAwait, waiterVars
<1>3. CASE TaskFinish
  <2>1. TaskTypeOK'
    BY <1>0, <1>3 DEF TaskFinish, FinishFrame, TypeInv, TaskTypeOK, FrameState
  <2>2. QueueType'
    <3>1. ready_queue' \in Seq(Handle)
      <4>1. /\ pc = "running"
            /\ ready_queue' = IF continuation[current] = Null THEN ready_queue
                              ELSE Append(ready_queue, continuation[current])
        BY <1>3 DEF TaskFinish
      <4> QED  BY SMTT(30), <1>0, <4>1 DEF TypeInv, TaskTypeOK, QueueType
    <3> QED  BY <1>3, <3>1 DEF TaskFinish, TypeInv, QueueType
  <2>3. RootType'
    <3>1. /\ active_task_count' = IF current \in root_tasks
                                  THEN Decrement(active_task_count)
                                  ELSE active_task_count
          /\ UNCHANGED root_tasks
      BY <1>3 DEF TaskFinish
    <3> QED  BY SMTT(30), <3>1 DEF TypeInv, RootType, Decrement
  <2>4. ControlType'
    BY <1>s, <1>3 DEF TaskFinish, localVars
  <2> QED  BY <1>3, <2>1, <2>2, <2>3, <2>4, TypeStep
              DEF TaskFinish, waiterVars
<1>4. CASE ArmElapsed
  <2>1. TaskTypeOK'
    BY <1>0, <1>4 DEF ArmElapsed, SuspendFrame, TypeInv, TaskTypeOK, FrameState
  <2>2. QueueType'
    <3>1. /\ pc = "running"
          /\ wait_results' = [wait_results EXCEPT ![current] = "ETIMEDOUT"]
          /\ ready_queue' = Append(ready_queue, current)
      BY <1>4 DEF ArmElapsed
    <3> QED  BY SMTT(30), <1>0, <3>1 DEF TypeInv, QueueType, Outcome
  <2>3. ControlType'
    <3>1. pc = "running" /\ Suspended /\ UNCHANGED localVars
      BY <1>4 DEF ArmElapsed
    <3> QED  BY <1>s, <3>1 DEF localVars
  <2> QED  BY <1>4, <2>1, <2>2, <2>3, TypeStep
              DEF ArmElapsed, waiterVars
<1>5. CASE TaskStop
  <2>1. WakeFd \in File /\ "in" \in Condition
    BY LoopAssumption DEF Condition
  <2>2. RingType' /\ FileType'
    BY <1>5, <2>1, RaiseType DEF TaskStop
  <2>3. FlagType'
    BY <1>5 DEF TaskStop, TypeInv, FlagType
  <2> QED  BY <1>5, <2>2, <2>3, TypeStep
              DEF TaskStop, waiterVars, localVars
<1>6. CASE TaskIo
  <2>1. RingType' /\ FileType'
    BY <1>6, IoType DEF TaskIo
  <2> QED  BY <1>6, <2>1, TypeStep
              DEF TaskIo, waiterVars, localVars
<1>7. ASSUME NEW w \in Waiter, NEW t \in (Timeout \ {0}) \cup {Null},
             NEW r \in {"ok"} \cup Errno, Arm(w, t, r)
      PROVE  TypeInv'
  <2> DEFINE token == AllocateToken
             entry == PollAdd(token, w[1], PollMask(w[2]))
  <2>1. token = next_token /\ token \in Token /\ token \in Nat
    <3>1. next_token <= MaxToken
      BY <1>7 DEF Arm
    <3>2. \A n \in Token : n \in Nat
      BY SMTT(30) DEF Token
    <3> QED  BY <3>1, <3>2, AllocateFresh
  <2>2. entry \in Entry
    <3>1. w[1] \in File
      BY DEF Waiter, Fd
    <3>2. PollMask(w[2]) \in SUBSET Condition
      BY DEF PollMask, Condition
    <3> HIDE DEF token
    <3> QED  BY <2>1, <3>1, <3>2 DEF PollAdd, Entry
  <2>3. QueueEntry(entry, r)
    BY <1>7 DEF Arm
  <2>4. RingType'
    <3> HIDE DEF entry
    <3> QED  BY <2>2, <2>3, QueueEntryType
  <2>5. NewDeadline(t) \in Nat \cup {Null} /\ (NewDeadline(t) = Null <=> t = Null)
    BY NewDeadlineType
  <2>6. IndexType'
    <3>1. ArmIndex(t)
      BY <1>7 DEF Arm
    <3>2. next_deadline' \in Nat \cup {Null}
      BY <2>5, <3>1 DEF ArmIndex, Earlier, TypeInv, IndexType
    <3> QED  BY <3>1, <3>2 DEF ArmIndex, IndexType
  <2>7. TokenType'
    <3>1. next_token' = token + 1 /\ UNCHANGED dropped
      BY <1>7 DEF Arm
    <3>2. next_token \in 2..(MaxToken + 1) /\ next_token <= MaxToken
      BY <1>7 DEF Arm, TypeInv, TokenType
    <3> HIDE DEF token
    <3> QED  BY SMTT(30), <2>1, <3>1, <3>2, RingAssumption
                DEF TypeInv, TokenType
  <2>8. CASE r # "ok"
    <3>1. UNCHANGED <<waiterVars, taskVars, pc, current, queueVars, rootVars,
                      flagVars, outsideVars, localVars>>
      BY <1>7, <2>8 DEF Arm
    <3>2. TokensFresh'
      <4>1. next_token' = token + 1
        BY <1>7 DEF Arm
      <4> HIDE DEF token
      <4> QED  BY SMTT(30), <2>1, <3>1, <4>1
               DEF waiterVars, TypeInv, TokensFresh, Token, TokenType
    <3> QED  BY <2>4, <2>6, <2>7, <3>1, <3>2, TypeStep
                DEF waiterVars, localVars
  <2>9. CASE r = "ok"
    <3>0. current \in Handle
      BY <1>0, <1>7 DEF Arm
    <3>1. /\ waiters' = [waiters EXCEPT ![w] =
                [handle |-> current, deadline |-> NewDeadline(t), token |-> token]]
          /\ inflight_polls' = [inflight_polls EXCEPT ![token] = w]
          /\ timed_waiter_count' = timed_waiter_count + (IF t = Null THEN 0 ELSE 1)
          /\ pending_waiter_count' = pending_waiter_count + 1
          /\ seen' = IF Holds(w) THEN seen \cup {w} ELSE seen
          /\ next_token' = token + 1
      BY <1>7, <2>9 DEF Arm
    <3>2. SuspendFrame(current) /\ Suspended /\ pc = "running"
      BY <1>7, <2>9 DEF Arm
    <3>3. UNCHANGED <<queueVars, rootVars, flagVars, outsideVars, localVars>>
      BY <1>7 DEF Arm
    <3>4. TaskTypeOK'
      BY <3>0, <3>2 DEF SuspendFrame, TypeInv, TaskTypeOK, FrameState
    <3>5. ControlType'
      BY <1>s, <3>2, <3>3 DEF localVars
    <3> HIDE DEF token
    <3>6. WaiterType'
      <4> DEFINE g == [handle |-> current, deadline |-> NewDeadline(t),
                       token |-> token]
      <4>1. g \in Reg /\ g.handle # Null
        BY <2>1, <2>5, <3>0, NullNotHandle DEF Reg
      <4>2. waiters' = [waiters EXCEPT ![w] = g] /\ waiters \in [Waiter -> Reg]
        BY <3>1 DEF TypeInv, WaiterType
      <4> HIDE DEF g
      <4>3. waiters' \in [Waiter -> Reg]
        BY <4>1, <4>2
      <4>6. inflight_polls' \in [Token -> Waiter \cup {Null}]
        BY <2>1, <3>1 DEF TypeInv, WaiterType
      <4>7. pending_waiter_count' \in Nat /\ timed_waiter_count' \in Nat
        BY SMTT(30), <3>1 DEF TypeInv, WaiterType
      <4>8. seen' \in SUBSET Waiter
        BY <3>1 DEF TypeInv, WaiterType
      <4> QED  BY <4>3, <4>6, <4>7, <4>8 DEF WaiterType
    <3>7. TokensFresh'
      BY SMTT(30), <2>1, <3>1
         DEF TypeInv, TokensFresh, WaiterType, Token, TokenType
    <3> QED  BY <2>4, <2>6, <2>7, <3>3, <3>4, <3>5, <3>6, <3>7, TypeStep
  <2> QED  BY <2>8, <2>9
<1> QED  BY <1>1, <1>2, <1>3, <1>4, <1>5, <1>6, <1>7

(* Threads in stop(), the descriptors, the clock, and a new loop.          *)
LEMMA TypeOutside ==
    ASSUME TypeInv,
           StopStore \/ StopWrite \/ Environment \/ Tick \/ Recreate
    PROVE  TypeInv'
<1> USE DEF tokenVars
<1>1. CASE StopStore
  <2>1. FlagType' /\ ClockType'
    BY <1>1 DEF StopStore, TypeInv, FlagType, ClockType
  <2> QED  BY <1>1, <2>1, TypeStep
              DEF StopStore, waiterVars, localVars
<1>2. CASE StopWrite
  <2>1. WakeFd \in File /\ "in" \in Condition
    BY LoopAssumption DEF Condition
  <2>2. RingType' /\ FileType'
    BY <1>2, <2>1, RaiseType DEF StopWrite
  <2>3. ClockType'
    BY <1>2 DEF StopWrite, TypeInv, ClockType
  <2> QED  BY <1>2, <2>2, <2>3, TypeStep
              DEF StopWrite, waiterVars, localVars
<1>3. CASE Environment
  <2>1. RingType' /\ FileType'
    <3>1. ASSUME NEW fd \in Fd, NEW c \in Conds, Raise(fd, c)
          PROVE  RingType' /\ FileType'
      BY <1>3, <3>1, RaiseType, RingAssumption DEF Environment, Fd
    <3>2. ASSUME NEW p \in polls, GoneEvent(p)
          PROVE  RingType' /\ FileType'
      BY <1>3, <3>2, GoneType DEF Environment
    <3> QED  BY <1>3, <3>1, <3>2 DEF Environment
  <2> DEFINE X == {w \in Waiter :
                     Armed(w) /\ (Holds(w)' \/ Has(cq', waiters[w].token))}
  <2>2. /\ UNCHANGED <<waiters, inflight_polls, pending_waiter_count,
                       timed_waiter_count>>
        /\ seen' \in SUBSET Waiter
    <3>1. seen' = seen \cup X
      BY <1>3 DEF Environment
    <3>2. X \subseteq Waiter
      OBVIOUS
    <3> HIDE DEF X
    <3>3. UNCHANGED <<waiters, inflight_polls, pending_waiter_count,
                      timed_waiter_count>>
      BY <1>3 DEF Environment
    <3> QED  BY <3>1, <3>2, <3>3 DEF TypeInv, WaiterType
  <2> HIDE DEF X
  <2>3. WaiterType'
    BY <2>2 DEF TypeInv, WaiterType
  <2> QED  BY <1>3, <2>1, <2>3, TypeStep DEF Environment, localVars
<1>4. CASE Tick
  <2>1. ClockType'
    <3>1. now' = now + 1 /\ UNCHANGED stopper
      BY <1>4 DEF Tick
    <3> QED  BY SMTT(30), <3>1 DEF TypeInv, ClockType
  <2> QED  BY <1>4, <2>1, TypeStep DEF Tick, waiterVars, localVars
<1>5. CASE Recreate
  <2>1. TaskTypeOK'
    BY <1>5
       DEF Recreate, DestroyFrames, TypeInv, TaskTypeOK, FrameState
  <2>2. FileType'
    BY <1>5, LoopAssumption DEF Recreate, TypeInv, FileType
  <2>4. {WakePoll} \in SUBSET Poll
    BY WakePollType
  <2>5. RingType'
    <3>0. sq' = <<>> /\ cq' = <<>>
      BY <1>5 DEF Recreate
    <3>1. sq' \in Seq(Entry) /\ cq' \in Seq(Completion)
      BY SMTT(30), <3>0
    <3> QED  BY <1>5, <2>4, <3>1 DEF Recreate, RingType
  <2>6. QueueType' /\ RootType' /\ IndexType' /\ FlagType'
    <3>1. /\ ready_queue' = <<>>
          /\ root_tasks' = {} /\ active_task_count' = 0
      BY <1>5 DEF Recreate
    <3>2. ready_queue' \in Seq(Handle) /\ RootType'
      BY SMTT(30), <3>1 DEF RootType
    <3> QED  BY <1>5, <3>2 DEF Recreate, QueueType, IndexType, FlagType
  <2>7. WaiterType'
    <3>1. NoReg.handle = Null /\ NoReg \in Reg
      BY DEF NoReg, Reg
    <3> QED  BY <1>5, <3>1 DEF Recreate, WaiterType
  <2>8. TokenType' /\ TokensFresh'
    <3>1. /\ next_token' = wake_token + 1 /\ dropped' = {}
          /\ inflight_polls' = [t \in Token |-> Null]
      BY <1>5 DEF Recreate
    <3> QED  BY SMTT(30), <3>1, RingAssumption
                DEF TokenType, TokensFresh, wake_token
  <2>9. LocalType' /\ ClockType'
    BY <1>5 DEF Recreate, TypeInv, LocalType, ScanType, ClockType
  <2>10. ControlType'
    BY <1>5 DEF Recreate, TypeInv, ControlType, CurrentOK, BatchOK
  <2> QED  BY <2>1, <2>2, <2>5, <2>6, <2>7, <2>8, <2>9, <2>10 DEF TypeInv
<1> QED  BY <1>1, <1>2, <1>3, <1>4, <1>5

(* Every step keeps the types.                                             *)
LEMMA TypeNext == TypeInv /\ [Next]_vars => TypeInv'
<1> SUFFICES ASSUME TypeInv, [Next]_vars
             PROVE  TypeInv'
  OBVIOUS
<1>1. CASE UNCHANGED vars
  BY <1>1, TypeStep
  DEF vars, dataVars, outsideVars, localVars, tokenVars, waiterVars
<1>2. CASE RunStart \/ LoopStep \/ WaitInterrupted
  BY <1>2, TypeLoop, TypeWait DEF LoopStep, WaitInterrupted, WaitTimeout
<1>3. CASE Suspend \/ RunOn \/ \E c \in Handle : Spawn(c)
  <2>1. CASE \E c \in Handle : Spawn(c) \/ TaskAwait(c)
    BY <2>1, TypeTask
  <2>2. CASE TaskFinish \/ ArmElapsed \/ TaskStop \/ TaskIo
    BY <2>2, TypeTask
  <2>3. CASE \E w \in Waiter, t \in (Timeout \ {0}) \cup {Null},
                r \in {"ok"} \cup Errno : Arm(w, t, r)
    BY <2>3, TypeTask
  <2> QED  BY <1>3, <2>1, <2>2, <2>3 DEF Suspend, RunOn
<1>4. CASE StopStore \/ StopWrite \/ Environment \/ Tick \/ Recreate
  BY <1>4, TypeOutside
<1> QED  BY <1>1, <1>2, <1>3, <1>4 DEF Next

(* Every reachable state is well typed.                                    *)
THEOREM TypeCorrect == Spec => []TypeInv
<1> QED  BY TypeInit, TypeNext, PTL DEF Spec

-----------------------------------------------------------------------------
(* What an accepted wait registers: the next token, free until now.        *)
LEMMA ArmEffect ==
    ASSUME TypeInv, NEW v \in Waiter, NEW t \in (Timeout \ {0}) \cup {Null},
           Arm(v, t, "ok")
    PROVE  \E g \in Reg :
              /\ waiters' = [waiters EXCEPT ![v] = g] /\ ~Armed(v)
              /\ g.handle # Null /\ g.token = next_token
              /\ g.deadline = Null <=> t = Null
              /\ next_token \in Token /\ next_token' = next_token + 1
              /\ inflight_polls[next_token] = Null
              /\ inflight_polls' = [inflight_polls EXCEPT ![next_token] = v]
              /\ QueueEntry(PollAdd(next_token, v[1], PollMask(v[2])), "ok")
<1>1. next_token <= MaxToken /\ current # Null /\ current \in Handle
  BY DEF Arm, TypeInv, ControlType, CurrentOK
<1>2. AllocateToken = next_token /\ next_token \in Token
  BY <1>1, AllocateFresh
<1>3. inflight_polls[next_token] = Null
  BY SMTT(30), <1>2 DEF TypeInv, TokensFresh, Token
<1> DEFINE g == [handle |-> current, deadline |-> NewDeadline(t),
                 token |-> next_token]
<1>4. g \in Reg /\ (g.deadline = Null <=> t = Null)
  BY <1>1, <1>2, NewDeadlineType DEF Reg
<1>5. g.handle = current /\ g.token = next_token
  OBVIOUS
<1>6. /\ waiters' = [waiters EXCEPT ![v] = g] /\ ~Armed(v)
      /\ next_token' = next_token + 1
      /\ inflight_polls' = [inflight_polls EXCEPT ![next_token] = v]
      /\ QueueEntry(PollAdd(next_token, v[1], PollMask(v[2])), "ok")
  BY <1>2 DEF Arm
<1> HIDE DEF g
<1>7. g \in Reg
  BY <1>4
<1> QED  BY <1>1, <1>2, <1>3, <1>4, <1>5, <1>6, <1>7

-----------------------------------------------------------------------------
(* inflight_polls_ leads from a token to the side that waits for its poll: *)
(* the last part of CountersExact.                                         *)
TokensLead ==
    \A t \in Token, w \in Waiter :
        inflight_polls[t] = w <=> Armed(w) /\ waiters[w].token = t

(* The end of a wait.                                                      *)
LEMMA WakeLead ==
    ASSUME TypeInv, TokensLead, NEW v \in Waiter, Armed(v), NEW r,
           WakeSide(v, r)
    PROVE  TokensLead'
<1>0. waiters' = [waiters EXCEPT ![v] = NoReg] /\ waiters \in [Waiter -> Reg]
  BY DEF WakeSide, TypeInv, WaiterType
<1>1. ASSUME NEW t \in Token, NEW w \in Waiter
      PROVE  inflight_polls'[t] = w <=> Armed(w)' /\ waiters'[w].token = t
  <2>1. inflight_polls' = [inflight_polls EXCEPT ![waiters[v].token] = Null]
    BY DEF WakeSide
  <2>2. /\ inflight_polls[t] = w <=> Armed(w) /\ waiters[w].token = t
        /\ inflight_polls[t] = v <=> Armed(v) /\ waiters[v].token = t
    BY DEF TokensLead
  <2>3. w # Null
    BY NullIsNoValue
  <2>4. inflight_polls'[t] = IF t = waiters[v].token THEN Null
                             ELSE inflight_polls[t]
    BY <2>1 DEF TypeInv, WaiterType
  <2>5. CASE w = v
    BY <1>0, <2>2, <2>3, <2>4, <2>5 DEF Armed, NoReg
  <2>6. CASE w # v
    <3>1. waiters'[w] = waiters[w]
      BY <1>0, <2>6
    <3> QED  BY <2>2, <2>3, <2>4, <2>6, <3>1 DEF Armed
  <2> QED  BY <2>5, <2>6
<1> QED  BY <1>1 DEF TokensLead, Armed

(* A new wait.                                                             *)
LEMMA ArmLead ==
    ASSUME TypeInv, TokensLead, NEW v \in Waiter,
           NEW t \in (Timeout \ {0}) \cup {Null}, Arm(v, t, "ok")
    PROVE  TokensLead'
<1>a. PICK g \in Reg :
         /\ waiters' = [waiters EXCEPT ![v] = g] /\ ~Armed(v)
         /\ g.handle # Null /\ g.token = next_token
         /\ next_token \in Token
         /\ inflight_polls[next_token] = Null
         /\ inflight_polls' = [inflight_polls EXCEPT ![next_token] = v]
  BY ArmEffect
<1>b. waiters \in [Waiter -> Reg]
  BY DEF TypeInv, WaiterType
<1>1. ASSUME NEW n \in Token, NEW w \in Waiter
      PROVE  inflight_polls'[n] = w <=> Armed(w)' /\ waiters'[w].token = n
  <2>1. inflight_polls[n] = w <=> Armed(w) /\ waiters[w].token = n
    BY DEF TokensLead
  <2>2. inflight_polls[next_token] = w
            <=> Armed(w) /\ waiters[w].token = next_token
    BY <1>a DEF TokensLead
  <2>3. w # Null
    BY NullIsNoValue
  <2>4. inflight_polls'[n] = IF n = next_token THEN v ELSE inflight_polls[n]
    BY <1>a DEF TypeInv, WaiterType
  <2>5. CASE w = v
    BY <1>a, <1>b, <2>1, <2>3, <2>4, <2>5 DEF Armed
  <2>6. CASE w # v
    <3>1. waiters'[w] = waiters[w]
      BY <1>a, <1>b, <2>6
    <3> QED  BY <1>a, <2>1, <2>2, <2>3, <2>4, <2>6, <3>1 DEF Armed
  <2> QED  BY <2>5, <2>6
<1> QED  BY <1>1 DEF TokensLead, Armed

(* No wait is open in a new loop.                                          *)
LEMMA LeadInit == Init => TokensLead
<1>1. NoReg.handle = Null
  BY DEF NoReg
<1> QED  BY <1>1, NullIsNoValue DEF Init, TokensLead, Armed

(* Every step keeps the lead of the tokens.                                *)
LEMMA LeadNext == TypeInv /\ TokensLead /\ [Next]_vars => TokensLead'
<1> SUFFICES ASSUME TypeInv, TokensLead, [Next]_vars
             PROVE  TokensLead'
  OBVIOUS
<1>1. CASE UNCHANGED <<waiters, inflight_polls>>
  BY <1>1 DEF TokensLead, Armed
<1>2. CASE ScanSide
  <2> DEFINE w == Head(scan.todo)
  <2>1. CASE Expired(w)
    <3>1. WakeSide(w, "ETIMEDOUT")
      BY <1>2, <2>1 DEF ScanSide
    <3>2. scan.todo \in Seq(Waiter) /\ scan.todo # <<>>
      BY <1>2 DEF ScanSide, TypeInv, LocalType, ScanType
    <3>3. w \in Waiter
      BY SMTT(30), <3>2
    <3>4. Armed(w) /\ "ETIMEDOUT" \in Outcome
      BY <2>1 DEF Expired, Outcome
    <3> HIDE DEF w
    <3> QED  BY <3>1, <3>3, <3>4, WakeLead
  <2>2. CASE ~Expired(w)
    BY <1>1, <1>2, <2>2 DEF ScanSide, waiterVars
  <2> QED  BY <2>1, <2>2
<1>3. CASE ProcessPoll
  <2>1. PICK t \in Token \ {wake_token} :
           /\ Completed(t) /\ Known(t)
           /\ waiters[inflight_polls[t]].token = t
                 => WakeSide(inflight_polls[t], Head(batch).res)
    BY <1>3 DEF ProcessPoll
  <2>2. inflight_polls[t] \in Waiter /\ Head(batch).res \in Outcome
    BY <2>1, CompletedSide
  <2>3. Armed(inflight_polls[t]) /\ waiters[inflight_polls[t]].token = t
    BY <2>2 DEF TokensLead
  <2> QED  BY <2>1, <2>2, <2>3, WakeLead
<1>4. CASE Recreate
  <2>1. NoReg.handle = Null
    BY DEF NoReg
  <2> QED  BY <1>4, <2>1, NullIsNoValue
              DEF Recreate, TokensLead, Armed
<1>5. ASSUME NEW w \in Waiter, NEW t \in (Timeout \ {0}) \cup {Null},
             NEW r \in {"ok"} \cup Errno, Arm(w, t, r)
      PROVE  TokensLead'
  <2>1. CASE r = "ok"
    BY <1>5, <2>1, ArmLead
  <2>2. CASE r # "ok"
    BY <1>1, <1>5, <2>2 DEF Arm, waiterVars
  <2> QED  BY <2>1, <2>2
<1> USE DEF waiterVars, dataVars, vars
<1>6. CASE RunStart \/ LoopTop \/ ExpireStart \/ ScanEnd \/ LoopCheck \/ Block
  BY <1>1, <1>6
     DEF RunStart, LoopTop, ExpireStart, ScanEnd, LoopCheck, Block
<1>7. CASE \/ WaitReturn \/ WaitTimeout \/ WaitInterrupted \/ ProcessStale
           \/ ProcessWake \/ ProcessRearm
  BY <1>1, <1>7 DEF WaitReturn, WaitTimeout, WaitInterrupted,
     WaitEmpty, ProcessStale, ProcessWake, ProcessRearm
<1>8. CASE TaskStop \/ TaskIo \/ StopStore \/ StopWrite \/ Environment \/ Tick
  BY <1>1, <1>8
     DEF TaskStop, TaskIo, StopStore, StopWrite, Environment, Tick
<1>9. CASE \/ DrainPop \/ AfterResume \/ LoopExit \/ TaskFinish \/ ArmElapsed
           \/ \E c \in Handle : Spawn(c) \/ TaskAwait(c)
  BY <1>1, <1>9 DEF DrainPop, AfterResume, LoopExit, TaskFinish, ArmElapsed,
                    Spawn, TaskAwait
<1>10. CASE UNCHANGED vars
  BY <1>1, <1>10
<1>11. Suspend \/ RunOn => TokensLead'
  BY <1>5, <1>8, <1>9 DEF Suspend, RunOn
<1> QED  BY <1>2, <1>3, <1>4, <1>6, <1>7, <1>8, <1>9, <1>10, <1>11
         DEF Next, LoopStep


(* Every reachable state is well typed, and the map of tokens exact.       *)
LEMMA LeadInvariant == Spec => [](TypeInv /\ TokensLead)
<1> QED  BY TypeInit, TypeNext, LeadInit, LeadNext, PTL DEF Spec
=============================================================================
