---------------------------- MODULE UringLoopRing ----------------------------
(***************************************************************************)
(* Where the poll of every wait of uring_event_loop is, from the           *)
(* submission queue through the kernel to the completions, and what its    *)
(* completion may say: PollInFlight, WakeHasCause and WakeKept of          *)
(* UringLoop, for every depth of the ring, batch size, set of descriptors  *)
(* and timeout.                                                            *)
(***************************************************************************)
EXTENDS UringLoopProofs

(* Most leaves are first-order; those on arithmetic or sequences name SMT. *)
USE ZenonT(30)

(* The side w waits for the poll of token n.                               *)
Lead(w, n) == Armed(w) /\ waiters[w].token = n

(* A submission entry, an armed poll and a completion fit the wait their   *)
(* token belongs to, if it is still open; every token was handed out.      *)
EntryOK(e) ==
    /\ e.token < next_token
    /\ \A w \in Waiter : Lead(w, e.token)
                             => e = PollAdd(e.token, w[1], PollMask(w[2]))
PollOK(p) ==
    /\ p.token < next_token
    /\ \A w \in Waiter : Lead(w, p.token)
                             => p.fd \in {w[1], Gone} /\ p.mask = PollMask(w[2])
Caused(w, r) == (r = "ok" /\ w \in seen) \/ (r = "EBADF" /\ CanClose)
DoneOK(c) ==
    /\ c.token < next_token
    /\ \A w \in Waiter : Lead(w, c.token) => Caused(w, c.res)

(* A poll in the kernel waits for what does not hold.                      *)
Idle(p) == p.fd \in File => level[p.fd] \cap p.mask = {}

RingSound ==
    /\ \A i \in 1..Len(sq) : EntryOK(sq[i])
    /\ \A p \in polls : PollOK(p) /\ Idle(p)
    /\ \A i \in 1..Len(cq) : DoneOK(cq[i])
    /\ \A i \in 1..Len(batch) : DoneOK(batch[i])

(* Where a token can be: the kernel, or on the way to it or from it.       *)
InKernel(n) == (\E p \in polls : p.token = n) \/ Has(cq, n)
Located(n) ==
    \/ submission_pending /\ Has(sq, n)
    \/ InKernel(n) \/ Has(batch, n) \/ n \in dropped

WaitOK(w) ==
    /\ waiters[w].token # wake_token /\ waiters[w].token < next_token
    /\ Located(waiters[w].token)
    /\ Holds(w) => w \in seen
WaitsSound == \A w \in Waiter : Armed(w) => WaitOK(w)

(* What the position of the loop thread implies.                           *)
ControlSound ==
    /\ pc = "waiting" => ~submission_pending
    /\ pc = "rearm" => Head(batch).token = wake_token
    /\ pc = "scan" => scan.now <= now
    /\ pc = "idle" /\ run_result = Null => \A w \in Waiter : ~Armed(w)
    /\ ~CanClose => open = File

RingInv == RingSound /\ WaitsSound /\ ControlSound

-----------------------------------------------------------------------------
(* The kernel state k = <<armed polls, completions>> fits the open waits;  *)
(* it holds the token n.                                                   *)
KernelOK(k) ==
    /\ \A p \in k[1] : PollOK(p) /\ Idle(p)
    /\ \A i \in 1..Len(k[2]) : DoneOK(k[2][i])
KernelHas(k, n) ==
    (\E p \in k[1] : p.token = n) \/ (\E i \in 1..Len(k[2]) : k[2][i].token = n)

(* One completion is added.                                                *)
LEMMA CompleteEffect ==
    ASSUME NEW P, NEW q \in Seq(Completion),
           NEW t \in Token \cup {NoToken},
           NEW r \in {"ok", "EBADF", "ECANCELED", "ENOENT"},
           KernelOK(<<P, q>>), DoneOK([token |-> t, res |-> r])
    PROVE  /\ \E q2 \in Seq(Completion) : Complete(<<P, q>>, t, r) = <<P, q2>>
           /\ KernelOK(Complete(<<P, q>>, t, r))
           /\ \A n : KernelHas(Complete(<<P, q>>, t, r), n)
                        <=> KernelHas(<<P, q>>, n) \/ n = t
<1> DEFINE c == [token |-> t, res |-> r]
           q2 == Append(q, c)
<1>1. c \in Completion /\ c.token = t
  BY DEF Completion
<1>2. Complete(<<P, q>>, t, r) = <<P, q2>>
  BY DEF Complete
<1>3. DoneOK(c)
  OBVIOUS
<1> HIDE DEF c
<1>4. /\ q2 \in Seq(Completion) /\ Len(q2) = Len(q) + 1 /\ Len(q) \in Nat
      /\ q2[Len(q) + 1] = c
      /\ \A i \in 1..Len(q) : q2[i] = q[i]
  BY SMTT(30), <1>1
<1> HIDE DEF q2
<1>5. \A i \in 1..Len(q2) : q2[i] = c \/ (i \in 1..Len(q) /\ q2[i] = q[i])
  BY SMTT(30), <1>4
<1>6. \A i \in 1..Len(q2) : DoneOK(q2[i])
  BY <1>3, <1>5 DEF KernelOK
<1>7. KernelOK(<<P, q2>>)
  BY <1>6 DEF KernelOK
<1>8. Len(q) + 1 \in 1..Len(q2) /\ \A i \in 1..Len(q) : i \in 1..Len(q2)
  BY SMTT(30), <1>4
<1>9. ASSUME NEW n
      PROVE  KernelHas(<<P, q2>>, n) <=> KernelHas(<<P, q>>, n) \/ n = t
  BY <1>1, <1>4, <1>5, <1>8 DEF KernelHas
<1> QED  BY <1>2, <1>4, <1>7, <1>9

(* The completion of a poll-remove itself belongs to no wait.              *)
LEMMA NoTokenOK ==
    ASSUME TypeInv, NEW r
    PROVE  DoneOK([token |-> NoToken, res |-> r])
<1>1. 0 < next_token
  BY SMTT(30) DEF TypeInv, TokenType
<1>2. \A w \in Waiter : ~Lead(w, NoToken)
  BY SMTT(30), RegParts DEF Lead, NoToken, Token
<1> QED  BY <1>1, <1>2 DEF DoneOK, NoToken

(* What the kernel does with one entry keeps the fit, loses no token and   *)
(* takes in the token of a poll-add.                                       *)
LEMMA TakenSound ==
    ASSUME TypeInv, RingInv, NEW k \in Kernel, KernelOK(k),
           NEW e \in Entry, EntryOK(e)
    PROVE  /\ KernelOK(Taken(k, e))
           /\ \A n : KernelHas(k, n) => KernelHas(Taken(k, e), n)
           /\ e.op = "add" => KernelHas(Taken(k, e), e.token)
<1>1. PICK P \in SUBSET Poll, q \in Seq(Completion) : k = <<P, q>>
  BY SMTT(30) DEF Kernel
<1>2. /\ e.token < next_token
      /\ \A w \in Waiter : Lead(w, e.token)
                              => e = PollAdd(e.token, w[1], PollMask(w[2]))
  BY DEF EntryOK
<1>3. e.token \in Token \cup {NoToken} /\ NoToken \in Token \cup {NoToken}
  BY DEF Entry
<1>k. KernelOK(<<P, q>>)
  BY <1>1
<1>c. ASSUME NEW t \in Token \cup {NoToken},
             NEW r \in {"ok", "EBADF", "ECANCELED", "ENOENT"},
             DoneOK([token |-> t, res |-> r]),
             Taken(k, e) = Complete(<<P, q>>, t, r),
             t = e.token \/ e.op # "add"
      PROVE  /\ KernelOK(Taken(k, e))
             /\ \A n : KernelHas(k, n) => KernelHas(Taken(k, e), n)
             /\ e.op = "add" => KernelHas(Taken(k, e), e.token)
  <2>1. /\ KernelOK(Complete(<<P, q>>, t, r))
        /\ \A n : KernelHas(Complete(<<P, q>>, t, r), n)
                      <=> KernelHas(<<P, q>>, n) \/ n = t
    BY <1>k, <1>c, CompleteEffect
  <2> QED  BY <1>1, <1>c, <2>1
<1>4. CASE e.op = "add" /\ e.fd \notin open
  <2>1. e.fd \in File
    BY <1>4 DEF Entry
  <2>2. CanClose
    BY <1>4, <2>1 DEF RingInv, ControlSound
  <2>3. DoneOK([token |-> e.token, res |-> "EBADF"])
    BY <1>2, <2>2 DEF DoneOK, Caused
  <2>4. Taken(k, e) = Complete(<<P, q>>, e.token, "EBADF")
    BY <1>1, <1>4 DEF Taken
  <2> QED  BY <1>3, <1>c, <2>3, <2>4
<1>5. CASE e.op = "add" /\ e.fd \in open /\ level[e.fd] \cap e.mask # {}
  <2>1. \A w \in Waiter : Lead(w, e.token) => w \in seen
    <3>1. ASSUME NEW w \in Waiter, Lead(w, e.token)
          PROVE  w \in seen
      <4>1. e.fd = w[1] /\ e.mask = PollMask(w[2])
        BY SMTT(30), <1>2, <3>1 DEF PollAdd
      <4>2. Holds(w)
        BY <1>5, <4>1 DEF Holds
      <4> QED  BY <3>1, <4>2 DEF Lead, RingInv, WaitsSound, WaitOK
    <3> QED  BY <3>1
  <2>2. DoneOK([token |-> e.token, res |-> "ok"])
    BY <1>2, <2>1 DEF DoneOK, Caused
  <2>3. Taken(k, e) = Complete(<<P, q>>, e.token, "ok")
    BY <1>1, <1>5 DEF Taken
  <2> QED  BY <1>3, <1>c, <2>2, <2>3
<1>6. CASE e.op = "add" /\ e.fd \in open /\ level[e.fd] \cap e.mask = {}
  <2> DEFINE p == [token |-> e.token, fd |-> e.fd, mask |-> e.mask]
  <2>1. Taken(k, e) = <<P \cup {p}, q>>
    BY <1>1, <1>6 DEF Taken
  <2>2. PollOK(p) /\ Idle(p) /\ p.token = e.token
    BY SMTT(30), <1>2, <1>6 DEF PollOK, Idle, PollAdd
  <2> HIDE DEF p
  <2>3. KernelOK(<<P \cup {p}, q>>)
    BY <1>1, <2>2 DEF KernelOK
  <2>4. \A n : KernelHas(<<P \cup {p}, q>>, n)
                  <=> KernelHas(<<P, q>>, n) \/ n = e.token
    BY <2>2 DEF KernelHas
  <2> QED  BY <1>1, <2>1, <2>3, <2>4
<1>7. CASE e.op # "add"
  <2> DEFINE hit == {p \in P : p.token = e.token}
  <2>1. \A w \in Waiter : ~Lead(w, e.token)
    BY SMTT(30), <1>2, <1>7 DEF PollAdd
  <2>2. DoneOK([token |-> e.token, res |-> "ECANCELED"])
    BY <1>2, <2>1 DEF DoneOK
  <2>3. CASE hit = {}
    <3>1. Taken(k, e) = Complete(<<P, q>>, NoToken, "ENOENT")
      BY <1>1, <1>7, <2>3 DEF Taken
    <3>2. DoneOK([token |-> NoToken, res |-> "ENOENT"])
      BY NoTokenOK
    <3> QED  BY <1>3, <1>7, <1>c, <3>1, <3>2
  <2>4. CASE hit # {}
    <3> DEFINE P2 == P \ hit
               k2 == Complete(<<P2, q>>, e.token, "ECANCELED")
    <3>1. Taken(k, e) = Complete(k2, NoToken, "ok")
      BY <1>1, <1>7, <2>4 DEF Taken
    <3>2. KernelOK(<<P2, q>>)
      BY <1>1 DEF KernelOK
    <3>3. \A n : KernelHas(<<P, q>>, n) => KernelHas(<<P2, q>>, n) \/ n = e.token
      BY DEF KernelHas
    <3> HIDE DEF hit, P2
    <3>4. /\ \E q2 \in Seq(Completion) : k2 = <<P2, q2>>
          /\ KernelOK(k2)
          /\ \A n : KernelHas(k2, n) <=> KernelHas(<<P2, q>>, n) \/ n = e.token
      BY <1>3, <2>2, <3>2, CompleteEffect
    <3> HIDE DEF k2
    <3>5. PICK q2 \in Seq(Completion) : k2 = <<P2, q2>>
      BY <3>4
    <3>6. /\ KernelOK(Complete(k2, NoToken, "ok"))
          /\ \A n : KernelHas(Complete(k2, NoToken, "ok"), n)
                       <=> KernelHas(k2, n) \/ n = NoToken
      <4>1. DoneOK([token |-> NoToken, res |-> "ok"]) /\ KernelOK(<<P2, q2>>)
        BY <3>4, <3>5, NoTokenOK
      <4>2. /\ KernelOK(Complete(<<P2, q2>>, NoToken, "ok"))
            /\ \A n : KernelHas(Complete(<<P2, q2>>, NoToken, "ok"), n)
                          <=> KernelHas(<<P2, q2>>, n) \/ n = NoToken
        BY <1>3, <4>1, CompleteEffect
      <4> QED  BY <3>5, <4>2
    <3> QED  BY <1>1, <1>7, <3>1, <3>3, <3>4, <3>6
  <2> QED  BY <2>3, <2>4
<1> QED  BY <1>4, <1>5, <1>6, <1>7

(* io_uring_submit keeps the fit and loses no token: it takes in those of  *)
(* the poll-adds.                                                          *)
LEMMA SubmitSound ==
    ASSUME TypeInv, RingInv, NEW s \in Seq(Entry),
           \A i \in 1..Len(s) : EntryOK(s[i]), SubmitEntries(s)
    PROVE  /\ \A p \in polls' : PollOK(p) /\ Idle(p)
           /\ \A i \in 1..Len(cq') : DoneOK(cq'[i])
           /\ \A n : InKernel(n) => InKernel(n)'
           /\ \A i \in 1..Len(s) : s[i].op = "add" => InKernel(s[i].token)'
<1> DEFINE Good(i, k) == /\ KernelOK(k)
                         /\ \A n : KernelHas(<<polls, cq>>, n) => KernelHas(k, n)
                         /\ \A j \in 1..i : s[j].op = "add"
                                               => KernelHas(k, s[j].token)
           K == [i \in Nat |-> {k \in Kernel : Good(i, k)}]
<1>1. <<polls, cq>> \in Kernel /\ cq \in Seq(Completion)
  BY DEF TypeInv, RingType, Kernel
<1>2. KernelOK(<<polls, cq>>)
  BY DEF RingInv, RingSound, KernelOK
<1>3. <<polls, cq>> \in K[0]
  BY SMTT(30), <1>1, <1>2
<1>4. ASSUME NEW i \in 1..Len(s), NEW k \in K[i - 1]
      PROVE  Taken(k, s[i]) \in K[i]
  <2>1. /\ i \in Nat /\ i - 1 \in Nat /\ s[i] \in Entry /\ EntryOK(s[i])
        /\ \A j \in 1..i : j \in 1..(i - 1) \/ j = i
    BY SMTT(30)
  <2>2. k \in Kernel /\ Good(i - 1, k)
    BY <2>1
  <2>3. Taken(k, s[i]) \in Kernel
    BY <2>1, <2>2, TakenType DEF TypeInv
  <2>4. /\ KernelOK(Taken(k, s[i]))
        /\ \A n : KernelHas(k, n) => KernelHas(Taken(k, s[i]), n)
        /\ s[i].op = "add" => KernelHas(Taken(k, s[i]), s[i].token)
    BY <2>1, <2>2, TakenSound
  <2>5. Good(i, Taken(k, s[i]))
    BY <2>1, <2>2, <2>4
  <2> HIDE DEF Good
  <2> QED  BY <2>1, <2>3, <2>5
<1>5. Submitted(s) \in K[Len(s)]
  <2> HIDE DEF K
  <2> QED  BY <1>3, <1>4, SubmittedKeeps
<1>6. Len(s) \in Nat
  BY SMTT(30)
<1>7. Submitted(s) \in Kernel /\ Good(Len(s), Submitted(s))
  BY <1>5, <1>6
<1> DEFINE k == <<polls', cq'>>
<1>8. k = Submitted(s) /\ cq' \in Seq(Completion)
  BY SMTT(30), <1>7 DEF SubmitEntries, Kernel
<1>9. Good(Len(s), k)
  <2> HIDE DEF Good, K, k
  <2> QED  BY <1>7, <1>8
<1>10. /\ \A p \in polls' : PollOK(p) /\ Idle(p)
       /\ \A i \in 1..Len(cq') : DoneOK(cq'[i])
  BY <1>9 DEF KernelOK
<1>11. \A n : /\ KernelHas(<<polls, cq>>, n) <=> InKernel(n)
              /\ KernelHas(k, n) <=> InKernel(n)'
  <2>1. DOMAIN cq = 1..Len(cq) /\ DOMAIN cq' = 1..Len(cq')
    BY SMTT(30), <1>1, <1>8
  <2>2. <<polls, cq>>[1] = polls /\ <<polls, cq>>[2] = cq
    OBVIOUS
  <2>3. k[1] = polls' /\ k[2] = cq'
    OBVIOUS
  <2> HIDE DEF k
  <2> QED  BY <2>1, <2>2, <2>3 DEF KernelHas, InKernel, Has
<1> QED  BY <1>9, <1>10, <1>11

-----------------------------------------------------------------------------
(* What every operation on the ring guarantees: the kernel still fits the  *)
(* waits that are open when it happens, and no token of an open wait is    *)
(* lost.                                                                   *)
RingOp ==
    /\ \A p \in polls' : PollOK(p) /\ Idle(p)
    /\ \A i \in 1..Len(cq') : DoneOK(cq'[i])
    /\ \A n : InKernel(n) => InKernel(n)'
    /\ \A w \in Waiter, n \in Token :
          Lead(w, n) /\ submission_pending /\ Has(sq, n)
             => (submission_pending' /\ Has(sq', n)) \/ InKernel(n)'

(* Entries are at most added behind those queued.                          *)
QueueGrows ==
    \/ UNCHANGED <<sq, submission_pending>>
    \/ submission_pending' = TRUE /\ \E e \in Entry : sq' = Append(sq, e)
(* Queueing entries leaves the kernel and what is under way alone.         *)
LEMMA QuietRingOp ==
    ASSUME TypeInv, RingInv, UNCHANGED <<polls, cq>>, QueueGrows
    PROVE  RingOp
<1>1. /\ \A p \in polls' : PollOK(p) /\ Idle(p)
      /\ \A i \in 1..Len(cq') : DoneOK(cq'[i])
  BY DEF RingInv, RingSound
<1>2. \A n : InKernel(n) => InKernel(n)'
  BY DEF InKernel, Has
<1>3. sq \in Seq(Entry)
  BY DEF TypeInv, RingType
<1>4. ASSUME NEW n, submission_pending, Has(sq, n)
      PROVE  submission_pending' /\ Has(sq', n)
  <2>1. CASE UNCHANGED <<sq, submission_pending>>
    BY <1>4, <2>1 DEF Has
  <2>2. CASE submission_pending' = TRUE /\ \E e \in Entry : sq' = Append(sq, e)
    <3>1. PICK e \in Entry : sq' = Append(sq, e)
      BY <2>2
    <3>2. /\ DOMAIN sq = 1..Len(sq) /\ DOMAIN sq' = 1..(Len(sq) + 1)
          /\ Len(sq) \in Nat /\ \A i \in 1..Len(sq) : sq'[i] = sq[i]
      BY SMTT(30), <1>3, <3>1
    <3>3. PICK i \in 1..Len(sq) : sq[i].token = n
      BY <1>4, <3>2 DEF Has
    <3>4. i \in DOMAIN sq' /\ sq'[i].token = n
      BY SMTT(30), <3>2, <3>3
    <3> QED  BY <2>2, <3>4 DEF Has
  <2> QED  BY <2>1, <2>2 DEF QueueGrows
<1> QED  BY <1>1, <1>2, <1>4 DEF RingOp

(* The queued entries, and perhaps more, are submitted.                    *)
LEMMA SubmitRingOp ==
    ASSUME TypeInv, RingInv, NEW s \in Seq(Entry), SubmitEntries(s),
           \A i \in 1..Len(s) : EntryOK(s[i]),
           \A i \in 1..Len(sq) : \E j \in 1..Len(s) : s[j] = sq[i]
    PROVE  RingOp
<1>1. /\ \A p \in polls' : PollOK(p) /\ Idle(p)
      /\ \A i \in 1..Len(cq') : DoneOK(cq'[i])
      /\ \A n : InKernel(n) => InKernel(n)'
      /\ \A i \in 1..Len(s) : s[i].op = "add" => InKernel(s[i].token)'
  BY SubmitSound
<1>2. ASSUME NEW w \in Waiter, NEW n \in Token, Lead(w, n), Has(sq, n)
      PROVE  InKernel(n)'
  <2>1. DOMAIN sq = 1..Len(sq)
    BY SMTT(30) DEF TypeInv, RingType
  <2>2. PICK i \in 1..Len(sq) : sq[i].token = n
    BY <1>2, <2>1 DEF Has
  <2>3. PICK j \in 1..Len(s) : s[j] = sq[i]
    OBVIOUS
  <2>4. s[j] = PollAdd(s[j].token, w[1], PollMask(w[2]))
    BY <1>2, <2>2, <2>3 DEF EntryOK
  <2>5. s[j].op = "add"
    BY SMTT(30), <2>4 DEF PollAdd
  <2> QED  BY <1>1, <2>2, <2>3, <2>5
<1> QED  BY <1>1, <1>2 DEF RingOp

(* flush_submissions.                                                      *)
LEMMA FlushRingOp ==
    ASSUME TypeInv, RingInv, NEW r, Flush(r)
    PROVE  RingOp /\ \A i \in 1..Len(sq') : EntryOK(sq'[i])
<1>1. sq \in Seq(Entry) /\ \A i \in 1..Len(sq) : EntryOK(sq[i])
  BY DEF TypeInv, RingType, RingInv, RingSound
<1>2. CASE submission_pending /\ r = "ok"
  <2>1. SubmitEntries(sq) /\ sq' = <<>>
    BY <1>2 DEF Flush
  <2>2. Len(sq') = 0
    BY <2>1
  <2> QED  BY SMTT(30), <1>1, <2>1, <2>2, SubmitRingOp
<1>3. CASE ~(submission_pending /\ r = "ok")
  <2>1. UNCHANGED <<sq, polls, cq, submission_pending>>
    BY <1>3 DEF Flush, submitVars, ringVars
  <2> QED  BY <1>1, <2>1, QuietRingOp DEF QueueGrows
<1> QED  BY <1>2, <1>3

(* queue_poll_add and queue_poll_remove; an accepted entry is in the queue *)
(* with submission_pending_ set.                                           *)
LEMMA QueueRingOp ==
    ASSUME TypeInv, RingInv, NEW e \in Entry, NEW r, QueueEntry(e, r)
    PROVE  /\ RingOp
           /\ \A i \in 1..Len(sq') : sq'[i] = e \/ EntryOK(sq'[i])
           /\ r = "ok" => submission_pending' /\ Has(sq', e.token)
           /\ r # "ok" => UNCHANGED submitVars
<1>1. sq \in Seq(Entry) /\ \A i \in 1..Len(sq) : EntryOK(sq[i])
  BY DEF TypeInv, RingType, RingInv, RingSound
<1>2. CASE HasRoom
  <2>1. /\ r = "ok" /\ sq' = Append(sq, e)
        /\ submission_pending' = TRUE /\ UNCHANGED <<polls, cq>>
    BY <1>2 DEF QueueEntry
  <2>2. /\ DOMAIN sq' = 1..(Len(sq) + 1) /\ Len(sq') = Len(sq) + 1
        /\ Len(sq) \in Nat /\ sq'[Len(sq) + 1] = e
        /\ \A i \in 1..Len(sq) : sq'[i] = sq[i]
    BY SMTT(30), <1>1, <2>1
  <2>3. \A i \in 1..Len(sq') : sq'[i] = e \/ EntryOK(sq'[i])
    BY SMTT(30), <1>1, <2>2
  <2>4. Has(sq', e.token)
    BY SMTT(30), <2>2 DEF Has
  <2>5. QueueGrows
    BY <2>1 DEF QueueGrows
  <2>6. RingOp
    BY <2>1, <2>5, QuietRingOp
  <2> QED  BY <2>1, <2>3, <2>4, <2>6
<1>3. CASE ~HasRoom /\ submission_pending /\ r = "ok"
  <2>1. SubmitEntries(sq) /\ sq' = <<e>> /\ UNCHANGED submission_pending
    BY <1>3 DEF QueueEntry
  <2>2. Len(sq') = 1 /\ DOMAIN sq' = 1..1 /\ sq'[1] = e
    BY SMTT(30), <2>1
  <2>3. Has(sq', e.token)
    BY SMTT(30), <2>2 DEF Has
  <2> QED  BY SMTT(30), <1>1, <1>3, <2>1, <2>2, <2>3, SubmitRingOp
<1>4. CASE ~HasRoom /\ ~(submission_pending /\ r = "ok")
  <2>1. r # "ok" /\ UNCHANGED submitVars
    BY <1>4 DEF QueueEntry
  <2>2. UNCHANGED <<sq, polls, cq, submission_pending>>
    BY <2>1 DEF submitVars, ringVars
  <2> QED  BY <1>1, <2>1, <2>2, QuietRingOp DEF QueueGrows
<1> QED  BY <1>2, <1>3, <1>4

(* arm_wake_poll and its submission.                                       *)
LEMMA RearmRingOp ==
    ASSUME TypeInv, RingInv, NEW r, RearmWake(r)
    PROVE  /\ RingOp
           /\ \A i \in 1..Len(sq') : EntryOK(sq'[i])
           /\ r = "ok" => InKernel(wake_token)'
<1> DEFINE s == Append(sq, WakeAdd)
<1>1. sq \in Seq(Entry) /\ \A i \in 1..Len(sq) : EntryOK(sq[i])
  BY DEF TypeInv, RingType, RingInv, RingSound
<1>2. WakeAdd \in Entry /\ WakeAdd.op = "add" /\ WakeAdd.token = wake_token
  BY WakePollType DEF WakeAdd, PollAdd
<1>3. EntryOK(WakeAdd)
  <2>1. wake_token < next_token
    BY SMTT(30) DEF TypeInv, TokenType, wake_token
  <2>2. \A w \in Waiter : ~Lead(w, wake_token)
    BY DEF Lead, RingInv, WaitsSound, WaitOK
  <2> QED  BY <1>2, <2>1, <2>2 DEF EntryOK
<1>4. /\ s \in Seq(Entry) /\ Len(s) = Len(sq) + 1 /\ Len(sq) \in Nat
      /\ s[Len(sq) + 1] = WakeAdd /\ \A i \in 1..Len(sq) : s[i] = sq[i]
  BY SMTT(30), <1>1, <1>2
<1>5. s = Append(sq, WakeAdd)
  OBVIOUS
<1> HIDE DEF s
<1>6. /\ \A i \in 1..Len(s) : EntryOK(s[i])
      /\ \A i \in 1..Len(sq) : \E j \in 1..Len(s) : s[j] = sq[i]
      /\ \E j \in 1..Len(s) : s[j] = WakeAdd
  <2>1. \A i \in 1..Len(s) : EntryOK(s[i])
    BY SMTT(30), <1>1, <1>3, <1>4
  <2>2. /\ Len(sq) + 1 \in 1..Len(s)
        /\ \A i \in 1..Len(sq) : i \in 1..Len(s)
    BY SMTT(30), <1>4
  <2> QED  BY <1>4, <2>1, <2>2
<1>7. CASE r = "ok"
  <2>1. SubmitEntries(s) /\ sq' = <<>>
    BY <1>5, <1>7 DEF RearmWake
  <2>2. Len(sq') = 0
    BY <2>1
  <2>3. RingOp
    BY <1>4, <1>6, <2>1, SubmitRingOp
  <2>4. InKernel(wake_token)'
    BY <1>2, <1>4, <1>6, <2>1, SubmitSound
  <2> QED  BY SMTT(30), <2>2, <2>3, <2>4
<1>8. CASE r # "ok"
  <2>1. /\ sq' = (IF HasRoom THEN s ELSE sq)
        /\ submission_pending' = TRUE /\ UNCHANGED <<polls, cq>>
    BY <1>5, <1>8 DEF RearmWake
  <2>2. RingOp
    <3>1. CASE HasRoom
      <4>1. QueueGrows
        BY <1>2, <1>5, <2>1, <3>1 DEF QueueGrows
      <4> QED  BY <2>1, <4>1, QuietRingOp
    <3>2. CASE ~HasRoom
      <4>1. /\ \A p \in polls' : PollOK(p) /\ Idle(p)
            /\ \A i \in 1..Len(cq') : DoneOK(cq'[i])
        BY <2>1 DEF RingInv, RingSound
      <4>2. \A n : InKernel(n) => InKernel(n)'
        BY <2>1 DEF InKernel, Has
      <4> QED  BY <2>1, <3>2, <4>1, <4>2 DEF RingOp, Has
    <3> QED  BY <3>1, <3>2
  <2>3. \A i \in 1..Len(sq') : EntryOK(sq'[i])
    BY <1>1, <1>6, <2>1
  <2> QED  BY <1>8, <2>2, <2>3
<1> QED  BY <1>7, <1>8

-----------------------------------------------------------------------------
(* What a step does to the waits: an open wait was open before under the   *)
(* same token, and a condition that holds now held before or was seen; or  *)
(* it is new, under a token never used.                                    *)
Continues(w) ==
    /\ Armed(w) /\ waiters'[w].token = waiters[w].token
    /\ w \in seen => w \in seen'
    /\ Holds(w)' => Holds(w) \/ w \in seen'
Follows ==
    /\ next_token <= next_token'
    /\ \A w \in Waiter :
          Armed(w)' => \/ Continues(w)
                       \/ waiters'[w].token >= next_token /\ WaitOK(w)'

(* What it does to the ring: everything there fits the waits.              *)
Fits ==
    /\ \A i \in 1..Len(sq') : EntryOK(sq'[i]) \/ EntryOK(sq[i])'
    /\ \A p \in polls' : PollOK(p) /\ Idle(p)'
    /\ \A i \in 1..Len(cq') : DoneOK(cq'[i]) \/ DoneOK(cq[i])'
    /\ \A i \in 1..Len(batch') : DoneOK(batch'[i])

(* No wait that stays open loses its poll.                                 *)
Kept ==
    \A w \in Waiter, n \in Token :
        Lead(w, n) /\ Lead(w, n)' /\ Located(n) => Located(n)'

(* What fits the open waits goes on fitting them.                          *)
LEMMA FitStays ==
    ASSUME TypeInv, TypeInv', Follows
    PROVE  /\ \A e \in Entry : EntryOK(e) => EntryOK(e)'
           /\ \A p \in Poll : PollOK(p) => PollOK(p)'
           /\ \A c \in Completion : DoneOK(c) => DoneOK(c)'
<1>1. next_token \in Nat /\ next_token' \in Nat /\ next_token <= next_token'
  BY SMTT(30) DEF TypeInv, TokenType, Follows
<1>2. \A n \in Nat : n < next_token => n < next_token'
  BY SMTT(30), <1>1
<1>3. ASSUME NEW w \in Waiter, NEW n \in Nat, n < next_token, Lead(w, n)'
      PROVE  Lead(w, n) /\ (w \in seen => w \in seen')
  <2>1. waiters'[w].token = n /\ Armed(w)'
    BY <1>3 DEF Lead
  <2>2. ~(waiters'[w].token >= next_token)
    BY SMTT(30), <1>1, <1>3, <2>1
  <2>3. Continues(w)
    BY <2>1, <2>2 DEF Follows
  <2> QED  BY <2>1, <2>3 DEF Lead, Continues
<1>4. /\ \A e \in Entry : e.token \in Nat
      /\ \A p \in Poll : p.token \in Nat
      /\ \A c \in Completion : c.token \in Nat
  BY SMTT(30) DEF Entry, Poll, Completion, Token, NoToken
<1>5. ASSUME NEW e \in Entry, EntryOK(e)
      PROVE  EntryOK(e)'
  <2>1. /\ e.token < next_token
        /\ \A w \in Waiter : Lead(w, e.token)
                                => e = PollAdd(e.token, w[1], PollMask(w[2]))
    BY <1>5 DEF EntryOK
  <2> QED  BY <1>2, <1>3, <1>4, <2>1 DEF EntryOK
<1>6. ASSUME NEW p \in Poll, PollOK(p)
      PROVE  PollOK(p)'
  <2>1. /\ p.token < next_token
        /\ \A w \in Waiter : Lead(w, p.token)
                                => p.fd \in {w[1], Gone} /\ p.mask = PollMask(w[2])
    BY <1>6 DEF PollOK
  <2> QED  BY <1>2, <1>3, <1>4, <2>1 DEF PollOK
<1>7. ASSUME NEW c \in Completion, DoneOK(c)
      PROVE  DoneOK(c)'
  <2>1. /\ c.token < next_token
        /\ \A w \in Waiter : Lead(w, c.token) => Caused(w, c.res)
    BY <1>7 DEF DoneOK
  <2>2. c.token < next_token'
    BY <1>2, <1>4, <2>1
  <2>3. ASSUME NEW w \in Waiter, Lead(w, c.token)'
        PROVE  Caused(w, c.res)'
    BY <1>3, <1>4, <2>1, <2>3 DEF Caused
  <2> QED  BY <2>2, <2>3 DEF DoneOK
<1> QED  BY <1>5, <1>6, <1>7

(* The three together keep the ring and the waits sound.                   *)
LEMMA RingStep ==
    ASSUME TypeInv, TypeInv', RingInv, Follows, Fits, Kept
    PROVE  RingSound' /\ WaitsSound'
<1>1. /\ \A i \in 1..Len(sq') : sq'[i] \in Entry
      /\ \A p \in polls' : p \in Poll
      /\ \A i \in 1..Len(cq') : cq'[i] \in Completion
      /\ \A i \in 1..Len(batch') : batch'[i] \in Completion
  <2>1. /\ sq' \in Seq(Entry) /\ polls' \in SUBSET Poll
        /\ cq' \in Seq(Completion) /\ batch' \in Seq(Completion)
    BY DEF TypeInv, RingType, LocalType
  <2> QED  BY SMTT(30), <2>1
<1>2. RingSound'
  <2>1. \A i \in 1..Len(sq') : EntryOK(sq[i])'
    BY <1>1, FitStays DEF Fits
  <2>2. \A p \in polls' : PollOK(p)' /\ Idle(p)'
    BY <1>1, FitStays DEF Fits
  <2>3. \A i \in 1..Len(cq') : DoneOK(cq[i])'
    BY <1>1, FitStays DEF Fits
  <2>4. \A i \in 1..Len(batch') : DoneOK(batch[i])'
    BY <1>1, FitStays DEF Fits
  <2> QED  BY <2>1, <2>2, <2>3, <2>4 DEF RingSound
<1>3. ASSUME NEW w \in Waiter, Armed(w)'
      PROVE  WaitOK(w)'
  <2> SUFFICES ASSUME Continues(w)
               PROVE  WaitOK(w)'
    BY <1>3 DEF Follows
  <2>1. Armed(w) /\ waiters'[w].token = waiters[w].token
    BY DEF Continues
  <2>2. PICK n \in Token : n = waiters[w].token
    BY <2>1, RegParts
  <2>3. Lead(w, n) /\ Lead(w, n)'
    BY <1>3, <2>1, <2>2 DEF Lead
  <2>4. /\ n # wake_token /\ n < next_token /\ Located(n)
        /\ Holds(w) => w \in seen
    BY <2>1, <2>2 DEF RingInv, WaitsSound, WaitOK
  <2>5. Located(n)'
    BY <2>3, <2>4 DEF Kept
  <2>6. n < next_token'
    BY SMTT(30), <2>4 DEF TypeInv, TokenType, Token, Follows
  <2>7. Holds(w)' => w \in seen'
    BY <2>4 DEF Continues
  <2>8. waiters'[w].token = n
    BY <2>1, <2>2
  <2>9. Located(waiters[w].token)'
    BY <2>5, <2>8 DEF Located, InKernel, Has
  <2> QED  BY <2>4, <2>6, <2>7, <2>8, <2>9 DEF WaitOK, wake_token
<1> QED  BY <1>2, <1>3 DEF WaitsSound

(* A step that touches neither the ring nor the waits.                     *)
LEMMA QuietStep ==
    ASSUME RingInv, UNCHANGED <<waiters, seen, next_token, dropped, sq, polls,
                                cq, submission_pending, level, batch>>
    PROVE  RingSound' /\ WaitsSound'
<1>1. RingSound'
  BY DEF RingInv, RingSound, EntryOK, PollOK, DoneOK, Idle, Lead, Armed, Caused
<1>2. WaitsSound'
  BY DEF RingInv, WaitsSound, WaitOK, Armed, Located, InKernel, Has, Holds
<1> QED  BY <1>1, <1>2

(* The waits stay as they are; conditions may cease.                       *)
LEMMA SameWaits ==
    ASSUME TypeInv, UNCHANGED <<waiters, seen, next_token>>,
           \A f \in File : level'[f] \subseteq level[f]
    PROVE  /\ Follows
           /\ \A p : Idle(p) => Idle(p)'
<1>1. \A w \in Waiter : Armed(w)' => Continues(w)
  <2>1. \A w \in Waiter : Holds(w)' => Holds(w)
    BY DEF Holds, Waiter, Fd
  <2> QED  BY <2>1 DEF Continues, Armed
<1>2. next_token <= next_token'
  BY SMTT(30) DEF TypeInv, TokenType
<1>3. ASSUME NEW p, Idle(p)
      PROVE  Idle(p)'
  BY <1>3 DEF Idle
<1> QED  BY <1>1, <1>2, <1>3 DEF Follows

(* One wait ends.                                                          *)
LEMMA OneWaitLess ==
    ASSUME TypeInv, NEW v \in Waiter, UNCHANGED <<next_token, level>>,
           waiters' = [waiters EXCEPT ![v] = NoReg], seen' = seen \ {v}
    PROVE  /\ Follows
           /\ \A p : Idle(p) => Idle(p)'
           /\ \A w \in Waiter, n \in Token : Lead(w, n)' <=> Lead(w, n) /\ w # v
<1>1. waiters \in [Waiter -> Reg] /\ NoReg.handle = Null
  BY DEF TypeInv, WaiterType, NoReg
<1>2. \A w \in Waiter : /\ w # v => waiters'[w] = waiters[w]
                        /\ w = v => waiters'[w] = NoReg
  BY <1>1
<1>3. \A w \in Waiter : Armed(w)' => Continues(w)
  BY <1>1, <1>2 DEF Continues, Armed, Holds
<1>4. next_token <= next_token'
  BY SMTT(30) DEF TypeInv, TokenType
<1>5. \A w \in Waiter, n \in Token : Lead(w, n)' <=> Lead(w, n) /\ w # v
  BY <1>1, <1>2 DEF Lead, Armed
<1>6. ASSUME NEW p, Idle(p)
      PROVE  Idle(p)'
  BY <1>6 DEF Idle
<1> QED  BY <1>3, <1>4, <1>5, <1>6 DEF Follows

(* An operation on the ring that leaves the completions taken out alone.   *)
LEMMA OpKeeps ==
    ASSUME RingOp, UNCHANGED <<batch, dropped>>
    PROVE  Kept
BY DEF RingOp, Kept, Located

(* Two waits never share a token.                                          *)
LEMMA OneLead ==
    ASSUME TypeInv, TokensLead, NEW v \in Waiter, NEW w \in Waiter,
           NEW n \in Token, Lead(v, n), Lead(w, n)
    PROVE  v = w
BY SMTT(30) DEF TokensLead, Lead

-----------------------------------------------------------------------------
(* flush_submissions at the end of run() and before the wait.              *)
LEMMA FlushStep ==
    ASSUME TypeInv, TypeInv', RingInv, NEW r, Flush(r),
           UNCHANGED <<waiters, seen, next_token, dropped, level, batch>>
    PROVE  RingSound' /\ WaitsSound'
<1>1. Follows /\ \A p : Idle(p) => Idle(p)'
  BY SameWaits
<1>2. RingOp /\ \A i \in 1..Len(sq') : EntryOK(sq'[i])
  BY FlushRingOp
<1>3. \A i \in 1..Len(batch') : DoneOK(batch'[i])
  BY DEF RingInv, RingSound
<1>4. Fits
  BY <1>1, <1>2, <1>3 DEF Fits, RingOp
<1>5. Kept
  BY <1>2, OpKeeps
<1> QED  BY <1>1, <1>4, <1>5, RingStep

(* reactor::wait moves the first completions to the batch.                 *)
LEMMA WaitReturnStep ==
    ASSUME TypeInv, TypeInv', RingInv, WaitReturn
    PROVE  /\ RingSound' /\ WaitsSound'
           /\ \A n : InKernel(n) => InKernel(n)' \/ Has(batch', n)
<1>1. /\ UNCHANGED <<waiters, seen, next_token, dropped, level, sq, polls,
                     submission_pending>>
      /\ pc = "waiting" /\ batch' = Batch /\ Consumed
  BY DEF WaitReturn, waiterVars, tokenVars, outsideVars, fileVars
<1>2. Follows /\ \A p : Idle(p) => Idle(p)'
  BY <1>1, SameWaits
<1>3. cq \in Seq(Completion) /\ Len(cq) \in Nat /\ MaxBatch \in Nat
  BY SMTT(30), RingAssumption DEF TypeInv, RingType
<1>4. PICK k \in 0..Len(cq) : /\ batch' = SubSeq(cq, 1, k)
                              /\ cq' = SubSeq(cq, k + 1, Len(cq))
  <2> DEFINE k == IF Len(cq) < MaxBatch THEN Len(cq) ELSE MaxBatch
  <2>1. k \in 0..Len(cq)
    BY SMTT(30), <1>3
  <2>2. batch' = SubSeq(cq, 1, k)
    BY <1>1 DEF Batch
  <2> HIDE DEF k
  <2>3. Len(batch') = k
    BY SMTT(30), <1>3, <2>1, <2>2
  <2>4. cq' = SubSeq(cq, k + 1, Len(cq))
    BY <1>1, <2>3 DEF Consumed
  <2> QED  BY <2>1, <2>2, <2>4
<1>5. /\ Len(batch') = k /\ DOMAIN batch' = 1..k
      /\ \A i \in 1..k : batch'[i] = cq[i] /\ i \in 1..Len(cq)
  BY SMTT(30), <1>3, <1>4
<1>6. /\ Len(cq') = Len(cq) - k /\ DOMAIN cq' = 1..(Len(cq) - k)
      /\ \A i \in 1..(Len(cq) - k) : cq'[i] = cq[i + k] /\ i + k \in 1..Len(cq)
  BY SMTT(30), <1>3, <1>4
<1>7. /\ \A i \in 1..Len(cq') : DoneOK(cq'[i])
      /\ \A i \in 1..Len(batch') : DoneOK(batch'[i])
  BY <1>5, <1>6 DEF RingInv, RingSound
<1>8. Fits
  BY <1>1, <1>2, <1>7 DEF Fits, RingInv, RingSound
<1>9. ASSUME NEW n, Has(cq, n)
      PROVE  Has(cq', n) \/ Has(batch', n)
  <2>1. PICK i \in 1..Len(cq) : cq[i].token = n
    BY SMTT(30), <1>3, <1>9 DEF Has
  <2>2. CASE i <= k
    BY SMTT(30), <1>5, <2>1, <2>2 DEF Has
  <2>3. CASE i > k
    <3>1. i - k \in 1..(Len(cq) - k) /\ (i - k) + k = i
      BY SMTT(30), <1>3, <2>3
    <3> QED  BY <1>6, <2>1, <3>1 DEF Has
  <2> QED  BY SMTT(30), <1>3, <2>2, <2>3
<1>10. batch = <<>>
  BY <1>1 DEF TypeInv, ControlType, BatchOK
<1>11. \A n : ~Has(batch, n)
  BY SMTT(30), <1>10 DEF Has
<1>12. \A n : InKernel(n) => InKernel(n)' \/ Has(batch', n)
  BY <1>1, <1>9 DEF InKernel
<1>13. Kept
  BY <1>1, <1>11, <1>12 DEF Kept, Located
<1> QED  BY <1>2, <1>8, <1>12, <1>13, RingStep

(* A completion that is not the first stays in the batch.                  *)
LEMMA TailKeeps ==
    ASSUME TypeInv, batch # <<>>, NEW n, Has(batch, n), Head(batch).token # n
    PROVE  Has(Tail(batch), n)
<1>1. batch \in Seq(Completion)
  BY DEF TypeInv, LocalType
<1>2. /\ Len(batch) \in Nat \ {0} /\ DOMAIN batch = 1..Len(batch)
      /\ DOMAIN Tail(batch) = 1..(Len(batch) - 1) /\ Head(batch) = batch[1]
      /\ \A i \in 1..(Len(batch) - 1) : Tail(batch)[i] = batch[i + 1]
  BY SMTT(30), <1>1
<1>3. PICK i \in 1..Len(batch) : batch[i].token = n /\ i # 1
  BY <1>2 DEF Has
<1>4. i - 1 \in 1..(Len(batch) - 1) /\ (i - 1) + 1 = i
  BY SMTT(30), <1>2, <1>3
<1> QED  BY <1>2, <1>3, <1>4 DEF Has

(* One completion of the batch is processed; its wait, if any, is over.    *)
LEMMA TailStep ==
    ASSUME TypeInv, TypeInv', RingInv, Follows, batch # <<>>,
           batch' = Tail(batch), UNCHANGED <<dropped, level>>,
           \A w \in Waiter : ~Lead(w, Head(batch).token)
                                \/ waiters'[w].token # Head(batch).token,
           UNCHANGED <<sq, polls, cq, submission_pending>>
    PROVE  RingSound' /\ WaitsSound'
<1>1. batch \in Seq(Completion)
  BY DEF TypeInv, LocalType
<1>2. /\ Len(batch) \in Nat \ {0} /\ DOMAIN batch = 1..Len(batch)
      /\ Len(batch') = Len(batch) - 1 /\ DOMAIN batch' = 1..(Len(batch) - 1)
      /\ \A i \in 1..(Len(batch) - 1) : batch'[i] = batch[i + 1]
                                        /\ i + 1 \in 1..Len(batch)
      /\ Head(batch) = batch[1]
  BY SMTT(30), <1>1
<1>3. \A i \in 1..Len(batch') : DoneOK(batch'[i])
  BY <1>2 DEF RingInv, RingSound
<1>4. \A p : Idle(p) => Idle(p)'
  BY DEF Idle
<1>5. Fits
  BY <1>3, <1>4 DEF Fits, RingInv, RingSound
<1>6. ASSUME NEW w \in Waiter, NEW n \in Token, Lead(w, n), Lead(w, n)',
             Has(batch, n)
      PROVE  Has(batch', n)
  <2>1. Head(batch).token # n
    BY <1>6 DEF Lead
  <2> QED  BY <1>6, <2>1, TailKeeps
<1>7. Kept
  BY <1>6 DEF Kept, Located, InKernel
<1> QED  BY <1>5, <1>7, RingStep

(* process_completion of a token that leads nowhere.                       *)
LEMMA StaleStep ==
    ASSUME TypeInv, TypeInv', RingInv, TokensLead, ProcessStale
    PROVE  RingSound' /\ WaitsSound'
<1>1. PICK t \in (Token \cup {NoToken}) \ {wake_token} : Completed(t) /\ ~Known(t)
  BY DEF ProcessStale
<1>2. /\ batch # <<>> /\ batch' = Tail(batch) /\ Head(batch).token = t
      /\ UNCHANGED <<waiters, seen, next_token, dropped, level, sq, polls, cq,
                     submission_pending>>
  BY <1>1 DEF ProcessStale, Processed, Completed, waiterVars, tokenVars,
     submitVars, ringVars, outsideVars, fileVars
<1>3. \A w \in Waiter : ~Lead(w, t)
  <2>1. ASSUME NEW w \in Waiter, Lead(w, t)
        PROVE  FALSE
    <3>1. t \in Token
      BY <2>1, RegParts DEF Lead
    <3>2. inflight_polls[t] = w
      BY <2>1, <3>1 DEF TokensLead, Lead
    <3>3. t # NoToken
      BY SMTT(30), <3>1 DEF Token, NoToken
    <3> QED  BY <1>1, <3>2, <3>3, NullIsNoValue DEF Known
  <2> QED  BY <2>1
<1>4. Follows
  BY <1>2, SameWaits
<1> QED  BY <1>2, <1>3, <1>4, TailStep

(* process_completion of the poll of an open wait.                         *)
LEMMA PollEffect ==
    ASSUME TypeInv, TokensLead, ProcessPoll
    PROVE  \E t \in Token, w \in Waiter :
              /\ t # wake_token /\ Lead(w, t)
              /\ batch # <<>> /\ Head(batch).token = t
              /\ WakeSide(w, Head(batch).res)
<1>1. PICK t \in Token \ {wake_token} :
         /\ Completed(t) /\ Known(t)
         /\ waiters[inflight_polls[t]].token = t
               => WakeSide(inflight_polls[t], Head(batch).res)
  BY DEF ProcessPoll
<1>2. PICK w \in Waiter : w = inflight_polls[t]
  BY <1>1, CompletedSide
<1>3. Lead(w, t)
  BY <1>2 DEF TokensLead, Lead
<1>4. WakeSide(w, Head(batch).res)
  BY <1>1, <1>2, <1>3 DEF Lead
<1>5. t \in Token /\ t # wake_token /\ batch # <<>> /\ Head(batch).token = t
  BY <1>1 DEF Completed
<1> QED  BY <1>3, <1>4, <1>5

(* A completion that is taken from the batch ends the wait of its side.    *)
LEMMA PollStep ==
    ASSUME TypeInv, TypeInv', RingInv, TokensLead, ProcessPoll
    PROVE  RingSound' /\ WaitsSound'
<1>1. PICK t \in Token, v \in Waiter :
         /\ Lead(v, t) /\ batch # <<>> /\ Head(batch).token = t
         /\ WakeSide(v, Head(batch).res)
  BY PollEffect
<1>2. /\ batch' = Tail(batch)
      /\ UNCHANGED <<next_token, dropped, level, sq, polls, cq,
                     submission_pending>>
  BY DEF ProcessPoll, Processed, tokenVars, submitVars, ringVars, outsideVars,
     fileVars
<1>3. waiters' = [waiters EXCEPT ![v] = NoReg] /\ seen' = seen \ {v}
  BY <1>1 DEF WakeSide
<1>4. Follows
  BY <1>2, <1>3, OneWaitLess
<1>5. ASSUME NEW w \in Waiter, Lead(w, t)
      PROVE  waiters'[w].token # t
  <2>1. w = v
    BY <1>1, <1>5, OneLead
  <2>2. waiters'[v] = NoReg
    BY <1>3 DEF TypeInv, WaiterType
  <2> QED  BY SMTT(30), <2>1, <2>2 DEF NoReg, NoToken, Token
<1> QED  BY <1>1, <1>2, <1>4, <1>5, TailStep

(* A condition ceases: the eventfd is read, a task reads or writes.        *)
LEMMA LessLevelStep ==
    ASSUME TypeInv, TypeInv', RingInv,
           \A f \in File : level'[f] \subseteq level[f],
           UNCHANGED <<waiters, seen, next_token, dropped, sq, polls, cq,
                       submission_pending, batch>>
    PROVE  RingSound' /\ WaitsSound'
<1>1. Follows /\ \A p : Idle(p) => Idle(p)'
  BY SameWaits
<1>2. Fits
  BY <1>1 DEF Fits, RingInv, RingSound
<1>3. Kept
  BY DEF Kept, Located, InKernel
<1> QED  BY <1>1, <1>2, <1>3, RingStep

(* The wake poll is armed again, or its arming fails and the rest of the   *)
(* batch is dropped.                                                       *)
LEMMA RearmStep ==
    ASSUME TypeInv, TypeInv', RingInv, ProcessRearm
    PROVE  RingSound' /\ WaitsSound'
<1>1. /\ UNCHANGED <<waiters, seen, next_token, level>> /\ pc = "rearm"
  BY DEF ProcessRearm, waiterVars, outsideVars, fileVars
<1>2. batch # <<>> /\ batch \in Seq(Completion)
  BY <1>1 DEF TypeInv, ControlType, BatchOK, LocalType
<1>3. Follows /\ \A p : Idle(p) => Idle(p)'
  BY <1>1, SameWaits
<1>4. \A w \in Waiter : ~Lead(w, Head(batch).token)
  BY <1>1 DEF Lead, RingInv, ControlSound, WaitsSound, WaitOK
<1>5. CASE stop_requested
  <2>1. /\ batch' = Tail(batch)
        /\ UNCHANGED <<sq, polls, cq, submission_pending, dropped>>
    BY <1>5 DEF ProcessRearm, Processed, submitVars, ringVars
  <2> QED  BY <1>1, <1>2, <1>3, <1>4, <2>1, TailStep
<1>6. CASE ~stop_requested
  <2>1. PICK r \in SubmitResult :
           /\ batch' = IF r = "ok" THEN Tail(batch) ELSE <<>>
           /\ RearmWake(r)
           /\ dropped' = IF r = "ok" THEN dropped
                         ELSE dropped \cup {batch[i].token : i \in 2..Len(batch)}
    BY <1>6 DEF ProcessRearm, Processed
  <2>2. RingOp /\ \A i \in 1..Len(sq') : EntryOK(sq'[i])
    BY <2>1, RearmRingOp
  <2>3. /\ Len(batch) \in Nat \ {0} /\ DOMAIN batch = 1..Len(batch)
        /\ Len(Tail(batch)) = Len(batch) - 1
        /\ DOMAIN Tail(batch) = 1..(Len(batch) - 1)
        /\ \A i \in 1..(Len(batch) - 1) : Tail(batch)[i] = batch[i + 1]
                                          /\ i + 1 \in 1..Len(batch)
        /\ Head(batch) = batch[1]
    BY SMTT(30), <1>2
  <2>4. \A i \in 1..Len(batch') : DoneOK(batch'[i])
    <3>1. CASE r = "ok"
      BY <2>1, <2>3, <3>1 DEF RingInv, RingSound
    <3>2. CASE r # "ok"
      <4>1. Len(batch') = 0
        BY <2>1, <3>2
      <4> QED  BY SMTT(30), <4>1
    <3> QED  BY <3>1, <3>2
  <2>5. Fits
    BY <1>3, <2>2, <2>4 DEF Fits, RingOp
  <2>6. ASSUME NEW w \in Waiter, NEW n \in Token, Lead(w, n), Has(batch, n)
        PROVE  Has(batch', n) \/ n \in dropped'
    <3>1. Has(Tail(batch), n)
      BY <1>2, <1>4, <2>6, TailKeeps
    <3>2. PICK i \in DOMAIN Tail(batch) : Tail(batch)[i].token = n
      BY <3>1 DEF Has
    <3>3. i + 1 \in 2..Len(batch) /\ batch[i + 1].token = n
      BY SMTT(30), <2>3, <3>2
    <3>4. CASE r = "ok"
      BY <2>1, <3>1, <3>4
    <3>5. CASE r # "ok"
      BY <2>1, <3>3, <3>5
    <3> QED  BY <3>4, <3>5
  <2>7. dropped \subseteq dropped'
    BY <2>1
  <2>8. Kept
    BY <2>2, <2>6, <2>7 DEF RingOp, Kept, Located
  <2> QED  BY <1>3, <2>5, <2>8, RingStep
<1> QED  BY <1>5, <1>6

(* A wait expires: it is over, and a poll-remove for its token is queued.  *)
LEMMA ExpireStep ==
    ASSUME TypeInv, TypeInv', RingInv, TokensLead, ScanSide
    PROVE  RingSound' /\ WaitsSound'
<1> DEFINE v == Head(scan.todo)
<1>1. UNCHANGED <<next_token, dropped, level, batch>>
  BY DEF ScanSide, tokenVars, outsideVars, fileVars
<1>2. CASE ~Expired(v)
  BY <1>1, <1>2, QuietStep DEF ScanSide, waiterVars, submitVars, ringVars
<1>3. CASE Expired(v)
  <2>1. PICK r \in {"ok"} \cup Errno : QueueEntry(PollRemove(waiters[v].token), r)
    BY <1>3 DEF ScanSide
  <2>2. waiters' = [waiters EXCEPT ![v] = NoReg] /\ seen' = seen \ {v}
    BY <1>3 DEF ScanSide, WakeSide
  <2>3. v \in Waiter
    <3>1. scan.todo \in Seq(Waiter) /\ scan.todo # <<>>
      BY DEF ScanSide, TypeInv, LocalType, ScanType
    <3> QED  BY SMTT(30), <3>1
  <2> HIDE DEF v
  <2>4. PICK n \in Token : n = waiters[v].token /\ Lead(v, n)
    BY <1>3, <2>3, RegParts DEF Expired, Lead
  <2>5. PICK e \in Entry : e = PollRemove(n) /\ e.token = n
    <3>1. PollRemove(n) \in Entry /\ PollRemove(n).token = n
      BY DEF PollRemove, Entry
    <3> QED  BY <3>1
  <2>6. QueueEntry(e, r)
    BY <2>1, <2>4, <2>5
  <2>7. /\ Follows /\ \A p : Idle(p) => Idle(p)'
        /\ \A w \in Waiter, m \in Token : Lead(w, m)' <=> Lead(w, m) /\ w # v
    BY <1>1, <2>2, <2>3, OneWaitLess
  <2>8. RingOp /\ \A i \in 1..Len(sq') : sq'[i] = e \/ EntryOK(sq'[i])
    BY <2>6, QueueRingOp
  <2>9. EntryOK(e)'
    <3>1. \A w \in Waiter : ~Lead(w, n)'
      BY <2>3, <2>4, <2>7, OneLead
    <3>2. n < next_token'
      BY <1>1, <2>3, <2>4 DEF Lead, RingInv, WaitsSound, WaitOK
    <3> QED  BY <2>5, <3>1, <3>2 DEF EntryOK
  <2>10. \A i \in 1..Len(sq') : EntryOK(sq'[i]) \/ EntryOK(sq[i])'
    <3>1. ASSUME NEW i \in 1..Len(sq'), sq'[i] = e
          PROVE  EntryOK(sq[i])'
      BY <2>9, <3>1 DEF EntryOK
    <3> QED  BY <2>8, <3>1
  <2>11. \A i \in 1..Len(batch') : DoneOK(batch'[i])
    BY <1>1 DEF RingInv, RingSound
  <2>12. Fits
    BY <2>7, <2>8, <2>10, <2>11 DEF Fits, RingOp
  <2>13. Kept
    BY <1>1, <2>8, OpKeeps
  <2> QED  BY <2>7, <2>12, <2>13, RingStep
<1> QED  BY <1>2, <1>3

(* arm_waiter registers a wait under a fresh token and queues its poll.    *)
LEMMA ArmStep ==
    ASSUME TypeInv, TypeInv', RingInv,
           NEW v \in Waiter, NEW t \in (Timeout \ {0}) \cup {Null},
           Arm(v, t, "ok")
    PROVE  RingSound' /\ WaitsSound'
<1>1. PICK g \in Reg :
         /\ waiters' = [waiters EXCEPT ![v] = g] /\ ~Armed(v)
         /\ g.handle # Null /\ g.token = next_token
         /\ next_token \in Token /\ next_token' = next_token + 1
         /\ QueueEntry(PollAdd(next_token, v[1], PollMask(v[2])), "ok")
  BY ArmEffect
<1>2. PICK n \in Token : n = next_token
  BY <1>1
<1>3. /\ UNCHANGED <<dropped, level, batch>>
      /\ seen' = IF Holds(v) THEN seen \cup {v} ELSE seen
  BY DEF Arm, outsideVars, fileVars, localVars
<1>4. PICK e \in Entry : e = PollAdd(n, v[1], PollMask(v[2]))
  <2>1. v[1] \in File /\ PollMask(v[2]) \in SUBSET Condition
    BY DEF PollMask, Condition, Waiter, Fd
  <2>2. PollAdd(n, v[1], PollMask(v[2])) \in Entry
    BY <2>1 DEF PollAdd, Entry
  <2> QED  BY <2>2
<1>5. e.token = n
  BY <1>4 DEF PollAdd
<1>6. /\ RingOp
      /\ \A i \in 1..Len(sq') : sq'[i] = e \/ EntryOK(sq'[i])
      /\ submission_pending' /\ Has(sq', n)
  BY <1>1, <1>2, <1>4, <1>5, QueueRingOp
<1>7. \A w \in Waiter : /\ w = v => waiters'[w] = g
                        /\ w # v => waiters'[w] = waiters[w]
  BY <1>1 DEF TypeInv, WaiterType
<1>8. n \in Nat /\ 2 <= n /\ next_token' = n + 1
  BY SMTT(30), <1>1, <1>2 DEF TypeInv, TokenType
<1>9. WaitOK(v)'
  <2>1. waiters'[v].token = n
    BY <1>1, <1>2, <1>7
  <2>2. Located(waiters[v].token)'
    BY <1>6, <2>1 DEF Located
  <2>3. Holds(v)' => v \in seen'
    BY <1>3 DEF Holds
  <2> QED  BY SMTT(30), <1>8, <2>1, <2>2, <2>3 DEF WaitOK, wake_token
<1>10. Follows
  <2>1. \A w \in Waiter : w # v /\ Armed(w)' => Continues(w)
    BY <1>3, <1>7 DEF Continues, Armed, Holds
  <2>2. waiters'[v].token >= next_token
    BY SMTT(30), <1>1, <1>2, <1>7, <1>8
  <2>3. next_token <= next_token'
    BY SMTT(30), <1>2, <1>8
  <2> QED  BY <1>9, <2>1, <2>2, <2>3 DEF Follows
<1>11. EntryOK(e)'
  <2>1. ASSUME NEW w \in Waiter, Lead(w, n)'
        PROVE  w = v
    <3>1. CASE w # v
      <4>1. Armed(w) /\ waiters[w].token = n
        BY SMTT(30), <1>7, <2>1, <3>1 DEF Lead, Armed
      <4>2. n < next_token
        BY <4>1 DEF RingInv, WaitsSound, WaitOK
      <4> QED  BY SMTT(30), <1>2, <1>8, <4>2
    <3> QED  BY <3>1
  <2>2. n < next_token'
    BY SMTT(30), <1>8
  <2> QED  BY <1>4, <1>5, <2>1, <2>2 DEF EntryOK
<1>12. \A i \in 1..Len(sq') : EntryOK(sq'[i]) \/ EntryOK(sq[i])'
  <2>1. ASSUME NEW i \in 1..Len(sq'), sq'[i] = e
        PROVE  EntryOK(sq[i])'
    BY <1>11, <2>1 DEF EntryOK
  <2> QED  BY <1>6, <2>1
<1>13. Fits
  <2>1. \A i \in 1..Len(batch') : DoneOK(batch'[i])
    BY <1>3 DEF RingInv, RingSound
  <2>2. \A p \in polls' : PollOK(p) /\ Idle(p)'
    BY <1>3, <1>6 DEF RingOp, Idle
  <2> QED  BY <1>6, <1>12, <2>1, <2>2 DEF Fits, RingOp
<1>14. Kept
  BY <1>3, <1>6, OpKeeps
<1> QED  BY <1>10, <1>13, <1>14, RingStep

(* arm_waiter fails: a token is used up.                                   *)
LEMMA ArmFailStep ==
    ASSUME TypeInv, TypeInv', RingInv,
           NEW v \in Waiter, NEW t \in (Timeout \ {0}) \cup {Null},
           NEW r \in Errno, Arm(v, t, r)
    PROVE  RingSound' /\ WaitsSound'
<1>1. r # "ok"
  BY DEF Errno
<1>2. /\ next_token <= MaxToken /\ next_token' = AllocateToken + 1
      /\ QueueEntry(PollAdd(AllocateToken, v[1], PollMask(v[2])), r)
      /\ UNCHANGED <<waiters, seen, dropped, level, batch>>
  BY <1>1 DEF Arm, waiterVars, outsideVars, fileVars, localVars
<1>3. AllocateToken = next_token /\ next_token \in Token
  BY <1>2, AllocateFresh
<1>4. PICK e \in Entry : QueueEntry(e, r)
  <2>1. PollAdd(next_token, v[1], PollMask(v[2])) \in Entry
    BY <1>3 DEF PollAdd, Entry, PollMask, Condition, Waiter, Fd
  <2> QED  BY <1>2, <1>3, <2>1
<1>5. UNCHANGED <<sq, polls, cq, submission_pending>>
  BY SMTT(30), <1>1, <1>4, QueueRingOp DEF submitVars, ringVars
<1>6. Follows
  <2>1. next_token <= next_token'
    BY SMTT(30), <1>2, <1>3 DEF Token
  <2> QED  BY <1>2, <2>1 DEF Follows, Continues, Armed, Holds
<1>7. Fits
  BY <1>2, <1>5 DEF Fits, RingInv, RingSound, Idle
<1>8. Kept
  BY <1>2, <1>5 DEF Kept, Located, InKernel
<1> QED  BY <1>6, <1>7, <1>8, RingStep

(* A condition starts to hold; the waits for it have it seen.              *)
LEMMA RaiseStep ==
    ASSUME TypeInv, TypeInv', RingInv, NEW fd \in File, NEW c \in Condition,
           Raise(fd, c), seen \subseteq seen',
           \A w \in Waiter : Armed(w) /\ Holds(w)' => Holds(w) \/ w \in seen',
           UNCHANGED <<waiters, next_token, dropped, submission_pending, batch>>
    PROVE  RingSound' /\ WaitsSound' /\ \A n : InKernel(n) => InKernel(n)'
<1>0. PICK hit \in SUBSET polls, m \in Seq(Completion) : RaisedAs(fd, c, hit, m)
  BY RaiseEffect
<1>1. /\ hit = {p \in polls : p.fd = fd /\ c \in p.mask}
      /\ polls' = polls \ hit /\ cq' = cq \o m
      /\ \A i \in 1..Len(m) : /\ m[i].res = "ok"
                              /\ \E p \in hit : p.token = m[i].token
      /\ \A p \in hit : \E i \in 1..Len(m) : m[i].token = p.token
  BY <1>0 DEF RaisedAs
<1>2. /\ UNCHANGED sq /\ fd \in open
      /\ level' = [level EXCEPT ![fd] = @ \cup {c}]
  BY DEF Raise
<1>3. level \in [File -> SUBSET Condition] /\ cq \in Seq(Completion)
      /\ polls \in SUBSET Poll
  BY DEF TypeInv, FileType, RingType
<1>4. Follows
  <2>1. next_token <= next_token'
    BY SMTT(30) DEF TypeInv, TokenType
  <2> QED  BY <2>1 DEF Follows, Continues, Armed
<1>5. ASSUME NEW p \in hit
      PROVE  DoneOK([token |-> p.token, res |-> "ok"])'
  <2>1. PollOK(p) /\ p.fd = fd /\ c \in p.mask
    BY <1>1 DEF RingInv, RingSound
  <2>2. p.token < next_token'
    BY <2>1 DEF PollOK
  <2>3. ASSUME NEW w \in Waiter, Lead(w, p.token)'
        PROVE  w \in seen'
    <3>1. Armed(w) /\ Lead(w, p.token)
      BY <2>3 DEF Lead, Armed
    <3>2. fd = w[1] /\ p.mask = PollMask(w[2])
      BY <2>1, <3>1, RingAssumption DEF PollOK
    <3>3. Holds(w)'
      BY <1>2, <1>3, <2>1, <3>2 DEF Holds
    <3>4. Holds(w) => w \in seen
      BY <3>1 DEF RingInv, WaitsSound, WaitOK
    <3> QED  BY <3>1, <3>3, <3>4
  <2> QED  BY <2>2, <2>3 DEF DoneOK, Caused
<1>6. /\ Len(cq) \in Nat /\ Len(m) \in Nat /\ Len(cq') = Len(cq) + Len(m)
      /\ DOMAIN cq' = 1..(Len(cq) + Len(m)) /\ DOMAIN cq = 1..Len(cq)
      /\ \A i \in 1..Len(cq) : cq'[i] = cq[i]
      /\ \A i \in 1..Len(m) : cq'[Len(cq) + i] = m[i]
  BY SMTT(30), <1>1, <1>3
<1>7. ASSUME NEW i \in 1..Len(cq')
      PROVE  DoneOK(cq'[i]) \/ DoneOK(cq[i])'
  <2>1. CASE i \in 1..Len(cq)
    BY <1>6, <2>1 DEF RingInv, RingSound
  <2>2. CASE i \notin 1..Len(cq)
    <3>1. PICK j \in 1..Len(m) : Len(cq) + j = i
      <4>1. i - Len(cq) \in 1..Len(m) /\ Len(cq) + (i - Len(cq)) = i
        BY SMTT(30), <1>6, <2>2
      <4> QED  BY <4>1
    <3>2. PICK p \in hit : p.token = m[j].token
      BY <1>1
    <3>3. cq'[i].token = p.token /\ cq'[i].res = "ok"
      <4>1. cq'[i] = m[j]
        BY <1>6, <3>1
      <4> QED  BY <1>1, <3>2, <4>1
    <3>4. [token |-> p.token, res |-> "ok"].token = p.token
          /\ [token |-> p.token, res |-> "ok"].res = "ok"
      OBVIOUS
    <3> QED  BY <1>5, <3>3, <3>4 DEF DoneOK
  <2> QED  BY <2>1, <2>2
<1>8. ASSUME NEW p \in polls'
      PROVE  PollOK(p) /\ Idle(p)'
  <2>1. p \in polls /\ PollOK(p) /\ Idle(p) /\ (p.fd # fd \/ c \notin p.mask)
    BY <1>1 DEF RingInv, RingSound
  <2>2. Idle(p)'
    BY <1>2, <1>3, <2>1 DEF Idle
  <2> QED  BY <2>1, <2>2
<1>9. Fits
  <2>1. \A i \in 1..Len(sq') : EntryOK(sq'[i])
    BY <1>2 DEF RingInv, RingSound
  <2>2. \A i \in 1..Len(batch') : DoneOK(batch'[i])
    BY DEF RingInv, RingSound
  <2> QED  BY <1>7, <1>8, <2>1, <2>2 DEF Fits
<1>10. ASSUME NEW n, InKernel(n)
       PROVE  InKernel(n)'
  <2>1. CASE Has(cq, n)
    BY SMTT(30), <1>6, <2>1 DEF Has, InKernel
  <2>2. CASE \E p \in polls : p.token = n
    <3>1. PICK p \in polls : p.token = n
      BY <2>2
    <3>2. CASE p \notin hit
      BY <1>1, <3>1, <3>2 DEF InKernel
    <3>3. CASE p \in hit
      <4>1. PICK i \in 1..Len(m) : m[i].token = n
        BY <1>1, <3>1, <3>3
      <4>2. Len(cq) + i \in DOMAIN cq' /\ cq'[Len(cq) + i].token = n
        BY SMTT(30), <1>6, <4>1
      <4> QED  BY <4>2 DEF InKernel, Has
    <3> QED  BY <3>2, <3>3
  <2> QED  BY <1>10, <2>1, <2>2 DEF InKernel
<1>11. Kept
  BY <1>2, <1>10 DEF Kept, Located
<1> QED  BY <1>4, <1>9, <1>10, <1>11, RingStep

(* A poll on a closed file completes.                                      *)
LEMMA GoneStep ==
    ASSUME TypeInv, TypeInv', RingInv, NEW p \in polls, GoneEvent(p),
           seen \subseteq seen',
           \A w \in Waiter :
              Armed(w) /\ Has(cq', waiters[w].token) => w \in seen',
           UNCHANGED <<waiters, next_token, dropped, submission_pending, batch>>
    PROVE  RingSound' /\ WaitsSound' /\ \A n : InKernel(n) => InKernel(n)'
<1> DEFINE d == [token |-> p.token, res |-> "ok"]
<1>1. /\ UNCHANGED <<level, sq>> /\ polls' = polls \ {p} /\ cq' = Append(cq, d)
  BY DEF GoneEvent
<1>2. p \in Poll /\ cq \in Seq(Completion) /\ PollOK(p)
  BY DEF TypeInv, RingType, RingInv, RingSound
<1>3. d \in Completion /\ d.token = p.token /\ d.res = "ok"
  BY <1>2 DEF Poll, Completion
<1> HIDE DEF d
<1>4. /\ Len(cq) \in Nat /\ Len(cq') = Len(cq) + 1
      /\ DOMAIN cq' = 1..(Len(cq) + 1) /\ DOMAIN cq = 1..Len(cq)
      /\ cq'[Len(cq) + 1] = d /\ \A i \in 1..Len(cq) : cq'[i] = cq[i]
  BY SMTT(30), <1>1, <1>2, <1>3
<1>5. Has(cq', p.token)
  BY SMTT(30), <1>3, <1>4 DEF Has
<1>6. Follows
  <2>1. next_token <= next_token'
    BY SMTT(30) DEF TypeInv, TokenType
  <2> QED  BY <1>1, <2>1 DEF Follows, Continues, Armed, Holds
<1>7. ASSUME NEW i \in 1..Len(cq')
      PROVE  DoneOK(cq'[i]) \/ DoneOK(cq[i])'
  <2>1. CASE i \in 1..Len(cq)
    BY <1>4, <2>1 DEF RingInv, RingSound
  <2>2. CASE i \notin 1..Len(cq)
    <3>1. cq'[i] = d
      BY SMTT(30), <1>4, <2>2
    <3>2. p.token < next_token'
      BY <1>2 DEF PollOK
    <3>3. \A w \in Waiter : Lead(w, p.token)' => w \in seen'
      BY <1>5 DEF Lead, Armed
    <3>4. \A w \in Waiter : Lead(w, d.token)' => Caused(w, d.res)'
      <4>1. \A w \in Waiter : Lead(w, d.token)' => Lead(w, p.token)'
        BY <1>3 DEF Lead, Armed
      <4> QED  BY <1>3, <3>3, <4>1 DEF Caused
    <3> QED  BY <1>3, <3>1, <3>2, <3>4 DEF DoneOK
  <2> QED  BY <2>1, <2>2
<1>8. Fits
  <2>1. \A q \in polls' : PollOK(q) /\ Idle(q)'
    BY <1>1 DEF RingInv, RingSound, Idle
  <2>2. \A i \in 1..Len(sq') : EntryOK(sq'[i])
    BY <1>1 DEF RingInv, RingSound
  <2>3. \A i \in 1..Len(batch') : DoneOK(batch'[i])
    BY DEF RingInv, RingSound
  <2> QED  BY <1>7, <2>1, <2>2, <2>3 DEF Fits
<1>9. ASSUME NEW n, InKernel(n)
      PROVE  InKernel(n)'
  <2>1. CASE Has(cq, n)
    BY SMTT(30), <1>4, <2>1 DEF Has, InKernel
  <2>2. CASE \E q \in polls : q.token = n
    BY <1>1, <1>5, <2>2 DEF InKernel
  <2> QED  BY <1>9, <2>1, <2>2 DEF InKernel
<1>10. Kept
  BY <1>1, <1>9 DEF Kept, Located
<1> QED  BY <1>6, <1>8, <1>9, <1>10, RingStep

(* close(2): the polls of the descriptor stay, on the file it named.       *)
LEMMA CloseStep ==
    ASSUME TypeInv, TypeInv', RingInv, NEW fd \in File, Close(fd),
           UNCHANGED <<waiters, seen, next_token, dropped, submission_pending,
                       batch>>
    PROVE  RingSound' /\ WaitsSound' /\ \A n : InKernel(n) => InKernel(n)'
<1>1. /\ UNCHANGED <<sq, cq>> /\ level' = [level EXCEPT ![fd] = {}]
      /\ polls' = {IF p.fd = fd THEN [p EXCEPT !.fd = Gone] ELSE p : p \in polls}
  BY DEF Close
<1>2. level \in [File -> SUBSET Condition] /\ polls \in SUBSET Poll
  BY DEF TypeInv, FileType, RingType
<1>3. \A f \in File : level'[f] \subseteq level[f]
  BY <1>1, <1>2
<1>4. Follows /\ \A p : Idle(p) => Idle(p)'
  BY <1>3, SameWaits
<1>5. ASSUME NEW q \in polls'
      PROVE  \E p \in polls : /\ q.token = p.token /\ q.mask = p.mask
                              /\ q = p \/ q.fd = Gone
  <2>1. PICK p \in polls : q = IF p.fd = fd THEN [p EXCEPT !.fd = Gone] ELSE p
    BY <1>1
  <2>2. p \in Poll
    BY <1>2
  <2>3. q.token = p.token /\ q.mask = p.mask /\ (q = p \/ q.fd = Gone)
    BY <2>1, <2>2 DEF Poll
  <2> QED  BY <2>3
<1>6. ASSUME NEW p \in polls
      PROVE  \E q \in polls' : q.token = p.token
  <2> DEFINE q == IF p.fd = fd THEN [p EXCEPT !.fd = Gone] ELSE p
  <2>1. q \in polls'
    BY <1>1
  <2>2. q.token = p.token
    BY <1>2 DEF Poll
  <2> HIDE DEF q
  <2> QED  BY <2>1, <2>2
<1>7. ASSUME NEW q \in polls'
      PROVE  PollOK(q) /\ Idle(q)'
  <2>1. PICK p \in polls : /\ q.token = p.token /\ q.mask = p.mask
                           /\ q = p \/ q.fd = Gone
    BY <1>5
  <2>2. PollOK(p) /\ Idle(p)
    BY DEF RingInv, RingSound
  <2>3. PollOK(q)
    BY <2>1, <2>2 DEF PollOK
  <2>4. Idle(q)'
    BY <1>4, <2>1, <2>2, RingAssumption DEF Idle
  <2> QED  BY <2>3, <2>4
<1>8. Fits
  <2>1. \A i \in 1..Len(sq') : EntryOK(sq'[i])
    BY <1>1 DEF RingInv, RingSound
  <2>2. \A i \in 1..Len(cq') : DoneOK(cq'[i])
    BY <1>1 DEF RingInv, RingSound
  <2>3. \A i \in 1..Len(batch') : DoneOK(batch'[i])
    BY DEF RingInv, RingSound
  <2> QED  BY <1>7, <2>1, <2>2, <2>3 DEF Fits
<1>9. \A n : InKernel(n) => InKernel(n)'
  BY <1>1, <1>6 DEF InKernel
<1>10. Kept
  BY <1>1, <1>9 DEF Kept, Located
<1> QED  BY <1>4, <1>8, <1>9, <1>10, RingStep

-----------------------------------------------------------------------------
(* A loop just constructed, or constructed again: the ring holds the wake  *)
(* poll and nothing waits.                                                 *)
LEMMA FreshRing ==
    ASSUME sq = <<>>, polls = {WakePoll}, cq = <<>>, batch = <<>>,
           waiters = [w \in Waiter |-> NoReg], level[WakeFd] = {},
           next_token = wake_token + 1
    PROVE  RingSound /\ WaitsSound
<1>1. \A w \in Waiter : ~Armed(w)
  BY DEF Armed, NoReg
<1>2. Len(sq) = 0 /\ Len(cq) = 0 /\ Len(batch) = 0
  OBVIOUS
<1>3. PollOK(WakePoll) /\ Idle(WakePoll)
  BY SMTT(30), <1>1 DEF PollOK, Idle, Lead, WakePoll, wake_token
<1> QED  BY SMTT(30), <1>1, <1>2, <1>3 DEF RingSound, WaitsSound

(* A new loop has a new ring, with the wake poll armed and no wait.        *)
LEMMA RecreateStep ==
    ASSUME TypeInv, Recreate
    PROVE  RingSound' /\ WaitsSound'
<1>1. /\ sq' = <<>> /\ polls' = {WakePoll} /\ cq' = <<>>
      /\ waiters' = [w \in Waiter |-> NoReg]
      /\ next_token' = wake_token + 1 /\ batch' = batch /\ pc = "idle"
      /\ level' = [level EXCEPT ![WakeFd] = {}]
  BY DEF Recreate
<1>2. batch' = <<>>
  BY <1>1 DEF TypeInv, ControlType, BatchOK
<1>3. level'[WakeFd] = {}
  BY <1>1, LoopAssumption DEF TypeInv, FileType
<1>4. \A w \in Waiter : ~Armed(w)'
  BY <1>1 DEF Armed, NoReg
<1>5. Len(sq') = 0 /\ Len(cq') = 0 /\ Len(batch') = 0
  BY <1>1, <1>2
<1>6. PollOK(WakePoll)' /\ Idle(WakePoll)'
  BY SMTT(30), <1>1, <1>3, <1>4 DEF PollOK, Idle, Lead, WakePoll, wake_token
<1>7. \A p \in polls' : PollOK(p)' /\ Idle(p)'
  BY <1>1, <1>6 DEF WakePoll, PollOK, Idle, wake_token
<1> QED  BY SMTT(30), <1>4, <1>5, <1>7 DEF RingSound, WaitsSound

-----------------------------------------------------------------------------
(* The position of the loop thread.                                        *)
LEMMA BlockControl ==
    ASSUME TypeInv, RingInv, Block
    PROVE  ControlSound'
<1>1. /\ pc' \in {"exit", "idle", "waiting"}
      /\ UNCHANGED <<open, waiters>>
  BY DEF Block, outsideVars, fileVars, waiterVars
<1>2. pc' = "waiting" => ~submission_pending'
  <2>1. ASSUME pc' = "waiting"
        PROVE  \E r \in SubmitResult : Flush(r) /\ r = "ok"
    BY <2>1 DEF Block
  <2>2. ASSUME Flush("ok")
        PROVE  submission_pending' = FALSE
    BY <2>2 DEF Flush, submitVars, TypeInv, RingType
  <2> QED  BY <2>1, <2>2
<1>3. pc' = "idle" /\ run_result' = Null => \A w \in Waiter : ~Armed(w)
  <2>1. CASE pending_waiter_count = 0
    <3>1. run_result' = IF pc' = "idle" THEN "EDEADLK" ELSE run_result
      BY <2>1 DEF Block
    <3> QED  BY <3>1, NullIsNoValue
  <2>2. CASE pending_waiter_count # 0
    <3>1. PICK r \in SubmitResult :
             /\ pc' = IF r = "ok" THEN "waiting" ELSE "idle"
             /\ run_result' = IF r = "ok" THEN run_result ELSE r
      BY <2>2 DEF Block
    <3>2. r # Null
      BY NullIsNoValue DEF SubmitResult, Outcome, Errno
    <3> QED  BY <3>1, <3>2
  <2> QED  BY <2>1, <2>2
<1> QED  BY <1>1, <1>2, <1>3 DEF RingInv, ControlSound, Armed

(* Every step keeps the facts on the position of the loop thread.          *)
LEMMA ControlNext ==
    TypeInv /\ TokensLead /\ RingInv /\ [Next]_vars => ControlSound'
<1> SUFFICES ASSUME TypeInv, TokensLead, RingInv, [Next]_vars
             PROVE  ControlSound'
  OBVIOUS
<1>1. ASSUME UNCHANGED <<pc, submission_pending, batch, scan, run_result,
                         waiters, open>>,
             now' = now \/ now' = now + 1
      PROVE  ControlSound'
  <2>1. pc = "scan" => scan'.now <= now'
    BY SMTT(30), <1>1
       DEF RingInv, ControlSound, TypeInv, ClockType, LocalType, ScanType
  <2> QED  BY <1>1, <2>1 DEF RingInv, ControlSound, Armed
<1>2. ASSUME pc' \notin {"waiting", "rearm", "scan", "idle"}, open' = open
      PROVE  ControlSound'
  BY <1>2 DEF RingInv, ControlSound
<1> USE DEF waiterVars, submitVars, localVars, outsideVars, fileVars, dataVars
<1>3. CASE RunStart \/ LoopTop \/ ScanEnd \/ LoopCheck \/ AfterResume
  BY <1>2, <1>3 DEF RunStart, LoopTop, ScanEnd, LoopCheck, AfterResume
<1>4. CASE WaitReturn \/ WaitTimeout \/ WaitInterrupted
  BY <1>2, <1>4 DEF WaitReturn, WaitTimeout, WaitInterrupted, WaitEmpty
<1>5. CASE ProcessStale \/ ProcessRearm \/ ProcessPoll
  BY <1>2, <1>5 DEF ProcessStale, ProcessRearm, ProcessPoll, Processed
<1>6. CASE \/ TaskFinish \/ ArmElapsed \/ \E c \in Handle : TaskAwait(c)
  BY <1>2, <1>6 DEF TaskFinish, ArmElapsed, TaskAwait, Suspended
<1>7. ASSUME NEW w, NEW t, NEW r, Arm(w, t, r)
      PROVE  ControlSound'
  BY <1>2, <1>7 DEF Arm, Suspended
<1>8. CASE DrainPop
  BY <1>2, <1>8 DEF DrainPop
<1>9. CASE TaskStop
  BY <1>2, <1>9 DEF TaskStop, Raise
<1>10. CASE StopStore \/ StopWrite \/ \E c \in Handle : Spawn(c)
  BY <1>1, <1>10 DEF StopStore, StopWrite, Raise, Spawn
<1>11. CASE Environment
  <2>1. open' = open
    BY <1>11 DEF Environment, Raise, GoneEvent
  <2> QED  BY <1>1, <1>11, <2>1 DEF Environment
<1>12. CASE Tick
  BY <1>1, <1>12 DEF Tick
<1>13. CASE UNCHANGED vars
  BY <1>1, <1>13 DEF vars
<1>14. CASE ExpireStart
  <2>1. /\ pc' = "check" \/ (pc' = "scan" /\ scan'.now = now)
        /\ UNCHANGED <<open, now>>
    BY SMTT(30), <1>14 DEF ExpireStart
  <2> QED  BY SMTT(30), <2>1 DEF RingInv, ControlSound, TypeInv, ClockType
<1>15. CASE ScanSide
  <2>1. /\ pc' \in {"scan", "check"} /\ UNCHANGED <<open, now>> /\ pc = "scan"
        /\ scan' = NoScan \/ scan'.now = scan.now
    BY <1>15 DEF ScanSide, TypeInv, LocalType, ScanType
  <2>2. scan'.now <= now'
    BY SMTT(30), <2>1 DEF RingInv, ControlSound, TypeInv, ClockType, NoScan
  <2> QED  BY <2>1, <2>2 DEF RingInv, ControlSound
<1>16. CASE ProcessWake
  <2>1. /\ pc' = "rearm" /\ UNCHANGED <<batch, open>>
        /\ Head(batch).token = wake_token
    BY <1>16 DEF ProcessWake, Completed
  <2> QED  BY <2>1 DEF RingInv, ControlSound, wake_token
<1>17. CASE Block
  BY <1>17, BlockControl
<1>18. CASE LoopExit
  <2>1. /\ pc' = "idle" /\ open' = open
        /\ run_result' = IF loop_error' = Null THEN "ok" ELSE loop_error'
    BY <1>18 DEF LoopExit
  <2>2. run_result' # Null
    BY <2>1, NullIsNoValue DEF Outcome
  <2> QED  BY <2>1, <2>2 DEF RingInv, ControlSound
<1>19. CASE TaskIo
  <2>1. pc = "running" /\ pc' = pc /\ (CanClose \/ open' = open)
    BY <1>19 DEF TaskIo, Consume
  <2> QED  BY <2>1 DEF RingInv, ControlSound
<1>20. CASE Recreate
  <2>1. pc' = "idle" /\ open' = open /\ \A w \in Waiter : ~Armed(w)'
    BY <1>20 DEF Recreate, Armed, NoReg
  <2> QED  BY <2>1 DEF RingInv, ControlSound
<1>21. Suspend \/ RunOn => ControlSound'
  BY <1>6, <1>7, <1>9, <1>19 DEF Suspend, RunOn
<1>22. LoopStep => ControlSound'
  BY <1>3, <1>4, <1>5, <1>8, <1>14, <1>15, <1>16, <1>17, <1>18
     DEF LoopStep
<1> QED  BY <1>3, <1>4, <1>10, <1>11, <1>12, <1>13, <1>20, <1>21,
            <1>22 DEF Next

-----------------------------------------------------------------------------
(* Every step keeps the ring and the waits sound.                          *)
LEMMA RingNext ==
    TypeInv /\ TokensLead /\ RingInv /\ [Next]_vars => RingInv'
<1> SUFFICES ASSUME TypeInv, TokensLead, RingInv, [Next]_vars
             PROVE  RingSound' /\ WaitsSound'
  BY ControlNext DEF RingInv
<1>1. TypeInv' /\ TokensLead
  BY TypeNext
<1>2. CASE UNCHANGED <<waiters, seen, next_token, dropped, sq, polls, cq,
                       submission_pending, level, batch>>
  BY <1>2, QuietStep
<1> DEFINE Quiet == UNCHANGED <<waiters, seen, next_token, dropped, batch>>
<1> USE DEF waiterVars, tokenVars, submitVars, ringVars, localVars, outsideVars,
            fileVars, dataVars
<1>3. CASE RunStart \/ LoopTop \/ ExpireStart \/ ScanEnd \/ LoopCheck \/ DrainPop
  BY <1>2, <1>3
     DEF RunStart, LoopTop, ExpireStart, ScanEnd, LoopCheck, DrainPop
<1>4. CASE \/ AfterResume \/ WaitTimeout \/ WaitInterrupted \/ TaskFinish
           \/ ArmElapsed \/ \E c \in Handle : TaskAwait(c) \/ Spawn(c)
  BY <1>2, <1>4
     DEF AfterResume, WaitTimeout, WaitInterrupted, WaitEmpty, TaskFinish,
         ArmElapsed, TaskAwait, Spawn
<1>5. CASE StopStore \/ Tick \/ UNCHANGED vars
  BY <1>2, <1>5 DEF StopStore, Tick, vars
<1>6. CASE LoopExit
  <2>1. PICK r \in SubmitResult : Flush(r)
    BY <1>6 DEF LoopExit
  <2>2. Quiet /\ UNCHANGED level
    BY <1>6 DEF LoopExit
  <2> QED  BY <1>1, <2>1, <2>2, FlushStep
<1>7. CASE Block
  <2>1. Quiet /\ UNCHANGED level
    BY <1>7 DEF Block
  <2>2. CASE pending_waiter_count = 0
    BY <1>2, <1>7, <2>1, <2>2 DEF Block
  <2>3. CASE pending_waiter_count # 0
    <3>1. PICK r \in SubmitResult : Flush(r)
      BY <1>7, <2>3 DEF Block
    <3> QED  BY <1>1, <2>1, <3>1, FlushStep
  <2> QED  BY <2>2, <2>3
<1>8. CASE WaitReturn \/ ProcessStale \/ ProcessPoll \/ ProcessRearm \/ ScanSide
  BY <1>1, <1>8, WaitReturnStep, StaleStep, PollStep, RearmStep, ExpireStep
<1>9. CASE ProcessWake
  <2>1. /\ Quiet /\ UNCHANGED <<sq, polls, cq, submission_pending>>
        /\ level' = [level EXCEPT ![WakeFd] = {}]
    BY <1>9 DEF ProcessWake
  <2>2. \A f \in File : level'[f] \subseteq level[f]
    BY <2>1 DEF TypeInv, FileType
  <2> QED  BY <1>1, <2>1, <2>2, LessLevelStep
<1>10. ASSUME NEW w \in Waiter, NEW t \in (Timeout \ {0}) \cup {Null},
              NEW r \in {"ok"} \cup Errno, Arm(w, t, r)
       PROVE  RingSound' /\ WaitsSound'
  BY <1>1, <1>10, ArmStep, ArmFailStep
<1>11. ASSUME Raise(WakeFd, "in"), Quiet, UNCHANGED submission_pending
       PROVE  RingSound' /\ WaitsSound'
  <2>1. \A w \in Waiter : Holds(w)' => Holds(w)
    BY <1>11 DEF Raise, Holds, TypeInv, FileType, Waiter, Fd
  <2>2. WakeFd \in File /\ "in" \in Condition
    BY LoopAssumption DEF Condition
  <2> QED  BY <1>1, <1>11, <2>1, <2>2, RaiseStep
<1>12. CASE TaskStop \/ StopWrite
  BY <1>11, <1>12 DEF TaskStop, StopWrite
<1>13. CASE TaskIo
  <2>1. Quiet /\ UNCHANGED submission_pending
    BY <1>13 DEF TaskIo
  <2>2. PICK fd \in Fd : \/ \E c \in {"in", "out"} : Consume(fd, c)
                         \/ Close(fd) \/ Open(fd)
    BY <1>13 DEF TaskIo
  <2>3. fd \in File /\ level \in [File -> SUBSET Condition]
    BY DEF Fd, TypeInv, FileType
  <2>4. ASSUME NEW c, Consume(fd, c)
        PROVE  RingSound' /\ WaitsSound'
    <3>1. /\ UNCHANGED <<sq, polls, cq>>
          /\ \A f \in File : level'[f] \subseteq level[f]
      BY <2>3, <2>4 DEF Consume
    <3> QED  BY <1>1, <2>1, <3>1, LessLevelStep
  <2>5. CASE Open(fd)
    BY <1>2, <2>1, <2>5 DEF Open
  <2>6. CASE Close(fd)
    BY <1>1, <2>1, <2>3, <2>6, CloseStep
  <2> QED  BY <2>2, <2>4, <2>5, <2>6
<1>14. CASE Environment
  <2>1. /\ seen' = seen \cup {w \in Waiter :
                     Armed(w) /\ (Holds(w)' \/ Has(cq', waiters[w].token))}
        /\ UNCHANGED <<waiters, next_token, dropped, submission_pending, batch>>
    BY <1>14 DEF Environment
  <2>2. ASSUME NEW fd \in Fd, NEW c \in Conds, Raise(fd, c)
        PROVE  RingSound' /\ WaitsSound'
    <3>1. fd \in File /\ c \in Condition
      BY RingAssumption DEF Fd
    <3>2. /\ seen \subseteq seen'
          /\ \A w \in Waiter : Armed(w) /\ Holds(w)' => Holds(w) \/ w \in seen'
      BY <2>1
    <3> QED  BY <1>1, <2>1, <2>2, <3>1, <3>2, RaiseStep
  <2>3. ASSUME NEW p \in polls, GoneEvent(p)
        PROVE  RingSound' /\ WaitsSound'
    <3>1. /\ seen \subseteq seen'
          /\ \A w \in Waiter :
                Armed(w) /\ Has(cq', waiters[w].token) => w \in seen'
      BY <2>1
    <3> QED  BY <1>1, <2>1, <2>3, <3>1, GoneStep
  <2> QED  BY <1>14, <2>2, <2>3 DEF Environment
<1>15. CASE Recreate
  BY <1>15, RecreateStep
<1> HIDE DEF Quiet
<1>16. Suspend \/ RunOn => RingSound' /\ WaitsSound'
  BY <1>4, <1>10, <1>12, <1>13 DEF Suspend, RunOn
<1>17. LoopStep => RingSound' /\ WaitsSound'
  BY <1>3, <1>4, <1>6, <1>7, <1>8, <1>9 DEF LoopStep
<1> QED  BY <1>3, <1>4, <1>5, <1>12, <1>14, <1>15, <1>16, <1>17
         DEF Next

(* RingInv is inductive: it holds at first, every step keeps it            *)
(* (RingNext).                                                             *)
LEMMA RingInit == Init => RingInv
<1> SUFFICES ASSUME Init
             PROVE  RingInv
  OBVIOUS
<1>1. level[WakeFd] = {}
  BY LoopAssumption DEF Init
<1>2. RingSound /\ WaitsSound
  BY <1>1, FreshRing DEF Init
<1>3. ControlSound
  BY DEF Init, ControlSound, Armed, NoReg
<1> QED  BY <1>2, <1>3 DEF RingInv

(* Together with the types and the tokens it holds in every state.         *)
LEMMA RingInvariant == Spec => [](TypeInv /\ TokensLead /\ RingInv)
<1>1. Init => TypeInv /\ TokensLead /\ RingInv
  BY TypeInit, LeadInit, RingInit
<1>2. TypeInv /\ TokensLead /\ RingInv /\ [Next]_vars
         => (TypeInv /\ TokensLead /\ RingInv)'
  BY TypeNext, LeadNext, RingNext
<1> QED  BY <1>1, <1>2, PTL DEF Spec

-----------------------------------------------------------------------------
(* Every open wait has its poll queued and pending, armed on a condition   *)
(* that does not hold yet, or completed and unprocessed; the one way to    *)
(* lose it is the batch left when arming the wake poll fails.              *)
THEOREM PollInFlightHolds == Spec => []PollInFlight
<1>1. ASSUME TypeInv, RingInv
      PROVE  PollInFlight
  <2>1. ASSUME NEW w \in Waiter, Armed(w), NEW p \in polls,
               p.token = waiters[w].token, p.fd = w[1]
        PROVE  ~Holds(w)
    <3>1. PollOK(p) /\ Idle(p)
      BY <1>1 DEF RingInv, RingSound
    <3>2. p.mask = PollMask(w[2])
      BY <2>1, <3>1 DEF PollOK, Lead
    <3>3. w[1] \in File
      BY DEF Waiter, Fd
    <3> QED  BY <2>1, <3>1, <3>2, <3>3 DEF Idle, Holds
  <2>2. ASSUME NEW w \in Waiter, Armed(w)
        PROVE  \/ pc # "waiting" /\ submission_pending /\ Has(sq, waiters[w].token)
               \/ \E p \in polls : p.token = waiters[w].token
               \/ Has(cq, waiters[w].token) \/ Has(batch, waiters[w].token)
               \/ waiters[w].token \in dropped
    BY <1>1, <2>2
       DEF RingInv, WaitsSound, WaitOK, ControlSound, Located, InKernel
  <2> QED  BY <2>1, <2>2 DEF PollInFlight
<1> QED  BY <1>1, RingInvariant, PTL

(* The wait a step ends, if it is the wait's poll or its deadline.         *)
LEMMA PollCause ==
    ASSUME TypeInv, RingInv, TokensLead, ProcessPoll, NEW w \in Waiter
    PROVE  CausedWake(w, waiters[w].handle)
<1>1. PICK t \in Token, v \in Waiter :
         /\ Lead(v, t) /\ batch # <<>> /\ Head(batch).token = t
         /\ WakeSide(v, Head(batch).res)
  BY PollEffect
<1>2. batch \in Seq(Completion) /\ waiters \in [Waiter -> Reg]
      /\ wait_results \in [Handle -> Outcome \cup {Null}]
  BY DEF TypeInv, LocalType, WaiterType, QueueType
<1>3. Head(batch) = batch[1] /\ 1 \in 1..Len(batch)
  BY SMTT(30), <1>1, <1>2
<1>4. Caused(v, Head(batch).res)
  BY <1>1, <1>3 DEF RingInv, RingSound, DoneOK
<1>5. waiters[v].handle \in Handle
  BY <1>1, RegParts DEF Lead
<1>6. wait_results'[waiters[v].handle] = Head(batch).res
  BY <1>1, <1>2, <1>5 DEF WakeSide
<1>7. w # v => waiters'[w] = waiters[w]
  BY <1>1, <1>2 DEF WakeSide
<1> QED  BY <1>4, <1>6, <1>7 DEF CausedWake, Caused

(* A wait that a scan ends is past its deadline.                           *)
LEMMA ExpireCause ==
    ASSUME TypeInv, RingInv, ScanSide, NEW w \in Waiter
    PROVE  CausedWake(w, waiters[w].handle)
<1> DEFINE v == Head(scan.todo)
<1>1. CASE ~Expired(v)
  BY <1>1 DEF ScanSide, waiterVars, CausedWake
<1>2. CASE Expired(v)
  <2>1. WakeSide(v, "ETIMEDOUT") /\ pc = "scan"
    BY <1>2 DEF ScanSide
  <2>2. v \in Waiter
    <3>1. scan.todo \in Seq(Waiter) /\ scan.todo # <<>>
      BY DEF ScanSide, TypeInv, LocalType, ScanType
    <3> QED  BY SMTT(30), <3>1
  <2>3. Armed(v) /\ TimedSide(v) /\ scan.now >= waiters[v].deadline
    BY <1>2 DEF Expired
  <2> HIDE DEF v
  <2>4. waiters[v].handle \in Handle /\ waiters[v].deadline \in Nat
    BY <2>2, <2>3, RegParts DEF TimedSide
  <2>5. now >= waiters[v].deadline
    BY SMTT(30), <2>1, <2>3, <2>4
       DEF RingInv, ControlSound, TypeInv, ClockType, LocalType, ScanType
  <2>6. waiters \in [Waiter -> Reg]
        /\ wait_results \in [Handle -> Outcome \cup {Null}]
    BY DEF TypeInv, WaiterType, QueueType
  <2>7. wait_results'[waiters[v].handle] = "ETIMEDOUT"
    BY <2>1, <2>4, <2>6 DEF WakeSide
  <2>8. w # v => waiters'[w] = waiters[w]
    BY <2>1, <2>6 DEF WakeSide
  <2> QED  BY <2>3, <2>5, <2>7, <2>8 DEF CausedWake
<1> QED  BY <1>1, <1>2

(* A wait ends with ok only when its condition held after it was armed,    *)
(* with ETIMEDOUT only from its deadline on, with EBADF only where         *)
(* descriptors are closed, and never with the completion of an earlier     *)
(* wait on its side.                                                       *)
THEOREM WakeHasCauseHolds == Spec => WakeHasCause
<1>1. ASSUME TypeInv, TokensLead, RingInv, [Next]_vars, NEW w \in Waiter
      PROVE  CausedWake(w, waiters[w].handle)
  <2>1. CASE UNCHANGED waiters
    BY <2>1 DEF CausedWake
  <2>2. CASE ProcessPoll \/ ScanSide
    BY <1>1, <2>2, PollCause, ExpireCause
  <2>3. CASE Recreate
    <3>1. run_result' = Null /\ pc = "idle"
      BY <2>3 DEF Recreate
    <3> QED  BY <1>1, <3>1 DEF RingInv, ControlSound, Armed, CausedWake
  <2>4. ASSUME NEW v \in Waiter, NEW t, NEW r, Arm(v, t, r)
        PROVE  CausedWake(w, waiters[w].handle)
    <3>1. ~Armed(v)
      BY <2>4 DEF Arm
    <3>2. w # v => waiters'[w] = waiters[w]
      BY <1>1, <2>4 DEF Arm, waiterVars, TypeInv, WaiterType
    <3> QED  BY <3>1, <3>2 DEF Armed, CausedWake
  <2> USE DEF waiterVars, dataVars, vars
  <2>5. CASE RunStart \/ LoopTop \/ ExpireStart \/ ScanEnd \/ LoopCheck \/ Block
    BY <2>1, <2>5
       DEF RunStart, LoopTop, ExpireStart, ScanEnd, LoopCheck, Block
  <2>6. CASE \/ WaitReturn \/ WaitTimeout \/ WaitInterrupted \/ ProcessStale
             \/ ProcessWake \/ ProcessRearm
    BY <2>1, <2>6 DEF WaitReturn, WaitTimeout, WaitInterrupted,
       WaitEmpty, ProcessStale, ProcessWake, ProcessRearm
  <2>7. CASE TaskStop \/ TaskIo \/ StopStore \/ StopWrite \/ Environment \/ Tick
    BY <2>1, <2>7
       DEF TaskStop, TaskIo, StopStore, StopWrite, Environment, Tick
  <2>8. CASE \/ DrainPop \/ AfterResume \/ LoopExit \/ TaskFinish \/ ArmElapsed
             \/ \E c \in Handle : Spawn(c) \/ TaskAwait(c)
    BY <2>1, <2>8 DEF DrainPop, AfterResume, LoopExit, TaskFinish,
       ArmElapsed, Spawn, TaskAwait
  <2>9. Suspend \/ RunOn => CausedWake(w, waiters[w].handle)
    BY <2>4, <2>7, <2>8 DEF Suspend, RunOn
  <2>10. LoopStep => CausedWake(w, waiters[w].handle)
    BY <2>2, <2>5, <2>6, <2>8 DEF LoopStep
  <2> QED  BY <1>1, <2>1, <2>3, <2>5, <2>6, <2>7, <2>8, <2>9, <2>10
           DEF Next
<1>2. TypeInv /\ TokensLead /\ RingInv /\ [Next]_vars
         => [\A w \in Waiter : CausedWake(w, waiters[w].handle)]_vars
  BY <1>1
<1> QED  BY <1>2, RingInvariant, PTL DEF Spec, WakeHasCause

-----------------------------------------------------------------------------
(* The wake poll once watched stays watched unless a stop is requested.    *)
LEMMA WatchedIs == WakeWatched <=> InKernel(wake_token) \/ Has(batch, wake_token)
BY DEF WakeWatched, InKernel

(* Only the wake completion takes the poll away, and then it is armed      *)
(* again unless a stop is requested.                                       *)
LEMMA WatchedNext ==
    ASSUME TypeInv, TokensLead, RingInv, [Next]_vars, WakeWatched
    PROVE  WakeWatched' \/ stop_requested'
<1>1. TypeInv' /\ TokensLead
  BY TypeNext
<1>2. ASSUME InKernel(wake_token) => InKernel(wake_token)', UNCHANGED batch
      PROVE  WakeWatched'
  BY <1>2, WatchedIs DEF WakeWatched, InKernel, Has, wake_token
<1>3. CASE UNCHANGED <<polls, cq, batch>>
  BY <1>3 DEF WakeWatched, Has, wake_token
<1>4. ASSUME RingOp, UNCHANGED batch
      PROVE  WakeWatched'
  BY <1>2, <1>4 DEF RingOp
<1>5. ASSUME batch # <<>>, batch' = Tail(batch), UNCHANGED <<polls, cq>>,
             Head(batch).token # wake_token
      PROVE  WakeWatched'
  <2>1. Has(batch, wake_token) => Has(batch', wake_token)
    BY <1>5, TailKeeps
  <2> QED  BY <1>5, <2>1 DEF WakeWatched, Has, wake_token
<1> USE DEF waiterVars, tokenVars, submitVars, ringVars, localVars, outsideVars,
            fileVars, dataVars
<1>6. CASE RunStart \/ LoopTop \/ ExpireStart \/ ScanEnd \/ LoopCheck \/ DrainPop
  BY <1>3, <1>6
     DEF RunStart, LoopTop, ExpireStart, ScanEnd, LoopCheck, DrainPop
<1>7. CASE \/ AfterResume \/ WaitTimeout \/ WaitInterrupted \/ TaskFinish
           \/ ArmElapsed \/ \E c \in Handle : TaskAwait(c) \/ Spawn(c)
  BY <1>3, <1>7
     DEF AfterResume, WaitTimeout, WaitInterrupted, WaitEmpty, TaskFinish,
         ArmElapsed, TaskAwait, Spawn
<1>8. CASE StopStore \/ Tick \/ ProcessWake \/ UNCHANGED vars
  BY <1>3, <1>8 DEF StopStore, Tick, ProcessWake, vars
<1>9. CASE LoopExit
  <2>1. (\E r \in SubmitResult : Flush(r)) /\ UNCHANGED batch
    BY <1>9 DEF LoopExit
  <2> QED  BY <1>4, <2>1, FlushRingOp
<1>10. CASE Block
  <2>1. /\ UNCHANGED batch
        /\ UNCHANGED <<polls, cq>> \/ \E r \in SubmitResult : Flush(r)
    BY <1>10 DEF Block
  <2> QED  BY <1>3, <1>4, <2>1, FlushRingOp
<1>11. CASE WaitReturn
  <2>1. batch = <<>>
    BY <1>11 DEF WaitReturn, TypeInv, ControlType, BatchOK
  <2>2. InKernel(wake_token)
    BY SMTT(30), <2>1, WatchedIs DEF Has
  <2> QED  BY <1>1, <1>11, <2>2, WaitReturnStep
              DEF WakeWatched, InKernel, wake_token
<1>12. CASE ProcessStale
  <2>1. /\ batch # <<>> /\ batch' = Tail(batch) /\ UNCHANGED <<polls, cq>>
        /\ Head(batch).token # wake_token
    BY <1>12 DEF ProcessStale, Processed, Completed
  <2> QED  BY <1>5, <2>1
<1>13. CASE ProcessPoll
  <2>1. /\ batch # <<>> /\ batch' = Tail(batch) /\ UNCHANGED <<polls, cq>>
        /\ Head(batch).token # wake_token
    BY <1>13 DEF ProcessPoll, Processed, Completed
  <2> QED  BY <1>5, <2>1
<1>14. CASE ProcessRearm
  <2>1. CASE stop_requested
    BY <1>14, <2>1 DEF ProcessRearm, flagVars
  <2>2. CASE ~stop_requested
    <3>1. PICK r \in SubmitResult : NoteError(r) /\ RearmWake(r)
      BY <1>14, <2>2 DEF ProcessRearm
    <3>2. CASE r = "ok"
      <4>1. InKernel(wake_token)'
        BY <3>1, <3>2, RearmRingOp
      <4> QED  BY <4>1 DEF WakeWatched, InKernel
    <3>3. CASE r # "ok"
      BY <3>1, <3>3 DEF NoteError
    <3> QED  BY <3>2, <3>3
  <2> QED  BY <2>1, <2>2
<1>15. CASE ScanSide
  <2>1. UNCHANGED batch
    BY <1>15 DEF ScanSide
  <2>2. CASE ~Expired(Head(scan.todo))
    BY <1>3, <1>15, <2>1, <2>2 DEF ScanSide
  <2>3. CASE Expired(Head(scan.todo))
    <3>1. scan.todo \in Seq(Waiter) /\ scan.todo # <<>>
      BY <1>15 DEF ScanSide, TypeInv, LocalType, ScanType
    <3>2. PICK v \in Waiter : v = Head(scan.todo)
      BY SMTT(30), <3>1
    <3>3. PICK r : QueueEntry(PollRemove(waiters[v].token), r)
      BY <1>15, <2>3, <3>2 DEF ScanSide
    <3>4. waiters[v].token \in Token
      BY <2>3, <3>2, RegParts DEF Expired
    <3>5. PollRemove(waiters[v].token) \in Entry
      BY <3>4 DEF PollRemove, Entry
    <3> QED  BY <1>4, <2>1, <3>3, <3>5, QueueRingOp
  <2> QED  BY <2>2, <2>3
<1>16. ASSUME NEW w \in Waiter, NEW t \in (Timeout \ {0}) \cup {Null}, NEW r,
              Arm(w, t, r)
       PROVE  WakeWatched'
  <2>1. /\ UNCHANGED batch /\ next_token <= MaxToken
        /\ QueueEntry(PollAdd(AllocateToken, w[1], PollMask(w[2])), r)
    BY <1>16 DEF Arm
  <2>2. AllocateToken \in Token
    BY <2>1, AllocateFresh
  <2>3. w[1] \in File /\ PollMask(w[2]) \in SUBSET Condition
    BY DEF PollMask, Condition, Waiter, Fd
  <2>4. PollAdd(AllocateToken, w[1], PollMask(w[2])) \in Entry
    BY <2>2, <2>3 DEF PollAdd, Entry
  <2> QED  BY <1>4, <2>1, <2>4, QueueRingOp
<1> DEFINE Quiet == UNCHANGED <<waiters, next_token, dropped, submission_pending,
                                batch>>
<1>17. ASSUME Raise(WakeFd, "in"), Quiet, UNCHANGED seen
       PROVE  WakeWatched'
  <2>1. \A w \in Waiter : Holds(w)' => Holds(w)
    BY <1>17 DEF Raise, Holds, TypeInv, FileType, Waiter, Fd
  <2>2. WakeFd \in File /\ "in" \in Condition
    BY LoopAssumption DEF Condition
  <2>3. InKernel(wake_token) => InKernel(wake_token)'
    BY <1>1, <1>17, <2>1, <2>2, RaiseStep
  <2> QED  BY <1>2, <1>17, <2>3
<1>18. CASE TaskStop \/ StopWrite
  BY <1>17, <1>18 DEF TaskStop, StopWrite
<1>19. CASE TaskIo
  <2>1. Quiet /\ UNCHANGED seen
    BY <1>19 DEF TaskIo
  <2>2. PICK fd \in Fd : Close(fd) \/ UNCHANGED <<polls, cq>>
    BY <1>19 DEF TaskIo, Consume, Open
  <2>3. fd \in File
    BY DEF Fd
  <2>4. CASE Close(fd)
    <3>1. InKernel(wake_token) => InKernel(wake_token)'
      BY <1>1, <2>1, <2>3, <2>4, CloseStep
    <3> QED  BY <1>2, <2>1, <3>1
  <2> QED  BY <1>3, <2>1, <2>2, <2>4
<1>20. CASE Environment
  <2>1. /\ seen' = seen \cup {w \in Waiter :
                     Armed(w) /\ (Holds(w)' \/ Has(cq', waiters[w].token))}
        /\ Quiet
    BY <1>20 DEF Environment
  <2>2. seen \subseteq seen'
    BY <2>1
  <2>3. ASSUME NEW fd \in Fd, NEW c \in Conds, Raise(fd, c)
        PROVE  InKernel(wake_token) => InKernel(wake_token)'
    <3>1. fd \in File /\ c \in Condition
      BY RingAssumption DEF Fd
    <3>2. \A w \in Waiter : Armed(w) /\ Holds(w)' => Holds(w) \/ w \in seen'
      BY <2>1
    <3> QED  BY <1>1, <2>1, <2>2, <2>3, <3>1, <3>2, RaiseStep
  <2>4. ASSUME NEW p \in polls, GoneEvent(p)
        PROVE  InKernel(wake_token) => InKernel(wake_token)'
    <3>1. \A w \in Waiter :
             Armed(w) /\ Has(cq', waiters[w].token) => w \in seen'
      BY <2>1
    <3> QED  BY <1>1, <2>1, <2>2, <2>4, <3>1, GoneStep
  <2> QED  BY <1>2, <1>20, <2>1, <2>3, <2>4 DEF Environment
<1>21. CASE Recreate
  BY <1>21 DEF Recreate, WakeWatched, WakePoll
<1> HIDE DEF Quiet
<1>22. Suspend \/ RunOn => WakeWatched' \/ stop_requested'
  BY <1>7, <1>16, <1>18, <1>19 DEF Suspend, RunOn
<1>23. LoopStep => WakeWatched' \/ stop_requested'
  BY <1>6, <1>7, <1>8, <1>9, <1>10, <1>11, <1>12, <1>13, <1>14, <1>15
     DEF LoopStep
<1> QED  BY <1>6, <1>7, <1>8, <1>18, <1>20, <1>21, <1>22, <1>23
         DEF Next

(* The poll of the eventfd is armed again each time it completes: the loop *)
(* gives it up only when stopping.                                         *)
THEOREM WakeKeptHolds == Spec => WakeKept
<1>1. TypeInv /\ TokensLead /\ RingInv /\ [Next]_vars
         => [WakeWatched => WakeWatched' \/ stop_requested']_vars
  BY WatchedNext
<1> QED  BY <1>1, RingInvariant, PTL DEF Spec, WakeKept
=============================================================================
