---------------------------- MODULE ProgramProofs ----------------------------
(***************************************************************************)
(* What a program can rely on: who holds what it must give back or pass    *)
(* on, and that the result that it prints is true.                         *)
(*                                                                         *)
(* Descriptors, for any number of threads, objects and numbers.  Every     *)
(* step closes what one place holds, moves it to another place, or fills   *)
(* an empty place with a free number; that the place is empty takes an     *)
(* invariant on the calls a function has still to make.                    *)
(*                                                                         *)
(* Coroutine frames, for any number of coroutines.  That an await_resume   *)
(* finds its child with a result takes an invariant on the queue: it holds *)
(* exactly the coroutines that are due, and a parent is due when its child *)
(* has ended.                                                              *)
(*                                                                         *)
(* Bytes of queued_writer, for every watermark, buffer size, timeout and   *)
(* send buffer.  The invariant Accounting says that the queued buffers are *)
(* the accepted bytes that flush has not accounted for, in order and       *)
(* without gaps, and that a pending write was asked for the next of them.  *)
(*                                                                         *)
(* The echo benchmarks, for any number of connections and rounds.  While   *)
(* no call has failed, EchoInv accounts for every payload by the place     *)
(* where main() is, so that no session can meet the end of its stream; the *)
(* flag, the message and the thread about to store it agree throughout.    *)
(***************************************************************************)
EXTENDS Descriptors, CoAwait, WriteQueue, EchoBench, TLAPS

(* Most leaves are first-order; those on arithmetic or sequences name SMT. *)
USE ZenonT(30)

Makes == {"socket", "nonblocking"}
(* A function makes one socket, and owned_fd is empty until it does.       *)
EmptyBefore ==
    \A t \in Thread : \A i \in step[t]..Len(op[t]) :
        op[t][i] \in Makes => held[Owned(t)] = None
OwnerInv == DescriptorTypeOK /\ SingleOwner /\ EmptyBefore

-----------------------------------------------------------------------------
(* What one step does to the places.                                       *)
LEMMA ClosePlace ==
    ASSUME SingleOwner, held \in [Place -> Fd \cup {None}], NEW p \in Place,
           open' = open \ {held[p]}, held' = [held EXCEPT ![p] = None]
    PROVE  SingleOwner'
<1>1. \A q \in Place : held'[q] = IF q = p THEN None ELSE held[q]
  OBVIOUS
<1>2. \A q, r \in Place : held'[q] # None /\ held'[q] = held'[r] => q = r
  BY <1>1 DEF SingleOwner
<1>3. open' = {held'[q] : q \in Place} \ {None}
  BY <1>1 DEF SingleOwner
<1> QED  BY <1>2, <1>3 DEF SingleOwner

(* A move: the target closes what it held and takes what the source gives  *)
(* up.                                                                     *)
LEMMA MovePlace ==
    ASSUME SingleOwner, held \in [Place -> Fd \cup {None}],
           NEW p \in Place, NEW o \in Place, p # o,
           open' = open \ {held[o]},
           held' = [held EXCEPT ![o] = held[p], ![p] = None]
    PROVE  SingleOwner'
<1>1. \A q \in Place : held'[q] = IF q = p THEN None
                                  ELSE IF q = o THEN held[p] ELSE held[q]
  OBVIOUS
<1>2. \A q, r \in Place : held'[q] # None /\ held'[q] = held'[r] => q = r
  BY <1>1 DEF SingleOwner
<1>3. open' = {held'[q] : q \in Place} \ {None}
  <2>1. ASSUME NEW f \in open'
        PROVE  \E q \in Place : f = held'[q] /\ f # None
    <3>1. PICK q \in Place : f = held[q] /\ f # None /\ q # o
      BY <2>1 DEF SingleOwner
    <3>2. CASE q = p
      BY <1>1, <3>1, <3>2
    <3>3. CASE q # p
      BY <1>1, <3>1, <3>3
    <3> QED  BY <3>2, <3>3
  <2>2. ASSUME NEW q \in Place, held'[q] # None
        PROVE  held'[q] \in open'
    <3>1. PICK r \in Place : held'[q] = held[r] /\ r # o
      BY <1>1, <2>2
    <3>2. held[r] # held[o]
      BY <2>2, <3>1 DEF SingleOwner
    <3>3. held[r] \in open
      BY <2>2, <3>1 DEF SingleOwner
    <3> QED  BY <3>1, <3>2, <3>3
  <2> QED  BY SMTT(30), <2>1, <2>2
<1> QED  BY <1>2, <1>3 DEF SingleOwner

(* A system call gives an empty place a number that was free.              *)
LEMMA FillPlace ==
    ASSUME SingleOwner, held \in [Place -> Fd \cup {None}],
           NEW p \in Place, held[p] = None, NEW f \in Fd \ open,
           open' = open \cup {f}, held' = [held EXCEPT ![p] = f]
    PROVE  SingleOwner'
<1>1. \A q \in Place : held'[q] = IF q = p THEN f ELSE held[q]
  OBVIOUS
<1>2. \A q \in Place : held[q] # f /\ f # None
  BY DescriptorAssumption DEF SingleOwner
<1>3. \A q, r \in Place : held'[q] # None /\ held'[q] = held'[r] => q = r
  BY <1>1, <1>2 DEF SingleOwner
<1>4. open' = {held'[q] : q \in Place} \ {None}
  <2>1. ASSUME NEW g \in open'
        PROVE  \E q \in Place : g = held'[q] /\ g # None
    <3>1. CASE g = f
      BY <1>1, <1>2, <3>1
    <3>2. CASE g # f
      <4>1. PICK q \in Place : g = held[q] /\ g # None
        BY <2>1, <3>2 DEF SingleOwner
      <4> QED  BY <1>1, <4>1
    <3> QED  BY <3>1, <3>2
  <2>2. ASSUME NEW q \in Place, held'[q] # None
        PROVE  held'[q] \in open'
    BY <1>1, <2>2 DEF SingleOwner
  <2> QED  BY SMTT(30), <2>1, <2>2
<1> QED  BY <1>3, <1>4 DEF SingleOwner

(* Two places exchange what they hold.                                     *)
LEMMA SwapPlaces ==
    ASSUME SingleOwner, held \in [Place -> Fd \cup {None}],
           NEW o \in Place, NEW q \in Place, open' = open,
           held' = [held EXCEPT ![o] = held[q], ![q] = held[o]]
    PROVE  SingleOwner'
<1>1. \A p \in Place : held'[p] = IF p = q THEN held[o]
                                  ELSE IF p = o THEN held[q] ELSE held[p]
  OBVIOUS
<1>2. \A p, r \in Place : held'[p] # None /\ held'[p] = held'[r] => p = r
  BY <1>1 DEF SingleOwner
<1>3. {held'[p] : p \in Place} = {held[p] : p \in Place}
  BY <1>1
<1> QED  BY <1>2, <1>3 DEF SingleOwner

-----------------------------------------------------------------------------
(* The places of a thread are apart from objects and from one another.     *)
LEMMA PlacesApart ==
    ASSUME NEW t \in Thread
    PROVE  /\ Owned(t) \in Place /\ Raw(t) \in Place /\ Object \subseteq Place
           /\ Owned(t) \notin Object /\ Raw(t) \notin Object
           /\ \A u \in Thread : Owned(t) # Raw(u)
           /\ \A u \in Thread : Owned(t) = Owned(u) => t = u
<1>1. /\ \A u \in Thread : Owned(t) # Raw(u)
      /\ \A u \in Thread : Owned(t) = Owned(u) => t = u
  BY DEF Owned, Raw
<1> QED  BY <1>1, DescriptorAssumption DEF Place

(* Every function that makes a socket makes one, in at most five calls.    *)
LEMMA FactoryOnce ==
    ASSUME NEW k \in Factory \cup {<<>>}
    PROVE  /\ Len(k) \in 0..5
           /\ \A i, j \in 1..Len(k) : k[i] \in Makes /\ k[j] \in Makes => i = j
<1>1. CASE k \in {<<>>, NonblockingAccept, BlockingAccept}
  BY SMTT(30), <1>1 DEF NonblockingAccept, BlockingAccept, Makes
<1>2. CASE k = NonblockingConnect
  BY SMTT(30), <1>2 DEF NonblockingConnect, Makes
<1>3. CASE k = NonblockingBind
  BY SMTT(30), <1>3 DEF NonblockingBind, Makes
<1>4. CASE k = BlockingConnect
  BY SMTT(30), <1>4 DEF BlockingConnect, Makes
<1>5. CASE k = BlockingBind
  BY SMTT(30), <1>5 DEF BlockingBind, Makes
<1>6. CASE k = UdpBind
  BY SMTT(30), <1>6 DEF UdpBind, Makes
<1> QED  BY <1>1, <1>2, <1>3, <1>4, <1>5, <1>6 DEF Factory

(* Nothing is open and nothing is held.                                    *)
LEMMA OwnerInit == DescriptorInit => OwnerInv
<1> SUFFICES ASSUME DescriptorInit
             PROVE  OwnerInv
  OBVIOUS
<1>1. DescriptorTypeOK
  BY SMTT(30), PlacesApart DEF DescriptorInit, DescriptorTypeOK, Idle
<1>2. SingleOwner
  BY DEF DescriptorInit, SingleOwner
<1>3. EmptyBefore
  BY PlacesApart DEF DescriptorInit, EmptyBefore
<1> QED  BY <1>1, <1>2, <1>3 DEF OwnerInv

(* A function ends with owned_fd empty.                                    *)
LEMMA FinishKeeps ==
    ASSUME OwnerInv, NEW t \in Thread, Finish(t), open' \subseteq Fd,
           held' \in [Place -> Fd \cup {None}], held'[Owned(t)] = None,
           \A u \in Thread : u # t => held'[Owned(u)] = held[Owned(u)]
    PROVE  DescriptorTypeOK' /\ EmptyBefore'
<1>1. \A u \in Thread : /\ step'[u] = IF u = t THEN 1 ELSE step[u]
                        /\ op'[u] = IF u = t THEN <<>> ELSE op[u]
  BY DEF OwnerInv, DescriptorTypeOK, Finish
<1>2. op' \in [Thread -> Factory \cup {<<>>}] /\ step' \in [Thread -> 1..6]
  BY SMTT(30) DEF OwnerInv, DescriptorTypeOK, Finish
<1>3. \A u \in Thread : Idle(u)' => step'[u] = 1 /\ held'[Owned(u)] = None
  BY <1>1 DEF OwnerInv, DescriptorTypeOK, Idle
<1>4. EmptyBefore'
  BY <1>1 DEF OwnerInv, EmptyBefore
<1> QED  BY <1>2, <1>3, <1>4 DEF DescriptorTypeOK

(* A call that made nothing.                                               *)
LEMMA AdvanceKeeps ==
    ASSUME OwnerInv, NEW t \in Thread, Advance(t), step[t] <= Len(op[t]),
           open' \subseteq Fd, held' \in [Place -> Fd \cup {None}],
           \A u \in Thread : \/ held'[Owned(u)] = held[Owned(u)]
                             \/ u = t /\ op[t][step[t]] \in Makes
    PROVE  DescriptorTypeOK' /\ EmptyBefore'
<1>1. \A u \in Thread : /\ step'[u] = IF u = t THEN step[t] + 1 ELSE step[u]
                        /\ op'[u] = op[u] /\ step[u] \in 1..6
                        /\ op[u] \in Factory \cup {<<>>}
  BY DEF OwnerInv, DescriptorTypeOK, Advance
<1>2. op[t] \in Factory \cup {<<>>} /\ Len(op[t]) \in 0..5
  BY <1>1, FactoryOnce
<1>3. op' \in [Thread -> Factory \cup {<<>>}] /\ step' \in [Thread -> 1..6]
  <2>1. step[t] + 1 \in 1..6
    <3>1. PICK n \in 0..5 : step[t] <= n
      BY <1>2
    <3>2. PICK m \in 1..6 : step[t] = m
      BY <1>1
    <3> QED  BY SMTT(30), <3>1, <3>2
  <2> QED  BY <2>1 DEF OwnerInv, DescriptorTypeOK, Advance
<1>4. op[t] # <<>>
  BY SMTT(30), <1>1
<1>5. \A u \in Thread : Idle(u)' => step'[u] = 1 /\ held'[Owned(u)] = None
  BY <1>1, <1>4 DEF OwnerInv, DescriptorTypeOK, Idle
<1>6. ASSUME NEW u \in Thread, NEW i \in step'[u]..Len(op'[u]),
             op'[u][i] \in Makes
      PROVE  held'[Owned(u)] = None
  <2>1. op[u][i] \in Makes /\ i \in step[u]..Len(op[u])
    BY SMTT(30), <1>1, <1>6
  <2>2. held[Owned(u)] = None
    BY <2>1 DEF OwnerInv, EmptyBefore
  <2>3. CASE u = t /\ op[t][step[t]] \in Makes
    <3>1. /\ i \in 1..Len(op[t]) /\ step[t] \in 1..Len(op[t])
          /\ i # step[t]
      BY SMTT(30), <1>1, <1>2, <1>6, <2>3
    <3> QED  BY <1>2, <2>1, <2>3, <3>1, FactoryOnce
  <2> QED  BY <2>2, <2>3
<1>7. EmptyBefore'
  BY <1>6 DEF EmptyBefore
<1> QED  BY <1>3, <1>5, <1>7 DEF DescriptorTypeOK

-----------------------------------------------------------------------------
(* The steps that fail, close or return.                                   *)
LEMMA FailKeeps ==
    ASSUME OwnerInv, NEW t \in Thread, Fail(t)
    PROVE  OwnerInv'
<1>1. /\ open' = open \ {held[Owned(t)]} /\ Finish(t)
      /\ held' = [held EXCEPT ![Owned(t)] = None]
      /\ held \in [Place -> Fd \cup {None}] /\ open \subseteq Fd
  BY DEF Fail, OwnerInv, DescriptorTypeOK
<1>2. SingleOwner'
  BY <1>1, PlacesApart, ClosePlace DEF OwnerInv
<1>3. DescriptorTypeOK' /\ EmptyBefore'
  BY <1>1, PlacesApart, FinishKeeps
<1> QED  BY <1>2, <1>3 DEF OwnerInv

(* Steps of unique_fd leave the functions in progress alone.               *)
LEMMA QuietKeeps ==
    ASSUME OwnerInv, UNCHANGED <<op, step>>, open' \subseteq Fd,
           held' \in [Place -> Fd \cup {None}],
           \A t \in Thread : held'[Owned(t)] = held[Owned(t)]
    PROVE  DescriptorTypeOK' /\ EmptyBefore'
<1>1. DescriptorTypeOK'
  BY DEF OwnerInv, DescriptorTypeOK, Idle
<1>2. EmptyBefore'
  BY DEF OwnerInv, EmptyBefore
<1> QED  BY <1>1, <1>2

(* The call that makes a socket fills owned_fd, which was empty, or fails. *)
LEMMA MakeKeeps ==
    ASSUME OwnerInv, NEW t \in Thread, Make(t) \/ MakeNonblocking(t)
    PROVE  OwnerInv'
<1>1. /\ held \in [Place -> Fd \cup {None}] /\ open \subseteq Fd
      /\ step[t] <= Len(op[t]) /\ op[t][step[t]] \in Makes
      /\ step[t] \in 1..6 /\ op[t] \in Factory \cup {<<>>}
  BY DEF OwnerInv, DescriptorTypeOK, Make, MakeNonblocking, At, Makes
<1>2. held[Owned(t)] = None
  <2>1. Len(op[t]) \in Nat
    BY SMTT(30), <1>1, FactoryOnce
  <2>2. step[t] \in step[t]..Len(op[t])
    BY SMTT(30), <1>1, <2>1
  <2> QED  BY <1>1, <2>2 DEF OwnerInv, EmptyBefore
<1>3. CASE New(t, Owned(t)) /\ Advance(t)
  <2>1. PICK f \in Fd \ open : /\ open' = open \cup {f}
                               /\ held' = [held EXCEPT ![Owned(t)] = f]
    BY <1>3 DEF New
  <2>2. SingleOwner'
    BY <1>1, <1>2, <2>1, PlacesApart, FillPlace DEF OwnerInv
  <2>3. DescriptorTypeOK' /\ EmptyBefore'
    BY <1>1, <1>3, <2>1, PlacesApart, AdvanceKeeps
  <2> QED  BY <2>2, <2>3 DEF OwnerInv
<1>4. CASE New(t, Raw(t)) /\ UNCHANGED <<op, step>> /\ held[Raw(t)] = None
  <2>1. PICK f \in Fd \ open : /\ open' = open \cup {f}
                               /\ held' = [held EXCEPT ![Raw(t)] = f]
    BY <1>4 DEF New
  <2>2. SingleOwner'
    BY <1>1, <1>4, <2>1, PlacesApart, FillPlace DEF OwnerInv
  <2>3. DescriptorTypeOK' /\ EmptyBefore'
    BY <1>1, <1>4, <2>1, PlacesApart, QuietKeeps
  <2> QED  BY <2>2, <2>3 DEF OwnerInv
<1> QED  BY <1>3, <1>4, FailKeeps DEF Make, MakeNonblocking

(* fcntl on a socket just made keeps it in owned_fd, or fails and closes   *)
(* it.                                                                     *)
LEMMA SetNonblockingKeeps ==
    ASSUME OwnerInv, NEW t \in Thread, SetNonblocking(t)
    PROVE  OwnerInv'
<1>1. /\ held \in [Place -> Fd \cup {None}] /\ open \subseteq Fd
      /\ step[t] <= Len(op[t]) /\ op[t][step[t]] \in Makes
      /\ step[t] \in 1..6 /\ op[t] \in Factory \cup {<<>>}
  BY DEF OwnerInv, DescriptorTypeOK, SetNonblocking, At, Makes
<1>2. held[Owned(t)] = None
  <2>1. Len(op[t]) \in Nat
    BY SMTT(30), <1>1, FactoryOnce
  <2>2. step[t] \in step[t]..Len(op[t])
    BY SMTT(30), <1>1, <2>1
  <2> QED  BY <1>1, <2>2 DEF OwnerInv, EmptyBefore
<1>3. CASE /\ held' = [held EXCEPT ![Owned(t)] = held[Raw(t)], ![Raw(t)] = None]
           /\ Advance(t) /\ UNCHANGED open
  <2>1. open' = open \ {held[Owned(t)]}
    BY <1>1, <1>2, <1>3, DescriptorAssumption
  <2>2. SingleOwner'
    BY <1>1, <1>3, <2>1, PlacesApart, MovePlace DEF OwnerInv
  <2>3. DescriptorTypeOK' /\ EmptyBefore'
    BY <1>1, <1>3, PlacesApart, AdvanceKeeps
  <2> QED  BY <2>2, <2>3 DEF OwnerInv
<1>4. CASE /\ open' = open \ {held[Raw(t)]}
           /\ held' = [held EXCEPT ![Raw(t)] = None]
           /\ Finish(t)
  <2>1. SingleOwner'
    BY <1>1, <1>4, PlacesApart, ClosePlace DEF OwnerInv
  <2>2. DescriptorTypeOK' /\ EmptyBefore'
    BY <1>1, <1>2, <1>4, PlacesApart, FinishKeeps
  <2> QED  BY <2>1, <2>2 DEF OwnerInv
<1> QED  BY <1>3, <1>4 DEF SetNonblocking

(* The end of a function that makes a socket: owned_fd moves to the object *)
(* of the caller.                                                          *)
LEMMA ReturnKeeps ==
    ASSUME OwnerInv, NEW t \in Thread, NEW o \in Object, ReturnOwned(t, o)
    PROVE  OwnerInv'
<1>1. /\ held \in [Place -> Fd \cup {None}] /\ open \subseteq Fd
      /\ open' = open \ {held[o]} /\ Finish(t)
      /\ held' = [held EXCEPT ![o] = held[Owned(t)], ![Owned(t)] = None]
  BY DEF OwnerInv, DescriptorTypeOK, ReturnOwned
<1>2. SingleOwner'
  BY <1>1, PlacesApart, MovePlace DEF OwnerInv
<1>3. DescriptorTypeOK' /\ EmptyBefore'
  <2>1. \A u \in Thread : Owned(u) \in Place /\ Owned(u) # o
    BY PlacesApart
  <2>2. \A u \in Thread : u # t => Owned(u) # Owned(t)
    BY PlacesApart
  <2>3. o \in Place
    BY PlacesApart
  <2> QED  BY <1>1, <2>1, <2>2, <2>3, FinishKeeps
<1> QED  BY <1>2, <1>3 DEF OwnerInv

(* One operation of unique_fd, or of the caller on a plain int.            *)
LEMMA UniqueFdKeeps ==
    ASSUME OwnerInv, NEW o \in Object, NEW p \in Place,
           \A t \in Thread : p # Owned(t), UNCHANGED <<op, step>>,
           \/ /\ p # o /\ open' = open \ {held[o]}
              /\ held' = [held EXCEPT ![o] = held[p], ![p] = None]
           \/ /\ held[p] = None /\ p # o /\ UNCHANGED open
              /\ held' = [held EXCEPT ![p] = held[o], ![o] = None]
           \/ /\ UNCHANGED open
              /\ held' = [held EXCEPT ![o] = held[p], ![p] = held[o]]
           \/ /\ open' = open \ {held[p]}
              /\ held' = [held EXCEPT ![p] = None]
    PROVE  OwnerInv'
<1>1. /\ held \in [Place -> Fd \cup {None}] /\ open \subseteq Fd
      /\ None \notin open /\ o \in Place
  BY DescriptorAssumption DEF OwnerInv, DescriptorTypeOK, Place
<1>2. open = open \ {None}
  BY <1>1
<1>3. SingleOwner'
  BY <1>1, <1>2, ClosePlace, MovePlace, SwapPlaces DEF OwnerInv
<1>4. DescriptorTypeOK' /\ EmptyBefore'
  <2>1. \A t \in Thread : Owned(t) \in Place /\ Owned(t) # o
    BY PlacesApart
  <2>2. /\ open' \subseteq Fd /\ held' \in [Place -> Fd \cup {None}]
        /\ \A t \in Thread : held'[Owned(t)] = held[Owned(t)]
    BY <1>1, <2>1
  <2> QED  BY <2>2, QuietKeeps
<1> QED  BY <1>3, <1>4 DEF OwnerInv

(* OwnerInv is inductive.                                                  *)
LEMMA OwnerStep ==
    ASSUME OwnerInv, [DescriptorNext]_descriptorVars
    PROVE  OwnerInv'
<1>0. /\ held \in [Place -> Fd \cup {None}] /\ open \subseteq Fd
  BY DEF OwnerInv, DescriptorTypeOK
<1>1. ASSUME NEW t \in Thread, Begin(t)
      PROVE  OwnerInv'
  <2>1. PICK k \in Factory : op' = [op EXCEPT ![t] = k]
    BY <1>1 DEF Begin
  <2>2. /\ UNCHANGED <<open, held, step>> /\ held[Owned(t)] = None
        /\ \A u \in Thread : op'[u] = IF u = t THEN k ELSE op[u]
        /\ op' \in [Thread -> Factory \cup {<<>>}] /\ step[t] = 1
    BY <1>1, <2>1 DEF Begin, OwnerInv, DescriptorTypeOK, Idle
  <2>3. DescriptorTypeOK'
    BY <2>2 DEF OwnerInv, DescriptorTypeOK, Idle
  <2>4. SingleOwner'
    BY <2>2 DEF OwnerInv, SingleOwner
  <2>5. EmptyBefore'
    BY <2>2 DEF OwnerInv, EmptyBefore
  <2> QED  BY <2>3, <2>4, <2>5 DEF OwnerInv
<1>2. ASSUME NEW t \in Thread, Check(t)
      PROVE  OwnerInv'
  <2>1. CASE Advance(t) /\ UNCHANGED <<open, held>>
    <3>1. step[t] <= Len(op[t])
      BY <1>2 DEF Check, At
    <3>2. DescriptorTypeOK' /\ EmptyBefore'
      BY <1>0, <2>1, <3>1, AdvanceKeeps
    <3>3. SingleOwner'
      BY <2>1 DEF OwnerInv, SingleOwner
    <3> QED  BY <3>2, <3>3 DEF OwnerInv
  <2> QED  BY <1>2, <2>1, FailKeeps DEF Check
<1>3. ASSUME NEW t \in Thread, close_fd(t)
      PROVE  OwnerInv'
  <2>1. SingleOwner'
    BY <1>0, <1>3, PlacesApart, ClosePlace DEF close_fd, OwnerInv
  <2>2. DescriptorTypeOK' /\ EmptyBefore'
    BY <1>0, <1>3, PlacesApart, QuietKeeps DEF close_fd
  <2> QED  BY <2>1, <2>2 DEF OwnerInv
<1>4. ASSUME NEW t \in Thread, NEW o \in Object, Adopt(o, t) \/ Release(o, t)
      PROVE  OwnerInv'
  <2>1. /\ Raw(t) \in Place /\ Raw(t) # o
        /\ \A u \in Thread : Raw(t) # Owned(u)
    BY PlacesApart
  <2> QED  BY <1>4, <2>1, UniqueFdKeeps DEF Adopt, Release, Reset
<1>5. ASSUME NEW o \in Object, NEW q \in Object,
             MoveAssign(o, q) \/ Swap(o, q) \/ Destroy(q)
      PROVE  OwnerInv'
  <2>1. q \in Place /\ \A u \in Thread : q # Owned(u)
    BY PlacesApart DEF Place
  <2>2. CASE Swap(o, q)
    <3>1. /\ UNCHANGED <<open, op, step>>
          /\ held' = [held EXCEPT ![o] = held[q], ![q] = held[o]]
      BY <2>2 DEF Swap
    <3> QED  BY <2>1, <3>1, UniqueFdKeeps
  <2>3. CASE MoveAssign(o, q)
    BY <2>1, <2>3, UniqueFdKeeps DEF MoveAssign, Reset
  <2>4. CASE Destroy(q)
    BY <2>1, <2>4, UniqueFdKeeps DEF Destroy
  <2> QED  BY <1>5, <2>2, <2>3, <2>4
<1>6. CASE UNCHANGED descriptorVars
  BY <1>6
     DEF OwnerInv, DescriptorTypeOK, SingleOwner, EmptyBefore, Idle, descriptorVars
<1> QED  BY <1>1, <1>2, <1>3, <1>4, <1>5, <1>6, MakeKeeps, SetNonblockingKeeps,
            ReturnKeeps DEF DescriptorNext

(* unique_fd and the functions that make sockets keep exactly one owner    *)
(* for every open descriptor, on every error path and in every             *)
(* interleaving, for any number of threads, objects and numbers.           *)
THEOREM SingleOwnerHolds == DescriptorSpec => []SingleOwner
<1>1. OwnerInv => SingleOwner
  BY DEF OwnerInv
<1> QED  BY <1>1, OwnerInit, OwnerStep, PTL DEF DescriptorSpec

(* The table, the places and the calls of the functions keep their types.  *)
THEOREM TypeOKHolds == DescriptorSpec => []DescriptorTypeOK
<1>1. OwnerInv => DescriptorTypeOK
  BY DEF OwnerInv
<1> QED  BY <1>1, OwnerInit, OwnerStep, PTL DEF DescriptorSpec

-----------------------------------------------------------------------------
(* Every handle in every field is one of a coroutine.                      *)
AwaitType ==
    /\ frame \in [Handle -> {"free", "initial", "body", "await", "final"}]
    /\ owner \in [Handle -> Handle \cup {NullHandle}]
    /\ handle_ \in [Handle -> Handle \cup {NullHandle}]
    /\ continuation \in [Handle -> Handle \cup {NullHandle}]
    /\ outcome \in [Handle -> {"none", "value", "exception", "logic_error"}]
    /\ running \in Handle \cup {NullHandle}
    /\ ready \in Seq(Handle)

(* One coroutine runs; one that awaits holds its child, which is to        *)
(* continue it; what a coroutine owns otherwise it has not started.        *)
Linked(h) ==
    /\ frame[h] = "body" <=> running = h
    /\ frame[h] = "await" <=> handle_[h] # NullHandle
    /\ frame[h] = "free" <=> owner[h] = NullHandle
    /\ frame[h] = "final" <=> outcome[h] # "none"
    /\ continuation[h] # NullHandle => handle_[continuation[h]] = h
    /\ handle_[h] # NullHandle => /\ owner[handle_[h]] = h /\ handle_[h] # h
                            /\ continuation[handle_[h]] = h
    /\ owner[h] \notin {NullHandle, h} =>
          /\ frame[owner[h]] \in {"body", "await"}
          /\ frame[h] # "initial" => handle_[owner[h]] = h

(* The queue holds, once each, the roots and awaited children that have    *)
(* not begun and the parents whose child has ended.                        *)
Due(h) ==
    \/ frame[h] = "initial" /\ (owner[h] = h \/ continuation[h] # NullHandle)
    \/ frame[h] = "await" /\ frame[handle_[h]] = "final"
InQueue(q, h) == \E n \in 1..Len(q) : q[n] = h
NoRepeat(q) == \A m, n \in 1..Len(q) : q[m] = q[n] => m = n
DueQueued == NoRepeat(ready) /\ \A h \in Handle : InQueue(ready, h) <=> Due(h)

AwaitInv ==
    /\ AwaitType /\ DueQueued /\ AwaitHasResult
    /\ \A h \in Handle : Linked(h)

-----------------------------------------------------------------------------
(* push_back of a coroutine that is not queued.                            *)
LEMMA QueuePush ==
    ASSUME NEW q \in Seq(Handle), NEW h \in Handle, NoRepeat(q), ~InQueue(q, h)
    PROVE  /\ Append(q, h) \in Seq(Handle) /\ NoRepeat(Append(q, h))
           /\ \A x : InQueue(Append(q, h), x) <=> InQueue(q, x) \/ x = h
<1>1. /\ Append(q, h) \in Seq(Handle)
      /\ Len(Append(q, h)) = Len(q) + 1
      /\ \A n \in 1..Len(q) : Append(q, h)[n] = q[n]
      /\ Append(q, h)[Len(q) + 1] = h
      /\ Len(q) \in Nat
  BY SMTT(30)
<1>2. NoRepeat(Append(q, h))
  BY SMTT(30), <1>1 DEF NoRepeat, InQueue
<1>3. ASSUME NEW x
      PROVE  InQueue(Append(q, h), x) <=> InQueue(q, x) \/ x = h
  BY SMTT(30), <1>1 DEF InQueue
<1> QED  BY <1>1, <1>2, <1>3

(* pop_front.                                                              *)
LEMMA QueuePop ==
    ASSUME NEW q \in Seq(Handle), q # <<>>, NoRepeat(q)
    PROVE  /\ Head(q) \in Handle /\ InQueue(q, Head(q))
           /\ Tail(q) \in Seq(Handle) /\ NoRepeat(Tail(q))
           /\ \A x : InQueue(Tail(q), x) <=> InQueue(q, x) /\ x # Head(q)
<1>1. /\ Tail(q) \in Seq(Handle)
      /\ Len(Tail(q)) = Len(q) - 1
      /\ \A n \in 1..Len(Tail(q)) : Tail(q)[n] = q[n + 1]
      /\ Head(q) = q[1] /\ Head(q) \in Handle
      /\ Len(q) \in Nat \ {0}
  BY SMTT(30)
<1>2. InQueue(q, Head(q)) /\ NoRepeat(Tail(q))
  BY SMTT(30), <1>1 DEF InQueue, NoRepeat
<1>3. ASSUME NEW x
      PROVE  InQueue(Tail(q), x) <=> InQueue(q, x) /\ x # Head(q)
  <2>1. ASSUME InQueue(Tail(q), x)
        PROVE  InQueue(q, x) /\ x # Head(q)
    BY SMTT(30), <1>1, <2>1 DEF InQueue, NoRepeat
  <2>2. ASSUME InQueue(q, x), x # Head(q)
        PROVE  InQueue(Tail(q), x)
    <3>1. PICK n \in 1..Len(q) : q[n] = x
      BY <2>2 DEF InQueue
    <3>2. n - 1 \in 1..Len(Tail(q)) /\ Tail(q)[n - 1] = x
      BY SMTT(30), <1>1, <2>2, <3>1
    <3> QED  BY <3>2 DEF InQueue
  <2> QED  BY <2>1, <2>2
<1> QED  BY <1>1, <1>2, <1>3

(* The queue after a step that leaves it alone, or adds or takes one.      *)
LEMMA QueueFollows ==
    ASSUME AwaitType, DueQueued
    PROVE  /\ ready' = ready /\ (\A x \in Handle : Due(x)' <=> Due(x))
                 => ready' \in Seq(Handle) /\ DueQueued'
           /\ \A h \in Handle :
                 /\ ready' = Append(ready, h) /\ ~Due(h)
                 /\ \A x \in Handle : Due(x)' <=> Due(x) \/ x = h
                 => ready' \in Seq(Handle) /\ DueQueued'
           /\ /\ ready # <<>> /\ ready' = Tail(ready)
              /\ \A x \in Handle : Due(x)' <=> Due(x) /\ x # Head(ready)
              => ready' \in Seq(Handle) /\ DueQueued'
<1>1. ready \in Seq(Handle) /\ NoRepeat(ready)
  BY DEF AwaitType, DueQueued
<1>2. \A x \in Handle : InQueue(ready, x) <=> Due(x)
  BY DEF DueQueued
<1>3. ASSUME ready' \in Seq(Handle), NoRepeat(ready'),
             \A x \in Handle : InQueue(ready', x) <=> Due(x)'
      PROVE  DueQueued'
  BY <1>3 DEF DueQueued, NoRepeat, InQueue
<1>4. ASSUME ready' = ready, \A x \in Handle : Due(x)' <=> Due(x)
      PROVE  ready' \in Seq(Handle) /\ DueQueued'
  BY <1>1, <1>2, <1>3, <1>4
<1>5. ASSUME NEW h \in Handle, ready' = Append(ready, h), ~Due(h),
             \A x \in Handle : Due(x)' <=> Due(x) \/ x = h
      PROVE  ready' \in Seq(Handle) /\ DueQueued'
  BY <1>1, <1>2, <1>3, <1>5, QueuePush
<1>6. ASSUME ready # <<>>, ready' = Tail(ready),
             \A x \in Handle : Due(x)' <=> Due(x) /\ x # Head(ready)
      PROVE  ready' \in Seq(Handle) /\ DueQueued'
  BY <1>1, <1>2, <1>3, <1>6, QueuePop
<1> QED  BY <1>4, <1>5, <1>6

-----------------------------------------------------------------------------
(* No coroutines.                                                          *)
LEMMA AwaitStart == AwaitInit => AwaitInv
<1> SUFFICES ASSUME AwaitInit
             PROVE  AwaitInv
  OBVIOUS
<1>1. ready \in Seq(Handle) /\ Len(ready) = 0
  BY SMTT(30) DEF AwaitInit
<1>2. AwaitType /\ AwaitHasResult
  BY <1>1 DEF AwaitInit, AwaitType, AwaitHasResult
<1>3. \A h \in Handle : Linked(h) /\ ~Due(h)
  BY HandleAssumption DEF AwaitInit, Linked, Due
<1>4. DueQueued
  BY SMTT(30), <1>1, <1>3 DEF DueQueued, NoRepeat, InQueue
<1> QED  BY <1>2, <1>3, <1>4 DEF AwaitInv

(* spawn(), the call of a coroutine function: a new frame, of which no     *)
(* other coroutine knows.                                                  *)
LEMMA NewFrame ==
    ASSUME AwaitInv, NEW h \in Handle, NEW o \in Handle, frame[h] = "free",
           \/ o = h /\ running = NullHandle /\ ready' = Append(ready, h)
           \/ running = o /\ ready' = ready,
           frame' = [frame EXCEPT ![h] = "initial"],
           owner' = [owner EXCEPT ![h] = o],
           UNCHANGED <<handle_, continuation, outcome, running, misused>>
    PROVE  AwaitInv'
<1>1. AwaitType /\ DueQueued /\ AwaitHasResult
  BY DEF AwaitInv
<1>2. \A x \in Handle :
         /\ Linked(x) /\ handle_[x] \in Handle \cup {NullHandle}
         /\ frame'[x] = IF x = h THEN "initial" ELSE frame[x]
         /\ owner'[x] = IF x = h THEN o ELSE owner[x]
  BY <1>1 DEF AwaitInv, AwaitType
<1>3. /\ owner[h] = NullHandle /\ continuation[h] = NullHandle /\ running # h
      /\ \A x \in Handle : handle_[x] # h /\ owner[x] # h
  BY SMTT(30), <1>1, <1>2, HandleAssumption DEF Linked, AwaitType
<1>4. running = o => frame[o] = "body" /\ o # h
  BY SMTT(30), <1>2 DEF Linked
<1>5. ASSUME NEW x \in Handle
      PROVE  Linked(x)'
  BY SMTT(30), <1>1, <1>2, <1>3, <1>4, HandleAssumption DEF Linked, AwaitType
<1>6. ~Due(h) /\ \A x \in Handle : Due(x)' <=> Due(x) \/ (x = h /\ o = h)
  BY SMTT(30), <1>1, <1>2, <1>3, HandleAssumption DEF Due, Linked, AwaitType
<1>7. ready' \in Seq(Handle) /\ DueQueued'
  BY <1>1, <1>4, <1>6, QueueFollows
<1>8. AwaitType'
  BY <1>1, <1>7 DEF AwaitType
<1> QED  BY <1>1, <1>5, <1>7, <1>8 DEF AwaitInv, AwaitHasResult

(* ~task of tasks that nobody started, with their owner or before it, and  *)
(* of roots that have ended: nobody waits for their frames.                *)
LEMMA FreedFrame ==
    ASSUME AwaitInv, NEW h \in Handle,
           \/ frame[h] = "initial" /\ owner[h] # h /\ continuation[h] = NullHandle
           \/ frame[h] = "final" /\ owner[h] = h,
           frame' = [frame EXCEPT ![h] = "free"], Destroyed({h}),
           UNCHANGED <<handle_, running, ready, misused>>
    PROVE  AwaitInv'
<1>1. AwaitType /\ DueQueued /\ AwaitHasResult
  BY DEF AwaitInv
<1>2. \A x \in Handle :
         /\ Linked(x) /\ handle_[x] \in Handle \cup {NullHandle}
         /\ frame'[x] = IF x = h THEN "free" ELSE frame[x]
         /\ owner'[x] = IF x = h THEN NullHandle ELSE owner[x]
         /\ outcome'[x] = IF x = h THEN "none" ELSE outcome[x]
         /\ continuation'[x] = IF x = h THEN NullHandle ELSE continuation[x]
  BY <1>1 DEF AwaitInv, AwaitType, Destroyed
<1>3. handle_[h] = NullHandle /\ running # h /\ continuation[h] = NullHandle
  BY SMTT(30), <1>1, <1>2, HandleAssumption DEF Linked, AwaitType
<1>4. \A x \in Handle : x # h => handle_[x] # h /\ owner[x] # h
  BY SMTT(30), <1>1, <1>2, <1>3, HandleAssumption DEF Linked, AwaitType
<1>5. ASSUME NEW x \in Handle
      PROVE  Linked(x)'
  BY SMTT(30), <1>1, <1>2, <1>3, <1>4, HandleAssumption DEF Linked, AwaitType
<1>6. \A x \in Handle : Due(x)' <=> Due(x)
  BY SMTT(30), <1>1, <1>2, <1>3, <1>4, HandleAssumption
     DEF Due, Linked, AwaitType
<1>7. ready' \in Seq(Handle) /\ DueQueued'
  BY <1>1, <1>6, QueueFollows
<1>8. AwaitType'
  BY <1>1, <1>7 DEF AwaitType, Destroyed
<1> QED  BY <1>1, <1>5, <1>7, <1>8 DEF AwaitInv, AwaitHasResult

(* co_await: the parent suspends and its child is queued.                  *)
LEMMA AwaitKeeps ==
    ASSUME AwaitInv, NEW h \in Handle, NEW c \in Handle, Await(h, c)
    PROVE  AwaitInv'
<1>1. /\ AwaitType /\ DueQueued /\ AwaitHasResult
      /\ running = h /\ owner[c] = h /\ frame[c] = "initial" /\ handle_[h] # c
      /\ running' = NullHandle /\ UNCHANGED <<owner, outcome, misused>>
      /\ ready' = Append(ready, c)
  BY DEF AwaitInv, Await, Held
<1>2. \A x \in Handle :
         /\ Linked(x) /\ handle_[x] \in Handle \cup {NullHandle}
         /\ frame'[x] = IF x = h THEN "await" ELSE frame[x]
         /\ handle_'[x] = IF x = h THEN c ELSE handle_[x]
         /\ continuation'[x] = IF x = c THEN h ELSE continuation[x]
  BY <1>1 DEF AwaitInv, AwaitType, Await
<1>3. /\ frame[h] = "body" /\ handle_[h] = NullHandle /\ c # h
      /\ continuation[c] = NullHandle
  BY SMTT(30), <1>1, <1>2, HandleAssumption DEF Linked, AwaitType
<1>4. \A x \in Handle : x # h => handle_[x] # c
  BY SMTT(30), <1>1, <1>2, <1>3, HandleAssumption DEF Linked, AwaitType
<1>5. ASSUME NEW x \in Handle
      PROVE  Linked(x)'
  BY SMTT(30), <1>1, <1>2, <1>3, <1>4, HandleAssumption DEF Linked, AwaitType
<1>6. ~Due(c) /\ \A x \in Handle : Due(x)' <=> Due(x) \/ x = c
  BY SMTT(30), <1>1, <1>2, <1>3, <1>4, HandleAssumption
     DEF Due, Linked, AwaitType
<1>7. ready' \in Seq(Handle) /\ DueQueued'
  BY <1>1, <1>6, QueueFollows
<1>8. AwaitType'
  BY <1>1, <1>7 DEF AwaitType, Await
<1> QED  BY <1>1, <1>5, <1>7, <1>8 DEF AwaitInv, AwaitHasResult

(* A coroutine ends, with the logic_error of an empty task or otherwise:   *)
(* the tasks it holds go with it, and the one that awaits it is queued.    *)
LEMMA EndsKeeps ==
    ASSUME AwaitInv, NEW h \in Handle, FinalSuspend(h) \/ AwaitEmpty(h)
    PROVE  AwaitInv'
<1>1. PICK o \in {"value", "exception", "logic_error"} : Ends(h, o)
  BY DEF FinalSuspend, AwaitEmpty
<1>2. /\ AwaitType /\ DueQueued /\ AwaitHasResult
      /\ running = h /\ running' = NullHandle
      /\ UNCHANGED <<handle_, continuation, misused>>
      /\ ready' = IF continuation[h] = NullHandle THEN ready
                  ELSE Append(ready, continuation[h])
  BY <1>1 DEF AwaitInv, Ends
<1>3. frame[h] = "body" /\ handle_[h] = NullHandle
  BY <1>2, HandleAssumption DEF AwaitInv, Linked
<1>4. \A x \in Handle : x \in Held(h) <=> x # h /\ owner[x] = h
  BY SMTT(30), <1>2, <1>3, HandleAssumption
     DEF AwaitInv, Linked, Held, AwaitType
<1>5. \A x \in Handle :
         /\ Linked(x) /\ handle_[x] \in Handle \cup {NullHandle}
         /\ frame'[x] = IF x = h THEN "final"
                        ELSE IF owner[x] = h THEN "free" ELSE frame[x]
         /\ owner'[x] = IF x # h /\ owner[x] = h THEN NullHandle ELSE owner[x]
         /\ outcome'[x] = IF x = h THEN o ELSE outcome[x]
  BY <1>2, <1>1, <1>4 DEF AwaitInv, AwaitType, Ends
<1>6. \A x \in Handle : x # h /\ owner[x] = h =>
         /\ frame[x] = "initial" /\ continuation[x] = NullHandle /\ handle_[x] = NullHandle
         /\ \A y \in Handle : handle_[y] # x /\ owner[y] # x
  BY SMTT(30), <1>2, <1>3, <1>5, HandleAssumption DEF Linked, AwaitType
<1>7. ASSUME NEW x \in Handle
      PROVE  Linked(x)'
  BY SMTT(30), <1>2, <1>3, <1>5, <1>6, HandleAssumption DEF Linked, AwaitType
<1>8. /\ \A x \in Handle : Due(x)' <=> Due(x) \/ x = continuation[h]
      /\ continuation[h] # NullHandle =>
            continuation[h] \in Handle /\ ~Due(continuation[h])
  <2>0. PICK p \in Handle \cup {NullHandle} : p = continuation[h]
    BY <1>2 DEF AwaitType
  <2>1. p # NullHandle => /\ p \in Handle /\ p # h /\ handle_[p] = h
                    /\ frame[p] = "await" /\ owner[p] # h
    BY SMTT(30), <1>2, <1>3, <1>5, <1>6, <2>0, HandleAssumption
       DEF Linked, AwaitType
  <2>2. \A x \in Handle : handle_[x] = h => x = p
    BY SMTT(30), <1>5, <2>0, HandleAssumption DEF Linked
  <2>3. p # NullHandle => ~Due(p) /\ Due(p)'
    BY <1>2, <1>3, <1>5, <2>1 DEF Due
  <2>4. ASSUME NEW x \in Handle, x # p
        PROVE  Due(x)' <=> Due(x)
    <3>1. CASE x = h
      BY <1>3, <1>5, <3>1 DEF Due
    <3>2. CASE x # h /\ owner[x] = h
      BY <1>5, <1>6, <3>2 DEF Due
    <3>3. CASE x # h /\ owner[x] # h
      <4>1. /\ frame'[x] = frame[x] /\ owner'[x] = owner[x]
            /\ frame[x] = "await" =>
                  handle_[x] \in Handle /\ handle_[x] # h
        BY SMTT(30), <1>5, <2>2, <2>4, <3>3, HandleAssumption DEF Linked
      <4>2. frame[x] = "await" => ~(handle_[x] # h /\ owner[handle_[x]] = h)
        BY <1>6, <4>1
      <4>3. frame[x] = "await" => frame'[handle_[x]] = frame[handle_[x]]
        BY <1>5, <4>1, <4>2
      <4> QED  BY <1>2, <4>1, <4>3 DEF Due
    <3> QED  BY <3>1, <3>2, <3>3
  <2> QED  BY <2>0, <2>1, <2>3, <2>4, HandleAssumption
<1>9. ready' \in Seq(Handle) /\ DueQueued'
  <2>1. CASE continuation[h] = NullHandle
    BY <1>2, <1>8, <2>1, HandleAssumption, QueueFollows
  <2>2. CASE continuation[h] # NullHandle
    BY <1>2, <1>8, <2>2, QueueFollows
  <2> QED  BY <2>1, <2>2
<1>10. AwaitType'
  BY <1>2, <1>1, <1>9 DEF AwaitType, Ends
<1> QED  BY <1>2, <1>7, <1>9, <1>10 DEF AwaitInv, AwaitHasResult

(* resume() of the front of the queue: it starts, or takes the result of   *)
(* the child it awaited, whose frame goes.                                 *)
LEMMA RunNextKeeps ==
    ASSUME AwaitInv, RunNext
    PROVE  AwaitInv'
<1> DEFINE h == Head(ready)
           c == handle_[h]
           Back == frame[h] = "await"
<1>1. /\ AwaitType /\ DueQueued /\ AwaitHasResult /\ ready \in Seq(Handle)
      /\ running = NullHandle /\ ready # <<>> /\ ready' = Tail(ready) /\ running' = h
  BY DEF AwaitInv, AwaitType, RunNext, Resume
<1>2. h \in Handle /\ Due(h)
  BY <1>1, QueuePop DEF DueQueued
<1>3. /\ \A x \in Handle : Linked(x) /\ handle_[x] \in Handle \cup {NullHandle}
      /\ frame[h] \in {"initial", "await"}
      /\ Back => /\ c \in Handle /\ c # h
                 /\ frame[c] = "final" /\ outcome[c] # "none"
      /\ ~Back => c = NullHandle
  BY SMTT(30), <1>1, <1>2, HandleAssumption
     DEF AwaitInv, AwaitType, Due, Linked
<1>4. \A x \in Handle :
         /\ frame'[x] = IF x = h THEN "body"
                        ELSE IF Back /\ x = c THEN "free" ELSE frame[x]
         /\ owner'[x] = IF Back /\ x = c THEN NullHandle ELSE owner[x]
         /\ outcome'[x] = IF Back /\ x = c THEN "none" ELSE outcome[x]
         /\ continuation'[x] = IF Back /\ x = c THEN NullHandle ELSE continuation[x]
         /\ handle_'[x] = IF x = h THEN NullHandle ELSE handle_[x]
  BY <1>1, <1>2, <1>3, HandleAssumption
     DEF RunNext, Resume, Destroyed, AwaitType
<1>5. misused' = FALSE
  BY <1>1, <1>2, <1>3, HandleAssumption DEF RunNext, Resume, AwaitHasResult
<1>6. AwaitType' \/ ready' \notin Seq(Handle)
  <2> DEFINE done == IF frame[h] = "initial" \/ c = NullHandle THEN {} ELSE {c}
  <2>1. /\ frame' = [x \in Handle |-> IF x = h THEN "body"
                            ELSE IF x \in done THEN "free" ELSE frame[x]]
        /\ handle_' = [handle_ EXCEPT ![h] = NullHandle]
        /\ Destroyed(done)
    BY DEF RunNext, Resume
  <2> HIDE DEF done
  <2> QED  BY <1>1, <1>2, <2>1 DEF AwaitType, Destroyed
<1> HIDE DEF h, c
<1>7. Back => /\ handle_[c] = NullHandle /\ continuation[c] = h /\ owner[c] = h
              /\ \A x \in Handle : x # h => handle_[x] # c /\ owner[x] # c
  <2>1. Back => handle_[h] = c /\ c # NullHandle
    BY <1>3, HandleAssumption DEF c
  <2>2. Back => handle_[c] = NullHandle /\ continuation[c] = h /\ owner[c] = h
    BY SMTT(30), <1>2, <1>3, <2>1 DEF Linked
  <2>3. ASSUME Back, NEW x \in Handle, x # h
        PROVE  handle_[x] # c /\ owner[x] # c
    BY SMTT(30), <1>2, <1>3, <2>1, <2>2, <2>3 DEF Linked
  <2> QED  BY <2>2, <2>3
<1>8. ASSUME NEW x \in Handle
      PROVE  Linked(x)'
  <2>1. CASE x = h
    <3>1. owner[h] \notin {NullHandle, h} => handle_[owner[h]] = h
      BY SMTT(30), <1>1, <1>2, <1>3, HandleAssumption
         DEF Linked, Due, AwaitType
    <3> QED  BY SMTT(30), <1>1, <1>2, <1>3, <1>4, <1>7, <2>1, <3>1,
                HandleAssumption
                DEF Linked, AwaitType
  <2>2. CASE x # h /\ Back /\ x = c
    BY <1>1, <1>2, <1>3, <1>4, <1>7, <2>2, HandleAssumption
       DEF Linked, AwaitType
  <2>3. CASE x # h /\ ~(Back /\ x = c)
    BY SMTT(30), <1>1, <1>2, <1>3, <1>4, <1>7, <2>3, HandleAssumption
       DEF Linked, AwaitType
  <2> QED  BY <2>1, <2>2, <2>3
<1>9. \A x \in Handle : Due(x)' <=> Due(x) /\ x # h
  BY SMTT(30), <1>1, <1>2, <1>3, <1>4, <1>7, HandleAssumption
     DEF Due, Linked, AwaitType
<1>10. ready' \in Seq(Handle) /\ DueQueued'
  BY <1>1, <1>9, QueueFollows DEF h
<1> QED  BY <1>5, <1>6, <1>8, <1>10 DEF AwaitInv, AwaitHasResult

(* AwaitInv is inductive.                                                  *)
LEMMA AwaitStep ==
    ASSUME AwaitInv, [AwaitNext]_awaitVars
    PROVE  AwaitInv'
<1>1. ASSUME NEW h \in Handle, Spawn(h)
      PROVE  AwaitInv'
  BY <1>1, NewFrame DEF Spawn
<1>2. ASSUME NEW h \in Handle, NEW c \in Handle, Call(h, c)
      PROVE  AwaitInv'
  BY <1>2, NewFrame DEF Call
<1>3. ASSUME NEW h \in Handle, NEW c \in Handle, Drop(h, c)
      PROVE  AwaitInv'
  <2>1. /\ frame[h] = "body" /\ frame[c] = "initial"
        /\ owner[c] = h /\ handle_[h] # c
    BY <1>3 DEF Drop, Held, AwaitInv, Linked
  <2>2. owner[c] # c /\ continuation[c] = NullHandle
    BY SMTT(30), <2>1, HandleAssumption DEF AwaitInv, AwaitType, Linked
  <2> QED  BY <1>3, <2>1, <2>2, FreedFrame DEF Drop
<1>4. ASSUME NEW h \in Handle, Reap(h)
      PROVE  AwaitInv'
  BY <1>4, FreedFrame DEF Reap
<1>5. CASE UNCHANGED awaitVars
  BY SMTT(30), <1>5
     DEF AwaitInv, AwaitType, Linked, Due, DueQueued, NoRepeat, InQueue,
              AwaitHasResult, awaitVars
<1> QED  BY <1>1, <1>2, <1>3, <1>4, <1>5, AwaitKeeps, EndsKeeps,
            RunNextKeeps DEF AwaitNext

(* AwaitInv holds in every reachable state of the coroutines.              *)
LEMMA AwaitInvariant == AwaitSpec => []AwaitInv
BY AwaitStart, AwaitStep, PTL DEF AwaitSpec

(* A coroutine suspended in a co_await finds its child with a result, and  *)
(* resume() a suspended coroutine, for any number of coroutines and        *)
(* however they call, hold, drop and await each other.                     *)
THEOREM AwaitHasResultHolds == AwaitSpec => []AwaitHasResult
BY AwaitInvariant, PTL DEF AwaitInv

(* Task objects and awaiters own every coroutine frame, once, and destroy  *)
(* it with its owner, for any number of coroutines.                        *)
THEOREM FramesOwnedHolds == AwaitSpec => []FramesOwned
<1>1. AwaitInv => FramesOwned
  BY HandleAssumption DEF AwaitInv, AwaitType, Linked, FramesOwned
<1> QED  BY <1>1, AwaitInvariant, PTL

-----------------------------------------------------------------------------
(* The number of bytes flush has accounted for.                            *)
Flushed == IF queue = <<>> THEN accepted ELSE queue[1].start + front_offset

EndOf(c) == c.start + c.size

(* The buffers of the queue q are consecutive and end with byte n.         *)
Consecutive(q, n) ==
    /\ \A i \in 1..Len(q) : q[i].size > 0 /\ EndOf(q[i]) <= n
    /\ \A i \in 1..Len(q) : i + 1 <= Len(q) => q[i + 1].start = EndOf(q[i])
    /\ q # <<>> => EndOf(q[Len(q)]) = n

Writing == {"call", "try", "park", "wait", "woken", "answered"}
Unaccounted == IF pc = "answered" THEN written ELSE 0

Accounting ==
    /\ Consecutive(queue, accepted)
    /\ IF queue = <<>> THEN front_offset = 0 ELSE front_offset < queue[1].size
    /\ queued_bytes = accepted - Flushed
    /\ pc \in Writing => queue # <<>> /\ span = RemainingSpan
    /\ pc = "answered" => /\ written <= span.size
                          /\ op_error # Null => written = 0
    /\ Len(wire) = Flushed + Unaccounted
    /\ \A i \in 1..Len(wire) : wire[i] = i

MarksOrdered == marks.low <= marks.high

WriterInv == TypeOK /\ Accounting /\ MarksOrdered /\ Hysteresis /\ Bounded

-----------------------------------------------------------------------------
(* push_back of a buffer of n bytes.                                       *)
LEMMA AppendConsecutive ==
    ASSUME NEW q \in Seq(Chunk), NEW a \in Nat, NEW n \in Nat \ {0},
           Consecutive(q, a)
    PROVE  LET p == Append(q, [start |-> a, size |-> n])
           IN  /\ p \in Seq(Chunk) /\ p # <<>>
               /\ Consecutive(p, a + n)
               /\ p[1] = IF q = <<>> THEN [start |-> a, size |-> n] ELSE q[1]
<1> DEFINE c == [start |-> a, size |-> n]
           p == Append(q, c)
<1>0. c \in Chunk /\ c.start = a /\ c.size = n
  BY DEF Chunk
<1>1. /\ p \in Seq(Chunk) /\ Len(p) = Len(q) + 1 /\ Len(q) \in Nat
      /\ \A i \in 1..Len(q) : p[i] = q[i]
      /\ p[Len(q) + 1] = c
  BY SMTT(30), <1>0
<1>2. p # <<>> /\ (q = <<>> <=> Len(q) = 0)
  BY SMTT(30), <1>1
<1>3. \A i \in 1..Len(q) : q[i].start \in Nat /\ q[i].size \in Nat
  <2>1. \A i \in 1..Len(q) : q[i] \in Chunk
    BY SMTT(30)
  <2> QED  BY <2>1 DEF Chunk
<1> HIDE DEF p, c
<1>4. \A i \in 1..Len(p) : p[i].size > 0 /\ EndOf(p[i]) <= a + n
  BY SMTT(30), <1>0, <1>1, <1>3 DEF Consecutive, EndOf
<1>5. \A i \in 1..Len(p) : i + 1 <= Len(p) => p[i + 1].start = EndOf(p[i])
  <2>1. ASSUME NEW i \in 1..Len(p), i + 1 <= Len(p)
        PROVE  p[i + 1].start = EndOf(p[i])
    <3>1. CASE i + 1 <= Len(q)
      BY SMTT(30), <1>1, <2>1, <3>1 DEF Consecutive
    <3>2. CASE i = Len(q)
      BY SMTT(30), <1>0, <1>1, <1>2, <2>1, <3>2 DEF Consecutive
    <3> QED  BY SMTT(30), <1>1, <2>1, <3>1, <3>2
  <2> QED  BY <2>1
<1>6. EndOf(p[Len(p)]) = a + n
  BY <1>0, <1>1 DEF EndOf
<1>7. p[1] = IF q = <<>> THEN c ELSE q[1]
  BY SMTT(30), <1>1, <1>2
<1>8. Consecutive(p, a + n)
  BY <1>4, <1>5, <1>6 DEF Consecutive
<1> QED  BY <1>1, <1>2, <1>7, <1>8 DEF p, c

(* pop_front of a finished buffer: the next one starts where it ended.     *)
LEMMA TailConsecutive ==
    ASSUME NEW q \in Seq(Chunk), NEW a \in Nat, q # <<>>, Consecutive(q, a)
    PROVE  /\ Tail(q) \in Seq(Chunk)
           /\ Consecutive(Tail(q), a)
           /\ Tail(q) = <<>> => EndOf(q[1]) = a
           /\ Tail(q) # <<>> => Tail(q)[1].start = EndOf(q[1])
                                /\ Tail(q)[1].size > 0
<1> DEFINE p == Tail(q)
<1>1. /\ p \in Seq(Chunk) /\ Len(p) = Len(q) - 1 /\ Len(q) \in Nat \ {0}
      /\ \A i \in 1..Len(p) : p[i] = q[i + 1]
      /\ p = <<>> <=> Len(p) = 0
  <2>1. Len(q) \in Nat \ {0}
    BY SMTT(30)
  <2>2. p \in Seq(Chunk) /\ Len(p) = Len(q) - 1
    BY SMTT(30), <2>1
  <2>3. \A i \in 1..Len(p) : p[i] = q[i + 1]
    BY SMTT(30), <2>1
  <2>4. p = <<>> <=> Len(p) = 0
    BY SMTT(30), <2>2
  <2> QED  BY <2>1, <2>2, <2>3, <2>4
<1> HIDE DEF p
<1>2. \A i \in 1..Len(p) : p[i].size > 0 /\ EndOf(p[i]) <= a
  <2>1. \A i \in 1..Len(p) : i + 1 \in 1..Len(q)
    BY SMTT(30), <1>1
  <2> QED  BY <1>1, <2>1 DEF Consecutive
<1>3. \A i \in 1..Len(p) : i + 1 <= Len(p) => p[i + 1].start = EndOf(p[i])
  BY SMTT(30), <1>1 DEF Consecutive
<1>4. p # <<>> => EndOf(p[Len(p)]) = a
  BY SMTT(30), <1>1 DEF Consecutive
<1>5. p = <<>> => EndOf(q[1]) = a
  <2>1. p = <<>> => Len(q) = 1
    BY SMTT(30), <1>1
  <2> QED  BY <2>1 DEF Consecutive
<1>6. p # <<>> => p[1].start = EndOf(q[1]) /\ p[1].size > 0
  BY SMTT(30), <1>1, <1>2 DEF Consecutive
<1>7. Consecutive(p, a)
  BY <1>2, <1>3, <1>4 DEF Consecutive
<1> QED  BY <1>1, <1>5, <1>6, <1>7 DEF p

(* The byte after the accounted ones is in the front buffer.               *)
LEMMA FrontFacts ==
    ASSUME TypeOK, Accounting, queue # <<>>
    PROVE  /\ Head(queue) = queue[1] /\ queue[1] \in Chunk
           /\ queue[1].start \in Nat /\ queue[1].size \in Nat
           /\ front_offset < queue[1].size
           /\ EndOf(queue[1]) <= accepted
           /\ Flushed = queue[1].start + front_offset
           /\ RemainingSpan = [start |-> Flushed,
                               size |-> queue[1].size - front_offset]
           /\ queued_bytes > 0
<1>1. Len(queue) \in Nat \ {0} /\ Head(queue) = queue[1] /\ queue[1] \in Chunk
  BY SMTT(30) DEF TypeOK
<1>2. queue[1].start \in Nat /\ queue[1].size \in Nat
  BY <1>1 DEF Chunk
<1>3. front_offset < queue[1].size /\ EndOf(queue[1]) <= accepted
  BY SMTT(30), <1>1 DEF Accounting, Consecutive
<1> QED  BY SMTT(30), <1>1, <1>2, <1>3
         DEF TypeOK, Accounting, Flushed, RemainingSpan, EndOf

-----------------------------------------------------------------------------
(* Timer arithmetic stays in the naturals.                                 *)
LEMMA TicksNat ==
    ASSUME NEW n \in Nat
    PROVE  n * TicksPerMs \in Nat /\ n \div TicksPerMs \in Nat
BY SMTT(30), WriterAssumption

(* The slices of flush and of the timed write are natural numbers of       *)
(* milliseconds.                                                           *)
LEMMA SliceNat ==
    ASSUME NEW n \in Nat, NEW m \in Nat
    PROVE  Slice(n, m) \in Nat
<1>1. n \div TicksPerMs \in Nat
  BY TicksNat
<1> QED  BY <1>1 DEF Slice

(* The bytes a write of n bytes of the span puts on the wire.              *)
LEMMA SendAppends ==
    ASSUME NEW w \in Seq(Nat), NEW s \in Chunk, NEW n \in Nat,
           s.start = Len(w), \A i \in 1..Len(w) : w[i] = i
    PROVE  /\ w \o Sent(s, n) \in Seq(Nat)
           /\ Len(w \o Sent(s, n)) = Len(w) + n
           /\ \A i \in 1..Len(w \o Sent(s, n)) : (w \o Sent(s, n))[i] = i
<1> DEFINE t == Sent(s, n)
<1>1. s.start \in Nat /\ Len(w) \in Nat
  BY DEF Chunk
<1>2. t \in Seq(Nat) /\ Len(t) = n /\ \A i \in 1..n : t[i] = s.start + i
  BY SMTT(30), <1>1 DEF Sent
<1> HIDE DEF t
<1>3. /\ w \o t \in Seq(Nat) /\ Len(w \o t) = Len(w) + Len(t)
      /\ \A i \in 1..Len(w) + Len(t) : (w \o t)[i] =
            IF i <= Len(w) THEN w[i] ELSE t[i - Len(w)]
  BY SMTT(30), <1>2
<1>4. ASSUME NEW i \in 1..Len(w \o t)
      PROVE  (w \o t)[i] = i
  <2>1. CASE i <= Len(w)
    BY SMTT(30), <1>1, <1>3, <1>4, <2>1
  <2>2. CASE i > Len(w)
    <3>1. i - Len(w) \in 1..n
      BY SMTT(30), <1>1, <1>2, <1>3, <1>4, <2>2
    <3>2. (w \o t)[i] = s.start + (i - Len(w))
      BY SMTT(30), <1>1, <1>2, <1>3, <1>4, <2>2, <3>1
    <3> QED  BY SMTT(30), <1>1, <3>2
  <2> QED  BY SMTT(30), <1>1, <1>2, <1>3, <1>4, <2>1, <2>2
<1> QED  BY <1>2, <1>3, <1>4 DEF t

(* A step that touches neither the writer nor the wire, and does not make  *)
(* or finish a write.                                                      *)
LEMMA WriterFrame ==
    ASSUME WriterInv, TypeOK',
           UNCHANGED <<writerVars, wire, accepted, span, written>>,
           pc # "answered", pc' # "answered", pc' \in Writing => pc \in Writing
    PROVE  WriterInv'
<1> USE DEF writerVars
<1>1. Accounting'
  BY DEF WriterInv, Accounting, Flushed, Unaccounted, RemainingSpan,
         Consecutive, EndOf
<1> QED  BY <1>1 DEF WriterInv, MarksOrdered, Hysteresis, Bounded

(* Accepting a buffer in enqueue_owned keeps WriterInv.                    *)
LEMMA EnqueueInv ==
    ASSUME WriterInv, NEW n \in 1..MaxChunk, Enqueue(n)
    PROVE  WriterInv'
<1> USE DEF timerVars, opVars, callVars, streamVars
<1>1. /\ queued_bytes' = queued_bytes + n /\ accepted' = accepted + n
      /\ queue' = Append(queue, [start |-> accepted, size |-> n])
      /\ high_watermark_active' =
            (high_watermark_active \/ queued_bytes' >= marks.high)
      /\ UNCHANGED <<marks, front_offset, pc, span, written, op_error, wire>>
      /\ ~(high_watermark_active /\ queued_bytes >= marks.low)
  BY DEF Enqueue, MayEnqueue
<1>2. /\ n \in Nat \ {0} /\ n <= MaxChunk /\ MaxChunk \in Nat /\ accepted \in Nat
      /\ queued_bytes \in Nat /\ marks.low \in Nat /\ marks.high \in Nat
      /\ high_watermark_active \in BOOLEAN /\ queue \in Seq(Chunk)
  BY SMTT(30), WriterAssumption DEF WriterInv, TypeOK
<1>3. /\ queue' \in Seq(Chunk) /\ queue' # <<>>
      /\ Consecutive(queue', accepted + n)
      /\ queue'[1] = IF queue = <<>> THEN [start |-> accepted, size |-> n]
                     ELSE queue[1]
  BY <1>1, <1>2, AppendConsecutive DEF WriterInv, Accounting
<1>4. TypeOK'
  BY SMTT(30), <1>1, <1>2, <1>3 DEF Enqueue, WriterInv, TypeOK
<1>5. /\ Flushed' = Flushed
      /\ front_offset' < queue'[1].size
      /\ queue # <<>> => Head(queue') = Head(queue)
  <2>1. CASE queue = <<>>
    BY SMTT(30), <1>1, <1>2, <1>3, <2>1 DEF Flushed, WriterInv, Accounting
  <2>2. CASE queue # <<>>
    <3>1. Head(queue') = queue'[1] /\ Head(queue) = queue[1]
      BY SMTT(30), <1>2, <1>3, <2>2
    <3> QED  BY <1>1, <1>2, <1>3, <2>2, <3>1
             DEF Flushed, WriterInv, Accounting
  <2> QED  BY <2>1, <2>2
<1>6. Flushed \in Nat
  <2>1. CASE queue = <<>>
    BY <1>2, <2>1 DEF Flushed
  <2>2. CASE queue # <<>>
    BY SMTT(30), <2>2, FrontFacts DEF WriterInv, TypeOK
  <2> QED  BY <2>1, <2>2
<1>7. Accounting'
  <2>1. queued_bytes' = accepted' - Flushed'
    BY SMTT(30), <1>1, <1>2, <1>5, <1>6 DEF WriterInv, Accounting
  <2>2. pc' \in Writing => queue' # <<>> /\ span' = RemainingSpan'
    BY <1>1, <1>3, <1>5 DEF WriterInv, Accounting, RemainingSpan
  <2>3. pc' = "answered" => /\ written' <= span'.size
                            /\ op_error' # Null => written' = 0
    BY <1>1 DEF WriterInv, Accounting
  <2>4. Len(wire') = Flushed' + Unaccounted'
    BY <1>1, <1>5 DEF WriterInv, Accounting, Unaccounted
  <2>5. \A i \in 1..Len(wire') : wire'[i] = i
    BY <1>1 DEF WriterInv, Accounting
  <2>6. Consecutive(queue, accepted)'
    BY <1>1, <1>3 DEF Consecutive, EndOf
  <2> QED  BY <1>3, <1>5, <2>1, <2>2, <2>3, <2>4, <2>5, <2>6 DEF Accounting
<1>8. ~high_watermark_active
  BY <1>1 DEF WriterInv, Hysteresis
<1>9. queued_bytes <= marks.high /\ marks.low <= marks.high
  BY SMTT(30), <1>2, <1>8 DEF WriterInv, Hysteresis, MarksOrdered
<1>10. Hysteresis' /\ MarksOrdered'
  <2>1. high_watermark_active' <=> queued_bytes' >= marks.high
    BY <1>1, <1>8, Zenon
  <2>2. MarksOrdered' /\ marks' = marks /\ queued_bytes' \in Nat
    BY SMTT(30), <1>1, <1>2, <1>9 DEF MarksOrdered
  <2> QED  BY SMTT(30), <1>2, <1>9, <2>1, <2>2 DEF Hysteresis
<1>11. Bounded'
  BY SMTT(30), <1>1, <1>2, <1>9 DEF Bounded
<1> QED  BY <1>4, <1>7, <1>10, <1>11 DEF WriterInv

(* WriteTry is the only step that puts bytes on the wire: the next ones.   *)
LEMMA WriteTryInv ==
    ASSUME WriterInv, WriteTry
    PROVE  WriterInv'
<1> USE DEF writerVars, timerVars, callVars
<1>0. /\ UNCHANGED <<marks, queue, front_offset, queued_bytes, accepted, span,
                     high_watermark_active>>
      /\ pc \in Writing /\ pc # "answered" /\ pc' \in Writing
      /\ TypeOK /\ Accounting
  BY DEF WriteTry, Answer, WriterInv, Writing
<1>1. /\ queue # <<>> /\ span = RemainingSpan /\ span \in Chunk
      /\ span.size \in Nat /\ span.size > 0 /\ Flushed \in Nat
      /\ span.start = Flushed /\ Len(wire) = Flushed
  <2>1. queue # <<>> /\ span = RemainingSpan /\ Len(wire) = Flushed + 0
    BY <1>0 DEF Accounting, Unaccounted
  <2>2. Flushed \in Nat
    BY SMTT(30), <1>0, <2>1, FrontFacts DEF TypeOK
  <2> QED  BY SMTT(30), <1>0, <2>1, <2>2, FrontFacts DEF TypeOK, Chunk
<1>2. /\ UNCHANGED <<Flushed, RemainingSpan>>
      /\ Consecutive(queue, accepted)'
      /\ IF queue' = <<>> THEN front_offset' = 0
         ELSE front_offset' < queue'[1].size
      /\ queued_bytes' = accepted' - Flushed'
  BY <1>0 DEF Flushed, RemainingSpan, Accounting, Consecutive, EndOf
<1>3. Hysteresis' /\ Bounded' /\ MarksOrdered'
  BY <1>0 DEF WriterInv, Hysteresis, Bounded, MarksOrdered
<1>4. Fits \in Nat /\ Fits <= span.size /\ Fits <= room
  BY SMTT(30), <1>0, <1>1 DEF Fits, TypeOK
<1>5. CASE wire' = wire /\ room' = room /\ (pc' = "answered" => written' = 0)
  <2>1. TypeOK'
    <3>1. Slice(op_left, WaitSlice) \in Nat
      BY <1>0, SliceNat, WriterAssumption DEF TypeOK
    <3>2. /\ pc' \in {"answered", "park"}
          /\ slice' \in {slice, Slice(op_left, WaitSlice)}
          /\ written' \in {0, Fits, written}
          /\ op_error' \in {"ECANCELED", "EPIPE", "ETIMEDOUT", Null, op_error}
      BY DEF WriteTry, Answer
    <3>3. /\ pc' \in Location /\ slice' \in Nat /\ written' \in Nat
          /\ op_error' \in Error \cup {Null}
      BY SMTT(30), <1>0, <1>4, <3>1, <3>2 DEF TypeOK, Location, Error
    <3> QED  BY <1>0, <1>5, <3>3 DEF WriteTry, TypeOK
  <2>2. Unaccounted' = 0
    BY <1>5 DEF Unaccounted
  <2>3. Accounting'
    BY SMTT(30), <1>0, <1>1, <1>2, <1>5, <2>2 DEF Accounting
  <2> QED  BY <1>3, <2>1, <2>3 DEF WriterInv
<1>6. CASE /\ Answer(Fits, Null)
           /\ wire' = wire \o Sent(span, Fits)
           /\ room' = room - Fits
  <2>1. /\ wire' \in Seq(Nat) /\ Len(wire') = Len(wire) + Fits
        /\ \A i \in 1..Len(wire') : wire'[i] = i
    BY <1>0, <1>1, <1>4, <1>6, SendAppends DEF TypeOK, Accounting
  <2>2. TypeOK'
    <3>1. pc' \in Location /\ written' = Fits /\ op_error' = Null /\ slice' = slice
      BY <1>6 DEF Answer, Location
    <3>2. room' \in Nat
      BY SMTT(30), <1>0, <1>4, <1>6 DEF TypeOK
    <3> QED  BY <1>0, <1>4, <2>1, <3>1, <3>2 DEF WriteTry, TypeOK
  <2>3. /\ pc' = "answered" /\ written' = Fits /\ Unaccounted' = Fits
        /\ op_error' = Null
    BY <1>6 DEF Answer, Unaccounted
  <2>4. Accounting'
    BY <1>0, <1>1, <1>2, <1>4, <2>1, <2>3 DEF Accounting
  <2> QED  BY <1>3, <2>2, <2>4 DEF WriterInv
<1> QED  BY <1>5, <1>6 DEF WriteTry, Answer

(* flush accounts for what its write reported.                             *)
LEMMA ResumeInv ==
    ASSUME WriterInv, FlushResume
    PROVE  WriterInv'
<1> USE DEF timerVars, opVars, streamVars
<1>0. /\ UNCHANGED <<marks, accepted, span, written, wire>>
      /\ pc = "answered" /\ TypeOK /\ Accounting /\ queue # <<>>
      /\ span = RemainingSpan
  BY DEF FlushResume, WriterInv, Accounting, Writing
<1>h. /\ Head(queue) = queue[1] /\ queue[1] \in Chunk
      /\ Len(wire) = Flushed + written
  BY <1>0, FrontFacts DEF Accounting, Unaccounted
<1>1. PICK a \in Nat, z \in Nat, o \in Nat, n \in Nat :
         /\ a = queue[1].start /\ z = queue[1].size
         /\ o = front_offset /\ n = written
         /\ o < z /\ o + n <= z /\ a + z <= accepted
         /\ Flushed = a + o /\ queued_bytes = accepted - (a + o)
  <2>1. /\ queue[1].start \in Nat /\ queue[1].size \in Nat
        /\ front_offset < queue[1].size
        /\ queue[1].start + queue[1].size <= accepted
        /\ Flushed = queue[1].start + front_offset
        /\ span.size = queue[1].size - front_offset
    BY SMTT(30), <1>0, FrontFacts DEF EndOf
  <2>2. written \in Nat /\ written <= span.size /\ front_offset \in Nat
    BY <1>0 DEF Accounting, TypeOK
  <2>3. front_offset + written <= queue[1].size
    BY SMTT(30), <2>1, <2>2
  <2>4. queued_bytes = accepted - Flushed
    BY <1>0 DEF Accounting
  <2> QED  BY <2>1, <2>2, <2>3, <2>4
<1>n. accepted \in Nat /\ marks.low \in Nat /\ marks.high \in Nat
  BY <1>0 DEF TypeOK
<1>2. pc' \in Location \ Writing /\ result' \in Error \cup {"ok", Null}
  BY <1>0 DEF FlushResume, Return, TypeOK, Location, Busy, Writing, Error
<1>3. Unaccounted' = 0
  BY <1>2 DEF Unaccounted, Writing
<1>4. CASE op_error # Null \/ written = 0
  <2>1. UNCHANGED <<queue, front_offset, queued_bytes, high_watermark_active>>
    BY <1>4 DEF FlushResume
  <2>2. TypeOK'
    BY <1>0, <1>2, <2>1 DEF FlushResume, TypeOK
  <2>3. written = 0
    BY <1>0, <1>4 DEF Accounting
  <2>4. Accounting'
    BY <1>0, <1>2, <1>3, <2>1, <2>3
       DEF Accounting, Flushed, Unaccounted, Consecutive, EndOf
  <2> QED  BY <1>0, <2>1, <2>2, <2>4
           DEF WriterInv, Hysteresis, Bounded, MarksOrdered
<1>5. CASE ~(op_error # Null \/ written = 0)
  <2>1. /\ queued_bytes' = queued_bytes - n
        /\ high_watermark_active' =
              (high_watermark_active /\ ~(queued_bytes' <= marks.low))
        /\ o + n = z => queue' = Tail(queue) /\ front_offset' = 0
        /\ o + n # z => queue' = queue /\ front_offset' = o + n
    BY <1>h, <1>1, <1>5 DEF FlushResume, Drained, OffsetAfter, HighAfter
  <2>2. /\ queue' \in Seq(Chunk) /\ Consecutive(queue', accepted)
        /\ Flushed' = a + o + n
        /\ IF queue' = <<>> THEN front_offset' = 0
           ELSE front_offset' < queue'[1].size
    <3>1. CASE o + n = z
      <4>1. /\ Tail(queue) \in Seq(Chunk) /\ Consecutive(Tail(queue), accepted)
            /\ Tail(queue) = <<>> => a + z = accepted
            /\ Tail(queue) # <<>> => /\ Tail(queue)[1].start = a + z
                                     /\ Tail(queue)[1].size > 0
        BY <1>0, <1>1, TailConsecutive
           DEF TypeOK, Accounting, EndOf
      <4>2. a + o + n = a + z /\ (a + z) + 0 = a + z
        BY SMTT(30), <3>1
      <4>3. Flushed' = a + z
        BY <1>0, <2>1, <3>1, <4>1, <4>2 DEF Flushed
      <4> QED  BY <2>1, <3>1, <4>1, <4>2, <4>3
    <3>2. CASE o + n # z
      <4>1. queue \in Seq(Chunk) /\ Consecutive(queue, accepted)
        BY <1>0 DEF TypeOK, Accounting
      <4>2. o + n < z /\ a + (o + n) = a + o + n
        BY SMTT(30), <1>1, <3>2
      <4>3. Flushed' = a + (o + n)
        BY <1>0, <1>1, <2>1, <3>2 DEF Flushed
      <4> QED  BY <1>0, <1>1, <2>1, <3>2, <4>1, <4>2, <4>3
    <3> QED  BY <3>1, <3>2
  <2>3. /\ queued_bytes' \in Nat /\ queued_bytes' <= queued_bytes
        /\ queued_bytes \in Nat /\ queued_bytes' = accepted - (a + o + n)
    <3>1. o + n <= z /\ a + z <= accepted /\ queued_bytes = accepted - (a + o)
      BY <1>1
    <3>2. queued_bytes' = queued_bytes - n
      BY <2>1
    <3> QED  BY SMTT(30), <1>n, <3>1, <3>2
  <2>4. TypeOK'
    <3>1. front_offset' \in Nat /\ high_watermark_active' \in BOOLEAN
      BY SMTT(30), <1>1, <2>1
    <3> QED  BY <1>0, <1>2, <2>2, <2>3, <3>1 DEF FlushResume, TypeOK
  <2>5. Accounting'
    <3>1. Consecutive(queue, accepted)'
      BY <1>0, <2>2 DEF Consecutive, EndOf
    <3>2. Len(wire') = Flushed' + Unaccounted'
      BY SMTT(30), <1>0, <1>h, <1>1, <1>3, <2>2
    <3>3. queued_bytes' = accepted' - Flushed'
      BY <1>0, <2>2, <2>3
    <3> QED  BY <1>0, <1>2, <2>2, <3>1, <3>2, <3>3 DEF Accounting, Writing
  <2>6. Hysteresis'
    <3>1. /\ high_watermark_active' => ~(queued_bytes' <= marks.low)
          /\ ~high_watermark_active' => \/ ~high_watermark_active
                                        \/ queued_bytes' <= marks.low
      BY <2>1, Zenon
    <3>2. ~high_watermark_active => \/ queued_bytes < marks.high
                                    \/ queued_bytes <= marks.low
      BY DEF WriterInv, Hysteresis
    <3> QED  BY SMTT(30), <1>0, <1>n, <2>3, <3>1, <3>2 DEF Hysteresis
  <2>7. Bounded' /\ MarksOrdered'
    <3>1. queued_bytes <= marks.high + MaxChunk /\ marks.low <= marks.high
      BY DEF WriterInv, Bounded, MarksOrdered
    <3> QED  BY SMTT(30), <1>0, <1>n, <2>3, <3>1, WriterAssumption
             DEF Bounded, MarksOrdered
  <2> QED  BY <2>4, <2>5, <2>6, <2>7 DEF WriterInv
<1> QED  BY <1>4, <1>5

-----------------------------------------------------------------------------
(* Construction: the repaired watermarks are ordered and positive.         *)
LEMMA WriterInit ==
    Init => WriterInv
<1> SUFFICES ASSUME Init
             PROVE  WriterInv
  OBVIOUS
<1>1. PICK l \in Nat, h \in Nat : marks = Repaired(l, h)
  BY MarkAssumption DEF Init
<1>2. /\ marks \in [low : Nat \ {0}, high : Nat \ {0}]
      /\ marks.low <= marks.high /\ marks.high \in Nat /\ marks.low \in Nat
  BY SMTT(30), <1>1 DEF Repaired
<1>3. <<>> \in Seq(Chunk) /\ <<>> \in Seq(Nat) /\ Len(<<>>) = 0
  BY SMTT(30)
<1>4. TypeOK
  BY <1>2, <1>3, WriterAssumption DEF Init, TypeOK, Location, Chunk
<1>5. Accounting
  BY SMTT(30), <1>3
     DEF Init, Accounting, Consecutive, Flushed, Unaccounted, Writing
<1>6. Hysteresis /\ Bounded /\ MarksOrdered
  BY SMTT(30), <1>2, WriterAssumption
     DEF Init, Hysteresis, Bounded, MarksOrdered
<1> QED  BY <1>4, <1>5, <1>6 DEF WriterInv

(* One turn of flush asks for the rest of the front buffer.                *)
LEMMA LoopInv ==
    ASSUME WriterInv, FlushLoop
    PROVE  WriterInv'
<1> USE DEF writerVars, timerVars, streamVars
<1>0. /\ UNCHANGED <<writerVars, wire, accepted, written>>
      /\ pc = "loop" /\ TypeOK /\ Accounting
  BY DEF FlushLoop, WriterInv
<1>1. CASE queued_bytes = 0 \/ cancelled \/ flush_left = 0
  <2>1. /\ pc' \in {"flushed", "idle"} /\ UNCHANGED <<slice, span>>
        /\ result' \in {"ok", "ECANCELED", "ETIMEDOUT"}
    BY <1>1 DEF FlushLoop, Return
  <2>2. TypeOK'
    BY SMTT(30), <1>0, <2>1 DEF FlushLoop, TypeOK, Location, Error
  <2> QED  BY <1>0, <2>1, <2>2, WriterFrame DEF Writing
<1>2. CASE ~(queued_bytes = 0 \/ cancelled \/ flush_left = 0)
  <2>1. /\ pc' = "call" /\ span' = RemainingSpan /\ result' = result
        /\ slice' = Slice(flush_left, FlushSlice)
    BY <1>2 DEF FlushLoop
  <2>2. queue # <<>>
    BY SMTT(30), <1>0, <1>2 DEF Accounting, Flushed, TypeOK
  <2>3. RemainingSpan \in Chunk
    <3>1. /\ queue[1].start \in Nat /\ queue[1].size \in Nat
          /\ front_offset < queue[1].size /\ front_offset \in Nat
          /\ Head(queue) = queue[1]
      BY <1>0, <2>2, FrontFacts DEF TypeOK
    <3>2. /\ queue[1].start + front_offset \in Nat
          /\ queue[1].size - front_offset \in Nat
      BY SMTT(30), <3>1
    <3> QED  BY <3>1, <3>2 DEF RemainingSpan, Chunk
  <2>4. Slice(flush_left, FlushSlice) \in Nat
    BY <1>0, SliceNat, WriterAssumption DEF TypeOK
  <2>5. TypeOK'
    BY <1>0, <2>1, <2>3, <2>4 DEF FlushLoop, TypeOK, Location
  <2>6. Accounting'
    BY <1>0, <2>1, <2>2
       DEF Accounting, Flushed, Unaccounted, RemainingSpan, Consecutive, EndOf
  <2> QED  BY <1>0, <2>5, <2>6
           DEF WriterInv, Hysteresis, Bounded, MarksOrdered
<1> QED  BY <1>1, <1>2

(* Every step of the writer, its callers, the peer and the clock keeps     *)
(* WriterInv.                                                              *)
LEMMA WriterNext ==
    WriterInv /\ [Next]_vars => WriterInv'
<1> SUFFICES ASSUME WriterInv, [Next]_vars
             PROVE  WriterInv'
  OBVIOUS
<1> USE DEF writerVars, timerVars, opVars, callVars, streamVars
<1>0. TypeOK
  BY DEF WriterInv
<1>1. ASSUME NEW n \in 1..MaxChunk, Enqueue(n)
      PROVE  WriterInv'
  BY <1>1, EnqueueInv
<1>2. ASSUME NEW t \in Timeout, NEW g \in BOOLEAN, FlushStart(t, g)
      PROVE  WriterInv'
  <2>1. t >= 0 => t * TicksPerMs \in Nat
    BY SMTT(30), TicksNat, TimeoutAssumption
  <2>2. TypeOK'
    <3>1. flush_left' \in Nat
      BY SMTT(30), <1>0, <1>2, <2>1, TimeoutAssumption DEF FlushStart, TypeOK
    <3>2. /\ pc' \in {"loop", "flushed", "idle"}
          /\ result' \in {"EINVAL", Null}
          /\ graceful' \in BOOLEAN /\ cancelled' \in BOOLEAN
      BY <1>2 DEF FlushStart, Return
    <3> QED  BY <1>0, <1>2, <3>1, <3>2
             DEF FlushStart, TypeOK, Location, Busy, Error
  <2> QED  BY <1>2, <2>2, WriterFrame DEF FlushStart, Return, Writing
<1>3. CASE FlushLoop
  BY <1>3, LoopInv
<1>4. CASE WriteStart
  <2>1. slice * TicksPerMs \in Nat
    BY <1>0, TicksNat DEF TypeOK
  <2>2. TypeOK'
    BY <1>0, <1>4, <2>1 DEF WriteStart, TypeOK, Location, Busy
  <2> QED  BY <1>4, <2>2, WriterFrame DEF WriteStart, Writing
<1>5. CASE WriteTry
  BY <1>5, WriteTryInv
<1>6. CASE WaitArm
  <2>1. slice * TicksPerMs \in Nat
    BY <1>0, TicksNat DEF TypeOK
  <2>2. TypeOK'
    BY SMTT(30), <1>0, <1>6, <2>1 DEF WaitArm, Answer, TypeOK, Location, Error
  <2>3. CASE pc' = "wait"
    BY <1>6, <2>2, <2>3, WriterFrame DEF WaitArm, Answer, Writing
  <2>4. CASE pc' = "answered"
    <3>1. /\ written' = 0 /\ pc = "park"
          /\ UNCHANGED <<writerVars, wire, accepted, span>>
      BY <1>6, <2>4 DEF WaitArm, Answer
    <3>2. span.size \in Nat
      BY <1>0 DEF TypeOK, Chunk
    <3>3. Accounting'
      BY SMTT(30), <2>4, <3>1, <3>2
         DEF WriterInv, Accounting, Flushed, Unaccounted, RemainingSpan,
             Consecutive, EndOf, Writing
    <3> QED  BY <2>2, <3>1, <3>3
             DEF WriterInv, Hysteresis, Bounded, MarksOrdered
  <2> QED  BY <1>6, <2>3, <2>4 DEF WaitArm, Answer
<1>7. CASE WaitOver
  <2>1. TypeOK'
    BY <1>0, <1>7 DEF WaitOver, TypeOK, Location
  <2> QED  BY <1>7, <2>1, WriterFrame DEF WaitOver, Writing
<1>8. CASE FlushResume
  BY <1>8, ResumeInv
<1>9. CASE Shutdown
  <2>1. TypeOK'
    BY <1>0, <1>9 DEF Shutdown, TypeOK, Location, Error
  <2> QED  BY <1>9, <2>1, WriterFrame DEF Shutdown, Writing
<1>10. CASE Cancel \/ PeerReads \/ PeerResets \/ Tick \/ UNCHANGED vars
  <2>1. UNCHANGED <<writerVars, wire, accepted, span, written, op_error, pc>>
    BY <1>10 DEF Cancel, PeerReads, PeerResets, Tick, vars
  <2>2. TypeOK'
    <3>1. CASE Cancel \/ UNCHANGED vars
      BY <1>0, <3>1 DEF Cancel, vars, TypeOK
    <3>2. CASE PeerReads \/ PeerResets
      <4>1. room' = room + 1 \/ room' = room
        BY <3>2 DEF PeerReads, PeerResets
      <4>2. reset' = TRUE \/ reset' = reset
        BY <3>2, Zenon DEF PeerReads, PeerResets
      <4>3. room' \in Nat
        BY SMTT(30), <1>0, <4>1 DEF TypeOK
      <4>4. reset' \in BOOLEAN
        BY <1>0, <4>2, Zenon DEF TypeOK
      <4> QED  BY <1>0, <3>2, <4>3, <4>4 DEF PeerReads, PeerResets, TypeOK
    <3>3. CASE Tick
      <4>1. flush_left' \in Nat /\ op_left' \in Nat /\ wait_left' \in Nat
        BY SMTT(30), <1>0, <3>3 DEF Tick, Elapsed, TypeOK
      <4> QED  BY <1>0, <3>3, <4>1 DEF Tick, TypeOK
    <3> QED  BY <1>10, <3>1, <3>2, <3>3
  <2>3. Accounting'
    BY <2>1 DEF WriterInv, Accounting, Flushed, Unaccounted, RemainingSpan,
                Consecutive, EndOf
  <2> QED  BY <2>1, <2>2, <2>3 DEF WriterInv, Hysteresis, Bounded, MarksOrdered
<1> QED  BY <1>1, <1>2, <1>3, <1>4, <1>5, <1>6, <1>7, <1>8, <1>9, <1>10
         DEF Next, FlushStep

-----------------------------------------------------------------------------
(* What flush has put on the wire is a prefix of what enqueue accepted, in *)
(* order and without loss or repetition, and queued_bytes_ counts the rest,*)
(* whatever the timeouts, cancellations and partial writes.                *)
THEOREM WriterCorrect == Spec => [](TypeOK /\ SentInOrder /\ QueuedExact)
<1>1. WriterInv => TypeOK /\ SentInOrder /\ QueuedExact
  <2> SUFFICES ASSUME WriterInv
               PROVE  TypeOK /\ SentInOrder /\ QueuedExact
    OBVIOUS
  <2>1. TypeOK /\ Accounting
    BY DEF WriterInv
  <2>2. Flushed \in Nat /\ Unaccounted \in Nat /\ Flushed + Unaccounted <= accepted
    <3>1. CASE queue = <<>>
      BY SMTT(30), <2>1, <3>1
         DEF Flushed, Unaccounted, Accounting, Writing, TypeOK
    <3>2. CASE queue # <<>>
      <4>1. PICK a \in Nat, z \in Nat, o \in Nat :
               /\ a + z <= accepted /\ o < z /\ Flushed = a + o
               /\ RemainingSpan = [start |-> a + o, size |-> z - o]
        BY <2>1, <3>2, FrontFacts DEF EndOf, TypeOK
      <4>2. Unaccounted \in Nat /\ Unaccounted <= z - o
        BY SMTT(30), <2>1, <4>1 DEF Unaccounted, Accounting, Writing, TypeOK
      <4>3. accepted \in Nat
        BY <2>1 DEF TypeOK
      <4> QED  BY SMTT(30), <4>1, <4>2, <4>3
    <3> QED  BY <3>1, <3>2
  <2>3. Len(wire) = Flushed + Unaccounted /\ queued_bytes = accepted - Flushed
    BY <2>1 DEF Accounting
  <2>4. SentInOrder
    BY <2>1, <2>2, <2>3 DEF SentInOrder, Accounting
  <2>5. queued_bytes = accepted - Len(wire) + Unaccounted
    BY SMTT(30), <2>1, <2>2, <2>3 DEF TypeOK
  <2> QED  BY <2>1, <2>4, <2>5 DEF QueuedExact, Unaccounted
<1> QED  BY <1>1, WriterInit, WriterNext, PTL DEF Spec

(* Backpressure switches on and off with hysteresis and bounds the queue   *)
(* to the high watermark and one buffer, for every pair of watermarks.     *)
THEOREM BackpressureCorrect == Spec => [](Hysteresis /\ Bounded)
<1>1. WriterInv => Hysteresis /\ Bounded
  BY DEF WriterInv
<1> QED  BY <1>1, WriterInit, WriterNext, PTL DEF Spec

-----------------------------------------------------------------------------
(* The echo benchmarks.                                                    *)
Messages == {"none", "connect", "send", "receive", "run", "mismatch",
             "accept", "read", "write"}
EchoType ==
    /\ at \in {"connect", "connected", "send", "sent", "receive", "received",
               "close", "stop", "join", "failure", "success"}
    /\ conn \in Client /\ round \in 1..Iterations
    /\ failed \in BOOLEAN /\ faulted \in BOOLEAN
    /\ message \in Messages /\ saying \in [Threads -> Messages]
    /\ backlog \in Seq(Client)
    /\ req \in [Client -> Nat] /\ resp \in [Client -> Nat]
    /\ echoed \in [Client -> Nat]
    /\ ses \in [Client -> {"none", "top", "read", "write", "done"}]
    /\ accepted_count \in Nat
    /\ server \in {"starting", "running", "ended", "broken"}

(* Who knows of a failure: the flag or the runtime thread has it when a    *)
(* call failed, and a set flag has its message or a thread about to store  *)
(* one, which is main() or a thread that still runs.                       *)
Silent(t) == saying[t] = "none"
Flags ==
    /\ faulted <=> failed \/ server = "broken"
    /\ ~failed => message = "none" /\ \A t \in Threads : Silent(t)
    /\ failed => message # "none" \/ \E t \in Threads : ~Silent(t)
    /\ server # "running" => \A t \in Threads \ {MainThread} : Silent(t)
    /\ Async => \A t \in Client : Silent(t)
    /\ at = "success" => ~failed /\ server = "ended"
    /\ at = "failure" => failed /\ server \in {"ended", "broken"}

(* How many clients main() has connected, and how many payloads it has     *)
(* written to client x and read from it, when no call has failed.          *)
Made == IF at = "connect" THEN conn - 1 ELSE Connections
SentTo(x) == IF at \in {"connect", "connected"} THEN 0
           ELSE IF at = "send" /\ conn <= x THEN round - 1 ELSE round
Taken(x) == IF at \in {"connect", "connected"} THEN 0
            ELSE IF at \in {"send", "sent"} \/ (at = "receive" /\ conn <= x)
            THEN round - 1 ELSE round
Over == {"close", "stop", "join", "success"}
Rounds ==
    /\ at \in {"connect", "connected"} => round = 1
    /\ at \in {"connected", "sent", "received"} => conn = 1
    /\ at \in Over => round = Iterations

(* The payloads of a client: each one that was written is in the socket,   *)
(* with its session, or echoed, and each echo is in the socket or read.    *)
Books(x) ==
    /\ echoed[x] + req[x] + (IF ses[x] = "write" THEN 1 ELSE 0) = SentTo(x)
    /\ resp[x] + Taken(x) = echoed[x]
    /\ ses[x] = "done" => echoed[x] = Iterations
    /\ ses[x] \in {"read", "write"} => echoed[x] < Iterations
    /\ ses[x] = "none" => echoed[x] = 0

(* The connections are accepted in the order in which they were made.      *)
Line ==
    /\ accepted_count + Len(backlog) = Made
    /\ \A k \in 1..Len(backlog) : backlog[k] = accepted_count + k
    /\ \A x \in Client : ses[x] = "none" <=> x > accepted_count
    /\ at \notin {"stop", "join", "success"} =>
          \A x \in Client : x <= Made => x \in clients

EchoInv ==
    /\ EchoType /\ Flags
    /\ ~faulted => /\ Rounds /\ Line
                   /\ \A x \in Client : Books(x)

(* The threads of the program are distinct.                                *)
LEMMA ThreadFacts ==
    /\ MainThread \in Threads /\ ServerThread \in Threads
    /\ Client \subseteq Threads /\ MainThread \notin Client
    /\ ServerThread \notin Client /\ MainThread # ServerThread
    /\ \A x \in Client : On(x) \in Threads \ {MainThread}
BY SMTT(30), OptionsAssumption
   DEF MainThread, ServerThread, Threads, Client, On

(* What record_failure does with the flag and the message.                 *)
LEMMA RecordKeepsType ==
    ASSUME EchoType, NEW t \in Threads, NEW m \in Messages, Record(t, m)
    PROVE  failed' \in BOOLEAN /\ saying' \in [Threads -> Messages]
BY DEF EchoType, Record

LEMMA RecordFlags ==
    ASSUME EchoType, Flags, NEW t \in Threads, NEW m \in Messages \ {"none"},
           Record(t, m), faulted', UNCHANGED <<message, server>>,
           Async => t \notin Client,
           \/ /\ t = MainThread /\ at' # "success"
              /\ at' = "failure" => server \in {"ended", "broken"}
           \/ server = "running" /\ at' = at
    PROVE  Flags'
<1>1. failed' = TRUE /\ saying \in [Threads -> Messages]
  BY DEF Record, EchoType
<1>2. CASE failed
  <2>1. saying' = saying
    BY <1>2 DEF Record
  <2> QED  BY <1>1, <1>2, <2>1 DEF Flags, Silent
<1>3. CASE ~failed
  <2>1. saying' = [saying EXCEPT ![t] = m]
    BY <1>3 DEF Record
  <2>2. ~Silent(t)' /\ \A u \in Threads \ {t} : Silent(u)'
    BY <1>1, <1>3, <2>1 DEF Flags, Silent
  <2> QED  BY <1>1, <1>3, <2>2, ThreadFacts DEF Flags
<1> QED  BY <1>2, <1>3

(* A step that leaves the flag, the message and the thread alone.          *)
LEMMA QuietFlags ==
    ASSUME Flags, UNCHANGED <<sharedVars, server>>,
           at' = at \/ at' \notin {"success", "failure"}
    PROVE  Flags'
BY DEF Flags, Silent, sharedVars

(* A count goes up, or down when it is not zero.                           *)
LEMMA CountStep ==
    ASSUME NEW S, NEW f \in [S -> Nat], NEW x \in S
    PROVE  /\ [f EXCEPT ![x] = @ + 1] \in [S -> Nat]
           /\ f[x] > 0 => [f EXCEPT ![x] = @ - 1] \in [S -> Nat]
<1>1. f[x] \in Nat
  OBVIOUS
<1>2. f[x] + 1 \in Nat /\ (f[x] > 0 => f[x] - 1 \in Nat)
  BY SMTT(30), <1>1
<1> QED  BY <1>2

(* The types.                                                              *)
LEMMA MainTypes ==
    ASSUME EchoType, MainStep
    PROVE  EchoType'
<1>1. {"connect", "send", "receive", "run", "mismatch"} \subseteq Messages
      /\ 1 \in Client /\ (conn < Connections => conn + 1 \in Client)
      /\ (round # Iterations => round + 1 \in 1..Iterations)
  BY SMTT(30), OptionsAssumption DEF EchoType, Messages, Client
<1>2. ASSUME NEW p, NextClient(p)
      PROVE  conn' \in Client /\ at' \in {at, p}
  BY <1>1, <1>2 DEF NextClient, EchoType
<1>3. NoFault => failed' \in BOOLEAN /\ saying' \in [Threads -> Messages]
                 /\ faulted' \in BOOLEAN
  BY DEF NoFault, failVars, EchoType
<1>4. \A k : Fault(k) => faulted' \in BOOLEAN
  BY DEF Fault
<1>5. CASE Connect
  <2>1. backlog' \in Seq(Client)
    <3>1. backlog' = Append(backlog, conn) \/ backlog' = backlog
      BY <1>5 DEF Connect, connect_loopback_socket
    <3>2. backlog \in Seq(Client) /\ conn \in Client
      BY DEF EchoType
    <3> QED  BY SMTT(30), <3>1, <3>2
  <2>2. conn' \in Client /\ at' \in {at, "connected"} /\ faulted' \in BOOLEAN
        /\ failed' \in BOOLEAN /\ saying' \in [Threads -> Messages]
    BY <1>1, <1>2, <1>3, <1>4, <1>5, ThreadFacts, RecordKeepsType DEF Connect
  <2> QED  BY <1>5, <2>1, <2>2 DEF Connect, EchoType, serverVars, threadVars
<1>6. CASE Send
  <2>1. req' \in [Client -> Nat]
    <3>1. req \in [Client -> Nat] /\ conn \in Client
      BY DEF EchoType
    <3>2. [req EXCEPT ![conn] = @ + 1] \in [Client -> Nat]
      BY <3>1, CountStep
    <3>3. \/ req' = [req EXCEPT ![conn] = @ + 1]
          \/ req' = req
      BY <1>6 DEF Send, write_all_socket
    <3> QED  BY <3>1, <3>2, <3>3
  <2>2. conn' \in Client /\ at' \in {at, "sent"} /\ faulted' \in BOOLEAN
        /\ failed' \in BOOLEAN /\ saying' \in [Threads -> Messages]
    BY <1>1, <1>2, <1>3, <1>4, <1>6,
       ThreadFacts, RecordKeepsType DEF Send, EchoType
  <2> QED  BY <1>6, <2>1, <2>2 DEF Send, EchoType, serverVars, threadVars
<1>7. CASE Receive
  <2>1. resp' \in [Client -> Nat]
    <3>1. resp \in [Client -> Nat] /\ conn \in Client
      BY DEF EchoType
    <3>2. resp[conn] > 0 => [resp EXCEPT ![conn] = @ - 1] \in [Client -> Nat]
      BY <3>1, CountStep
    <3>3. \/ resp[conn] > 0 /\ resp' = [resp EXCEPT ![conn] = @ - 1]
          \/ resp' = resp
      BY <1>7 DEF Receive, read_exact_socket
    <3> QED  BY <3>1, <3>2, <3>3
  <2>2. conn' \in Client /\ at' \in {at, "received"} /\ faulted' \in BOOLEAN
        /\ failed' \in BOOLEAN /\ saying' \in [Threads -> Messages]
    BY <1>1, <1>2, <1>3, <1>4, <1>7,
       ThreadFacts, RecordKeepsType DEF Receive, EchoType
  <2> QED  BY <1>7, <2>1, <2>2 DEF Receive, EchoType, serverVars, threadVars
<1>8. CASE CheckFailed
  BY <1>1, <1>8 DEF CheckFailed, EchoType, sharedVars, netVars, serverVars,
                    threadVars
<1>9. CASE Close \/ Stop
  BY <1>9 DEF Close, Stop, EchoType, sharedVars, netVars, serverVars,
              threadVars
<1>10. CASE Join
  <2>1. failed' \in BOOLEAN /\ saying' \in [Threads -> Messages]
    BY <1>1, <1>10, ThreadFacts, RecordKeepsType DEF Join, failVars, EchoType
  <2> QED  BY <1>10, <2>1 DEF Join, EchoType, netVars, serverVars, threadVars
<1> QED  BY <1>5, <1>6, <1>7, <1>8, <1>9, <1>10 DEF MainStep

LEMMA ServerTypes ==
    ASSUME EchoType,
           \/ ServerStep \/ RunFails
           \/ \E t \in Threads : Say(t)
           \/ \E x \in Client : Session(x)
    PROVE  EchoType'
<1>1. {"none", "accept", "read", "write"} \subseteq Messages
  BY DEF Messages
<1>2. NoFault => failed' \in BOOLEAN /\ saying' \in [Threads -> Messages]
                 /\ faulted' \in BOOLEAN
  BY DEF NoFault, failVars, EchoType
<1>3. \A k : Fault(k) => faulted' \in BOOLEAN
  BY DEF Fault
<1>4. CASE Start \/ AcceptTop \/ End \/ RunFails
  BY <1>3, <1>4 DEF Start, AcceptTop, End, RunFails, EchoType, mainVars,
                    sharedVars, failVars, netVars, serverVars, threadVars
<1>5. CASE Accept
  <2>1. /\ backlog' \in Seq(Client) /\ accepted_count' \in Nat
        /\ ses' \in [Client -> {"none", "top", "read", "write", "done"}]
    <3>1. /\ backlog \in Seq(Client) /\ accepted_count \in Nat
          /\ ses \in [Client -> {"none", "top", "read", "write", "done"}]
      BY DEF EchoType
    <3>2. \/ /\ backlog # <<>> /\ backlog' = Tail(backlog)
             /\ accepted_count' = accepted_count + 1
             /\ ses' = [ses EXCEPT ![Head(backlog)] = "top"]
          \/ UNCHANGED <<backlog, accepted_count, ses>>
      BY <1>5 DEF Accept
    <3>3. /\ backlog # <<>> => Tail(backlog) \in Seq(Client)
          /\ accepted_count + 1 \in Nat
      BY SMTT(30), <3>1
    <3> QED  BY <3>1, <3>2, <3>3
  <2>2. faulted' \in BOOLEAN
        /\ failed' \in BOOLEAN /\ saying' \in [Threads -> Messages]
    BY <1>1, <1>2, <1>3, <1>5, ThreadFacts, RecordKeepsType DEF Accept
  <2> QED  BY <1>5, <2>1, <2>2 DEF Accept, EchoType, mainVars, threadVars
<1>6. ASSUME NEW t \in Threads, Say(t)
      PROVE  EchoType'
  BY <1>1, <1>6 DEF Say, EchoType, mainVars, netVars, serverVars, threadVars
<1>7. ASSUME NEW x \in Client, SessionTop(x)
      PROVE  EchoType'
  BY <1>7 DEF SessionTop, Move, EchoType, mainVars, sharedVars, netVars,
              threadVars
<1>8. ASSUME NEW x \in Client, SessionRead(x)
      PROVE  EchoType'
  <2>1. req' \in [Client -> Nat]
    <3>1. req \in [Client -> Nat] /\ x \in Client
      BY DEF EchoType
    <3>2. req[x] > 0 => [req EXCEPT ![x] = @ - 1] \in [Client -> Nat]
      BY <3>1, CountStep
    <3>3. \/ req[x] > 0 /\ req' = [req EXCEPT ![x] = @ - 1]
          \/ req' = req
      BY <1>8 DEF SessionRead
    <3> QED  BY <3>1, <3>2, <3>3
  <2>2. /\ ses' \in [Client -> {"none", "top", "read", "write", "done"}]
        /\ faulted' \in BOOLEAN
        /\ failed' \in BOOLEAN /\ saying' \in [Threads -> Messages]
    BY <1>1, <1>2, <1>3, <1>8, ThreadFacts, RecordKeepsType
       DEF SessionRead, Move, FailSession, EchoType
  <2> QED  BY <1>8, <2>1, <2>2 DEF SessionRead, EchoType, mainVars, threadVars
<1>9. ASSUME NEW x \in Client, SessionWrite(x)
      PROVE  EchoType'
  <2>1. resp' \in [Client -> Nat] /\ echoed' \in [Client -> Nat]
    <3>1. resp \in [Client -> Nat] /\ echoed \in [Client -> Nat]
      BY DEF EchoType
    <3>2. /\ [resp EXCEPT ![x] = @ + 1] \in [Client -> Nat]
          /\ [echoed EXCEPT ![x] = @ + 1] \in [Client -> Nat]
      BY <3>1, CountStep
    <3>3. \/ /\ resp' = [resp EXCEPT ![x] = @ + 1]
             /\ echoed' = [echoed EXCEPT ![x] = @ + 1]
          \/ resp' = resp /\ echoed' = echoed
      BY <1>9 DEF SessionWrite
    <3> QED  BY <3>1, <3>2, <3>3
  <2>2. /\ ses' \in [Client -> {"none", "top", "read", "write", "done"}]
        /\ faulted' \in BOOLEAN
        /\ failed' \in BOOLEAN /\ saying' \in [Threads -> Messages]
    BY <1>1, <1>2, <1>3, <1>9, ThreadFacts, RecordKeepsType
       DEF SessionWrite, Move, FailSession, EchoType
  <2> QED  BY <1>9, <2>1, <2>2 DEF SessionWrite, EchoType, mainVars,
                                   threadVars
<1> QED  BY <1>4, <1>5, <1>6, <1>7, <1>8, <1>9 DEF ServerStep, Session

(* No end of file and no reset comes from the program itself: a session    *)
(* that ended has echoed all, and main() closes when it has read all.      *)
LEMMA PeerStays ==
    ASSUME EchoInv, ~faulted
    PROVE  /\ at = "send" => ~Gone(conn)
           /\ at = "receive" => ~(Gone(conn) /\ (resp[conn] = 0 \/ req[conn] > 0))
<1>1. EchoType /\ Rounds /\ Books(conn)
  BY DEF EchoInv, EchoType
<1>2. /\ round \in 1..Iterations /\ Iterations \in Nat /\ conn <= conn
      /\ echoed[conn] \in Nat /\ req[conn] \in Nat /\ resp[conn] \in Nat
  BY SMTT(30), <1>1, OptionsAssumption DEF EchoType, Client
<1>3. CASE Gone(conn)
  <2>1. echoed[conn] = Iterations /\ echoed[conn] + req[conn] + 0 = SentTo(conn)
        /\ resp[conn] + Taken(conn) = echoed[conn]
    BY <1>1, <1>3 DEF Books, Gone
  <2>2. CASE at = "send"
    <3>1. SentTo(conn) = round - 1
      BY <1>2, <2>2 DEF SentTo
    <3> QED  BY SMTT(30), <1>2, <2>1, <3>1
  <2>3. CASE at = "receive"
    <3>1. SentTo(conn) = round /\ Taken(conn) = round - 1
      BY <1>2, <2>3 DEF SentTo, Taken
    <3> QED  BY SMTT(30), <1>2, <2>1, <2>3, <3>1
  <2> QED  BY <2>2, <2>3
<1> QED  BY <1>3

LEMMA ClientStays ==
    ASSUME EchoInv, ~faulted, NEW x \in Client, ses[x] \in {"read", "write"}
    PROVE  x \in clients
<1>1. EchoType /\ Flags /\ Rounds /\ Line /\ Books(x)
  BY DEF EchoInv
<1>2. at \notin {"stop", "join", "success"}
  BY SMTT(30), <1>1, OptionsAssumption DEF EchoType, Rounds, Books, Taken, Over
<1>3. x <= accepted_count /\ accepted_count <= Made
  BY SMTT(30), <1>1 DEF EchoType, Line, Client, Made
<1>4. x <= Made
  BY SMTT(30), <1>1, <1>3, OptionsAssumption DEF EchoType, Made, Client
<1> QED  BY <1>1, <1>2, <1>4 DEF Line

(* When main() joins and no call has failed, every connection has been     *)
(* accepted: the last one has its echoes.                                  *)
LEMMA AllAccepted ==
    ASSUME EchoInv, ~faulted, at = "join"
    PROVE  accepted_count = Connections
<1>1. Connections \in Client /\ Connections \in Nat /\ Iterations \in Nat \ {0}
  BY SMTT(30), OptionsAssumption DEF Client
<1>2. EchoType /\ Rounds /\ Line /\ Books(Connections)
  BY <1>1 DEF EchoInv
<1>3. round = Iterations /\ Taken(Connections) = round /\ Made = Connections
  BY <1>2 DEF Rounds, Over, Taken, Made
<1>4. /\ resp[Connections] \in Nat /\ accepted_count \in Nat
      /\ Len(backlog) \in Nat
  BY SMTT(30), <1>1, <1>2 DEF EchoType
<1>5. echoed[Connections] # 0
  <2>1. resp[Connections] + Iterations = echoed[Connections]
    BY <1>2, <1>3 DEF Books
  <2> QED  BY SMTT(30), <1>1, <1>4, <2>1
<1>6. ~(Connections > accepted_count)
  BY <1>1, <1>2, <1>5 DEF Line, Books
<1>7. accepted_count + Len(backlog) = Connections
  BY <1>2, <1>3 DEF Line
<1> QED  BY SMTT(30), <1>1, <1>4, <1>6, <1>7

(* The flag, step by step.                                                 *)
LEMMA MainFlags ==
    ASSUME EchoInv, MainStep
    PROVE  Flags'
<1>1. EchoType /\ Flags
  BY DEF EchoInv
<1>2. {"connect", "send", "receive", "run", "mismatch"}
         \subseteq Messages \ {"none"}
  BY DEF Messages
<1>3. ASSUME NoFault, UNCHANGED <<message, server>>,
             at' = at \/ at' \notin {"success", "failure"}
      PROVE  Flags'
  BY <1>1, <1>3, QuietFlags DEF NoFault, failVars, sharedVars
<1>4. ASSUME NEW m \in Messages \ {"none"}, Record(MainThread, m), faulted' = TRUE,
             UNCHANGED <<message, server>>,
             at' \in {"connected", "sent", "received"}
      PROVE  Flags'
  BY <1>1, <1>4, RecordFlags, ThreadFacts
<1>5. CASE Connect
  BY <1>2, <1>3, <1>4, <1>5 DEF Connect, NextClient, Fault, threadVars
<1>6. CASE Send
  <2>1. Gone(conn) => faulted = TRUE
    BY <1>1, <1>6, PeerStays DEF Send, Main, EchoType
  <2> QED  BY <1>2, <1>3, <1>4, <1>6, <2>1
              DEF Send, NextClient, Fault, threadVars
<1>7. CASE Receive
  <2>1. Gone(conn) /\ (resp[conn] = 0 \/ req[conn] > 0) => faulted = TRUE
    BY <1>1, <1>7, PeerStays DEF Receive, Main, EchoType
  <2> QED  BY <1>2, <1>3, <1>4, <1>7, <2>1
              DEF Receive, NextClient, Fault, threadVars
<1>8. CASE CheckFailed \/ Close \/ Stop
  BY <1>1, <1>8, QuietFlags DEF CheckFailed, Close, Stop, sharedVars,
                                threadVars
<1>9. CASE Join
  <2>1. /\ at = "join" /\ server \in {"ended", "broken"}
        /\ UNCHANGED <<message, faulted, server>>
    BY <1>9 DEF Join, Main, threadVars
  <2>2. CASE failed
    <3>1. at' = "failure" /\ UNCHANGED <<failed, saying>>
      BY <1>9, <2>2 DEF Join, failVars
    <3> QED  BY <1>1, <2>1, <2>2, <3>1 DEF Flags, Silent
  <2>3. CASE ~failed /\ server = "broken"
    <3>1. faulted = TRUE
      BY <1>1, <2>3 DEF Flags, EchoType
    <3>2. at' = "failure" /\ Record(MainThread, "run") /\ faulted' = TRUE
      BY <1>9, <2>1, <2>3, <3>1 DEF Join
    <3> QED  BY <1>1, <1>2, <2>1, <3>2, RecordFlags, ThreadFacts
  <2>4. CASE ~failed /\ server # "broken"
    <3>1. ~faulted
      BY <1>1, <2>4 DEF Flags
    <3>2. accepted_count = Connections
      BY <2>1, <3>1, AllAccepted
    <3>3. at' = "success" /\ UNCHANGED <<failed, saying>>
      BY <1>9, <2>4, <3>2 DEF Join, failVars
    <3> QED  BY <1>1, <2>1, <2>4, <3>3 DEF Flags, Silent
  <2> QED  BY <2>2, <2>3, <2>4
<1> QED  BY <1>5, <1>6, <1>7, <1>8, <1>9 DEF MainStep

LEMMA ServerFlags ==
    ASSUME EchoInv, ServerStep \/ RunFails
    PROVE  Flags'
<1>1. EchoType /\ Flags
  BY DEF EchoInv
<1>2. CASE Start
  <2>1. /\ server = "starting" /\ server' = "running"
        /\ UNCHANGED <<at, failed, saying, message, faulted>>
    BY <1>2 DEF Start, mainVars, sharedVars
  <2> QED  BY <1>1, <2>1 DEF Flags, Silent
<1>3. CASE AcceptTop
  BY <1>1, <1>3, QuietFlags DEF AcceptTop, mainVars, sharedVars, threadVars
<1>4. CASE Accept
  <2>1. server = "running" /\ UNCHANGED <<at, message, server>>
    BY <1>4 DEF Accept, Running, mainVars, threadVars
  <2>2. CASE NoFault
    BY <1>1, <2>1, <2>2, QuietFlags DEF NoFault, failVars, sharedVars
  <2>3. CASE Record(ServerThread, "accept") /\ faulted'
    <3>1. "accept" \in Messages \ {"none"}
      BY DEF Messages
    <3> QED  BY <1>1, <2>1, <2>3, <3>1, RecordFlags, ThreadFacts
  <2> QED  BY <1>4, <2>2, <2>3 DEF Accept, Fault
<1>5. CASE End
  <2>1. /\ server = "running" /\ server' = "ended"
        /\ \A t \in Threads \ {MainThread} : Silent(t)
        /\ UNCHANGED <<at, failed, saying, message, faulted>>
    BY <1>5 DEF End, mainVars, sharedVars, Silent
  <2> QED  BY <1>1, <2>1 DEF Flags, Silent
<1>6. CASE RunFails
  <2>1. /\ server = "running" /\ server' = "broken" /\ faulted' = TRUE
        /\ Async /\ Silent(ServerThread)
        /\ UNCHANGED <<at, failed, saying, message>>
    BY <1>6 DEF RunFails, Running, Fault, failVars, mainVars, Silent
  <2>2. Threads \ {MainThread} = Client \cup {ServerThread}
    BY SMTT(30), OptionsAssumption DEF Threads, MainThread, ServerThread, Client
  <2>3. \A t \in Threads \ {MainThread} : Silent(t)
    BY <1>1, <2>1, <2>2 DEF Flags
  <2> QED  BY <1>1, <2>1, <2>3 DEF Flags, Silent
<1> QED  BY <1>2, <1>3, <1>4, <1>5, <1>6 DEF ServerStep

LEMMA SessionFlags ==
    ASSUME EchoInv, NEW x \in Client, Session(x)
    PROVE  Flags'
<1>1. EchoType /\ Flags
  BY DEF EchoInv
<1>2. server = "running" /\ UNCHANGED <<at, message, server>>
  BY DEF Session, SessionTop, SessionRead, SessionWrite, Running, mainVars,
         sharedVars, threadVars
<1>3. ASSUME NoFault
      PROVE  Flags'
  BY <1>1, <1>2, <1>3, QuietFlags DEF NoFault, failVars, sharedVars
<1>4. ASSUME NEW m \in {"read", "write"}, Record(On(x), m), faulted' = TRUE
      PROVE  Flags'
  <2>1. m \in Messages \ {"none"}
    BY DEF Messages
  <2>2. On(x) \in Threads /\ (Async => On(x) \notin Client)
    BY ThreadFacts DEF On
  <2> QED  BY <1>1, <1>2, <1>4, <2>1, <2>2, RecordFlags
<1>5. ses[x] \in {"read", "write"} /\ x \notin clients => faulted = TRUE
  BY <1>1, ClientStays DEF EchoType
<1>6. CASE SessionTop(x)
  BY <1>1, <1>2, <1>6, QuietFlags DEF SessionTop, sharedVars
<1>7. CASE SessionRead(x)
  BY <1>3, <1>4, <1>5, <1>7 DEF SessionRead, FailSession, Fault
<1>8. CASE SessionWrite(x)
  BY <1>3, <1>4, <1>5, <1>8 DEF SessionWrite, FailSession, Fault
<1> QED  BY <1>6, <1>7, <1>8 DEF Session

LEMMA SayFlags ==
    ASSUME EchoInv, NEW t \in Threads, Say(t)
    PROVE  Flags'
<1>1. EchoType /\ Flags
  BY DEF EchoInv
<1>2. /\ ~Silent(t) /\ message' # "none"
      /\ UNCHANGED <<at, failed, faulted, server>>
      /\ \A u \in Threads : Silent(u) => Silent(u)'
  BY <1>1 DEF Say, EchoType, Silent, mainVars, threadVars
<1>3. failed = TRUE /\ faulted = TRUE
  BY <1>1, <1>2 DEF Flags, EchoType
<1>4. failed' = TRUE /\ faulted' = TRUE
  BY <1>2, <1>3
<1> QED  BY <1>1, <1>2, <1>3, <1>4, ThreadFacts DEF Flags

(* The books and the line of a step that moves no payload and accepts no   *)
(* connection.                                                             *)
LEMMA BooksFrame ==
    ASSUME NEW x \in Client, Books(x),
           SentTo(x)' = SentTo(x), Taken(x)' = Taken(x),
           /\ echoed'[x] = echoed[x] /\ req'[x] = req[x]
           /\ resp'[x] = resp[x] /\ ses'[x] = ses[x]
    PROVE  Books(x)'
BY DEF Books

LEMMA LineFrame ==
    ASSUME Line, Made' = Made, UNCHANGED <<backlog, accepted_count, clients>>,
           \A x \in Client : ses'[x] = "none" <=> ses[x] = "none",
           at \in {"stop", "join", "success"}
              => at' \in {"stop", "join", "success"}
    PROVE  Line'
BY DEF Line

(* A step of main() that has not failed, with the counts it moves.         *)
LEMMA Reckoning ==
    ASSUME EchoType, Rounds, NEW x \in Client
    PROVE  /\ Main("connect") /\ NextClient("connected") /\ round' = round =>
                 /\ Rounds' /\ Made' = Made + 1 /\ Made + 1 = conn
                 /\ SentTo(x)' = SentTo(x) /\ Taken(x)' = Taken(x)
           /\ Main("send") /\ NextClient("sent") /\ round' = round =>
                 /\ Rounds' /\ Made' = Made /\ Taken(x)' = Taken(x)
                 /\ SentTo(x)' = IF x = conn THEN SentTo(x) + 1 ELSE SentTo(x)
           /\ Main("receive") /\ NextClient("received") /\ round' = round =>
                 /\ Rounds' /\ Made' = Made /\ SentTo(x)' = SentTo(x)
                 /\ Taken(x)' = IF x = conn THEN Taken(x) + 1 ELSE Taken(x)
<1>1. /\ conn \in Nat /\ round \in Nat /\ 1 <= conn /\ conn <= Connections
      /\ x \in Nat /\ 1 <= x /\ x <= Connections /\ Connections \in Nat
  BY SMTT(30), OptionsAssumption DEF EchoType, Client
<1>2. ASSUME NEW p, NEW q, at = p, NextClient(q)
      PROVE  \/ conn < Connections /\ conn' = conn + 1 /\ at' = p
             \/ conn = Connections /\ conn' = 1 /\ at' = q
  <2>1. ~(conn < Connections) => conn = Connections
    BY SMTT(30), <1>1
  <2> QED  BY <1>2, <2>1 DEF NextClient
<1>3. ASSUME Main("connect"), NextClient("connected"), round' = round
      PROVE  /\ Rounds' /\ Made' = Made + 1 /\ Made + 1 = conn
             /\ SentTo(x)' = SentTo(x) /\ Taken(x)' = Taken(x)
  <2>1. /\ at = "connect"
        /\ \/ conn < Connections /\ conn' = conn + 1 /\ at' = "connect"
           \/ conn = Connections /\ conn' = 1 /\ at' = "connected"
    BY <1>2, <1>3 DEF Main
  <2>2. Rounds'
    BY <1>3, <2>1 DEF Rounds, Over
  <2>3. SentTo(x)' = SentTo(x) /\ Taken(x)' = Taken(x)
    BY <2>1 DEF SentTo, Taken
  <2>4. Made' = Made + 1 /\ Made + 1 = conn
    BY SMTT(30), <1>1, <2>1 DEF Made
  <2> QED  BY <2>2, <2>3, <2>4
<1>4. ASSUME Main("send"), NextClient("sent"), round' = round
      PROVE  /\ Rounds' /\ Made' = Made /\ Taken(x)' = Taken(x)
             /\ SentTo(x)' = IF x = conn THEN SentTo(x) + 1 ELSE SentTo(x)
  <2>1. /\ at = "send"
        /\ \/ conn < Connections /\ conn' = conn + 1 /\ at' = "send"
           \/ conn = Connections /\ conn' = 1 /\ at' = "sent"
    BY <1>2, <1>4 DEF Main
  <2>2. Rounds'
    BY <1>4, <2>1 DEF Rounds, Over
  <2>3. Made' = Made /\ Taken(x)' = Taken(x)
    BY <1>4, <2>1 DEF Made, Taken
  <2>4. SentTo(x)' = IF x = conn THEN SentTo(x) + 1 ELSE SentTo(x)
    BY SMTT(30), <1>1, <1>4, <2>1 DEF SentTo
  <2> QED  BY <2>2, <2>3, <2>4
<1>5. ASSUME Main("receive"), NextClient("received"), round' = round
      PROVE  /\ Rounds' /\ Made' = Made /\ SentTo(x)' = SentTo(x)
             /\ Taken(x)' = IF x = conn THEN Taken(x) + 1 ELSE Taken(x)
  <2>1. /\ at = "receive"
        /\ \/ conn < Connections /\ conn' = conn + 1 /\ at' = "receive"
           \/ conn = Connections /\ conn' = 1 /\ at' = "received"
    BY <1>2, <1>5 DEF Main
  <2>2. Rounds'
    BY <1>5, <2>1 DEF Rounds, Over
  <2>3. Made' = Made /\ SentTo(x)' = SentTo(x)
    BY <1>5, <2>1 DEF Made, SentTo
  <2>4. Taken(x)' = IF x = conn THEN Taken(x) + 1 ELSE Taken(x)
    BY SMTT(30), <1>1, <1>5, <2>1 DEF Taken
  <2> QED  BY <2>2, <2>3, <2>4
<1> QED  BY <1>3, <1>4, <1>5

LEMMA CheckReckoning ==
    ASSUME EchoType, Rounds, ~failed, CheckFailed, NEW x \in Client
    PROVE  /\ Rounds' /\ Made' = Made
           /\ SentTo(x)' = SentTo(x) /\ Taken(x)' = Taken(x)
           /\ at' \notin {"stop", "join", "success"}
<1>1. /\ conn \in Nat /\ round \in Nat /\ x \in Nat /\ 1 <= x /\ conn' = conn
      /\ Iterations \in Nat
  BY SMTT(30), OptionsAssumption DEF EchoType, Client, CheckFailed
<1>2. \/ at = "connected" /\ at' = "send" /\ round' = round
      \/ at = "sent" /\ at' = "receive" /\ round' = round
      \/ at = "received" /\ at' = "close" /\ round' = round /\ round = Iterations
      \/ at = "received" /\ at' = "send" /\ round' = round + 1
  BY DEF CheckFailed, Main
<1>3. Rounds' /\ Made' = Made /\ at' \notin {"stop", "join", "success"}
  BY <1>1, <1>2 DEF Rounds, Over, Made
<1>4. conn = 1 /\ (at = "connected" => round = 1)
  BY <1>2 DEF Rounds
<1>5. SentTo(x)' = SentTo(x) /\ Taken(x)' = Taken(x)
  BY SMTT(30), <1>1, <1>2, <1>4 DEF SentTo, Taken
<1> QED  BY <1>3, <1>5

(* A new connection goes to the end of the line.                           *)
LEMMA LineGrows ==
    ASSUME EchoType, Line, Made' = Made + 1, Made + 1 = conn,
           backlog' = Append(backlog, conn), clients' = clients \cup {conn},
           UNCHANGED <<accepted_count, ses>>, at = "connect"
    PROVE  Line'
<1>1. /\ backlog \in Seq(Client) /\ accepted_count \in Nat /\ conn \in Nat
      /\ Len(backlog) \in Nat /\ Made \in Nat
  BY SMTT(30), OptionsAssumption DEF EchoType, Client, Made
<1>2. /\ accepted_count + Len(backlog) = Made
      /\ \A k \in 1..Len(backlog) : backlog[k] = accepted_count + k
  BY DEF Line
<1>3. /\ accepted_count + Len(backlog') = Made'
      /\ \A k \in 1..Len(backlog') : backlog'[k] = accepted_count + k
  <2>1. /\ Len(backlog') = Len(backlog) + 1
        /\ \A k \in 1..Len(backlog) : backlog'[k] = backlog[k]
        /\ backlog'[Len(backlog) + 1] = conn
    BY SMTT(30), <1>1
  <2>2. /\ accepted_count + (Len(backlog) + 1) = Made + 1
        /\ conn = accepted_count + (Len(backlog) + 1)
        /\ \A k \in 1..Len(backlog) + 1 :
              k \in 1..Len(backlog) \/ k = Len(backlog) + 1
    <3>1. accepted_count + Len(backlog) = Made
      BY <1>2
    <3> QED  BY SMTT(30), <1>1, <3>1
  <2> QED  BY <1>2, <2>1, <2>2
<1>4. ASSUME NEW x \in Client, x <= Made'
      PROVE  x \in clients'
  <2>1. x <= Made \/ x = conn
    BY SMTT(30), <1>1, <1>4 DEF Client
  <2>2. x <= Made => x \in clients
    BY DEF Line
  <2> QED  BY <2>1, <2>2
<1> QED  BY <1>3, <1>4 DEF Line

(* Sums with one more.                                                     *)
LEMMA MoreSent ==
    ASSUME NEW e \in Nat, NEW q \in Nat, NEW w \in {0, 1}
    PROVE  e + (q + 1) + w = (e + q + w) + 1
BY SMTT(30)
LEMMA MoreTaken ==
    ASSUME NEW r \in Nat, NEW n \in Int
    PROVE  (r - 1) + (n + 1) = r + n
BY SMTT(30)
LEMMA MoreRead ==
    ASSUME NEW e \in Nat, NEW q \in Nat
    PROVE  e + (q - 1) + 1 = e + q + 0
BY SMTT(30)
LEMMA MoreEchoed ==
    ASSUME NEW e \in Nat, NEW q \in Nat
    PROVE  (e + 1) + q + 0 = e + q + 1
BY SMTT(30)
LEMMA NoMoreEchoed ==
    ASSUME NEW e \in Nat, NEW q \in Nat, NEW n \in Nat, e + q + 0 <= n
    PROVE  e <= n
BY SMTT(30)
LEMMA MoreAnswered ==
    ASSUME NEW r \in Nat, NEW n \in Int
    PROVE  (r + 1) + n = (r + n) + 1
BY SMTT(30)

(* One payload more or less.                                               *)
LEMMA BooksMove ==
    ASSUME EchoType, NEW x \in Client, Books(x),
           \/ /\ req'[x] = req[x] + 1 /\ SentTo(x)' = SentTo(x) + 1
              /\ resp'[x] = resp[x] /\ Taken(x)' = Taken(x)
           \/ /\ req'[x] = req[x] /\ SentTo(x)' = SentTo(x)
              /\ resp'[x] = resp[x] - 1 /\ Taken(x)' = Taken(x) + 1,
           echoed'[x] = echoed[x] /\ ses'[x] = ses[x]
    PROVE  Books(x)'
<1>1. /\ echoed[x] \in Nat /\ req[x] \in Nat /\ resp[x] \in Nat
      /\ SentTo(x) \in Int /\ Taken(x) \in Int
  BY SMTT(30) DEF EchoType, Client, SentTo, Taken
<1>2. PICK w \in {0, 1} : w = IF ses[x] = "write" THEN 1 ELSE 0
  OBVIOUS
<1>3. echoed[x] + req[x] + w = SentTo(x) /\ resp[x] + Taken(x) = echoed[x]
  BY <1>2 DEF Books
<1>4. echoed[x] + (req[x] + 1) + w = (echoed[x] + req[x] + w) + 1
  BY <1>1, MoreSent
<1>5. (resp[x] - 1) + (Taken(x) + 1) = resp[x] + Taken(x)
  BY <1>1, MoreTaken
<1>6. echoed'[x] + req'[x] + w = SentTo(x)' /\ resp'[x] + Taken(x)' = echoed'[x]
  BY <1>3, <1>4, <1>5
<1> QED  BY <1>2, <1>6 DEF Books

(* The books of a step of main() that has not failed.                      *)
LEMMA MainBooks ==
    ASSUME EchoInv, MainStep, ~faulted, ~faulted', Flags'
    PROVE  Rounds' /\ Line' /\ \A x \in Client : Books(x)'
<1>1. /\ EchoType /\ Flags /\ Rounds /\ Line /\ ~failed /\ ~failed'
      /\ \A x \in Client : Books(x)
  BY DEF EchoInv, Flags
<1>2. conn \in Client /\ at' # "failure"
  BY <1>1 DEF EchoType, Flags
<1>3. ~(\E k : Fault(k)) /\ ~(\E t, m : Record(t, m))
  BY <1>1 DEF Fault, Record
<1>4. CASE Connect
  <2>1. /\ Main("connect") /\ NextClient("connected") /\ round' = round
        /\ backlog' = Append(backlog, conn) /\ clients' = clients \cup {conn}
        /\ UNCHANGED <<req, resp, accepted_count, ses, echoed>>
    BY <1>3, <1>4 DEF Connect, connect_loopback_socket, serverVars
  <2>2. /\ Rounds' /\ Made' = Made + 1 /\ Made + 1 = conn
        /\ \A x \in Client : SentTo(x)' = SentTo(x) /\ Taken(x)' = Taken(x)
    BY <1>1, <1>2, <2>1, Reckoning
  <2>3. Line'
    BY <1>1, <2>1, <2>2, LineGrows DEF Main
  <2> QED  BY <1>1, <2>1, <2>2, <2>3, BooksFrame
<1>5. CASE Send
  <2>1. /\ Main("send") /\ NextClient("sent") /\ round' = round
        /\ req' = [req EXCEPT ![conn] = @ + 1]
        /\ UNCHANGED <<resp, backlog, clients, accepted_count, ses, echoed>>
    BY <1>3, <1>5 DEF Send, write_all_socket, serverVars
  <2>2. /\ Rounds' /\ Made' = Made
        /\ \A x \in Client :
              /\ Taken(x)' = Taken(x)
              /\ SentTo(x)' = IF x = conn THEN SentTo(x) + 1 ELSE SentTo(x)
    BY <1>1, <1>2, <2>1, Reckoning
  <2>3. Line'
    BY <1>1, <2>1, <2>2, LineFrame DEF Main
  <2>4. ASSUME NEW x \in Client
        PROVE  Books(x)'
    <3>1. CASE x = conn
      <4>1. req'[x] = req[x] + 1 /\ SentTo(x)' = SentTo(x) + 1
        BY <1>1, <2>1, <2>2, <3>1 DEF EchoType
      <4> QED  BY <1>1, <2>1, <2>2, <4>1, BooksMove
    <3>2. CASE x # conn
      <4>1. req'[x] = req[x] /\ SentTo(x)' = SentTo(x)
        BY <1>1, <2>1, <2>2, <3>2 DEF EchoType
      <4> QED  BY <1>1, <2>1, <2>2, <4>1, BooksFrame
    <3> QED  BY <3>1, <3>2
  <2> QED  BY <2>2, <2>3, <2>4
<1>6. CASE Receive
  <2>1. /\ Main("receive") /\ NextClient("received") /\ round' = round
        /\ resp' = [resp EXCEPT ![conn] = @ - 1]
        /\ UNCHANGED <<req, backlog, clients, accepted_count, ses, echoed>>
    BY <1>3, <1>6 DEF Receive, read_exact_socket, serverVars
  <2>2. /\ Rounds' /\ Made' = Made
        /\ \A x \in Client :
              /\ SentTo(x)' = SentTo(x)
              /\ Taken(x)' = IF x = conn THEN Taken(x) + 1 ELSE Taken(x)
    BY <1>1, <1>2, <2>1, Reckoning
  <2>3. Line'
    BY <1>1, <2>1, <2>2, LineFrame DEF Main
  <2>4. ASSUME NEW x \in Client
        PROVE  Books(x)'
    <3>1. CASE x = conn
      <4>1. resp'[x] = resp[x] - 1 /\ Taken(x)' = Taken(x) + 1
        BY <1>1, <2>1, <2>2, <3>1 DEF EchoType
      <4> QED  BY <1>1, <2>1, <2>2, <4>1, BooksMove
    <3>2. CASE x # conn
      <4>1. resp'[x] = resp[x] /\ Taken(x)' = Taken(x)
        BY <1>1, <2>1, <2>2, <3>2 DEF EchoType
      <4> QED  BY <1>1, <2>1, <2>2, <4>1, BooksFrame
    <3> QED  BY <3>1, <3>2
  <2> QED  BY <2>2, <2>3, <2>4
<1>7. CASE CheckFailed
  <2>1. UNCHANGED <<req, resp, backlog, clients, accepted_count, ses, echoed>>
        /\ at \in {"connected", "sent", "received"}
    BY <1>7 DEF CheckFailed, Main, netVars, serverVars
  <2>2. /\ Rounds' /\ Made' = Made
        /\ \A x \in Client : SentTo(x)' = SentTo(x) /\ Taken(x)' = Taken(x)
    BY <1>1, <1>2, <1>7, CheckReckoning
  <2>3. Line'
    BY <1>1, <2>1, <2>2, LineFrame
  <2> QED  BY <1>1, <2>1, <2>2, <2>3, BooksFrame
<1>8. CASE Close \/ Stop \/ Join
  <2>1. /\ UNCHANGED <<conn, round, req, resp, backlog, accepted_count, ses, echoed>>
        /\ at \in {"close", "stop", "join"} /\ at' \in {"stop", "join", "success"}
    BY <1>2, <1>8 DEF Close, Stop, Join, Main, netVars, serverVars
  <2>2. /\ Rounds' /\ Made' = Made
        /\ \A x \in Client : SentTo(x)' = SentTo(x) /\ Taken(x)' = Taken(x)
    BY <1>1, <2>1 DEF Rounds, Over, Made, SentTo, Taken
  <2>3. Line'
    BY <1>1, <2>1, <2>2 DEF Line
  <2> QED  BY <1>1, <2>1, <2>2, <2>3, BooksFrame
<1> QED  BY <1>4, <1>5, <1>6, <1>7, <1>8 DEF MainStep

(* The head of the line is the next connection, and gets its session.      *)
LEMMA LineShrinks ==
    ASSUME EchoType, Line, \A x \in Client : Books(x),
           backlog # <<>>, backlog' = Tail(backlog),
           accepted_count' = accepted_count + 1,
           ses' = [ses EXCEPT ![Head(backlog)] = "top"],
           UNCHANGED <<mainVars, clients, req, resp, echoed>>
    PROVE  Line' /\ \A x \in Client : Books(x)'
<1>1. /\ backlog \in Seq(Client) /\ accepted_count \in Nat
      /\ Len(backlog) \in Nat /\ Head(backlog) \in Client
      /\ Head(backlog) = backlog[1] /\ 1 \in 1..Len(backlog)
      /\ ses \in [Client -> {"none", "top", "read", "write", "done"}]
  BY SMTT(30) DEF EchoType
<1>2. /\ accepted_count + Len(backlog) = Made
      /\ \A k \in 1..Len(backlog) : backlog[k] = accepted_count + k
      /\ \A x \in Client : ses[x] = "none" <=> x > accepted_count
  BY DEF Line
<1>3. Made' = Made /\ UNCHANGED at
  BY DEF mainVars, Made
<1>4. Head(backlog) = accepted_count + 1
  BY <1>1, <1>2
<1>5. /\ accepted_count' + Len(backlog') = Made
      /\ \A k \in 1..Len(backlog') : backlog'[k] = accepted_count' + k
  <2>1. /\ Len(backlog') = Len(backlog) - 1
        /\ \A k \in 1..Len(backlog') : backlog'[k] = backlog[k + 1]
                                      /\ k + 1 \in 1..Len(backlog) /\ k \in Nat
    BY SMTT(30), <1>1
  <2> QED  BY SMTT(30), <1>1, <1>2, <2>1
<1>6. ASSUME NEW x \in Client
      PROVE  ses'[x] = "none" <=> x > accepted_count'
  <2>1. x \in Nat
    BY SMTT(30), OptionsAssumption DEF Client
  <2>2. CASE x = Head(backlog)
    <3>1. ses'[x] = "top"
      BY <1>1, <2>2
    <3>2. ~(x > accepted_count + 1)
      BY SMTT(30), <1>1, <1>4, <2>2
    <3> QED  BY <3>1, <3>2
  <2>3. CASE x # Head(backlog)
    <3>1. ses'[x] = ses[x]
      BY <1>1, <2>3
    <3>2. x > accepted_count <=> x > accepted_count + 1
      BY SMTT(30), <1>1, <1>4, <2>1, <2>3
    <3> QED  BY <1>2, <3>1, <3>2
  <2> QED  BY <2>2, <2>3
<1>7. Line'
  BY <1>3, <1>5, <1>6 DEF Line
<1>8. ASSUME NEW x \in Client
      PROVE  Books(x)'
  <2>1. SentTo(x)' = SentTo(x) /\ Taken(x)' = Taken(x)
    BY DEF SentTo, Taken, mainVars
  <2>2. CASE x = Head(backlog)
    <3>1. accepted_count + 1 > accepted_count
      BY SMTT(30), <1>1
    <3>2. ses[x] = "none" /\ ses'[x] = "top"
      BY <1>1, <1>2, <1>4, <2>2, <3>1
    <3> QED  BY <2>1, <3>2 DEF Books
  <2>3. CASE x # Head(backlog)
    <3>1. ses'[x] = ses[x]
      BY <1>1, <2>3
    <3> QED  BY <2>1, <3>1, BooksFrame
  <2> QED  BY <2>2, <2>3
<1> QED  BY <1>7, <1>8

(* A session takes a payload, echoes it, or goes round.                    *)
LEMMA SessionBooks ==
    ASSUME EchoInv, NEW x \in Client, Session(x), ~faulted, ~faulted', Flags'
    PROVE  Rounds' /\ Line' /\ \A y \in Client : Books(y)'
<1>1. /\ EchoType /\ Flags /\ Rounds /\ Line /\ ~failed /\ ~failed'
      /\ \A y \in Client : Books(y)
  BY DEF EchoInv, Flags
<1>2. UNCHANGED <<mainVars, backlog, clients, accepted_count>>
  BY DEF Session, SessionTop, SessionRead, SessionWrite, netVars
<1>3. /\ Rounds' /\ Made' = Made /\ at' = at
      /\ \A y \in Client : SentTo(y)' = SentTo(y) /\ Taken(y)' = Taken(y)
  BY <1>1, <1>2 DEF mainVars, Rounds, Made, SentTo, Taken
<1>4. ~(\E k : Fault(k)) /\ ~(\E t, m : Record(t, m))
  BY <1>1 DEF Fault, Record
<1>5. \/ /\ ses[x] = "top" /\ UNCHANGED <<req, resp, echoed>>
         /\ Move(x, IF echoed[x] = Iterations THEN "done" ELSE "read")
      \/ /\ ses[x] = "read" /\ Move(x, "write") /\ req[x] > 0
         /\ req' = [req EXCEPT ![x] = @ - 1] /\ UNCHANGED <<resp, echoed>>
      \/ /\ ses[x] = "write" /\ Move(x, "top") /\ UNCHANGED req
         /\ resp' = [resp EXCEPT ![x] = @ + 1]
         /\ echoed' = [echoed EXCEPT ![x] = @ + 1]
  <2>1. CASE SessionTop(x)
    BY <1>1, <2>1 DEF SessionTop, netVars
  <2>2. CASE SessionRead(x)
    BY <1>4, <2>2 DEF SessionRead, FailSession
  <2>3. CASE SessionWrite(x)
    BY <1>4, <2>3 DEF SessionWrite, FailSession
  <2> QED  BY <2>1, <2>2, <2>3 DEF Session
<1>6. /\ req \in [Client -> Nat] /\ resp \in [Client -> Nat]
      /\ echoed \in [Client -> Nat]
      /\ ses \in [Client -> {"none", "top", "read", "write", "done"}]
  BY <1>1 DEF EchoType
<1>7. ses[x] # "none" /\ ses'[x] # "none"
      /\ \A y \in Client \ {x} : ses'[y] = ses[y] /\ req'[y] = req[y]
                                 /\ resp'[y] = resp[y] /\ echoed'[y] = echoed[y]
  BY <1>5, <1>6 DEF Move
<1>8. Line'
  BY <1>1, <1>2, <1>3, <1>7, LineFrame
<1>9. ASSUME NEW y \in Client \ {x}
      PROVE  Books(y)'
  BY <1>1, <1>3, <1>7, BooksFrame
<1>10. Books(x)'
  <2>1. /\ echoed[x] \in Nat /\ req[x] \in Nat /\ resp[x] \in Nat
        /\ round \in Nat /\ round <= Iterations /\ Iterations \in Nat
    BY SMTT(30), <1>1, <1>6, OptionsAssumption DEF EchoType
  <2>2. /\ echoed[x] + req[x] + (IF ses[x] = "write" THEN 1 ELSE 0) = SentTo(x)
        /\ resp[x] + Taken(x) = echoed[x]
    BY <1>1 DEF Books
  <2>3. SentTo(x) \in Int /\ SentTo(x) <= Iterations /\ Taken(x) \in Int
    BY SMTT(30), <2>1 DEF SentTo, Taken
  <2>4. CASE ses[x] = "top"
    <3>1. /\ ses'[x] = (IF echoed[x] = Iterations THEN "done" ELSE "read")
          /\ req'[x] = req[x] /\ resp'[x] = resp[x] /\ echoed'[x] = echoed[x]
      BY <1>5, <1>6, <2>4 DEF Move
    <3>2. echoed[x] <= Iterations
      <4>1. echoed[x] + req[x] + 0 = SentTo(x)
        BY <2>2, <2>4
      <4>2. echoed[x] + req[x] + 0 <= Iterations
        BY <2>3, <4>1
      <4>3. PICK e \in Nat, q \in Nat, n \in Nat :
               e = echoed[x] /\ q = req[x] /\ n = Iterations
        BY <2>1
      <4>4. e + q + 0 <= n
        BY <4>2, <4>3
      <4>5. e <= n
        BY <4>4, NoMoreEchoed
      <4> QED  BY <4>3, <4>5
    <3>3. echoed[x] # Iterations => echoed[x] < Iterations
      BY SMTT(30), <2>1, <3>2
    <3> QED  BY <1>3, <2>2, <2>4, <3>1, <3>3 DEF Books
  <2>5. CASE ses[x] = "read"
    <3>1. /\ ses'[x] = "write" /\ req'[x] = req[x] - 1
          /\ resp'[x] = resp[x] /\ echoed'[x] = echoed[x]
      BY <1>5, <1>6, <2>5 DEF Move
    <3>2. echoed[x] < Iterations
      BY <1>1, <2>5 DEF Books
    <3>3. echoed'[x] + req'[x] + 1 = SentTo(x)
      <4>1. echoed[x] + req[x] + 0 = SentTo(x)
        BY <2>2, <2>5
      <4>2. echoed[x] + (req[x] - 1) + 1 = echoed[x] + req[x] + 0
        BY <2>1, MoreRead
      <4> QED  BY <3>1, <4>1, <4>2
    <3> QED  BY <1>3, <2>2, <3>1, <3>2, <3>3 DEF Books
  <2>6. CASE ses[x] = "write"
    <3>1. /\ ses'[x] = "top" /\ req'[x] = req[x]
          /\ resp'[x] = resp[x] + 1 /\ echoed'[x] = echoed[x] + 1
      BY <1>5, <1>6, <2>6 DEF Move
    <3>2. echoed'[x] + req'[x] + 0 = SentTo(x) /\ resp'[x] + Taken(x) = echoed'[x]
      <4>1. echoed[x] + req[x] + 1 = SentTo(x) /\ resp[x] + Taken(x) = echoed[x]
        BY <2>2, <2>6
      <4>2. (echoed[x] + 1) + req[x] + 0 = echoed[x] + req[x] + 1
        BY <2>1, MoreEchoed
      <4>3. (resp[x] + 1) + Taken(x) = (resp[x] + Taken(x)) + 1
        BY <2>1, <2>3, MoreAnswered
      <4> QED  BY <3>1, <4>1, <4>2, <4>3
    <3> QED  BY <1>3, <3>1, <3>2 DEF Books
  <2> QED  BY <1>5, <2>4, <2>5, <2>6
<1> QED  BY <1>3, <1>8, <1>9, <1>10

(* The invariant is inductive.                                             *)
LEMMA EchoStep ==
    ASSUME EchoInv, [EchoNext]_echoVars
    PROVE  EchoInv'
<1>1. EchoType'
  <2>1. CASE UNCHANGED echoVars
    BY <2>1 DEF EchoInv, EchoType, echoVars, mainVars, sharedVars, netVars,
                serverVars, threadVars
  <2> QED  BY <2>1, MainTypes, ServerTypes DEF EchoInv, EchoNext
<1>2. Flags'
  <2>1. CASE UNCHANGED echoVars
    BY <2>1, QuietFlags DEF EchoInv, echoVars, mainVars, threadVars
  <2> QED  BY <2>1, MainFlags, ServerFlags, SessionFlags, SayFlags
              DEF EchoNext
<1>3. ASSUME ~faulted'
      PROVE  Rounds' /\ Line' /\ \A x \in Client : Books(x)'
  <2>1. ~faulted
    <3>1. faulted' = TRUE \/ faulted' = faulted
      BY DEF EchoNext, MainStep, Connect, Send, Receive, CheckFailed, Close,
             Stop, Join, ServerStep, Start, AcceptTop, Accept, End, RunFails,
             Say, Session, SessionTop, SessionRead, SessionWrite, Fault,
             NoFault, echoVars, sharedVars
    <3> QED  BY <1>3, <3>1 DEF EchoInv, EchoType
  <2>2. EchoType /\ Rounds /\ Line /\ \A x \in Client : Books(x)
    BY <2>1 DEF EchoInv
  <2>3. CASE MainStep
    BY <1>2, <1>3, <2>1, <2>3, MainBooks
  <2>4. CASE \E x \in Client : Session(x)
    BY <1>2, <1>3, <2>1, <2>4, SessionBooks
  <2>5. CASE Accept
    <3>1. /\ backlog # <<>> /\ backlog' = Tail(backlog)
          /\ accepted_count' = accepted_count + 1
          /\ ses' = [ses EXCEPT ![Head(backlog)] = "top"]
          /\ UNCHANGED <<mainVars, clients, req, resp, echoed>>
      BY <1>3, <2>5 DEF Accept, Fault
    <3>2. Rounds'
      BY <2>2, <3>1 DEF Rounds, mainVars
    <3> QED  BY <2>2, <3>1, <3>2, LineShrinks
  <2>6. CASE \/ Start \/ AcceptTop \/ End \/ RunFails
             \/ (\E t \in Threads : Say(t)) \/ UNCHANGED echoVars
    <3>1. UNCHANGED <<mainVars, netVars, accepted_count, ses, echoed>>
      BY <2>6 DEF Start, AcceptTop, End, RunFails, Say, echoVars, serverVars
    <3>2. /\ Rounds' /\ Made' = Made /\ at' = at
          /\ \A x \in Client : SentTo(x)' = SentTo(x) /\ Taken(x)' = Taken(x)
      BY <2>2, <3>1 DEF mainVars, Rounds, Made, SentTo, Taken
    <3>3. Line'
      BY <2>2, <3>1, <3>2, LineFrame DEF netVars
    <3> QED  BY <2>2, <3>1, <3>2, <3>3, BooksFrame DEF netVars
  <2> QED  BY <2>3, <2>4, <2>5, <2>6 DEF EchoNext, ServerStep
<1> QED  BY <1>1, <1>2, <1>3 DEF EchoInv

(* The invariant gives the verdict.                                        *)
LEMMA EchoVerdictOf ==
    ASSUME EchoInv
    PROVE  EchoVerdict
<1>1. EchoType /\ Flags
  BY DEF EchoInv
<1>2. ASSUME at = "success"
      PROVE  /\ ~failed /\ message = "none"
             /\ \A x \in Client : /\ echoed[x] = Iterations
                                  /\ resp[x] = 0 /\ req[x] = 0
  <2>1. ~failed /\ message = "none" /\ ~faulted
    BY <1>1, <1>2 DEF Flags
  <2>2. ASSUME NEW x \in Client
        PROVE  echoed[x] = Iterations /\ resp[x] = 0 /\ req[x] = 0
    <3>1. Rounds /\ Books(x)
      BY <2>1 DEF EchoInv
    <3>2. SentTo(x) = Iterations /\ Taken(x) = Iterations
      BY <1>2, <3>1 DEF Rounds, Over, SentTo, Taken
    <3>3. /\ echoed[x] \in Nat /\ req[x] \in Nat /\ resp[x] \in Nat
          /\ Iterations \in Nat
      BY <1>1, OptionsAssumption DEF EchoType
    <3>4. PICK w \in {0, 1} : echoed[x] + req[x] + w = Iterations
      BY <3>1, <3>2 DEF Books
    <3>5. resp[x] + Iterations = echoed[x]
      BY <3>1, <3>2 DEF Books
    <3>6. PICK e \in Nat, q \in Nat, r \in Nat, n \in Nat :
             /\ e = echoed[x] /\ q = req[x] /\ r = resp[x] /\ n = Iterations
             /\ e + q + w = n /\ r + n = e
      BY <3>3, <3>4, <3>5
    <3>7. e = n /\ r = 0 /\ q = 0
      BY SMTT(30), <3>6
    <3> QED  BY <3>6, <3>7
  <2> QED  BY <2>1, <2>2
<1>3. ASSUME at = "failure"
      PROVE  faulted /\ (saying[MainThread] = "none" => message # "none")
  <2>1. /\ faulted /\ (message # "none" \/ \E t \in Threads : ~Silent(t))
        /\ \A t \in Threads \ {MainThread} : Silent(t)
    BY <1>1, <1>3 DEF Flags
  <2> QED  BY <2>1 DEF Silent
<1> QED  BY <1>2, <1>3 DEF EchoVerdict

(* An echo benchmark that reports its numbers has done all of its work,    *)
(* and one that reports a failure had a call that failed and has a message *)
(* to print, for any number of connections and rounds, over coroutines and *)
(* over threads, whichever calls may fail.                                 *)
THEOREM EchoVerdictHolds == EchoSpec => []EchoVerdict
<1>1. EchoInit => EchoInv
  <2> SUFFICES ASSUME EchoInit
               PROVE  EchoInv
    OBVIOUS
  <2>1. /\ <<>> \in Seq(Client) /\ Len(<<>>) = 0 /\ 1..0 = {} /\ 0 \in Nat
        /\ 1 \in Client /\ 1 \in 1..Iterations /\ 0 + 0 = 0 /\ 1 - 1 = 0
        /\ 0 + 0 + 0 = 0
        /\ \A x \in Client : x > 0 /\ ~(x <= 0)
    BY SMTT(30), OptionsAssumption DEF Client
  <2>2. EchoType
    BY <2>1 DEF EchoInit, EchoType, Messages
  <2>3. Flags
    BY ThreadFacts DEF EchoInit, Flags, Silent
  <2>4. Rounds /\ Made = 0
    BY <2>1 DEF EchoInit, Rounds, Over, Made
  <2>5. Line
    BY <2>1, <2>4 DEF EchoInit, Line
  <2>6. \A x \in Client : Books(x)
    BY <2>1 DEF EchoInit, Books, SentTo, Taken
  <2> QED  BY <2>2, <2>3, <2>4, <2>5, <2>6 DEF EchoInv
<1> QED  BY <1>1, EchoStep, EchoVerdictOf, PTL DEF EchoSpec
=============================================================================
