---------------------------- MODULE EpollReactor ----------------------------
(***************************************************************************)
(* simplenet::epoll::reactor (src/epoll/reactor.cpp) over the kernel's     *)
(* epoll instance, used edge-triggered by the event loop.  The kernel side *)
(* (readiness levels, ready list, what close(2) does to a registration) is *)
(* external code, modelled from how the reactor uses it.                   *)
(*                                                                         *)
(* An event mask is the set of conditions it requests.  EPOLLHUP is always *)
(* used together with EPOLLERR in the loop's masks, so "err" stands for    *)
(* both; EPOLLET is a property of every registration modelled here.        *)
(***************************************************************************)
EXTENDS Naturals, FiniteSets

CONSTANTS Fd,        \* descriptor numbers tasks wait on
          Conds,     \* conditions the environment can raise
          MaxEvents  \* size of the event array given to wait (64 in the code)

Condition == {"in", "out", "rdhup", "err"}

ASSUME FdFinite == IsFiniteSet(Fd)
ASSUME CondsAssumption == Conds \subseteq Condition
ASSUME MaxEventsAssumption == MaxEvents \in Nat \ {0}

VARIABLES open,      \* open descriptors
          level,     \* current condition of every descriptor
          interest,  \* mask in the epoll set, {} when not registered
          rdlist     \* descriptors on the epoll ready list

kernelVars == <<open, level, interest, rdlist>>

KernelTypeOK ==
    /\ open \in SUBSET Fd
    /\ level \in [Fd -> SUBSET Condition]
    /\ interest \in [Fd -> SUBSET Condition]
    /\ rdlist \in SUBSET Fd

KernelInit ==
    /\ open = Fd
    /\ level = [fd \in Fd |-> {}]
    /\ interest = [fd \in Fd |-> {}]
    /\ rdlist = {}

-----------------------------------------------------------------------------
(* reactor::ctl: the error a control operation returns ("NONE" is no call  *)
(* at all).  Removing a descriptor that is not registered (ENOENT) counts  *)
(* as success.                                                             *)
CtlResult(op, fd) ==
    IF op = "NONE" THEN "ok"
    ELSE IF fd \notin open THEN "EBADF"
    ELSE IF op = "ADD" /\ interest[fd] # {} THEN "EEXIST"
    ELSE IF op = "MOD" /\ interest[fd] = {} THEN "ENOENT"
    ELSE "ok"

(* The kernel's effect of a control operation: ADD and MOD re-poll the     *)
(* descriptor and queue it when a requested condition already holds, which *)
(* is what makes edge-triggered arming safe.                               *)
CtlEffect(op, fd, mask) ==
    /\ IF op = "NONE" \/ CtlResult(op, fd) # "ok"
       THEN UNCHANGED <<interest, rdlist>>
       ELSE /\ interest' = [interest EXCEPT ![fd] = mask]
            /\ rdlist' = IF mask = {} THEN rdlist \ {fd}
                         ELSE IF level[fd] \cap mask # {} THEN rdlist \cup {fd}
                         ELSE rdlist
    /\ UNCHANGED <<open, level>>

(* What epoll_wait can report now.                                         *)
Reported(fd) == level[fd] \cap interest[fd]
Reportable == {fd \in rdlist : Reported(fd) # {}}

-----------------------------------------------------------------------------
(* A condition starts to hold (data, buffer space, hang-up, error).        *)
Raise(fd, c) ==
    /\ fd \in open
    /\ level' = [level EXCEPT ![fd] = @ \cup {c}]
    /\ rdlist' = IF c \in interest[fd] THEN rdlist \cup {fd} ELSE rdlist
    /\ UNCHANGED <<open, interest>>

(* A read or write consumes the readiness: the next call would block.      *)
Consume(fd, c) ==
    /\ c \in level[fd] \cap {"in", "out"}
    /\ level' = [level EXCEPT ![fd] = @ \ {c}]
    /\ UNCHANGED <<open, interest, rdlist>>

(* close(2) also takes the descriptor out of the epoll set, without the    *)
(* loop being told.                                                        *)
Close(fd) ==
    /\ fd \in open
    /\ open' = open \ {fd}
    /\ level' = [level EXCEPT ![fd] = {}]
    /\ interest' = [interest EXCEPT ![fd] = {}]
    /\ rdlist' = rdlist \ {fd}

(* A new socket takes the lowest free number, so numbers come back.        *)
Open(fd) ==
    /\ fd \notin open
    /\ open' = open \cup {fd}
    /\ UNCHANGED <<level, interest, rdlist>>
=============================================================================
