----------------------------- MODULE Descriptors -----------------------------
(***************************************************************************)
(* Ownership of descriptors: unique_fd (src/core/unique_fd.cpp) and the    *)
(* functions that make sockets (src/nonblocking/tcp.cpp,                   *)
(* src/blocking/tcp.cpp, src/blocking/udp.cpp), system call by system call *)
(* and with the failure of each.  Threads interleave, and the kernel hands *)
(* out again whatever number was closed last.                              *)
(***************************************************************************)
EXTENDS Sequences, Naturals

CONSTANTS Fd,      \* descriptor numbers
          None,    \* -1
          Object,  \* unique_fd members of streams, listeners and sockets
          Thread

(* Who can hold a number: an object, the local owned_fd of a function in   *)
(* progress, or a plain int.                                               *)
Owned(t) == <<t, "owned_fd">>
Raw(t) == <<t, "int">>
Place == Object \cup {Owned(t) : t \in Thread} \cup {Raw(t) : t \in Thread}

ASSUME DescriptorAssumption ==
    /\ None \notin Fd
    /\ \A t \in Thread : Owned(t) \notin Object /\ Raw(t) \notin Object

VARIABLES open,  \* numbers open in the process
          held,  \* what each place holds
          op,    \* the calls of the function a thread is in
          step   \* its next call

descriptorVars == <<open, held, op, step>>

(* The functions that make sockets: the calls each makes, in order.        *)
NonblockingConnect == <<"to_sockaddr", "nonblocking", "connect">>
NonblockingBind == <<"to_sockaddr", "nonblocking", "reuse", "bind", "listen">>
NonblockingAccept == <<"socket">>
BlockingConnect == <<"to_sockaddr", "socket", "connect">>
BlockingBind == <<"to_sockaddr", "socket", "reuse", "bind", "listen">>
BlockingAccept == <<"socket">>
UdpBind == <<"to_sockaddr", "socket", "reuse", "bind">>
Factory == {NonblockingConnect, NonblockingBind, NonblockingAccept,
            BlockingConnect, BlockingBind, BlockingAccept, UdpBind}

DescriptorInit ==
    /\ open = {}
    /\ held = [p \in Place |-> None]
    /\ op = [t \in Thread |-> <<>>]
    /\ step = [t \in Thread |-> 1]

Idle(t) == op[t] = <<>>
At(t, call) == step[t] <= Len(op[t]) /\ op[t][step[t]] = call
Advance(t) == step' = [step EXCEPT ![t] = @ + 1] /\ UNCHANGED op
Finish(t) == /\ step' = [step EXCEPT ![t] = 1]
             /\ op' = [op EXCEPT ![t] = <<>>]

(* ~unique_fd of owned_fd: an error return closes what was made so far.    *)
Fail(t) ==
    /\ open' = open \ {held[Owned(t)]}
    /\ held' = [held EXCEPT ![Owned(t)] = None]
    /\ Finish(t)

Begin(t) ==
    /\ Idle(t) /\ held[Raw(t)] = None
    /\ \E k \in Factory : op' = [op EXCEPT ![t] = k]
    /\ UNCHANGED <<open, held, step>>

(* socket(2) and accept4(2): a number that was free.                       *)
New(t, p) == \E f \in Fd \ open : /\ open' = open \cup {f}
                                  /\ held' = [held EXCEPT ![p] = f]
Make(t) ==
    /\ At(t, "socket")
    /\ \/ New(t, Owned(t)) /\ Advance(t)
       \/ Fail(t)

(* make_stream_socket_nonblocking: in one call, or by socket(2) and        *)
(* fcntl(2) on a plain int.                                                *)
MakeNonblocking(t) ==
    /\ At(t, "nonblocking") /\ held[Raw(t)] = None
    /\ \/ New(t, Owned(t)) /\ Advance(t)
       \/ New(t, Raw(t)) /\ UNCHANGED <<op, step>>
       \/ Fail(t)
\* mutant: the fallback socket is not closed when fcntl fails
SetNonblocking_Leak(t) ==
    /\ At(t, "nonblocking") /\ held[Raw(t)] # None
    /\ \/ /\ held' = [held EXCEPT ![Owned(t)] = held[Raw(t)], ![Raw(t)] = None]
          /\ Advance(t) /\ UNCHANGED open
       \/ /\ held' = [held EXCEPT ![Raw(t)] = None]
          /\ Finish(t) /\ UNCHANGED open
SetNonblocking(t) ==
    /\ At(t, "nonblocking") /\ held[Raw(t)] # None
    /\ \/ /\ held' = [held EXCEPT ![Owned(t)] = held[Raw(t)], ![Raw(t)] = None]
          /\ Advance(t) /\ UNCHANGED open
       \/ /\ open' = open \ {held[Raw(t)]}
          /\ held' = [held EXCEPT ![Raw(t)] = None]
          /\ Finish(t)

(* inet_pton, setsockopt, bind, listen, connect.                           *)
Check(t) ==
    /\ \E c \in {"to_sockaddr", "reuse", "bind", "listen", "connect"} : At(t, c)
    /\ \/ Advance(t) /\ UNCHANGED <<open, held>>
       \/ Fail(t)

(* tcp_stream{std::move(owned_fd)}, moved into the caller's object.        *)
ReturnOwned(t, o) ==
    /\ ~Idle(t) /\ step[t] > Len(op[t])
    /\ open' = open \ {held[o]}
    /\ held' = [held EXCEPT ![o] = held[Owned(t)], ![Owned(t)] = None]
    /\ Finish(t)

----------------------------------------------------------------------------
(* unique_fd.  reset(fd) does nothing when fd is what it holds.            *)
Reset(o, p) ==
    /\ p # o
    /\ open' = open \ {held[o]}
    /\ held' = [held EXCEPT ![o] = held[p], ![p] = None]
    /\ UNCHANGED <<op, step>>
Destroy(o) ==
    /\ open' = open \ {held[o]}
    /\ held' = [held EXCEPT ![o] = None]
    /\ UNCHANGED <<op, step>>

(* Move assignment: reset(other.release()).                                *)
MoveAssign(o, q) == q \in Object /\ Reset(o, q)
(* reset(fd) and unique_fd{fd} take a number over from an int.             *)
Adopt(o, t) == Idle(t) /\ held[Raw(t)] # None /\ Reset(o, Raw(t))

Release(o, t) ==
    /\ Idle(t) /\ held[Raw(t)] = None /\ held[o] # None
    /\ held' = [held EXCEPT ![Raw(t)] = held[o], ![o] = None]
    /\ UNCHANGED <<open, op, step>>
Swap(o, q) ==
    /\ held' = [held EXCEPT ![o] = held[q], ![q] = held[o]]
    /\ UNCHANGED <<open, op, step>>
close_fd(t) ==
    /\ Idle(t) /\ held[Raw(t)] # None
    /\ open' = open \ {held[Raw(t)]}
    /\ held' = [held EXCEPT ![Raw(t)] = None]
    /\ UNCHANGED <<op, step>>

DescriptorNext ==
    \/ \E t \in Thread : \/ Begin(t) \/ Make(t) \/ MakeNonblocking(t)
                         \/ SetNonblocking(t) \/ Check(t) \/ close_fd(t)
                         \/ \E o \in Object : \/ ReturnOwned(t, o) \/ Adopt(o, t)
                                              \/ Release(o, t)
    \/ \E o, q \in Object : MoveAssign(o, q) \/ Swap(o, q)
    \/ \E o \in Object : Destroy(o)

DescriptorSpec == DescriptorInit /\ [][DescriptorNext]_descriptorVars

----------------------------------------------------------------------------
(* Type invariant of the table and the places.                             *)
DescriptorTypeOK ==
    /\ open \subseteq Fd
    /\ held \in [Place -> Fd \cup {None}]
    /\ op \in [Thread -> Factory \cup {<<>>}]
    /\ step \in [Thread -> 1..6]
    /\ \A t \in Thread : Idle(t) => step[t] = 1 /\ held[Owned(t)] = None

(* Every open descriptor has one owner and every owner an open descriptor: *)
(* no error path of a factory and no use of unique_fd leaks one, closes    *)
(* one twice, or closes the number of somebody else.                       *)
SingleOwner ==
    /\ \A p, q \in Place : held[p] # None /\ held[p] = held[q] => p = q
    /\ open = {held[p] : p \in Place} \ {None}
=============================================================================
