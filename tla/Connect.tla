------------------------------- MODULE Connect -------------------------------
(***************************************************************************)
(* Making connections: async_connect and async_accept                      *)
(* (src/runtime/io_ops.cpp) over the nonblocking sockets of                *)
(* src/nonblocking/tcp.cpp, against the handshake of the kernel, the       *)
(* accept queue of the listener and a peer that may refuse or go away.     *)
(***************************************************************************)
EXTENDS Sequences, Naturals, FiniteSets

CONSTANTS Client,    \* one async_connect each
          Acceptor,  \* coroutines that call async_accept on the listener
          None,
          Backlog,   \* listen(fd, backlog)
          CanFail    \* may system calls fail for want of resources?

ASSUME ConnectAssumption == None \notin Acceptor

VARIABLES net,      \* the handshake of a client's socket, as the kernel has it
          sockerr,  \* its pending error, which SO_ERROR reads and clears
          cpc,      \* async_connect: "new", "finish", "returned"
          cres,     \* what it returned
          used,     \* what the first write on a returned stream gave
          queue,    \* established connections nobody accepted yet
          apc,      \* async_accept: where its loop is
          slot,     \* the acceptor whose wait holds the listener's read slot
          accepted  \* who accepted a client's connection

clientVars == <<net, sockerr, cpc, cres, used>>
acceptVars == <<apc, slot, accepted>>
connectVars == <<clientVars, queue, acceptVars>>

ConnectInit ==
    /\ net = [c \in Client |-> "closed"]
    /\ sockerr = [c \in Client |-> "0"]
    /\ cpc = [c \in Client |-> "new"]
    /\ cres = [c \in Client |-> "none"]
    /\ used = [c \in Client |-> "none"]
    /\ queue = <<>>
    /\ apc = [a \in Acceptor |-> "idle"]
    /\ slot = None
    /\ accepted = [c \in Client |-> None]

----------------------------------------------------------------------------
(* async_connect and tcp_stream::connect.  An error return destroys the    *)
(* stream, and so closes the socket.                                       *)
Give(c, r) == /\ cpc' = [cpc EXCEPT ![c] = "returned"]
              /\ cres' = [cres EXCEPT ![c] = r]
FailConnect(c, r) == Give(c, r) /\ net' = [net EXCEPT ![c] = "closed"]
Connect(c) ==
    /\ cpc[c] = "new"
    /\ \/ /\ net' = [net EXCEPT ![c] = "handshake"]
          /\ cpc' = [cpc EXCEPT ![c] = "finish"] /\ UNCHANGED cres
       \/ /\ Len(queue) < Backlog
          /\ net' = [net EXCEPT ![c] = "established"]
          /\ cpc' = [cpc EXCEPT ![c] = "finish"] /\ UNCHANGED cres
       \/ CanFail /\ FailConnect(c, "errno")
    /\ queue' = IF net'[c] = "established" THEN Append(queue, c) ELSE queue
    /\ UNCHANGED <<sockerr, used, acceptVars>>

(* finish_connect: SO_ERROR is 0 as long as the handshake runs, so the     *)
(* loop of async_connect ends in its first round.  Its other branch waits  *)
(* on EINPROGRESS and EAGAIN, which are never pending errors of a socket.  *)
\* mutant: any pending error is taken for success
FinishConnect_Ignore(c) ==
    /\ cpc[c] = "finish"
    /\ Give(c, "ok")
    /\ sockerr' = [sockerr EXCEPT ![c] = "0"]
    /\ UNCHANGED <<net, used, queue, acceptVars>>
FinishConnect(c) ==
    /\ cpc[c] = "finish"
    /\ IF sockerr[c] = "0" THEN Give(c, "ok") /\ UNCHANGED net
       ELSE FailConnect(c, sockerr[c])
    /\ sockerr' = [sockerr EXCEPT ![c] = "0"]
    /\ UNCHANGED <<used, queue, acceptVars>>

(* The first write of the caller on the stream it got: it waits while the  *)
(* handshake runs, and takes the pending error if there is one.            *)
FirstWrite(c) ==
    /\ cpc[c] = "returned" /\ cres[c] = "ok" /\ used[c] = "none"
    /\ net[c] # "handshake"
    /\ used' = [used EXCEPT ![c] = IF sockerr[c] # "0" THEN sockerr[c]
                                   ELSE IF net[c] = "established" THEN "ok"
                                   ELSE "EPIPE"]
    /\ sockerr' = [sockerr EXCEPT ![c] = "0"]
    /\ UNCHANGED <<net, cpc, cres, queue, acceptVars>>

----------------------------------------------------------------------------
(* The kernel: the handshake ends, with a place in the accept queue, which *)
(* it waits for, or with an error.                                         *)
Establish(c) ==
    /\ net[c] = "handshake" /\ Len(queue) < Backlog
    /\ net' = [net EXCEPT ![c] = "established"]
    /\ queue' = Append(queue, c)
    /\ UNCHANGED <<sockerr, cpc, cres, used, acceptVars>>
Refuse(c) ==
    /\ net[c] = "handshake"
    /\ net' = [net EXCEPT ![c] = "refused"]
    /\ sockerr' = [sockerr EXCEPT ![c] = "ECONNREFUSED"]
    /\ UNCHANGED <<cpc, cres, used, queue, acceptVars>>

----------------------------------------------------------------------------
(* async_accept.                                                           *)
Accept(a) ==
    /\ apc[a] = "idle"
    /\ apc' = [apc EXCEPT ![a] = "try"]
    /\ UNCHANGED <<clientVars, queue, slot, accepted>>
\* mutant: a woken coroutine loses the connection it takes
Accept4_Dropped(a) ==
    /\ apc[a] \in {"try", "woken"}
    /\ IF queue # <<>>
       THEN /\ accepted' = IF apc[a] = "woken" THEN accepted
                           ELSE [accepted EXCEPT ![Head(queue)] = a]
            /\ queue' = Tail(queue)
            /\ apc' = [apc EXCEPT ![a] = "idle"]
       ELSE apc' = [apc EXCEPT ![a] = "wait"] /\ UNCHANGED <<queue, accepted>>
    /\ UNCHANGED <<clientVars, slot>>
Accept4(a) ==
    /\ apc[a] \in {"try", "woken"}
    /\ \/ /\ queue # <<>>
          /\ accepted' = [accepted EXCEPT ![Head(queue)] = a]
          /\ queue' = Tail(queue)
          /\ apc' = [apc EXCEPT ![a] = "idle"]
       \/ /\ queue = <<>>
          /\ apc' = [apc EXCEPT ![a] = "wait"] /\ UNCHANGED <<queue, accepted>>
       \/ /\ CanFail
          /\ apc' = [apc EXCEPT ![a] = "failed"] /\ UNCHANGED <<queue, accepted>>
    /\ UNCHANGED <<clientVars, slot>>

(* wait_readable(listener): the slot is free or the wait fails with EBUSY. *)
WaitReadable(a) ==
    /\ apc[a] = "wait"
    /\ IF slot = None
       THEN slot' = a /\ apc' = [apc EXCEPT ![a] = "parked"]
       ELSE apc' = [apc EXCEPT ![a] = "failed"] /\ UNCHANGED slot
    /\ UNCHANGED <<clientVars, queue, accepted>>
(* The loop finds the listener readable.                                   *)
Readable ==
    /\ slot # None /\ queue # <<>>
    /\ apc' = [apc EXCEPT ![slot] = "woken"]
    /\ slot' = None
    /\ UNCHANGED <<clientVars, queue, accepted>>
(* async_accept returned an error; its caller calls it again.              *)
AcceptFailed(a) ==
    /\ apc[a] = "failed"
    /\ apc' = [apc EXCEPT ![a] = "idle"]
    /\ UNCHANGED <<clientVars, queue, slot, accepted>>

HandshakeEnds(c) == Establish(c) \/ Refuse(c)
AcceptStep(a) == Accept(a) \/ Accept4(a) \/ WaitReadable(a) \/ AcceptFailed(a)
ConnectNext ==
    \/ \E c \in Client : \/ Connect(c) \/ FinishConnect(c) \/ FirstWrite(c)
                         \/ HandshakeEnds(c)
    \/ \E a \in Acceptor : AcceptStep(a)
    \/ Readable

ConnectSpec == ConnectInit /\ [][ConnectNext]_connectVars

(* Coroutines that can run do, the loop polls, every handshake ends.       *)
ConnectFair ==
    /\ ConnectSpec
    /\ \A c \in Client : /\ WF_connectVars(FinishConnect(c))
                         /\ WF_connectVars(FirstWrite(c))
                         /\ WF_connectVars(HandshakeEnds(c))
    /\ \A a \in Acceptor : WF_connectVars(AcceptStep(a))
    /\ WF_connectVars(Readable)

----------------------------------------------------------------------------
(* A connection that was refused is reported as refused, by async_connect  *)
(* or by the first write on the stream it returned: reading SO_ERROR, which*)
(* clears it, never loses the error.                                       *)
RefusalReported ==
    \A c \in Client :
        /\ used[c] = "ok" => net[c] = "established"
        /\ used[c] # "none" /\ net[c] = "refused" => used[c] = "ECONNREFUSED"

(* An established connection waits in the accept queue, once, or has been  *)
(* given to an acceptor: several coroutines that race with accept4 on one  *)
(* listener lose none and take none twice.                                 *)
Pending(c) == \E n \in 1..Len(queue) : queue[n] = c
AcceptedOnce ==
    /\ \A m, n \in 1..Len(queue) : queue[m] = queue[n] => m = n
    /\ \A c \in Client :
          /\ net[c] = "established" <=> Pending(c) \/ accepted[c] # None
          /\ ~(Pending(c) /\ accepted[c] # None)

(* Every connection that is established is accepted.                       *)
Served == \A c \in Client : net[c] = "established" ~> accepted[c] # None
=============================================================================
