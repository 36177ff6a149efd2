------------------------------ MODULE MCStream ------------------------------
(***************************************************************************)
(* Instances for TLC of the operations on a stream: making its connection  *)
(* (Connect), with system calls that fail and without, and moving bytes    *)
(* over it (Transfer) between coroutines whose connection may break and    *)
(* between threads.  They share no state: a behaviour picks one part and   *)
(* leaves the others where they start.                                     *)
(***************************************************************************)
EXTENDS Connect, Transfer

CONSTANTS c1, c2, a1, a2

VARIABLE part

(* A negative timeout is rejected, a zero one has passed at once.          *)
Timeouts == {-1, 0, 2}

Working == INSTANCE Connect WITH CanFail <- FALSE
Threads == INSTANCE Transfer WITH
    Length <- {0, 1, 3}, MaxBytes <- 5, Timeout <- {0, 2},
    Blocking <- TRUE, CanBreak <- FALSE

PartsInit == /\ part \in {"failing", "working", "moving", "blocking"}
             /\ ConnectInit /\ TransferInit
PartsNext ==
    /\ \/ part = "failing" /\ ConnectNext /\ UNCHANGED transferVars
       \/ part = "working" /\ Working!ConnectNext /\ UNCHANGED transferVars
       \/ part = "moving" /\ TransferNext /\ UNCHANGED connectVars
       \/ part = "blocking" /\ Threads!TransferNext /\ UNCHANGED connectVars
    /\ UNCHANGED part

(* The fairness of Connect and Transfer, each in its part.                 *)
PartsFair ==
    /\ \A c \in Client :
          /\ WF_connectVars(part = "working" /\ Working!FinishConnect(c))
          /\ WF_connectVars(part = "working" /\ Working!FirstWrite(c))
          /\ WF_connectVars(part = "working" /\ Working!HandshakeEnds(c))
    /\ \A a \in Acceptor :
          WF_connectVars(part = "working" /\ Working!AcceptStep(a))
    /\ WF_connectVars(part = "working" /\ Working!Readable)
    /\ WF_transferVars(Tick)
    /\ \A s \in Side :
          WF_transferVars(\/ part = "moving" /\ Step(s)
                          \/ part = "blocking" /\ Threads!Step(s))
Parts == /\ PartsInit /\ [][PartsNext]_<<part, connectVars, transferVars>>
         /\ PartsFair

-----------------------------------------------------------------------------
(* As long as no call fails for want of resources, every connection that   *)
(* is established is accepted.                                             *)
WorkingServed == part = "working" => Working!Served
=============================================================================
