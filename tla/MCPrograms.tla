----------------------------- MODULE MCPrograms -----------------------------
(***************************************************************************)
(* Instances for TLC of what programs do with the library: they own        *)
(* descriptors (Descriptors), call and await coroutines (CoAwait), and are *)
(* the echo benchmarks over coroutines and over threads (EchoBench) and    *)
(* the connection benchmark (ConnectionChurn), with calls that fail and    *)
(* without.  They share no state: a behaviour picks one part and leaves    *)
(* the others where they start.                                            *)
(***************************************************************************)
EXTENDS Descriptors, CoAwait, Options

CONSTANTS o1, o2, t1, t2

VARIABLES part,
          at, conn, round, failed, faulted, message, saying, backlog, req, resp,
          clients, acceptor, accepted_count, ses, echoed, server, stop,
          phase, c, i, bad, fault, queue, asked, answered, connected,
          spc, served, cur

Echo == INSTANCE EchoBench WITH
    Async <- TRUE, Faults <- {"connect", "accept", "io", "run"}
EchoConnect == INSTANCE EchoBench WITH
    Async <- TRUE, Faults <- {"connect"}
Tcp == INSTANCE EchoBench WITH
    Async <- FALSE, Faults <- {"connect", "accept", "io"}
TcpFaultless == INSTANCE EchoBench WITH
    Async <- FALSE, Faults <- {}
Churn == INSTANCE ConnectionChurn WITH
    MinBacklog <- 1, SoMaxConn <- 2, CanFail <- TRUE,
    at <- phase, failed <- bad, faulted <- fault, req <- asked, resp <- answered,
    open <- connected
ChurnFaultless == INSTANCE ConnectionChurn WITH
    MinBacklog <- 1, SoMaxConn <- 3, CanFail <- FALSE,
    at <- phase, failed <- bad, faulted <- fault, req <- asked, resp <- answered,
    open <- connected

echoVars == <<at, conn, round, failed, faulted, message, saying, backlog, req,
              resp, clients, acceptor, accepted_count, ses, echoed, server, stop>>
churnVars == <<phase, c, i, bad, fault, queue, asked, answered, connected, spc,
               served, cur>>

PartsInit ==
    /\ part \in {"descriptors", "await", "echo", "echo_connect", "tcp",
                 "tcp_faultless", "churn", "churn_faultless"}
    /\ DescriptorInit /\ AwaitInit /\ Echo!EchoInit /\ Churn!Init

EchoParts == \/ part = "echo" /\ Echo!EchoNext
             \/ part = "echo_connect" /\ EchoConnect!EchoNext
             \/ part = "tcp" /\ Tcp!EchoNext
             \/ part = "tcp_faultless" /\ TcpFaultless!EchoNext
ChurnParts == \/ part = "churn" /\ Churn!Next
              \/ part = "churn_faultless" /\ ChurnFaultless!Next
PartsNext ==
    /\ UNCHANGED part
    /\ \/ /\ part = "descriptors" /\ DescriptorNext
          /\ UNCHANGED <<awaitVars, echoVars, churnVars>>
       \/ /\ part = "await" /\ AwaitNext
          /\ UNCHANGED <<descriptorVars, echoVars, churnVars>>
       \/ EchoParts /\ UNCHANGED <<descriptorVars, awaitVars, churnVars>>
       \/ ChurnParts /\ UNCHANGED <<descriptorVars, awaitVars, echoVars>>

(* The fairness of EchoBench and of ConnectionChurn in the parts of which  *)
(* the end is claimed.                                                     *)
PartsFair ==
    /\ WF_echoVars(
          \/ part = "echo_connect" /\ EchoConnect!MainStep
          \/ part = "tcp_faultless" /\ TcpFaultless!MainStep)
    /\ WF_echoVars(
          \/ part = "echo_connect" /\ EchoConnect!ServerStep
          \/ part = "tcp_faultless" /\ TcpFaultless!ServerStep)
    /\ \A t \in Echo!Threads :
          WF_echoVars(part = "echo_connect" /\ EchoConnect!Say(t))
    /\ \A x \in Echo!Client :
          WF_echoVars(
             \/ part = "echo_connect" /\ EchoConnect!Session(x)
             \/ part = "tcp_faultless" /\ TcpFaultless!Session(x))
    /\ WF_churnVars(part = "churn_faultless" /\ ChurnFaultless!MainStep)
    /\ WF_churnVars(part = "churn_faultless" /\ ChurnFaultless!ServerStep)
Parts == /\ PartsInit
         /\ [][PartsNext]_<<part, descriptorVars, awaitVars, echoVars, churnVars>>
         /\ PartsFair

-----------------------------------------------------------------------------
(* A benchmark that reports its numbers has done all of the work; one that *)
(* reports a failure had a call that failed, and prints the message.       *)
Verdict == Echo!EchoVerdict /\ Churn!Verdict

(* An echo benchmark ends, over coroutines also when a connect fails and   *)
(* run() starts late.                                                      *)
JoinReturns == part \in {"echo_connect", "tcp_faultless"} => Echo!EchoReturns

(* The two threads of the connection benchmark never wait for each other   *)
(* when the kernel's limit is at least its connections.                    *)
ChurnEnds == part = "churn_faultless" => ChurnFaultless!ChurnEnds
=============================================================================
