------------------------------ MODULE EchoBench ------------------------------
(***************************************************************************)
(* The echo benchmarks, whole programs on top of the library: main() is    *)
(* the client of all the connections, against coroutines on a runtime      *)
(* thread that stop() ends (example/perf_async_echo_libsimplenet.cpp), or  *)
(* against blocking threads (example/perf_tcp_echo_libsimplenet.cpp).      *)
(* A payload is one unit: what moves part of it is module Transfer.        *)
(***************************************************************************)
EXTENDS Options, Sequences

CONSTANTS Async,  \* coroutines on a runtime thread, or one thread each?
          Faults  \* which calls may fail: "connect", "accept", "io", "run"

VARIABLES at, conn, round, \* main(): where it is, and its loop variables
          failed, message, \* shared; message is error_message
          saying,        \* record_failure between its exchange and its lock
          faulted,       \* some call of the program has failed
          backlog,       \* connections not yet accepted
          req, resp,     \* payloads under way in each direction
          clients,       \* sockets of the clients that are open
          acceptor, accepted_count, \* the accept loop and its count
          ses, echoed,   \* the session of each connection, and its i
          server,        \* the runtime or server thread
          stop           \* stop_requested_ of the event loop

mainVars == <<at, conn, round>>
failVars == <<failed, saying>>
netVars == <<backlog, req, resp, clients>>
serverVars == <<acceptor, accepted_count, ses, echoed>>
sharedVars == <<failed, saying, message, faulted>>
threadVars == <<server, stop>>
echoVars == <<mainVars, sharedVars, netVars, serverVars, threadVars>>

Client == 1..Connections
(* The threads: main(), one for each session, and the server's own.        *)
MainThread == 0
ServerThread == Connections + 1
Threads == MainThread..ServerThread
(* The thread that runs the session of a connection.                       *)
On(x) == IF Async THEN ServerThread ELSE x

EchoInit ==
    /\ at = "connect" /\ conn = 1 /\ round = 1
    /\ failed = FALSE /\ message = "none"
    /\ saying = [t \in Threads |-> "none"]
    /\ faulted = FALSE
    /\ backlog = <<>> /\ clients = {}
    /\ req = [x \in Client |-> 0] /\ resp = [x \in Client |-> 0]
    /\ acceptor = "top" /\ accepted_count = 0
    /\ ses = [x \in Client |-> "none"] /\ echoed = [x \in Client |-> 0]
    /\ server = "starting" /\ stop = FALSE

(* record_failure: the first to exchange the flag stores its message, in a *)
(* step of its own.                                                        *)
Record(t, m) ==
    /\ failed' = TRUE
    /\ saying' = IF failed THEN saying ELSE [saying EXCEPT ![t] = m]
Say(t) ==
    /\ saying[t] # "none"
    /\ message' = saying[t]
    /\ saying' = [saying EXCEPT ![t] = "none"]
    /\ UNCHANGED <<mainVars, failed, faulted, netVars, serverVars, threadVars>>
Fault(k) == k \in Faults /\ faulted' = TRUE
NoFault == UNCHANGED <<failVars, faulted>>

----------------------------------------------------------------------------
(* main().  A failed call leaves its loop for the next check of failed.    *)
Main(p) == at = p /\ saying[MainThread] = "none"
(* The next client, or the check p after the last one.                     *)
NextClient(p) == IF conn < Connections THEN conn' = conn + 1 /\ UNCHANGED at
                 ELSE conn' = 1 /\ at' = p

(* The backlog holds every connection, so connect does not wait for the    *)
(* accept loop.                                                            *)
connect_loopback_socket ==
    backlog' = Append(backlog, conn) /\ clients' = clients \cup {conn}
Connect ==
    /\ Main("connect")
    /\ \/ /\ connect_loopback_socket
          /\ NextClient("connected") /\ NoFault
       \/ /\ Fault("connect") /\ Record(MainThread, "connect")
          /\ conn' = 1 /\ at' = "connected" /\ UNCHANGED <<backlog, clients>>
    /\ UNCHANGED <<round, message, req, resp, serverVars, threadVars>>

(* The peer is gone when its session has ended.  A peer that closes with   *)
(* unread data resets the connection: what it had sent may be lost.        *)
Gone(x) == ses[x] = "done"
write_all_socket == req' = [req EXCEPT ![conn] = @ + 1]
Send ==
    /\ Main("send")
    /\ \/ /\ write_all_socket
          /\ NextClient("sent") /\ NoFault
       \/ /\ (Gone(conn) /\ UNCHANGED faulted) \/ Fault("io")
          /\ Record(MainThread, "send")
          /\ conn' = 1 /\ at' = "sent" /\ UNCHANGED req
    /\ UNCHANGED <<round, message, backlog, resp, clients, serverVars,
                   threadVars>>
read_exact_socket == resp[conn] > 0 /\ resp' = [resp EXCEPT ![conn] = @ - 1]
Receive ==
    /\ Main("receive")
    /\ \/ /\ read_exact_socket
          /\ NextClient("received") /\ NoFault
       \/ /\ \/ /\ Gone(conn) /\ (resp[conn] = 0 \/ req[conn] > 0)
                /\ UNCHANGED faulted
             \/ Fault("io")
          /\ Record(MainThread, "receive")
          /\ conn' = 1 /\ at' = "received" /\ UNCHANGED resp
    /\ UNCHANGED <<round, message, backlog, req, clients, serverVars,
                   threadVars>>

(* The three checks of failed.                                             *)
CheckFailed ==
    /\ \/ /\ Main("connected") /\ UNCHANGED round
          /\ at' = IF failed THEN "close" ELSE "send"
       \/ /\ Main("sent") /\ UNCHANGED round
          /\ at' = IF failed THEN "close" ELSE "receive"
       \/ /\ Main("received")
          /\ at' = IF failed \/ round = Iterations THEN "close" ELSE "send"
          /\ round' = IF failed \/ round = Iterations THEN round ELSE round + 1
    /\ UNCHANGED <<conn, sharedVars, netVars, serverVars, threadVars>>

(* clients.clear(), context.stop(), join.                                  *)
Close ==
    /\ Main("close")
    /\ clients' = {}
    /\ at' = IF Async THEN "stop" ELSE "join"
    /\ UNCHANGED <<conn, round, sharedVars, backlog, req, resp, serverVars,
                   threadVars>>
Stop ==
    /\ Main("stop")
    /\ stop' = TRUE
    /\ at' = "join"
    /\ UNCHANGED <<conn, round, sharedVars, netVars, serverVars, server>>
Join ==
    /\ Main("join") /\ server \in {"ended", "broken"}
    /\ IF failed THEN at' = "failure" /\ UNCHANGED failVars
       ELSE IF server = "broken"
       THEN Record(MainThread, "run") /\ at' = "failure"
       ELSE IF Async /\ accepted_count # Connections
       THEN Record(MainThread, "mismatch") /\ at' = "failure"
       ELSE at' = "success" /\ UNCHANGED failVars
    /\ UNCHANGED <<conn, round, message, faulted, netVars, serverVars,
                   threadVars>>

----------------------------------------------------------------------------
(* The accept loop and the sessions.                                       *)
Running(t) == server = "running" /\ saying[t] = "none"
\* mutant: the loop does not look at failed
AcceptTop_Blind ==
    /\ Running(ServerThread) /\ acceptor = "top"
    /\ acceptor' = IF accepted_count = Connections THEN "done" ELSE "accept"
    /\ UNCHANGED <<mainVars, sharedVars, netVars, accepted_count, ses, echoed,
                   threadVars>>
AcceptTop ==
    /\ Running(ServerThread) /\ acceptor = "top"
    /\ acceptor' = IF accepted_count = Connections \/ failed THEN "done"
                   ELSE "accept"
    /\ UNCHANGED <<mainVars, sharedVars, netVars, accepted_count, ses, echoed,
                   threadVars>>
Accept ==
    /\ Running(ServerThread) /\ acceptor = "accept"
    /\ \/ /\ backlog # <<>>
          /\ backlog' = Tail(backlog) /\ accepted_count' = accepted_count + 1
          /\ ses' = [ses EXCEPT ![Head(backlog)] = "top"]
          /\ acceptor' = "top" /\ NoFault
       \/ /\ Fault("accept") /\ Record(ServerThread, "accept")
          /\ acceptor' = "done" /\ UNCHANGED <<backlog, accepted_count, ses>>
    /\ UNCHANGED <<mainVars, message, req, resp, clients, echoed, threadVars>>

Move(x, p) == ses' = [ses EXCEPT ![x] = p]
FailSession(x, m) == Move(x, "done") /\ Record(On(x), m)
\* mutant: a session takes one round too many
SessionTop_OneMore(x) ==
    /\ Running(On(x)) /\ ses[x] = "top"
    /\ Move(x, IF echoed[x] > Iterations \/ failed THEN "done" ELSE "read")
    /\ UNCHANGED <<mainVars, sharedVars, netVars, acceptor, accepted_count,
                   echoed, threadVars>>
SessionTop(x) ==
    /\ Running(On(x)) /\ ses[x] = "top"
    /\ Move(x, IF echoed[x] = Iterations \/ failed THEN "done" ELSE "read")
    /\ UNCHANGED <<mainVars, sharedVars, netVars, acceptor, accepted_count,
                   echoed, threadVars>>
SessionRead(x) ==
    /\ Running(On(x)) /\ ses[x] = "read"
    /\ \/ /\ req[x] > 0
          /\ req' = [req EXCEPT ![x] = @ - 1]
          /\ Move(x, "write") /\ NoFault
       \/ /\ \/ /\ x \notin clients /\ (req[x] = 0 \/ resp[x] > 0)
                /\ UNCHANGED faulted
             \/ Fault("io")
          /\ FailSession(x, "read") /\ UNCHANGED req
    /\ UNCHANGED <<mainVars, message, backlog, resp, clients, acceptor,
                   accepted_count, echoed, threadVars>>
SessionWrite(x) ==
    /\ Running(On(x)) /\ ses[x] = "write"
    /\ \/ /\ resp' = [resp EXCEPT ![x] = @ + 1]
          /\ echoed' = [echoed EXCEPT ![x] = @ + 1]
          /\ Move(x, "top") /\ NoFault
       \/ /\ (x \notin clients /\ UNCHANGED faulted) \/ Fault("io")
          /\ FailSession(x, "write") /\ UNCHANGED <<resp, echoed>>
    /\ UNCHANGED <<mainVars, message, backlog, req, clients, acceptor,
                   accepted_count, threadVars>>

(* The thread: run() clears the stop flag when it starts, and returns when *)
(* it sees the flag or all tasks are done.  The blocking server thread     *)
(* ends after its handlers.                                                *)
Start ==
    /\ server = "starting"
    /\ server' = "running"
    /\ stop' = FALSE
    /\ UNCHANGED <<mainVars, sharedVars, netVars, serverVars>>
AllDone == acceptor = "done" /\ \A x \in Client : ses[x] \in {"none", "done"}
End ==
    /\ server = "running"
    /\ \A t \in Threads \ {MainThread} : saying[t] = "none"
    /\ AllDone \/ (Async /\ stop)
    /\ server' = "ended"
    /\ UNCHANGED <<mainVars, sharedVars, netVars, serverVars, stop>>

(* run() returns an error of its reactor.                                  *)
RunFails ==
    /\ Async /\ Running(ServerThread)
    /\ Fault("run")
    /\ server' = "broken"
    /\ UNCHANGED <<mainVars, failVars, message, netVars, serverVars, stop>>

MainStep == Connect \/ Send \/ Receive \/ CheckFailed \/ Close \/ Stop \/ Join
ServerStep == Start \/ AcceptTop \/ Accept \/ End
Session(x) == SessionTop(x) \/ SessionRead(x) \/ SessionWrite(x)
EchoNext ==
    \/ MainStep \/ ServerStep \/ RunFails
    \/ \E t \in Threads : Say(t)
    \/ \E x \in Client : Session(x)
EchoSpec == EchoInit /\ [][EchoNext]_echoVars

(* Threads run, and the loop resumes what is ready.                        *)
EchoFair ==
    /\ EchoSpec
    /\ WF_echoVars(MainStep) /\ WF_echoVars(ServerStep)
    /\ \A t \in Threads : WF_echoVars(Say(t))
    /\ \A x \in Client : WF_echoVars(Session(x))

----------------------------------------------------------------------------
(* A benchmark that reports its numbers has done all of the work: every    *)
(* session echoed every round and main() has read every answer.  One that  *)
(* reports a failure had a call that failed, not an end of file, a reset   *)
(* or a count that its own shutdown causes; and it prints the message of   *)
(* the first failure, which record_failure keeps only after it has set the *)
(* flag, so that main() finds both only because it joins first.            *)
EchoVerdict ==
    /\ at = "success" =>
          /\ ~failed /\ message = "none"
          /\ \A x \in Client : echoed[x] = Iterations /\ resp[x] = 0 /\ req[x] = 0
    /\ at = "failure" =>
          /\ faulted
          /\ saying[MainThread] = "none" => message # "none"

(* main() returns from its join, and so from everything before it.  The    *)
(* stop() that run() may clear when it starts late is not needed then:     *)
(* failed is set before it, and the accept loop looks at it first.         *)
EchoReturns == <>(at \in {"failure", "success"})
=============================================================================
