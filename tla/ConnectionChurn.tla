--------------------------- MODULE ConnectionChurn ---------------------------
(***************************************************************************)
(* example/perf_connection_churn_libsimplenet.cpp: in each round main()    *)
(* makes all connections, then writes a token to each, then reads it back. *)
(* One server thread accepts and serves them one after the other, with     *)
(* blocking calls.  The accept queue of the listener is what keeps the two *)
(* from waiting for each other.                                            *)
(***************************************************************************)
EXTENDS Options, Sequences

CONSTANTS MinBacklog,  \* 64
          SoMaxConn,   \* the kernel's limit on a backlog
          CanFail      \* may socket calls fail?

VARIABLES at, c, i,    \* main()
          failed,
          faulted,     \* some call of the program has failed
          queue,       \* connections not yet accepted
          req, resp,   \* connections with a token under way, by direction
          open,        \* connections whose client socket is open
          spc, served, \* the server thread and its loop variable
          cur          \* the connection it serves, 0 for none

mainVars == <<at, c, i>>
netVars == <<queue, req, resp, open>>
serverVars == <<spc, served, cur>>
vars == <<mainVars, failed, faulted, netVars, serverVars>>

Total == Iterations * Connections
Id == (i - 1) * Connections + c  \* the connection main() is at
(* The argument of bind; Connections fits in an int.                       *)
\* mutant: the argument of bind does not follow the connections
Backlog_Fixed == MinBacklog
Backlog == IF Connections > MinBacklog THEN Connections ELSE MinBacklog
(* listen(2) grants no more than the limit of the kernel.                  *)
Granted == IF Backlog < SoMaxConn THEN Backlog ELSE SoMaxConn

Init ==
    /\ at = "top" /\ c = 1 /\ i = 1
    /\ failed = FALSE /\ faulted = FALSE
    /\ queue = <<>> /\ req = {} /\ resp = {} /\ open = {}
    /\ spc = "top" /\ served = 0 /\ cur = 0

record_failure == failed' = TRUE
Ok == UNCHANGED <<failed, faulted>>
Fault == CanFail /\ record_failure /\ faulted' = TRUE
(* A call that fails because the other side has closed.                    *)
Reset(gone) == gone /\ record_failure /\ UNCHANGED faulted

Advance(p) == IF c < Connections THEN c' = c + 1 /\ UNCHANGED at
              ELSE c' = 1 /\ at' = p
Leave(p) == c' = 1 /\ at' = p

(* connect returns when the connection has its place in the accept queue.  *)
Connect ==
    /\ at = "connect"
    /\ \/ /\ Len(queue) < Granted
          /\ queue' = Append(queue, Id) /\ open' = open \cup {Id}
          /\ Advance("connected") /\ Ok
       \/ Fault /\ Leave("connected") /\ UNCHANGED <<queue, open>>
    /\ UNCHANGED <<i, req, resp, serverVars>>

Closed(x) == x <= served \/ (spc = "done" /\ cur = x)
Write ==
    /\ at = "write"
    /\ \/ req' = req \cup {Id} /\ Advance("written") /\ Ok
       \/ (Fault \/ Reset(Closed(Id))) /\ Leave("written") /\ UNCHANGED req
    /\ UNCHANGED <<i, queue, resp, open, serverVars>>
Read ==
    /\ at = "read"
    /\ \/ Id \in resp /\ resp' = resp \ {Id} /\ Advance("done") /\ Ok
       \/ /\ Fault \/ Reset(Id \notin resp /\ Closed(Id))
          /\ Leave("done") /\ UNCHANGED resp
    /\ UNCHANGED <<i, queue, req, open, serverVars>>

(* The checks of failed.  A round that ends closes its clients.            *)
Check ==
    /\ \/ /\ at = "connected" /\ ~failed /\ at' = "write"
          /\ UNCHANGED <<i, open>>
       \/ /\ at = "written" /\ ~failed /\ at' = "read" /\ UNCHANGED <<i, open>>
       \/ /\ at = "done" /\ ~failed /\ open' = {}
          /\ at' = IF i = Iterations THEN "join" ELSE "top"
          /\ i' = IF i = Iterations THEN i ELSE i + 1
       \/ /\ at = "top" /\ ~failed /\ at' = "connect" /\ UNCHANGED <<i, open>>
       \/ /\ at \in {"connected", "written", "done", "top"} /\ failed
          /\ at' = "join" /\ open' = {} /\ UNCHANGED i
    /\ UNCHANGED <<c, failed, faulted, queue, req, resp, serverVars>>
Join ==
    /\ at = "join" /\ spc = "done"
    /\ at' = IF failed THEN "failure" ELSE "success"
    /\ UNCHANGED <<c, i, failed, faulted, netVars, serverVars>>

----------------------------------------------------------------------------
(* The server thread.  A return destroys the stream it serves.             *)
ServerTop ==
    /\ spc = "top"
    /\ spc' = IF served = Total \/ failed THEN "done" ELSE "accept"
    /\ UNCHANGED <<mainVars, failed, faulted, netVars, served, cur>>
Accept ==
    /\ spc = "accept"
    /\ \/ /\ queue # <<>>
          /\ cur' = Head(queue) /\ queue' = Tail(queue) /\ spc' = "read" /\ Ok
       \/ Fault /\ spc' = "done" /\ UNCHANGED <<queue, cur>>
    /\ UNCHANGED <<mainVars, req, resp, open, served>>
ServerRead ==
    /\ spc = "read"
    /\ \/ cur \in req /\ req' = req \ {cur} /\ spc' = "write" /\ Ok
       \/ /\ Fault \/ Reset(cur \notin req /\ cur \notin open)
          /\ spc' = "done" /\ UNCHANGED req
    /\ UNCHANGED <<mainVars, queue, resp, open, served, cur>>
ServerWrite ==
    /\ spc = "write"
    /\ \/ /\ resp' = resp \cup {cur} /\ spc' = "top" /\ Ok
          /\ served' = served + 1 /\ cur' = 0
       \/ /\ Fault \/ Reset(cur \notin open)
          /\ spc' = "done" /\ UNCHANGED <<resp, served, cur>>
    /\ UNCHANGED <<mainVars, queue, req, open>>

MainStep == Connect \/ Write \/ Read \/ Check \/ Join
ServerStep == ServerTop \/ Accept \/ ServerRead \/ ServerWrite
Next == MainStep \/ ServerStep
Spec == Init /\ [][Next]_vars
(* Both threads run when they can.                                         *)
FairSpec == Spec /\ WF_vars(MainStep) /\ WF_vars(ServerStep)

----------------------------------------------------------------------------
(* The benchmark reports its numbers when all connections were served, and *)
(* a failure only when a call failed.                                      *)
Verdict ==
    /\ at = "success" => served = Total /\ ~failed
    /\ at = "failure" => faulted

(* Without a failing call, and with a kernel that grants a backlog of      *)
(* Connections, the two threads never wait for each other: the backlog     *)
(* that main() asks for holds all connections of a round, although the     *)
(* server is still reading from the first one.                             *)
ChurnEnds == SoMaxConn >= Connections => <>(at = "success")
=============================================================================
