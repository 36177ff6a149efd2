-------------------------- MODULE ChurnSleepProofs --------------------------
(***************************************************************************)
(* The verdict of the connection benchmark, for any number of connections  *)
(* and rounds and any backlog.  Connections are numbered in the order in   *)
(* which main() makes them and the server serves them, so what is under    *)
(* way is an interval of numbers at every place of the two threads.        *)
(*                                                                         *)
(* The sleeps of a thread, for any number of them: each one in flight is   *)
(* in the queue of the loop once or holds the read slot of the timer that  *)
(* they share, and none succeeds before its own deadline.                  *)
(***************************************************************************)
EXTENDS ConnectionChurn, Sleep, FiniteSetTheorems, TLAPS

(* Most leaves are first-order; those on arithmetic or sequences name SMT. *)
USE ZenonT(30)

ChurnType ==
    /\ at \in {"top", "connect", "connected", "write", "written", "read",
               "done", "join", "failure", "success"}
    /\ c \in 1..Connections /\ i \in 1..Iterations
    /\ failed \in BOOLEAN /\ faulted \in BOOLEAN
    /\ queue \in Seq(Nat)
    /\ spc \in {"top", "accept", "read", "write", "done"}
    /\ served \in Nat /\ cur \in Nat

(* The connections of earlier rounds, and how many connections main() has  *)
(* made, written to and read from.                                         *)
Base == (i - 1) * Connections
Made == IF at = "top" THEN Base
        ELSE IF at = "connect" THEN Base + c - 1 ELSE Base + Connections
Written == IF at \in {"top", "connect", "connected"} THEN Base
           ELSE IF at = "write" THEN Base + c - 1 ELSE Base + Connections
Taken == IF at \in {"top", "connect", "connected", "write", "written"} THEN Base
         ELSE IF at = "read" THEN Base + c - 1 ELSE Base + Connections

(* How many the server has accepted and read from.                         *)
Begun == IF spc \in {"read", "write"} THEN served + 1 ELSE served
Drained == IF spc = "write" THEN served + 1 ELSE served

(* Of a program in which no call has failed.                               *)
Rounds ==
    /\ at \in {"top", "connected", "written", "done"} => c = 1
    /\ at \in {"join", "success"} => i = Iterations
    /\ at # "failure"
    /\ cur = IF spc \in {"read", "write"} THEN served + 1 ELSE 0
    /\ spc = "done" => served = Total
Line ==
    /\ Begun + Len(queue) = Made
    /\ \A k \in 1..Len(queue) : queue[k] = Begun + k
Tokens ==
    /\ req = (Drained + 1)..Written /\ Drained <= Written
    /\ resp = (Taken + 1)..served /\ Taken <= served
    /\ at \notin {"top", "join", "success"} => (Base + 1)..Made \subseteq open

ChurnInv ==
    /\ ChurnType
    /\ failed <=> faulted
    /\ at = "failure" => failed
    /\ at = "success" => ~failed /\ spc = "done"
    /\ ~failed => Rounds /\ Line /\ Tokens

-----------------------------------------------------------------------------
(* Products of numbers.                                                    *)
LEMMA Products ==
    ASSUME NEW a \in Nat, NEW b \in Nat
    PROVE  a * b \in Nat /\ (a + 1) * b = a * b + b
BY SMTT(30)

(* The numbers of main().                                                  *)
LEMMA Numbers ==
    ASSUME ChurnType
    PROVE  /\ Connections \in Nat /\ Iterations \in Nat
           /\ i \in Nat /\ i <= Iterations
           /\ c \in Nat /\ 1 <= c /\ c <= Connections
           /\ Base \in Nat /\ Id = Base + c /\ Total \in Nat
           /\ i = Iterations => Base + Connections = Total
           /\ i' = i => Base' = Base
           /\ i' = i + 1 => Base' = Base + Connections
<1>1. /\ Connections \in Nat /\ Iterations \in Nat
      /\ i \in Nat /\ i <= Iterations /\ i - 1 \in Nat /\ (i - 1) + 1 = i
      /\ c \in Nat /\ 1 <= c /\ c <= Connections /\ (i + 1) - 1 = i
  BY SMTT(30), OptionsAssumption DEF ChurnType
<1>2. Base \in Nat /\ i * Connections = Base + Connections
  <2>1. /\ (i - 1) * Connections \in Nat
        /\ ((i - 1) + 1) * Connections = (i - 1) * Connections + Connections
    BY <1>1, Products
  <2> QED  BY <1>1, <2>1 DEF Base
<1>3. Id = Base + c
  BY DEF Id, Base
<1>4. Total \in Nat
  BY <1>1, Products DEF Total
<1>5. i = Iterations => Base + Connections = Total
  BY <1>2 DEF Total
<1>6. i' = i => Base' = Base
  BY DEF Base
<1>7. i' = i + 1 => Base' = Base + Connections
  BY <1>1, <1>2 DEF Base
<1> QED  BY <1>1, <1>2, <1>3, <1>4, <1>5, <1>6, <1>7

LEMMA CountTypes ==
    ASSUME ChurnType
    PROVE  /\ Made \in Nat /\ Written \in Nat /\ Taken \in Nat
           /\ Begun \in Nat /\ Drained \in Nat /\ served \in Nat
           /\ Base <= Taken /\ Base <= Written /\ Base <= Made
<1>1. /\ Base \in Nat /\ Base + c - 1 \in Nat /\ Base + Connections \in Nat
      /\ Base <= Base /\ Base <= Base + c - 1 /\ Base <= Base + Connections
      /\ served \in Nat /\ served + 1 \in Nat
  <2>1. served \in Nat
    BY DEF ChurnType
  <2> QED  BY SMTT(30), <2>1, Numbers
<1> QED  BY <1>1 DEF Made, Written, Taken, Begun, Drained

(* No call fails because the other side has closed: the server closes a    *)
(* connection that has its answer, and main() closes the round's when it   *)
(* has read all of them.                                                   *)
LEMMA NoReset ==
    ASSUME ChurnInv, ~failed
    PROVE  /\ at = "write" => ~Closed(Id)
           /\ at = "read" => ~(Id \notin resp /\ Closed(Id))
           /\ spc = "read" => ~(cur \notin req /\ cur \notin open)
           /\ spc = "write" => cur \in open
<1>1. ChurnType /\ Rounds /\ Line /\ Tokens
  BY DEF ChurnInv
<1>2. /\ Made \in Nat /\ Written \in Nat /\ Taken \in Nat /\ served \in Nat
      /\ Base \in Nat /\ c \in Nat /\ 1 <= c /\ Connections \in Nat
      /\ Id = Base + c /\ Base <= Taken /\ Base <= Written
  BY <1>1, Numbers, CountTypes
<1>3. spc = "done" => cur = 0
  BY <1>1 DEF Rounds
<1>4. ASSUME at = "write"
      PROVE  ~Closed(Id)
  <2>1. Written = Base + c - 1 /\ Drained <= Written
    BY <1>1, <1>4 DEF Written, Tokens
  <2>2. served <= Written
    BY SMTT(30), <1>2, <2>1 DEF Drained
  <2>3. ~(Id <= served) /\ Id # 0
    BY SMTT(30), <1>2, <2>1, <2>2
  <2> QED  BY <1>3, <2>3 DEF Closed
<1>5. ASSUME at = "read", Closed(Id)
      PROVE  Id \in resp
  <2>1. Taken = Base + c - 1 /\ resp = (Taken + 1)..served
    BY <1>1, <1>5 DEF Taken, Tokens
  <2>2. Id # 0
    BY SMTT(30), <1>2
  <2>3. Id <= served
    BY <1>3, <1>5, <2>2 DEF Closed
  <2> QED  BY SMTT(30), <1>2, <2>1, <2>3
<1>6. ASSUME spc \in {"read", "write"}, cur \notin req
      PROVE  cur \in open
  <2>1. /\ cur = served + 1 /\ Begun = served + 1
        /\ Begun + Len(queue) = Made /\ Taken <= served
        /\ req = (Drained + 1)..Written /\ Drained <= Written
    BY <1>1, <1>6 DEF Rounds, Begun, Line, Tokens
  <2>2. Len(queue) \in Nat
    BY SMTT(30), <1>1 DEF ChurnType
  <2>3. cur \in (Base + 1)..Made /\ Taken < Made
    BY SMTT(30), <1>2, <2>1, <2>2
  <2>4. at \notin {"top", "join", "success"}
    <3>1. at \in {"top", "join", "success"} => Taken = Made
      BY DEF Taken, Made
    <3>2. ~(Taken < Taken)
      BY SMTT(30), <1>2
    <3> QED  BY <2>3, <3>1, <3>2
  <2> QED  BY <1>1, <2>3, <2>4 DEF Tokens
<1>7. ASSUME spc = "write"
      PROVE  cur \notin req
  <2>1. cur = served + 1 /\ Drained = served + 1 /\ req = (Drained + 1)..Written
    BY <1>1, <1>7 DEF Rounds, Drained, Tokens
  <2> QED  BY SMTT(30), <1>2, <2>1
<1> QED  BY <1>4, <1>5, <1>6, <1>7

(* The flag follows the calls that failed.                                 *)
LEMMA FlagStep ==
    ASSUME ChurnInv, [Next]_vars
    PROVE  (failed' <=> faulted') /\ (failed => failed')
<1>1. failed \in BOOLEAN /\ faulted \in BOOLEAN /\ (failed <=> faulted)
  BY DEF ChurnInv, ChurnType
<1>2. CASE Ok
  BY <1>1, <1>2 DEF Ok
<1>3. CASE Fault
  BY <1>3 DEF Fault, record_failure
<1>4. CASE failed = TRUE /\ failed' = TRUE /\ UNCHANGED faulted
  BY <1>1, <1>4
<1>5. ASSUME NEW gone \in BOOLEAN, Reset(gone), ~failed => ~gone
      PROVE  failed = TRUE /\ failed' = TRUE /\ UNCHANGED faulted
  BY <1>1, <1>5 DEF Reset, record_failure
<1>6. CASE Connect
  BY <1>2, <1>3, <1>6 DEF Connect
<1>7. CASE Write
  <2>1. ~failed => ~Closed(Id)
    BY <1>7, NoReset DEF Write
  <2>2. Closed(Id) \in BOOLEAN
    BY DEF Closed
  <2> QED  BY <1>2, <1>3, <1>4, <1>5, <1>7, <2>1, <2>2 DEF Write
<1>8. CASE Read
  <2>1. ~failed => ~(Id \notin resp /\ Closed(Id))
    BY <1>8, NoReset DEF Read
  <2> QED  BY <1>2, <1>3, <1>4, <1>5, <1>8, <2>1 DEF Read
<1>9. CASE ServerRead
  <2>1. ~failed => ~(cur \notin req /\ cur \notin open)
    BY <1>9, NoReset DEF ServerRead
  <2> QED  BY <1>2, <1>3, <1>4, <1>5, <1>9, <2>1 DEF ServerRead
<1>10. CASE ServerWrite
  <2>1. ~failed => ~(cur \notin open)
    BY <1>10, NoReset DEF ServerWrite
  <2> QED  BY <1>2, <1>3, <1>4, <1>5, <1>10, <2>1 DEF ServerWrite
<1>11. CASE Accept
  BY <1>2, <1>3, <1>11 DEF Accept
<1>12. CASE Check \/ Join \/ ServerTop \/ UNCHANGED vars
  BY <1>2, <1>12 DEF Check, Join, ServerTop, vars, Ok
<1> QED  BY <1>6, <1>7, <1>8, <1>9, <1>10, <1>11, <1>12
         DEF Next, MainStep, ServerStep

(* The types, and where main() ends.                                       *)
LEMMA ChurnTypes ==
    ASSUME ChurnInv, [Next]_vars
    PROVE  ChurnType'
<1>1. ChurnType
  BY DEF ChurnInv
<1>2. /\ Connections \in Nat /\ Id \in Nat /\ 1 \in 1..Connections
      /\ (c < Connections => c + 1 \in 1..Connections)
      /\ (i # Iterations => i + 1 \in 1..Iterations) /\ served + 1 \in Nat
  <2>1. Id = Base + c /\ Base \in Nat
    BY <1>1, Numbers
  <2> QED  BY SMTT(30), <1>1, <2>1, OptionsAssumption DEF ChurnType
<1>3. c' \in 1..Connections /\ i' \in 1..Iterations
      /\ at' \in {"top", "connect", "connected", "write", "written", "read",
                  "done", "join", "failure", "success"}
  BY <1>1, <1>2 DEF ChurnType, Next, MainStep, ServerStep, Connect, Write,
        Read, Check, Join, ServerTop, Accept, ServerRead, ServerWrite,
        Advance, Leave, mainVars, vars
<1>4. failed' \in BOOLEAN /\ faulted' \in BOOLEAN
  BY <1>1 DEF ChurnType, Next, MainStep, ServerStep, Connect, Write,
        Read, Check, Join, ServerTop, Accept, ServerRead, ServerWrite,
        Ok, Fault, Reset, record_failure, vars
<1>5. spc' \in {"top", "accept", "read", "write", "done"} /\ served' \in Nat
  BY <1>1, <1>2 DEF ChurnType, Next, MainStep, ServerStep, Connect, Write,
        Read, Check, Join, ServerTop, Accept, ServerRead, ServerWrite,
        serverVars, vars
<1>6. queue' \in Seq(Nat) /\ cur' \in Nat
  <2>1. /\ queue \in Seq(Nat) /\ Append(queue, Id) \in Seq(Nat) /\ 0 \in Nat
        /\ queue # <<>> => Tail(queue) \in Seq(Nat) /\ Head(queue) \in Nat
    BY SMTT(30), <1>1, <1>2 DEF ChurnType
  <2> QED  BY <1>1, <2>1 DEF ChurnType, Next, MainStep, ServerStep, Connect,
        Write, Read, Check, Join, ServerTop, Accept, ServerRead, ServerWrite,
        serverVars, netVars, vars
<1> QED  BY <1>3, <1>4, <1>5, <1>6 DEF ChurnType

-----------------------------------------------------------------------------
(* An interval of tokens grows at its end and shrinks at its beginning.    *)
LEMMA Grows ==
    ASSUME NEW a \in Nat, NEW b \in Nat, a <= b
    PROVE  ((a + 1)..b) \cup {b + 1} = (a + 1)..(b + 1) /\ a <= b + 1
BY SMTT(30)

LEMMA Shrinks ==
    ASSUME NEW a \in Nat, NEW b \in Nat, a + 1 \in (a + 1)..b
    PROVE  ((a + 1)..b) \ {a + 1} = ((a + 1) + 1)..b /\ a + 1 <= b
BY SMTT(30)

(* A loop of main() that has not failed goes on, or is over.               *)
LEMMA LoopStep ==
    ASSUME ChurnType, NEW p, Advance(p)
    PROVE  \/ c < Connections /\ c' = c + 1 /\ at' = at
           \/ c = Connections /\ c' = 1 /\ at' = p
<1>1. ~(c < Connections) => c = Connections
  BY SMTT(30), Numbers
<1> QED  BY <1>1 DEF Advance

(* main() connects, writes or reads.                                       *)
LEMMA MoveStep ==
    ASSUME ChurnInv, ~failed, Ok, Connect \/ Write \/ Read
    PROVE  Rounds' /\ Line' /\ Tokens'
<1>1. ChurnType /\ Rounds /\ Line /\ Tokens
  BY DEF ChurnInv
<1>2. /\ Made \in Nat /\ Written \in Nat /\ Taken \in Nat /\ served \in Nat
      /\ Begun \in Nat /\ Drained \in Nat /\ Base <= Made
      /\ Base \in Nat /\ c \in Nat /\ 1 <= c /\ Connections \in Nat
      /\ c <= Connections /\ Id = Base + c /\ queue \in Seq(Nat)
  BY <1>1, Numbers, CountTypes DEF ChurnType
<1>3. /\ i' = i /\ UNCHANGED serverVars /\ Base' = Base
      /\ Begun' = Begun /\ Drained' = Drained
  <2>1. i' = i /\ UNCHANGED serverVars
    BY DEF Connect, Write, Read
  <2> QED  BY <1>1, <2>1, Numbers DEF serverVars, Begun, Drained
<1>4. ~Fault /\ ~(\E gone : Reset(gone))
  <2>1. failed' # TRUE
    BY <1>1 DEF Ok, ChurnType
  <2> QED  BY <2>1 DEF Fault, Reset, record_failure
<1>5. CASE Connect
  <2>1. /\ at = "connect" /\ Advance("connected") /\ UNCHANGED <<req, resp>>
        /\ queue' = Append(queue, Id) /\ open' = open \cup {Id}
    BY <1>4, <1>5 DEF Connect
  <2>2. \/ c < Connections /\ c' = c + 1 /\ at' = "connect"
        \/ c = Connections /\ c' = 1 /\ at' = "connected"
    BY <1>1, <2>1, LoopStep
  <2>3. Rounds'
    BY <1>1, <1>3, <2>1, <2>2 DEF Rounds, serverVars
  <2>4. Written' = Written /\ Taken' = Taken
    BY <1>3, <2>1, <2>2 DEF Written, Taken
  <2>5. Made' = Made + 1 /\ Made + 1 = Id
    <3>1. at = "connect"
      BY <2>1
    <3> QED  BY SMTT(30), <1>2, <1>3, <2>2, <3>1 DEF Made
  <2>6. Line'
    <3>1. /\ Begun + Len(queue) = Made
          /\ \A k \in 1..Len(queue) : queue[k] = Begun + k
      BY <1>1 DEF Line
    <3>2. /\ Begun + Len(queue') = Made'
          /\ \A k \in 1..Len(queue') : queue'[k] = Begun + k
      BY SMTT(30), <1>2, <2>1, <2>5, <3>1
    <3> QED  BY <1>3, <3>2 DEF Line
  <2>7. (Base + 1)..(Made + 1) \subseteq open'
    <3>1. (Base + 1)..Made \subseteq open
      BY <1>1, <2>1 DEF Tokens
    <3>2. ((Base + 1)..Made) \cup {Made + 1} = (Base + 1)..(Made + 1)
      BY <1>2, Grows
    <3> QED  BY <2>1, <2>5, <3>1, <3>2
  <2>8. Tokens'
    BY <1>1, <1>3, <2>1, <2>4, <2>5, <2>7 DEF Tokens, serverVars
  <2> QED  BY <2>3, <2>6, <2>8
<1>6. CASE Write
  <2>1. /\ at = "write" /\ Advance("written") /\ UNCHANGED <<queue, resp, open>>
        /\ req' = req \cup {Id}
    BY <1>4, <1>6 DEF Write
  <2>2. \/ c < Connections /\ c' = c + 1 /\ at' = "write"
        \/ c = Connections /\ c' = 1 /\ at' = "written"
    BY <1>1, <2>1, LoopStep
  <2>3. Rounds'
    BY <1>1, <1>3, <2>1, <2>2 DEF Rounds, serverVars
  <2>4. Made' = Made /\ Taken' = Taken
    BY <1>3, <2>1, <2>2 DEF Made, Taken
  <2>5. Written' = Written + 1 /\ Written + 1 = Id
    BY SMTT(30), <1>2, <1>3, <2>1, <2>2 DEF Written
  <2>6. Line'
    BY <1>1, <1>3, <2>1, <2>4 DEF Line
  <2>7. req' = (Drained + 1)..(Written + 1) /\ Drained <= Written + 1
    BY <1>1, <1>2, <2>1, <2>5, Grows DEF Tokens
  <2>8. Tokens'
    BY <1>1, <1>3, <2>1, <2>4, <2>5, <2>7 DEF Tokens, serverVars
  <2> QED  BY <2>3, <2>6, <2>8
<1>7. CASE Read
  <2>1. /\ at = "read" /\ Advance("done") /\ UNCHANGED <<queue, req, open>>
        /\ Id \in resp /\ resp' = resp \ {Id}
    BY <1>4, <1>7 DEF Read
  <2>2. \/ c < Connections /\ c' = c + 1 /\ at' = "read"
        \/ c = Connections /\ c' = 1 /\ at' = "done"
    BY <1>1, <2>1, LoopStep
  <2>3. Rounds'
    BY <1>1, <1>3, <2>1, <2>2 DEF Rounds, serverVars
  <2>4. Made' = Made /\ Written' = Written
    BY <1>3, <2>1, <2>2 DEF Made, Written
  <2>5. Taken' = Taken + 1 /\ Taken + 1 = Id
    BY SMTT(30), <1>2, <1>3, <2>1, <2>2 DEF Taken
  <2>6. Line'
    BY <1>1, <1>3, <2>1, <2>4 DEF Line
  <2>7. resp' = ((Taken + 1) + 1)..served /\ Taken + 1 <= served
    BY <1>1, <1>2, <2>1, <2>5, Shrinks DEF Tokens
  <2>8. Tokens'
    BY <1>1, <1>3, <2>1, <2>4, <2>5, <2>7 DEF Tokens, serverVars
  <2> QED  BY <2>3, <2>6, <2>8
<1> QED  BY <1>5, <1>6, <1>7

(* main() checks the flag, or joins the server.                            *)
LEMMA CheckStep ==
    ASSUME ChurnInv, ~failed, Check \/ Join
    PROVE  Rounds' /\ Line' /\ Tokens'
<1>1. ChurnType /\ Rounds /\ Line /\ Tokens
  BY DEF ChurnInv
<1>2. /\ UNCHANGED <<queue, req, resp, serverVars, c>>
      /\ \/ at = "connected" /\ at' = "write" /\ UNCHANGED <<i, open>>
         \/ at = "written" /\ at' = "read" /\ UNCHANGED <<i, open>>
         \/ at = "done" /\ at' = "join" /\ i = Iterations /\ i' = i
         \/ at = "done" /\ at' = "top" /\ i' = i + 1
         \/ at = "top" /\ at' = "connect" /\ UNCHANGED <<i, open>>
         \/ at = "join" /\ at' = "success" /\ UNCHANGED <<i, open>>
  BY DEF Check, Join, netVars
<1>3. /\ Base \in Nat /\ Connections \in Nat /\ (i' = i => Base' = Base)
      /\ (i' = i + 1 => Base' = Base + Connections)
  BY <1>1, Numbers
<1>4. Begun' = Begun /\ Drained' = Drained /\ served' = served
  BY <1>2 DEF serverVars, Begun, Drained
<1>5. Rounds'
  BY <1>1, <1>2 DEF Rounds, serverVars
<1>6. at \in {"connected", "written", "done", "top"} => c = 1
  BY <1>1 DEF Rounds
<1>7. Base + 1 - 1 = Base
  BY SMTT(30), <1>3
<1>8. Made' = Made /\ Written' = Written /\ Taken' = Taken
  BY <1>2, <1>3, <1>6, <1>7 DEF Made, Written, Taken
<1>9. Line'
  BY <1>1, <1>2, <1>4, <1>8 DEF Line
<1>10. at' \notin {"top", "join", "success"} => (Base' + 1)..Made' \subseteq open'
  <2>1. CASE at \in {"connected", "written"}
    BY <1>1, <1>2, <1>3, <1>8, <2>1 DEF Tokens
  <2>2. CASE at = "top"
    <3>1. Made = Base /\ Base' = Base
      BY <1>2, <1>3, <2>2 DEF Made
    <3>2. (Base + 1)..Base = {}
      BY SMTT(30), <1>3
    <3> QED  BY <1>8, <3>1, <3>2
  <2> QED  BY <1>2, <2>1, <2>2
<1>11. Tokens'
  BY <1>1, <1>2, <1>4, <1>8, <1>10 DEF Tokens
<1> QED  BY <1>5, <1>9, <1>11

(* The server goes on with the connection that it has, or the next one.    *)
LEMMA ServeStep ==
    ASSUME ChurnInv, ~failed, ~failed', ServerStep
    PROVE  Rounds' /\ Line' /\ Tokens'
<1>1. ChurnType /\ Rounds /\ Line /\ Tokens
  BY DEF ChurnInv
<1>2. /\ Made \in Nat /\ Written \in Nat /\ Taken \in Nat /\ served \in Nat
      /\ Begun \in Nat /\ Drained \in Nat /\ queue \in Seq(Nat)
  BY <1>1, CountTypes DEF ChurnType
<1>3. UNCHANGED mainVars /\ UNCHANGED open
  BY DEF ServerStep, ServerTop, Accept, ServerRead, ServerWrite, netVars
<1>4. /\ Base' = Base /\ Made' = Made /\ Written' = Written /\ Taken' = Taken
      /\ at' = at /\ c' = c /\ i' = i
  BY <1>3 DEF mainVars, Base, Made, Written, Taken
<1>5. ~Fault /\ ~(\E gone : Reset(gone))
  BY DEF Fault, Reset, record_failure
<1>6. CASE ServerTop
  <2>1. /\ spc = "top" /\ UNCHANGED <<queue, req, resp, served, cur>>
        /\ spc' = IF served = Total THEN "done" ELSE "accept"
    BY <1>6 DEF ServerTop, netVars
  <2>2. Begun' = Begun /\ Drained' = Drained
    BY <2>1 DEF Begun, Drained
  <2>3. Rounds'
    BY <1>1, <1>4, <2>1 DEF Rounds, Total
  <2>4. Line' /\ Tokens'
    BY <1>1, <1>3, <1>4, <2>1, <2>2 DEF Line, Tokens
  <2> QED  BY <2>3, <2>4
<1>7. CASE Accept
  <2>1. /\ spc = "accept" /\ spc' = "read" /\ queue # <<>>
        /\ cur' = Head(queue) /\ queue' = Tail(queue)
        /\ UNCHANGED <<req, resp, served>>
    BY <1>5, <1>7 DEF Accept
  <2>2. /\ Begun = served /\ Begun' = served + 1 /\ Drained' = Drained
    BY <2>1 DEF Begun, Drained
  <2>3. /\ Begun + Len(queue) = Made
        /\ \A k \in 1..Len(queue) : queue[k] = Begun + k
    BY <1>1 DEF Line
  <2>4. /\ Head(queue) = queue[1] /\ 1 \in 1..Len(queue)
        /\ Len(Tail(queue)) = Len(queue) - 1 /\ Len(queue) \in Nat
        /\ \A k \in 1..Len(Tail(queue)) : /\ Tail(queue)[k] = queue[k + 1]
                                         /\ k + 1 \in 1..Len(queue)
    BY SMTT(30), <1>2, <2>1
  <2>5. cur' = served + 1
    BY <2>1, <2>2, <2>3, <2>4
  <2>6. /\ (served + 1) + Len(queue') = Made
        /\ \A k \in 1..Len(queue') : queue'[k] = (served + 1) + k
    <3>1. ASSUME NEW k \in 1..Len(Tail(queue))
          PROVE  Tail(queue)[k] = (served + 1) + k
      <4>1. Tail(queue)[k] = served + (k + 1)
        BY <2>2, <2>3, <2>4
      <4> QED  BY SMTT(30), <1>2, <2>4, <4>1
    <3>2. (served + 1) + (Len(queue) - 1) = Made
      BY SMTT(30), <1>2, <2>2, <2>3, <2>4
    <3> QED  BY <2>1, <2>4, <3>1, <3>2
  <2>7. Line'
    BY <1>4, <2>2, <2>6 DEF Line
  <2>8. Rounds'
    BY <1>1, <1>4, <2>1, <2>5 DEF Rounds
  <2>9. Tokens'
    BY <1>1, <1>3, <1>4, <2>1, <2>2 DEF Tokens
  <2> QED  BY <2>7, <2>8, <2>9
<1>8. CASE ServerRead
  <2>1. /\ spc = "read" /\ spc' = "write" /\ cur \in req /\ req' = req \ {cur}
        /\ UNCHANGED <<queue, resp, served, cur>>
    BY <1>5, <1>8 DEF ServerRead
  <2>2. /\ Begun' = Begun /\ Drained = served /\ Drained' = served + 1
        /\ cur = served + 1
    BY <1>1, <2>1 DEF Begun, Drained, Rounds
  <2>3. req' = ((served + 1) + 1)..Written /\ served + 1 <= Written
    BY <1>1, <1>2, <2>1, <2>2, Shrinks DEF Tokens
  <2>4. Rounds'
    BY <1>1, <1>4, <2>1 DEF Rounds
  <2>5. Line'
    BY <1>1, <1>4, <2>1, <2>2 DEF Line
  <2>6. Tokens'
    BY <1>1, <1>3, <1>4, <2>1, <2>2, <2>3 DEF Tokens
  <2> QED  BY <2>4, <2>5, <2>6
<1>9. CASE ServerWrite
  <2>1. /\ spc = "write" /\ spc' = "top" /\ resp' = resp \cup {cur}
        /\ served' = served + 1 /\ cur' = 0 /\ UNCHANGED <<queue, req>>
    BY <1>5, <1>9 DEF ServerWrite
  <2>2. /\ Begun' = Begun /\ Drained' = Drained /\ cur = served + 1
    BY <1>1, <2>1 DEF Begun, Drained, Rounds
  <2>3. resp' = (Taken + 1)..(served + 1) /\ Taken <= served + 1
    BY <1>1, <1>2, <2>1, <2>2, Grows DEF Tokens
  <2>4. Rounds'
    BY <1>1, <1>4, <2>1 DEF Rounds
  <2>5. Line'
    BY <1>1, <1>4, <2>1, <2>2 DEF Line
  <2>6. Tokens'
    BY <1>1, <1>3, <1>4, <2>1, <2>2, <2>3 DEF Tokens
  <2> QED  BY <2>4, <2>5, <2>6
<1> QED  BY <1>6, <1>7, <1>8, <1>9 DEF ServerStep

(* The invariant is inductive.                                             *)
LEMMA ChurnStep ==
    ASSUME ChurnInv, [Next]_vars
    PROVE  ChurnInv'
<1>1. ChurnType' /\ (failed' <=> faulted') /\ (failed => failed')
  BY ChurnTypes, FlagStep
<1>2. /\ at' = "failure" => failed'
      /\ at' = "success" => ~failed' /\ spc' = "done"
  <2>1. CASE Join
    BY <2>1 DEF Join, serverVars, ChurnInv, ChurnType
  <2>2. CASE at' # at /\ ~Join
    BY <2>2 DEF ChurnInv, Next, MainStep, ServerStep, Connect, Write, Read,
       Check, ServerTop, Accept, ServerRead, ServerWrite, Advance, Leave,
       mainVars, vars
  <2>3. CASE at' = at /\ ~Join
    <3>1. at = "failure" => failed'
      BY <1>1 DEF ChurnInv
    <3>2. ASSUME at = "success"
          PROVE  ~failed' /\ spc' = "done"
      <4>1. spc = "done" /\ ~failed
        BY <3>2 DEF ChurnInv
      <4>2. UNCHANGED <<failed, spc>>
        BY <2>3, <3>2, <4>1 DEF Next, MainStep, ServerStep, Connect, Write,
           Read, Check, ServerTop, Accept, ServerRead, ServerWrite,
           serverVars, vars
      <4> QED  BY <4>1, <4>2
    <3> QED  BY <2>3, <3>1, <3>2
  <2> QED  BY <2>1, <2>2, <2>3
<1>3. ASSUME ~failed'
      PROVE  Rounds' /\ Line' /\ Tokens'
  <2>1. ~failed
    BY <1>1, <1>3
  <2>2. CASE Connect \/ Write \/ Read
    <3>1. Ok
      BY <1>3, <2>2 DEF Connect, Write, Read, Fault, Reset, record_failure
    <3> QED  BY <2>1, <2>2, <3>1, MoveStep
  <2>3. CASE Check \/ Join
    BY <2>1, <2>3, CheckStep
  <2>4. CASE ServerStep
    BY <1>3, <2>1, <2>4, ServeStep
  <2>5. CASE UNCHANGED vars
    BY <2>1, <2>5 DEF ChurnInv, vars, mainVars, netVars, serverVars, Rounds,
       Line, Tokens, Base, Made, Written, Taken, Begun, Drained
  <2> QED  BY <2>2, <2>3, <2>4, <2>5 DEF Next, MainStep
<1> QED  BY <1>1, <1>2, <1>3 DEF ChurnInv

(* The connection benchmark reports its numbers only when the server has   *)
(* served all connections of all rounds, and a failure only when a call    *)
(* failed: neither thread takes what the other closes for an error.        *)
THEOREM ChurnVerdictHolds == Spec => []Verdict
<1>1. Init => ChurnInv
  <2> SUFFICES ASSUME Init
               PROVE  ChurnInv
    OBVIOUS
  <2>1. /\ <<>> \in Seq(Nat) /\ Len(<<>>) = 0 /\ 1..0 = {} /\ 0 \in Nat
        /\ 1 \in 1..Connections /\ 1 \in 1..Iterations /\ 0 + 0 = 0
        /\ (0 + 1)..0 = {} /\ 0 <= 0 /\ (1 - 1) * Connections = 0
    BY SMTT(30), OptionsAssumption
  <2>2. ChurnType
    BY <2>1 DEF Init, ChurnType
  <2>3. Base = 0
    BY <2>1 DEF Init, Base
  <2>4. Made = 0 /\ Written = 0 /\ Taken = 0 /\ Begun = 0 /\ Drained = 0
    BY <2>3 DEF Init, Made, Written, Taken, Begun, Drained
  <2>5. Rounds /\ Line /\ Tokens
    BY <2>1, <2>4 DEF Init, Rounds, Line, Tokens
  <2> QED  BY <2>2, <2>5 DEF Init, ChurnInv
<1>2. ChurnInv => Verdict
  BY DEF ChurnInv, Rounds, Verdict
<1> QED  BY <1>1, <1>2, ChurnStep, PTL DEF Spec

-----------------------------------------------------------------------------
(* The sleeps of a thread: where they are held, and the types that takes.  *)
SleepType ==
    /\ ready \in Seq(Sleeper)
    /\ pc \in [Sleeper -> {"idle", "call", "start", "arm", "parked", "woken",
                           "expired", "failed", "return"}]
    /\ res \in [Sleeper -> {"none", "ok", "ECANCELED", "EBUSY", "errno"}]
    /\ slot \in Sleeper \cup {None}
SleepInv == SleepType /\ HeldOnce

Occurs(q, x) == \E n \in 1..Len(q) : q[n] = x
Once(q) == \A m, n \in 1..Len(q) : q[m] = q[n] => m = n
(* HeldOnce by parts.                                                      *)
Held(s) == /\ Occurs(ready, s) <=> pc[s] \notin {"idle", "parked"}
           /\ slot = s <=> pc[s] = "parked"
LEMMA HeldParts ==
    /\ HeldOnce <=> Once(ready) /\ \A s \in Sleeper : Held(s)
    /\ HeldOnce' <=> Once(ready') /\ \A s \in Sleeper : Held(s)'
BY DEF HeldOnce, Queued, Once, Occurs, Held

(* What a queue holds after a resumption, and after the resumed coroutine  *)
(* is queued again.                                                        *)
LEMMA Popped ==
    ASSUME NEW S, NEW q \in Seq(S), q # <<>>, Once(q)
    PROVE  /\ Head(q) \in S /\ Occurs(q, Head(q))
           /\ Tail(q) \in Seq(S) /\ Once(Tail(q))
           /\ \A x : Occurs(Tail(q), x) <=> Occurs(q, x) /\ x # Head(q)
<1>1. /\ Tail(q) \in Seq(S) /\ Len(q) \in Nat \ {0}
      /\ Len(Tail(q)) = Len(q) - 1
      /\ \A n \in 1..Len(Tail(q)) : Tail(q)[n] = q[n + 1]
      /\ Head(q) = q[1] /\ Head(q) \in S
  BY SMTT(30)
<1>2. Occurs(q, Head(q)) /\ Once(Tail(q))
  BY SMTT(30), <1>1 DEF Occurs, Once
<1>3. ASSUME NEW x
      PROVE  Occurs(Tail(q), x) <=> Occurs(q, x) /\ x # Head(q)
  <2>1. ASSUME NEW n \in 1..Len(Tail(q)), Tail(q)[n] = x
        PROVE  Occurs(q, x) /\ x # Head(q)
    BY SMTT(30), <1>1, <2>1 DEF Occurs, Once
  <2>2. ASSUME NEW n \in 1..Len(q), q[n] = x, x # Head(q)
        PROVE  Occurs(Tail(q), x)
    <3>1. n - 1 \in 1..Len(Tail(q)) /\ n = (n - 1) + 1
      BY SMTT(30), <1>1, <2>2
    <3>2. Tail(q)[n - 1] = x
      BY <1>1, <2>2, <3>1
    <3> QED  BY <3>1, <3>2 DEF Occurs
  <2> QED  BY <2>1, <2>2 DEF Occurs
<1> QED  BY <1>1, <1>2, <1>3

LEMMA Pushed ==
    ASSUME NEW S, NEW q \in Seq(S), NEW y \in S, Once(q), ~Occurs(q, y)
    PROVE  /\ Append(q, y) \in Seq(S) /\ Once(Append(q, y))
           /\ \A x : Occurs(Append(q, y), x) <=> Occurs(q, x) \/ x = y
<1>1. /\ Append(q, y) \in Seq(S) /\ Len(q) \in Nat
      /\ Len(Append(q, y)) = Len(q) + 1
      /\ \A n \in 1..Len(q) : Append(q, y)[n] = q[n]
      /\ Append(q, y)[Len(q) + 1] = y
  BY SMTT(30)
<1>2. Once(Append(q, y))
  BY SMTT(30), <1>1 DEF Once, Occurs
<1>3. ASSUME NEW x
      PROVE  Occurs(Append(q, y), x) <=> Occurs(q, x) \/ x = y
  BY SMTT(30), <1>1 DEF Occurs
<1> QED  BY <1>1, <1>2, <1>3

(* An order of a finite set has each of its members once.                  *)
LEMMA Listing ==
    ASSUME NEW S, IsFiniteSet(S), NEW q \in Order(S)
    PROVE  /\ q \in Seq(S) /\ Once(q)
           /\ \A x : Occurs(q, x) <=> x \in S
<1> DEFINE n == Cardinality(S)
<1>1. n \in Nat
  BY FS_CardinalityType
<1>2. /\ q \in [1..n -> S]
      /\ \A k, m \in 1..n : q[k] = q[m] => k = m
      /\ \A x \in S : \E k \in 1..n : q[k] = x
  BY DEF Order, Bijection, Injection, Surjection, IsInjective
<1> HIDE DEF n
<1>3. q \in Seq(S) /\ Len(q) = n
  BY SMTT(30), <1>1, <1>2
<1>4. Once(q)
  BY <1>2, <1>3 DEF Once
<1>5. ASSUME NEW x
      PROVE  Occurs(q, x) <=> x \in S
  <2>1. ASSUME NEW k \in 1..n, q[k] = x
        PROVE  x \in S
    BY <1>2, <2>1
  <2> QED  BY <1>2, <1>3, <2>1 DEF Occurs
<1> QED  BY <1>3, <1>4, <1>5

(* The coroutine that runs is the head of the queue, and leaves it.        *)
LEMMA Resuming ==
    ASSUME SleepInv, NEW s \in Sleeper, Resumed(s)
    PROVE  /\ Tail(ready) \in Seq(Sleeper) /\ Once(Tail(ready))
           /\ \A x : Occurs(Tail(ready), x) <=> Occurs(ready, x) /\ x # s
           /\ pc[s] \notin {"idle", "parked"} /\ slot # s
<1>1. ready \in Seq(Sleeper) /\ ready # <<>> /\ Once(ready) /\ s = Head(ready)
  BY HeldParts DEF SleepInv, SleepType, Resumed
<1>2. /\ Tail(ready) \in Seq(Sleeper) /\ Once(Tail(ready)) /\ Occurs(ready, s)
      /\ \A x : Occurs(Tail(ready), x) <=> Occurs(ready, x) /\ x # s
  BY <1>1, Popped
<1>3. Held(s)
  BY HeldParts DEF SleepInv
<1> QED  BY <1>2, <1>3 DEF Held

(* A step of s that ends with s in the queue again.                        *)
LEMMA QueuedAgain ==
    ASSUME SleepInv, NEW s \in Sleeper, Resumed(s), slot' = slot,
           NEW p \in {"start", "arm", "woken", "expired", "failed", "return"},
           Queue(s, p), res' \in [Sleeper -> {"none", "ok", "ECANCELED", "EBUSY",
                                              "errno"}]
    PROVE  SleepInv'
<1>1. /\ Tail(ready) \in Seq(Sleeper) /\ Once(Tail(ready))
      /\ \A x : Occurs(Tail(ready), x) <=> Occurs(ready, x) /\ x # s
      /\ pc[s] \notin {"idle", "parked"} /\ slot # s
  BY Resuming
<1>2. /\ ready' \in Seq(Sleeper) /\ Once(ready')
      /\ \A x : Occurs(ready', x) <=> Occurs(Tail(ready), x) \/ x = s
  BY <1>1, Pushed DEF Queue
<1>3. /\ pc' \in [Sleeper -> {"idle", "call", "start", "arm", "parked", "woken",
                              "expired", "failed", "return"}]
      /\ pc'[s] = p /\ \A x \in Sleeper : x # s => pc'[x] = pc[x]
  BY DEF Queue, SleepInv, SleepType
<1>4. SleepType'
  BY <1>2, <1>3 DEF SleepInv, SleepType
<1>5. ASSUME NEW x \in Sleeper
      PROVE  Held(x)'
  <2>1. Held(x)
    BY HeldParts DEF SleepInv
  <2>2. Occurs(ready', x) <=> Occurs(ready, x) \/ x = s
    BY <1>1, <1>2
  <2>3. CASE x = s
    BY <1>1, <1>3, <2>2, <2>3 DEF Held
  <2>4. CASE x # s
    BY <1>3, <2>1, <2>2, <2>4 DEF Held
  <2> QED  BY <2>3, <2>4
<1> QED  BY <1>2, <1>4, <1>5, HeldParts DEF SleepInv

(* A poll lists the new sleeps and the woken one, and frees the slot.      *)
LEMMA PollStep ==
    ASSUME SleepInv, Poll
    PROVE  SleepInv'
<1>1. PICK new \in SUBSET (Sleeper \ Asleep) :
         /\ ready' \in Order(new \cup Readable)
         /\ pc' = [s \in Sleeper |-> IF s \in new THEN "call"
                                     ELSE IF s \in Readable THEN "woken"
                                     ELSE pc[s]]
  BY DEF Poll
<1>2. ready = <<>> /\ res' = res /\ slot' = IF Readable # {} THEN None ELSE slot
  BY DEF Poll
<1>3. /\ pc \in [Sleeper -> {"idle", "call", "start", "arm", "parked", "woken",
                             "expired", "failed", "return"}]
      /\ slot \in Sleeper \cup {None} /\ None \notin Sleeper
      /\ res \in [Sleeper -> {"none", "ok", "ECANCELED", "EBUSY", "errno"}]
      /\ \A s \in Sleeper : Held(s)
  BY SleepersAssumption, HeldParts DEF SleepInv, SleepType
<1>4. Readable \subseteq Sleeper /\ \A s \in Readable : s = slot
  BY <1>3 DEF Readable
<1>5. IsFiniteSet(new \cup Readable) /\ new \cup Readable \subseteq Sleeper
  BY <1>4, SleepersAssumption, FS_Subset
<1>6. /\ ready' \in Seq(new \cup Readable) /\ Once(ready')
      /\ \A x : Occurs(ready', x) <=> x \in new \cup Readable
  BY <1>1, <1>5, Listing
<1>7. ready' \in Seq(Sleeper)
  BY SMTT(30), <1>5, <1>6
<1>8. \A x : ~Occurs(ready, x)
  <2>1. 1..Len(ready) = {}
    BY SMTT(30), <1>2
  <2> QED  BY <2>1 DEF Occurs
<1>9. ASSUME NEW s \in Sleeper
      PROVE  Held(s)'
  <2>1. /\ Held(s) /\ ~Occurs(ready, s)
        /\ pc'[s] = IF s \in new THEN "call"
                    ELSE IF s \in Readable THEN "woken" ELSE pc[s]
        /\ Occurs(ready', s) <=> s \in new \cup Readable
        /\ s \in new => pc[s] = "idle" /\ s \notin Readable
    BY <1>1, <1>3, <1>4, <1>6, <1>8 DEF Asleep, Held
  <2>2. s \in Readable <=> Readable # {} /\ slot = s
    BY DEF Readable
  <2>3. CASE s \in new
    BY <1>2, <1>3, <2>1, <2>3 DEF Held
  <2>4. CASE s \in Readable
    BY <1>2, <1>3, <2>1, <2>2, <2>4 DEF Held
  <2>5. CASE s \notin new \cup Readable
    BY <1>2, <1>3, <2>1, <2>2, <2>5 DEF Held
  <2> QED  BY <2>3, <2>4, <2>5
<1>10. SleepType'
  BY <1>1, <1>2, <1>3, <1>7 DEF SleepType
<1> QED  BY <1>6, <1>9, <1>10, HeldParts DEF SleepInv

(* What the three ways round the loop of async_sleep do to the queue.      *)
LEMMA TopStep ==
    ASSUME SleepInv, NEW s \in Sleeper, Resumed(s), slot' = slot, NEW f,
           Top(s, f)
    PROVE  SleepInv'
<1>1. res \in [Sleeper -> {"none", "ok", "ECANCELED", "EBUSY", "errno"}]
  BY DEF SleepInv, SleepType
<1>2. \/ Queue(s, "arm") /\ res' = res
      \/ \E r \in {"ok", "ECANCELED"} :
            Queue(s, "return") /\ res' = [res EXCEPT ![s] = r]
  BY DEF Top, ReturnNow, Return, Program
<1> QED  BY <1>1, <1>2, QueuedAgain

LEMMA SleepKept == SleepInv /\ [SleepNext]_sleepVars => SleepInv'
<1> SUFFICES ASSUME SleepInv, [SleepNext]_sleepVars
             PROVE  SleepInv'
  OBVIOUS
<1> DEFINE Result == {"none", "ok", "ECANCELED", "EBUSY", "errno"}
<1>0. ASSUME UNCHANGED <<ready, pc, res, slot>>
      PROVE  SleepInv'
  BY <1>0 DEF SleepInv, SleepType, HeldOnce, Queued
<1>1. res \in [Sleeper -> Result]
  BY DEF SleepInv, SleepType
<1>2. CASE Poll
  BY <1>2, PollStep
<1>3. ASSUME NEW s \in Sleeper, Call(s)
      PROVE  SleepInv'
  BY <1>1, <1>3, QueuedAgain DEF Call
<1>4. ASSUME NEW s \in Sleeper, Start(s)
      PROVE  SleepInv'
  <2>1. Resumed(s) /\ slot' = slot
    BY <1>4 DEF Start
  <2>2. \/ Top(s, fired)
        \/ \E r \in {"ok", "ECANCELED", "errno"} : Return(s, r)
    BY <1>4 DEF Start
  <2>3. CASE Top(s, fired)
    BY <2>1, <2>3, TopStep
  <2>4. ASSUME NEW r \in {"ok", "ECANCELED", "errno"}, Return(s, r)
        PROVE  SleepInv'
    BY <1>1, <2>1, <2>4, QueuedAgain DEF Return
  <2> QED  BY <2>2, <2>3, <2>4
<1>5. ASSUME NEW s \in Sleeper, Arm(s)
      PROVE  SleepInv'
  <2>1. Resumed(s) /\ res' = res
    BY <1>5 DEF Arm
  <2>2. CASE slot # None
    BY <1>1, <1>5, <2>1, <2>2, QueuedAgain DEF Arm
  <2>3. CASE slot = None
    <3>1. /\ ready' = Tail(ready) /\ slot' = s
          /\ pc' = [pc EXCEPT ![s] = "parked"]
      BY <1>5, <2>3 DEF Arm
    <3>2. /\ Tail(ready) \in Seq(Sleeper) /\ Once(Tail(ready))
          /\ \A x : Occurs(Tail(ready), x) <=> Occurs(ready, x) /\ x # s
      BY <2>1, Resuming
    <3>3. /\ SleepType' /\ pc'[s] = "parked"
          /\ \A x \in Sleeper : x # s => pc'[x] = pc[x]
      BY <2>1, <3>1, <3>2 DEF SleepInv, SleepType
    <3>4. ASSUME NEW x \in Sleeper
          PROVE  Held(x)'
      <4>1. Held(x) /\ slot # x
        BY <2>3, HeldParts, SleepersAssumption DEF SleepInv
      <4> QED  BY <3>1, <3>2, <3>3, <4>1 DEF Held
    <3> QED  BY <3>1, <3>2, <3>3, <3>4, HeldParts DEF SleepInv
  <2> QED  BY <2>2, <2>3
<1>6. ASSUME NEW s \in Sleeper, Woken(s)
      PROVE  SleepInv'
  BY <1>1, <1>6, QueuedAgain DEF Woken
<1>7. ASSUME NEW s \in Sleeper, Expired(s)
      PROVE  SleepInv'
  BY <1>7, TopStep DEF Expired
<1>8. ASSUME NEW s \in Sleeper, Failed(s)
      PROVE  SleepInv'
  <2>1. /\ Resumed(s) /\ slot' = slot /\ Queue(s, "return")
        /\ res' = [res EXCEPT ![s] = "EBUSY"]
    BY <1>8 DEF Failed, Return
  <2> QED  BY <1>1, <2>1, QueuedAgain
<1>9. ASSUME NEW s \in Sleeper, Returned(s)
      PROVE  SleepInv'
  <2>1. /\ Resumed(s) /\ ready' = Tail(ready) /\ slot' = slot /\ res' = res
        /\ pc' = [pc EXCEPT ![s] = "idle"]
    BY <1>9 DEF Returned
  <2>2. /\ Tail(ready) \in Seq(Sleeper) /\ Once(Tail(ready))
        /\ \A x : Occurs(Tail(ready), x) <=> Occurs(ready, x) /\ x # s
        /\ slot # s
    BY <2>1, Resuming
  <2>3. /\ SleepType' /\ pc'[s] = "idle"
        /\ \A x \in Sleeper : x # s => pc'[x] = pc[x]
    BY <2>1, <2>2 DEF SleepInv, SleepType
  <2>4. ASSUME NEW x \in Sleeper
        PROVE  Held(x)'
    <3>1. Held(x)
      BY HeldParts DEF SleepInv
    <3> QED  BY <2>1, <2>2, <2>3, <3>1 DEF Held
  <2> QED  BY <2>1, <2>2, <2>3, <2>4, HeldParts DEF SleepInv
<1>10. CASE Tick \/ \E s \in Sleeper : RequestStop(s)
  BY <1>0, <1>10 DEF Tick, RequestStop
<1>11. CASE UNCHANGED sleepVars
  BY <1>0, <1>11 DEF sleepVars
<1> QED  BY <1>2, <1>3, <1>4, <1>5, <1>6, <1>7, <1>8, <1>9, <1>10, <1>11
         DEF SleepNext, Resumes

LEMMA SleepStarts == SleepInit => SleepInv
<1> SUFFICES ASSUME SleepInit
             PROVE  SleepInv
  OBVIOUS
<1>1. <<>> \in Seq(Sleeper) /\ 1..Len(<<>>) = {}
  BY SMTT(30)
<1>2. SleepType
  BY <1>1 DEF SleepInit, SleepType
<1>3. HeldOnce
  BY <1>1, SleepersAssumption DEF SleepInit, HeldOnce, Queued
<1> QED  BY <1>2, <1>3 DEF SleepInv

(* Every sleep in flight is queued once or holds the slot of the timer,    *)
(* for any number of sleeps on the thread, any durations and clock rate.   *)
THEOREM HeldOnceHolds == SleepSpec => []HeldOnce
<1>1. SleepInv => HeldOnce
  BY DEF SleepInv
<1> QED  BY <1>1, SleepStarts, SleepKept, PTL DEF SleepSpec

(* No sleep succeeds before its own deadline, for any number of sleeps     *)
(* that re-program and read the one timer of the thread.                   *)
THEOREM NotEarlyHolds == SleepSpec => NotEarly
<1> DEFINE OnTime == \A s \in Sleeper :
             pc[s] # "return" /\ pc'[s] = "return" /\ res'[s] = "ok" => left[s] = 0
<1>1. ASSUME SleepInv, [SleepNext]_sleepVars
      PROVE  [OnTime]_sleepVars
  <2> SUFFICES ASSUME NEW s \in Sleeper, SleepNext, pc[s] # "return",
                      pc'[s] = "return", res'[s] = "ok"
               PROVE  left[s] = 0
    BY <1>1
  <2>1. pc \in [Sleeper -> {"idle", "call", "start", "arm", "parked", "woken",
                            "expired", "failed", "return"}]
        /\ res \in [Sleeper -> {"none", "ok", "ECANCELED", "EBUSY", "errno"}]
    BY <1>1 DEF SleepInv, SleepType
  <2>2. ASSUME NEW x \in Sleeper, NEW p, Queue(x, p), p # "return"
        PROVE  FALSE
    BY <2>1, <2>2 DEF Queue
  <2>3. ASSUME NEW x \in Sleeper, NEW r, Return(x, r)
        PROVE  x = s /\ r = "ok"
    BY <2>1, <2>3 DEF Return, Queue
  <2>4. ASSUME NEW x \in Sleeper, NEW r, Return(x, r), r \in {"errno", "EBUSY"}
        PROVE  FALSE
    BY <2>3, <2>4
  <2>5. ASSUME NEW x \in Sleeper, NEW f, Top(x, f)
        PROVE  left[s] = 0
    BY <2>2, <2>3, <2>5 DEF Top, ReturnNow, Program
  <2>6. CASE Poll
    BY <2>6 DEF Poll
  <2>7. ASSUME NEW x \in Sleeper, Call(x) \/ Arm(x) \/ Woken(x) \/ Returned(x)
        PROVE  FALSE
    <3>1. CASE Call(x)
      BY <3>1, <2>2 DEF Call
    <3>2. CASE Arm(x)
      BY <3>2, <2>1, <2>2 DEF Arm
    <3>3. CASE Woken(x)
      BY <3>3, <2>2 DEF Woken
    <3>4. CASE Returned(x)
      BY <3>4, <2>1 DEF Returned
    <3> QED  BY <2>7, <3>1, <3>2, <3>3, <3>4
  <2>8. ASSUME NEW x \in Sleeper, Start(x)
        PROVE  left[s] = 0
    <3>1. CASE stop[x] \/ left[x] = 0
      <4>1. Return(x, IF stop[x] THEN "ECANCELED" ELSE "ok")
        BY <2>8, <3>1 DEF Start
      <4>2. x = s /\ (IF stop[x] THEN "ECANCELED" ELSE "ok") = "ok"
        BY <2>3, <4>1
      <4> QED  BY <3>1, <4>2
    <3>2. CASE ~(stop[x] \/ left[x] = 0)
      <4>1. Return(x, "errno") \/ Top(x, fired)
        BY <2>8, <3>2 DEF Start
      <4> QED  BY <2>5, <4>1, <2>4
    <3> QED  BY <3>1, <3>2
  <2>9. ASSUME NEW x \in Sleeper, Expired(x) \/ Failed(x)
        PROVE  left[s] = 0
    BY <2>5, <2>9, <2>4 DEF Expired, Failed
  <2>10. CASE Tick \/ \E x \in Sleeper : RequestStop(x)
    BY <2>10 DEF Tick, RequestStop
  <2> QED  BY <2>6, <2>7, <2>8, <2>9, <2>10 DEF SleepNext, Resumes
<1> QED  BY <1>1, SleepStarts, SleepKept, PTL DEF SleepSpec, NotEarly
=============================================================================
