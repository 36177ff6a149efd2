------------------------------ MODULE Scheduler ------------------------------
(***************************************************************************)
(* What a backend of the runtime promises its coroutines, whatever waits   *)
(* in the kernel for them (class scheduler of                              *)
(* include/simplenet/runtime/task.hpp): coroutines run one at a time       *)
(* and in the order they became ready, a suspended coroutine is held in    *)
(* one place until it is due, and its wait ends once, with one outcome.    *)
(* event_loop and uring_event_loop both implement this module.             *)
(***************************************************************************)
EXTENDS Naturals, Sequences

CONSTANTS Handle, Null, Result

VARIABLES life,    \* "none", "suspended", "running" or "done"
          parent,  \* the coroutine that awaits this one, or Null
          ready,   \* FIFO of the coroutines that can run
          parked,  \* coroutines with an open wait
          outcome  \* how the wait of a woken coroutine ended, else Null

schedVars == <<life, parent, ready, parked, outcome>>

SchedInit ==
    /\ life = [h \in Handle |-> "none"]
    /\ parent = [h \in Handle |-> Null]
    /\ ready = <<>>
    /\ parked = {}
    /\ outcome = [h \in Handle |-> Null]

Queued(h) == \E i \in 1..Len(ready) : ready[i] = h
Idle == \A h \in Handle : life[h] # "running"

(* spawn(): a new root.                                                    *)
Start(c) ==
    /\ life[c] = "none"
    /\ life' = [life EXCEPT ![c] = "suspended"]
    /\ ready' = Append(ready, c)
    /\ UNCHANGED <<parent, parked, outcome>>

(* The head of the queue runs; it is suspended, never finished, destroyed, *)
(* parked or queued a second time.  The child it awaited is done and goes. *)
Run(h) ==
    /\ Idle
    /\ ready # <<>> /\ h = Head(ready)
    /\ life[h] = "suspended" /\ h \notin parked
    /\ \A c \in Handle : parent[c] = h => life[c] = "done"
    /\ ready' = Tail(ready)
    /\ \A i \in 1..Len(ready') : ready'[i] # h
    /\ life' = [c \in Handle |-> IF c = h THEN "running"
                                 ELSE IF parent[c] = h THEN "none" ELSE life[c]]
    /\ parent' = [c \in Handle |-> IF parent[c] = h THEN Null ELSE parent[c]]
    /\ outcome' = [outcome EXCEPT ![h] = Null]
    /\ parked' = parked

(* A wait: open, or over before it begins.                                 *)
Park(h) ==
    /\ life[h] = "running" /\ outcome[h] = Null
    /\ life' = [life EXCEPT ![h] = "suspended"]
    /\ parked' = parked \cup {h}
    /\ UNCHANGED <<parent, ready, outcome>>
Elapse(h, r) ==
    /\ life[h] = "running" /\ outcome[h] = Null
    /\ life' = [life EXCEPT ![h] = "suspended"]
    /\ outcome' = [outcome EXCEPT ![h] = r]
    /\ ready' = Append(ready, h)
    /\ UNCHANGED <<parent, parked>>

(* Open waits end: each coroutine of s leaves parked and is queued once.   *)
Wake(s, r) ==
    /\ s # <<>>
    /\ \A i \in 1..Len(s) : s[i] \in parked /\ ~Queued(s[i])
    /\ \A i, j \in 1..Len(s) : s[i] = s[j] => i = j
    /\ parked' = {h \in parked : \A i \in 1..Len(s) : s[i] # h}
    /\ outcome' = [h \in Handle |-> IF \E i \in 1..Len(s) : s[i] = h THEN r
                                    ELSE outcome[h]]
    /\ ready' = ready \o s
    /\ UNCHANGED <<life, parent>>

(* co_await of a child, and the child's end, which makes its parent ready. *)
Await(h, c) ==
    /\ life[h] = "running" /\ life[c] = "none"
    /\ life' = [life EXCEPT ![h] = "suspended", ![c] = "suspended"]
    /\ parent' = [parent EXCEPT ![c] = h]
    /\ ready' = Append(ready, c)
    /\ UNCHANGED <<parked, outcome>>
Finish(h) ==
    /\ life[h] = "running"
    /\ life' = [life EXCEPT ![h] = "done"]
    /\ IF parent[h] = Null THEN ready' = ready
       ELSE ~Queued(parent[h]) /\ ready' = Append(ready, parent[h])
    /\ UNCHANGED <<parent, parked, outcome>>

(* Finished roots are destroyed; the loop is destroyed with everything.    *)
Reap ==
    /\ life' = [h \in Handle |-> IF life[h] = "done" /\ parent[h] = Null
                                 THEN "none" ELSE life[h]]
    /\ UNCHANGED <<parent, ready, parked, outcome>>
Discard ==
    /\ Idle
    /\ life' = [h \in Handle |-> "none"]
    /\ parent' = [h \in Handle |-> Null]
    /\ ready' = <<>>
    /\ parked' = {}
    /\ outcome' = [h \in Handle |-> Null]

SchedNext ==
    \/ \E h \in Handle : \/ Start(h) \/ Run(h) \/ Park(h) \/ Finish(h)
                         \/ \E r \in Result : Elapse(h, r) \/ Wake(<<h>>, r)
                         \/ \E c \in Handle : Await(h, c)
    \/ \E g, h \in Handle, r \in Result : Wake(<<g, h>>, r)
    \/ Reap
    \/ Discard

SchedSpec == SchedInit /\ [][SchedNext]_schedVars
=============================================================================
