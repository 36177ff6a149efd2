------------------------------ MODULE Resolver ------------------------------
(***************************************************************************)
(* async_resolve and the resolver_worker thread behind it                  *)
(* (src/runtime/resolver.cpp).  Requests are coroutines of event-loop      *)
(* threads: each pushes a job under the worker's mutex, notifies, and then *)
(* polls its own resolve_state between sleeps.  One worker serves them all *)
(* and is joined by the destructor of the static instance.                 *)
(***************************************************************************)
EXTENDS Sequences, FiniteSets, Naturals

CONSTANTS Request, Null,
          Alone,     \* requests on a thread with no other sleep in flight
          Entry,     \* entries of an addrinfo list; Usable ones convert
          Usable,
          MaxList,   \* bound: length of the list getaddrinfo returns
          SleepFails \* may async_sleep fail other than by cancellation?

ASSUME ResolverAssumption == /\ Null \notin Request /\ Alone \subseteq Request
                             /\ Usable \subseteq Entry
                             /\ MaxList \in Nat /\ SleepFails \in BOOLEAN

VARIABLES jobs,      \* jobs_, guarded by mutex_
          stop_,     \* set by the destructor, guarded by mutex_
          wpc, next, \* the worker thread and the job it took
          found,     \* what resolve_ipv4_tcp_endpoints returned to it
          pc, token, \* the request coroutine and its cancellation token
          canceled, ready, result, \* its resolve_state
          outcome,   \* what async_resolve returned
          main       \* the thread that destroys the static instance

workerVars == <<wpc, next, found>>
stateVars == <<canceled, ready, result>>
callVars == <<pc, token, outcome>>
vars == <<jobs, stop_, workerVars, callVars, stateVars, main>>

Error == {"ECANCELED", "EAGAIN", "ENOENT", "ENOMEM", "EHOSTUNREACH", "EBUSY"}
Lists == UNION {[1..n -> Entry] : n \in 0..MaxList}
(* result<vector<endpoint>>: an error, or the endpoints found for a host.  *)
Fail(e) == [err |-> e, of |-> Null, list |-> <<>>]
Found(r, l) == [err |-> "ok", of |-> r, list |-> l]
Empty == Fail("none")

Init ==
    /\ jobs = <<>> /\ stop_ = FALSE
    /\ wpc = "unborn" /\ next = Null /\ found = Empty
    /\ pc = [r \in Request |-> "new"]
    /\ token = [r \in Request |-> FALSE]
    /\ outcome = [r \in Request |-> Empty]
    /\ canceled = [r \in Request |-> FALSE]
    /\ ready = [r \in Request |-> FALSE]
    /\ result = [r \in Request |-> Empty]
    /\ main = "running"

----------------------------------------------------------------------------
(* async_resolve.                                                          *)
Return(r, o) ==
    /\ pc' = [pc EXCEPT ![r] = "done"]
    /\ outcome' = [outcome EXCEPT ![r] = o]

(* Up to the push; the first request starts the worker.                    *)
Resolve(r) ==
    /\ pc[r] = "new" /\ main = "running"
    /\ IF token[r]
       THEN Return(r, Fail("ECANCELED")) /\ UNCHANGED <<jobs, wpc>>
       ELSE /\ pc' = [pc EXCEPT ![r] = "notify"]
            /\ jobs' = Append(jobs, r)
            /\ wpc' = IF wpc = "unborn" THEN "test" ELSE wpc
            /\ UNCHANGED outcome
    /\ UNCHANGED <<stop_, next, found, token, stateVars, main>>

(* notify_one after the unlock: it wakes the worker if it is blocked.      *)
Woken == IF wpc = "blocked" THEN "test" ELSE wpc
\* mutant: enqueue() does not notify
Notify_Skipped(r) ==
    /\ pc[r] = "notify"
    /\ pc' = [pc EXCEPT ![r] = "loop"]
    /\ UNCHANGED <<jobs, stop_, workerVars, token, outcome, stateVars, main>>
Notify(r) ==
    /\ pc[r] = "notify"
    /\ pc' = [pc EXCEPT ![r] = "loop"]
    /\ wpc' = Woken
    /\ UNCHANGED <<jobs, stop_, next, found, token, outcome, stateVars, main>>

(* The loop: token, then the state under its mutex, then sleep.            *)
Loop(r) ==
    /\ pc[r] = "loop"
    /\ IF token[r]
       THEN /\ canceled' = [canceled EXCEPT ![r] = TRUE]
            /\ Return(r, Fail("ECANCELED"))
       ELSE /\ canceled' = canceled
            /\ IF ready[r]
               THEN Return(r, result[r])
               ELSE pc' = [pc EXCEPT ![r] = "sleep"] /\ UNCHANGED outcome
    /\ UNCHANGED <<jobs, stop_, workerVars, token, ready, result, main>>

(* async_sleep(10ms, token) returns: over, cancelled, or failed.  The last *)
(* two return at once, without telling the worker.                         *)
SleepOver(r) ==
    /\ pc[r] = "sleep"
    /\ \/ pc' = [pc EXCEPT ![r] = "loop"] /\ UNCHANGED outcome
       \/ token[r] /\ Return(r, Fail("ECANCELED"))
       \/ SleepFails /\ Return(r, Fail("EBUSY"))
    /\ UNCHANGED <<jobs, stop_, workerVars, token, stateVars, main>>

RequestStop(r) ==
    /\ ~token[r]
    /\ token' = [token EXCEPT ![r] = TRUE]
    /\ UNCHANGED <<jobs, stop_, workerVars, pc, outcome, stateVars, main>>

----------------------------------------------------------------------------
(* resolver_worker::run.  cv_.wait tests, and blocks, under the mutex.     *)
Exit == wpc' = "ended" /\ UNCHANGED <<jobs, next>>
Take == /\ next' = Head(jobs)
        /\ jobs' = Tail(jobs)
        /\ wpc' = "taken"
WorkerTest ==
    /\ wpc = "test"
    /\ IF jobs # <<>> THEN Take
       ELSE IF stop_ THEN Exit
       ELSE wpc' = "blocked" /\ UNCHANGED <<jobs, next>>
    /\ UNCHANGED <<stop_, found, callVars, stateVars, main>>
Spurious ==
    /\ wpc = "blocked"
    /\ wpc' = "test"
    /\ UNCHANGED <<jobs, stop_, next, found, callVars, stateVars, main>>

\* mutant: the answer is stored but never marked ready
Publish_NotReady(x) ==
    /\ result' = [result EXCEPT ![next] = x]
    /\ wpc' = "test" /\ next' = Null /\ found' = Empty
    /\ UNCHANGED <<jobs, stop_, callVars, ready, canceled, main>>
Publish(x) ==
    /\ result' = [result EXCEPT ![next] = x]
    /\ ready' = [ready EXCEPT ![next] = TRUE]
    /\ wpc' = "test" /\ next' = Null /\ found' = Empty
    /\ UNCHANGED <<jobs, stop_, callVars, canceled, main>>
SkipCanceled ==
    /\ wpc = "taken" /\ canceled[next]
    /\ Publish(Fail("ECANCELED"))

(* resolve_ipv4_tcp_endpoints: the status of getaddrinfo is mapped to an   *)
(* errno, the entries that cannot be converted are dropped, an empty list  *)
(* is an error.                                                            *)
MappedStatus == {"EAGAIN", "ENOENT", "ENOMEM", "EHOSTUNREACH"}
Converted(l) ==
    LET after[n \in 0..Len(l)] ==
            IF n = 0 THEN <<>>
            ELSE IF l[n] \in Usable THEN Append(after[n - 1], l[n])
            ELSE after[n - 1]
    IN  after[Len(l)]
\* mutant: a list of which nothing is left is returned
Endpoints_Empty(r, l) == Found(r, Converted(l))
Endpoints(r, l) == IF Converted(l) = <<>> THEN Fail("ENOENT")
                   ELSE Found(r, Converted(l))
Lookup ==
    /\ wpc = "taken" /\ ~canceled[next]
    /\ \/ \E e \in MappedStatus : found' = Fail(e)
       \/ \E l \in Lists : found' = Endpoints(next, l)
    /\ wpc' = "publish"
    /\ UNCHANGED <<jobs, stop_, next, callVars, stateVars, main>>
PublishFound ==
    /\ wpc = "publish"
    /\ Publish(found)

----------------------------------------------------------------------------
(* ~resolver_worker at exit, once no request is being made.                *)
\* mutant: nobody is notified of stop_
StopNotify_Skipped ==
    /\ main = "stopping"
    /\ main' = "joining"
    /\ UNCHANGED <<jobs, stop_, workerVars, callVars, stateVars>>
SetStop ==
    /\ main = "running" /\ wpc # "unborn"
    /\ \A r \in Request : pc[r] \in {"new", "done"}
    /\ main' = "stopping" /\ stop_' = TRUE
    /\ UNCHANGED <<jobs, workerVars, callVars, stateVars>>
StopNotify ==
    /\ main = "stopping"
    /\ main' = "joining" /\ wpc' = Woken
    /\ UNCHANGED <<jobs, stop_, next, found, callVars, stateVars>>
Join ==
    /\ main = "joining" /\ wpc = "ended"
    /\ main' = "joined"
    /\ UNCHANGED <<jobs, stop_, workerVars, callVars, stateVars>>

Worker == WorkerTest \/ SkipCanceled \/ Lookup \/ PublishFound
Next ==
    \/ \E r \in Request : \/ Resolve(r) \/ Notify(r) \/ Loop(r)
                          \/ SleepOver(r) \/ RequestStop(r)
    \/ WorkerTest \/ Spurious \/ SkipCanceled \/ Lookup \/ PublishFound
    \/ SetStop \/ StopNotify \/ Join

Spec == Init /\ [][Next]_vars

(* Every thread is scheduled and getaddrinfo returns.  The sleeps of a     *)
(* thread share one timerfd, and one of several in flight may wait for     *)
(* ever (Sleep): only the sleeps of a request that is alone on its thread  *)
(* are sure to end.                                                        *)
FairSpec == /\ Spec
            /\ WF_vars(Worker)
            /\ WF_vars(StopNotify) /\ WF_vars(Join)
            /\ \A r \in Request : WF_vars(Notify(r) \/ Loop(r))
            /\ \A r \in Alone : WF_vars(SleepOver(r))

----------------------------------------------------------------------------
(* Type invariant of the worker, the requests and the states they share.   *)
TypeOK ==
    /\ jobs \in Seq(Request) /\ stop_ \in BOOLEAN
    /\ wpc \in {"unborn", "test", "blocked", "taken", "publish", "ended"}
    /\ next \in Request \cup {Null}
    /\ (wpc \in {"taken", "publish"}) <=> (next # Null)
    /\ pc \in [Request -> {"new", "notify", "loop", "sleep", "done"}]
    /\ token \in [Request -> BOOLEAN]
    /\ canceled \in [Request -> BOOLEAN] /\ ready \in [Request -> BOOLEAN]
    /\ main \in {"running", "stopping", "joining", "joined"}

(* Every job is in one place: queued once, in the worker's hands, or       *)
(* answered.  The queue and the answers of run() and enqueue.              *)
Queued(r) == \E i \in 1..Len(jobs) : jobs[i] = r
JobsExact ==
    /\ \A i, j \in 1..Len(jobs) : jobs[i] = jobs[j] => i = j
    /\ \A r \in Request :
         /\ Queued(r) => ~ready[r] /\ next # r
         /\ next = r => ~ready[r]
         /\ pc[r] \in {"notify", "loop", "sleep"} => Queued(r) \/ next = r \/ ready[r]

(* The worker never sleeps over work: when it is blocked with a job in the *)
(* queue or stop_ set, the thread that did it is still to notify.          *)
NoLostJob ==
    wpc = "blocked" =>
        /\ jobs # <<>> => \E r \in Request : pc[r] = "notify"
        /\ stop_ => main = "stopping"

(* async_resolve returns the answer to its own host or an error, and a     *)
(* successful answer is never empty and holds only usable addresses        *)
(* (test_runtime_resolver.cpp, ASSERT_FALSE(...empty())).                  *)
OwnAnswer ==
    \A r \in Request :
        pc[r] = "done" =>
            \/ outcome[r].err \in Error
            \/ /\ outcome[r].of = r /\ outcome[r].list # <<>>
               /\ \A i \in 1..Len(outcome[r].list) : outcome[r].list[i] \in Usable

(* A state that is ready stays as it is: the answer an async_resolve reads *)
(* under its mutex is the only one it was ever given.                      *)
AnsweredOnce == [][\A r \in Request : ready[r] =>
                     ready'[r] /\ result'[r] = result[r]]_vars

(* When the destructor has joined the worker no job is left unanswered,    *)
(* those whose request was cancelled included.                             *)
Drained == main = "joined" => /\ jobs = <<>> /\ next = Null
                              /\ \A r \in Request : canceled[r] => ready[r]

(* An async_resolve returns when no other sleep is in flight on its        *)
(* thread, although requests of other threads may hang in theirs, cancel   *)
(* or fail.                                                                *)
ResolveEnds == \A r \in Alone : pc[r] = "notify" ~> pc[r] = "done"
(* The destructor's join returns.                                          *)
JoinReturns == main = "stopping" ~> main = "joined"
=============================================================================
