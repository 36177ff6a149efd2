------------------------------- MODULE CoAwait -------------------------------
(***************************************************************************)
(* Task objects and co_await (include/simplenet/runtime/task.hpp) on a     *)
(* scheduler: tasks are called, held, moved, dropped, awaited, finish with *)
(* a value or an exception, and are destroyed.  Both the start of a child  *)
(* and the return to its parent go through the ready queue.                *)
(***************************************************************************)
EXTENDS Sequences, Naturals

CONSTANTS Handle, NullHandle

ASSUME HandleAssumption == NullHandle \notin Handle

VARIABLES frame,    \* "free", "initial", "body", "await" or "final"
          owner,    \* the coroutine whose task object or awaiter holds it
          handle_,  \* the handle in the awaiter of a coroutine, or NullHandle
          continuation,
          outcome,  \* the value, exception or logic_error of an empty task
                    \* in the promise of a coroutine
          running,  \* the coroutine that runs, or NullHandle
          ready,    \* queue of the scheduler
          misused   \* an await_resume without a result, or a resume of a
                    \* coroutine that is not suspended

awaitVars == <<frame, owner, handle_, continuation, outcome, running, ready,
               misused>>

AwaitInit ==
    /\ frame = [h \in Handle |-> "free"]
    /\ owner = [h \in Handle |-> NullHandle]
    /\ handle_ = [h \in Handle |-> NullHandle]
    /\ continuation = [h \in Handle |-> NullHandle]
    /\ outcome = [h \in Handle |-> "none"]
    /\ running = NullHandle /\ ready = <<>>
    /\ misused = FALSE

(* A task that nobody started is destroyed with the object that holds it.  *)
Held(h) == {c \in Handle : owner[c] = h /\ frame[c] = "initial" /\ handle_[h] # c}
Destroyed(S) ==
    /\ owner' = [c \in Handle |-> IF c \in S THEN NullHandle ELSE owner[c]]
    /\ outcome' = [c \in Handle |-> IF c \in S THEN "none" ELSE outcome[c]]
    /\ continuation' = [c \in Handle |-> IF c \in S THEN NullHandle
                                         ELSE continuation[c]]

(* h.resume(): a new coroutine starts its body; one that awaits runs       *)
(* await_resume, which takes the result and destroys the child.            *)
\* mutant: the awaiter leaves the frame of its child to nobody
Resume_Leak(h) ==
    /\ frame' = [frame EXCEPT ![h] = "body"]
    /\ handle_' = [handle_ EXCEPT ![h] = NullHandle]
    /\ running' = h
    /\ Destroyed({}) /\ UNCHANGED misused
Resume(h) ==
    LET c == handle_[h]
        done == IF frame[h] = "initial" \/ c = NullHandle THEN {} ELSE {c}
    IN  /\ frame' = [x \in Handle |-> IF x = h THEN "body"
                                      ELSE IF x \in done THEN "free" ELSE frame[x]]
        /\ handle_' = [handle_ EXCEPT ![h] = NullHandle]
        /\ running' = h
        /\ Destroyed(done)
        /\ misused' = \/ misused
                      \/ frame[h] \notin {"initial", "await"}
                      \/ frame[h] = "await" /\ (c = NullHandle \/ outcome[c] = "none")
RunNext ==
    /\ running = NullHandle /\ ready # <<>>
    /\ Resume(Head(ready))
    /\ ready' = Tail(ready)

(* spawn() of a root.                                                      *)
Spawn(h) ==
    /\ frame[h] = "free" /\ running = NullHandle
    /\ owner' = [owner EXCEPT ![h] = h]
    /\ frame' = [frame EXCEPT ![h] = "initial"]
    /\ ready' = Append(ready, h)
    /\ UNCHANGED <<handle_, continuation, outcome, running, misused>>

(* The body calls a coroutine function: a suspended task it owns.          *)
Call(h, c) ==
    /\ running = h /\ frame[c] = "free"
    /\ frame' = [frame EXCEPT ![c] = "initial"]
    /\ owner' = [owner EXCEPT ![c] = h]
    /\ UNCHANGED <<handle_, continuation, outcome, running, ready, misused>>
(* ~task, or move assignment over it.                                      *)
Drop(h, c) ==
    /\ running = h /\ c \in Held(h)
    /\ frame' = [frame EXCEPT ![c] = "free"]
    /\ Destroyed({c})
    /\ UNCHANGED <<handle_, running, ready, misused>>

(* co_await std::move(task): the awaiter takes the handle, await_suspend   *)
(* queues the child.                                                       *)
Await(h, c) ==
    /\ running = h /\ c \in Held(h)
    /\ handle_' = [handle_ EXCEPT ![h] = c]
    /\ continuation' = [continuation EXCEPT ![c] = h]
    /\ frame' = [frame EXCEPT ![h] = "await"]
    /\ ready' = Append(ready, c)
    /\ running' = NullHandle
    /\ UNCHANGED <<owner, outcome, misused>>

(* The body returns or throws; its locals go; final_suspend queues the     *)
(* continuation.                                                           *)
\* mutant: the continuation is queued twice
FinalSuspend_Twice(h) ==
    /\ running = h
    /\ frame' = [frame EXCEPT ![h] = "final"]
    /\ outcome' = [outcome EXCEPT ![h] = "value"]
    /\ ready' = IF continuation[h] = NullHandle THEN ready
                ELSE ready \o <<continuation[h], continuation[h]>>
    /\ running' = NullHandle
    /\ UNCHANGED <<owner, handle_, continuation, misused>>
Ends(h, o) ==
    /\ running = h
    /\ frame' = [x \in Handle |-> IF x = h THEN "final"
                                  ELSE IF x \in Held(h) THEN "free" ELSE frame[x]]
    /\ owner' = [x \in Handle |-> IF x \in Held(h) THEN NullHandle ELSE owner[x]]
    /\ outcome' = [outcome EXCEPT ![h] = o]
    /\ ready' = IF continuation[h] = NullHandle THEN ready
                ELSE Append(ready, continuation[h])
    /\ running' = NullHandle
    /\ UNCHANGED <<handle_, continuation, misused>>
FinalSuspend(h) == \E o \in {"value", "exception"} : Ends(h, o)

(* co_await of an empty or moved-from task: await_ready is true, nothing   *)
(* is suspended or queued, and await_resume throws logic_error, "awaited   *)
(* task has no coroutine handle", in the body of h, which ends with it.  A *)
(* body that catches it goes on as it was.                                 *)
AwaitEmpty(h) == Ends(h, "logic_error")

(* cleanup_completed_roots.                                                *)
Reap(h) ==
    /\ running = NullHandle /\ frame[h] = "final" /\ owner[h] = h
    /\ frame' = [frame EXCEPT ![h] = "free"]
    /\ Destroyed({h})
    /\ UNCHANGED <<handle_, running, ready, misused>>

AwaitNext ==
    \/ \E h \in Handle : \/ Spawn(h) \/ FinalSuspend(h)
                         \/ AwaitEmpty(h) \/ Reap(h)
    \/ \E h, c \in Handle : Call(h, c) \/ Drop(h, c) \/ Await(h, c)
    \/ RunNext
AwaitSpec == AwaitInit /\ [][AwaitNext]_awaitVars

----------------------------------------------------------------------------
(* The coroutine that is resumed is suspended, and one suspended in a      *)
(* co_await finds its child in its awaiter, finished and with a result: in *)
(* whatever order tasks are called, dropped, awaited and finished,         *)
(* "task result is not available" (task.hpp) is never thrown and the       *)
(* child's value or exception reaches its parent.  (A co_await of an empty *)
(* task does not suspend: see AwaitEmpty.)                                 *)
AwaitHasResult == ~misused

(* Frames are owned: every live frame is a root, or held by a live         *)
(* coroutine through one task object or awaiter, and the frames of a       *)
(* finished coroutine's children are gone.                                 *)
FramesOwned ==
    /\ \A h \in Handle : frame[h] = "free" <=> owner[h] = NullHandle
    /\ \A c \in Handle : owner[c] \notin {NullHandle, c} =>
         /\ frame[owner[c]] \notin {"free", "final"}
         /\ frame[c] # "initial" => handle_[owner[c]] = c
=============================================================================
