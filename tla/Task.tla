-------------------------------- MODULE Task --------------------------------
(***************************************************************************)
(* Coroutine frames of task<T> (include/simplenet/runtime/task.hpp) as a   *)
(* scheduler sees them.  A Handle stands for a coroutine frame address: a  *)
(* freed address may be used again by a later task.  The value or the      *)
(* exception a task carries is abstracted; what remains is the life of the *)
(* frame and the continuation_ that final_suspend hands to the scheduler.  *)
(*                                                                         *)
(*   "free"      no frame lives at this address                            *)
(*   "initial"   started (spawned or co_awaited), not resumed yet          *)
(*   "running"   the body executes on the loop thread                      *)
(*   "waiting"   suspended in readiness_wait_awaitable                     *)
(*   "awaiting"  suspended in task<T>::awaiter, waiting for a child        *)
(*   "final"     suspended at final_suspend, done() is true                *)
(***************************************************************************)

CONSTANTS Handle,  \* coroutine frame addresses
          Null     \* the empty handle, and "no value" of every optional

ASSUME NullNotHandle == Null \notin Handle

VARIABLES frame,         \* life-cycle state of every frame
          continuation   \* promise.continuation_ of every frame

taskVars == <<frame, continuation>>

FrameState == {"free", "initial", "running", "waiting", "awaiting", "final"}

TaskTypeOK ==
    /\ frame \in [Handle -> FrameState]
    /\ continuation \in [Handle -> Handle \cup {Null}]

TaskInit ==
    /\ frame = [h \in Handle |-> "free"]
    /\ continuation = [h \in Handle |-> Null]

(* task<T>::release() followed by the scheduler's spawn: a root has no     *)
(* continuation.                                                           *)
CreateRoot(c) ==
    /\ frame[c] = "free"
    /\ frame' = [frame EXCEPT ![c] = "initial"]
    /\ continuation' = continuation

(* task<T>::awaiter::await_suspend with a scheduler set on the awaiting    *)
(* promise: h suspends and becomes the continuation of its child c.        *)
AwaitChild(h, c) ==
    /\ frame[c] = "free"
    /\ frame' = [frame EXCEPT ![c] = "initial", ![h] = "awaiting"]
    /\ continuation' = [continuation EXCEPT ![c] = h]

(* handle.resume(): a frame that awaited a child first runs await_resume,  *)
(* which takes the result and destroys the child's frame.                  *)
ResumeFrame(h) ==
    /\ frame' = [x \in Handle |-> IF x = h THEN "running"
                                  ELSE IF continuation[x] = h THEN "free"
                                  ELSE frame[x]]
    /\ continuation' = [x \in Handle |-> IF continuation[x] = h THEN Null
                                         ELSE continuation[x]]

(* Suspension in readiness_wait_awaitable::await_suspend.                  *)
SuspendFrame(h) ==
    /\ frame' = [frame EXCEPT ![h] = "waiting"]
    /\ continuation' = continuation

(* final_suspend: the frame stays until its owner destroys it.             *)
FinishFrame(h) ==
    /\ frame' = [frame EXCEPT ![h] = "final"]
    /\ continuation' = continuation

(* coroutine_handle::destroy() of the frames in S.                         *)
DestroyFrames(S) ==
    /\ frame' = [x \in Handle |-> IF x \in S THEN "free" ELSE frame[x]]
    /\ continuation' = [x \in Handle |-> IF x \in S THEN Null
                                         ELSE continuation[x]]
=============================================================================
