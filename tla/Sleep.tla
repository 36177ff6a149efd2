-------------------------------- MODULE Sleep --------------------------------
(***************************************************************************)
(* async_sleep (src/runtime/io_ops.cpp) on one event-loop thread.  All the *)
(* sleeps of a thread share one timerfd, and so one readable slot of the   *)
(* loop.  A sleep is three coroutines: the caller, async_sleep and         *)
(* wait_readable(timer_fd); each hop between them goes through the ready   *)
(* queue of the loop, so the coroutines of other sleeps run in between.    *)
(***************************************************************************)
EXTENDS Sleepers, Sequences, Functions, Integers

CONSTANTS Duration,    \* arguments, in milliseconds
          TicksPerMs,  \* clock ticks in a millisecond
          MaxSlice,    \* 20ms: longest single wait of the loop
          AtOnce,      \* how many sleeps the application has in flight
          MaxCalls,    \* bound: sleeps in a behaviour
          TimerFails   \* may timerfd_create fail?

VARIABLES ready,    \* FIFO of the loop: sleepers with a queued coroutine
          pc,       \* which coroutine of a sleeper is next, and where
          left,     \* ticks until the deadline of async_sleep
          stop,     \* token.stop_requested()
          calls,    \* sleeps so far
          res,      \* what async_sleep returned
          timerfd,  \* "unset", "open" or "failed": get_sleep_timerfd()
          timer,    \* ticks until it expires, 0 when disarmed
          fired,    \* unread expirations: the descriptor is readable
          slot      \* the sleeper whose wait_readable holds the read slot

sleepVars == <<ready, pc, left, stop, calls, res, timerfd, timer, fired, slot>>
clockVars == <<left, stop, calls>>
timerVars == <<timer, fired>>

MaxTicks == TicksPerMs * (CHOOSE d \in Duration : \A e \in Duration : e <= d)

SleepInit ==
    /\ ready = <<>>
    /\ pc = [s \in Sleeper |-> "idle"]
    /\ left = [s \in Sleeper |-> 0]
    /\ stop = [s \in Sleeper |-> FALSE]
    /\ calls = 0
    /\ res = [s \in Sleeper |-> "none"]
    /\ timerfd = "unset"
    /\ timer = 0 /\ fired = FALSE /\ slot = None

----------------------------------------------------------------------------
(* The loop polls when its queue is empty: the holder of the slot if the   *)
(* timer is readable, and callers whose own I/O became ready, in any order *)
Asleep == {s \in Sleeper : pc[s] # "idle"}
Readable == IF fired /\ slot # None THEN {slot} ELSE {}
Order(S) == Bijection(1..Cardinality(S), S)
Poll ==
    /\ ready = <<>>
    /\ \E new \in SUBSET (Sleeper \ Asleep) :
         /\ new \cup Readable # {}
         /\ Cardinality(new \cup Asleep) <= AtOnce
         /\ calls' = calls + Cardinality(new) /\ calls' <= MaxCalls
         /\ ready' \in Order(new \cup Readable)
         /\ pc' = [s \in Sleeper |-> IF s \in new THEN "call"
                                     ELSE IF s \in Readable THEN "woken"
                                     ELSE pc[s]]
         /\ stop' = [s \in Sleeper |-> stop[s] /\ s \notin new]
    /\ slot' = IF Readable # {} THEN None ELSE slot
    /\ UNCHANGED <<left, res, timerfd, timerVars>>

Resumed(s) == ready # <<>> /\ s = Head(ready)
Queue(s, p) == /\ ready' = Append(Tail(ready), s)
               /\ pc' = [pc EXCEPT ![s] = p]

(* co_await async_sleep(d, token): the child is queued.                    *)
Call(s) ==
    /\ Resumed(s) /\ pc[s] = "call"
    /\ Queue(s, "start")
    /\ \E d \in Duration : left' = [left EXCEPT ![s] = d * TicksPerMs]
    /\ UNCHANGED <<stop, calls, res, timerfd, timerVars, slot>>

Return(s, r) ==
    /\ Queue(s, "return")
    /\ res' = [res EXCEPT ![s] = r]

(* The body of the loop of async_sleep, up to its co_await; f says whether *)
(* the timer has an unread expiration when it begins.                      *)
Slice(l) == LET ms == l \div TicksPerMs
                m == IF ms < MaxSlice THEN ms ELSE MaxSlice
            IN  TicksPerMs * (IF m < 1 THEN 1 ELSE m)
\* mutant: only the first sleep of the thread arms the timer
Program_Once(s) == /\ timer' = IF calls = 1 THEN Slice(left[s]) ELSE timer
                   /\ fired' = FALSE
                   /\ Queue(s, "arm")
                   /\ UNCHANGED res
Program(s) == /\ timer' = Slice(left[s])
              /\ fired' = FALSE
              /\ Queue(s, "arm")
              /\ UNCHANGED res
ReturnNow(s, f, r) == Return(s, r) /\ fired' = f /\ timer' = timer
Top(s, f) == IF stop[s] THEN ReturnNow(s, f, "ECANCELED")
             ELSE IF left[s] = 0 THEN ReturnNow(s, f, "ok")
             ELSE Program(s)

(* async_sleep starts: the deadline counts from here, and the first sleep  *)
(* of the thread creates the timer, for good or not at all.                *)
Start(s) ==
    /\ Resumed(s) /\ pc[s] = "start"
    /\ IF stop[s] \/ left[s] = 0
       THEN /\ Return(s, IF stop[s] THEN "ECANCELED" ELSE "ok")
            /\ UNCHANGED <<timerfd, timerVars>>
       ELSE /\ \/ timerfd # "unset" /\ timerfd' = timerfd
               \/ timerfd = "unset" /\ timerfd' = "open"
               \/ timerfd = "unset" /\ TimerFails /\ timerfd' = "failed"
            /\ IF timerfd' = "failed"
               THEN Return(s, "errno") /\ UNCHANGED timerVars
               ELSE Top(s, fired)
    /\ UNCHANGED <<clockVars, slot>>

(* wait_readable(timer_fd) runs: it takes the slot, or finds it taken.     *)
Arm(s) ==
    /\ Resumed(s) /\ pc[s] = "arm"
    /\ IF slot = None
       THEN /\ slot' = s
            /\ pc' = [pc EXCEPT ![s] = "parked"]
            /\ ready' = Tail(ready)
       ELSE Queue(s, "failed") /\ UNCHANGED slot
    /\ UNCHANGED <<clockVars, res, timerfd, timerVars>>

(* The woken wait_readable ends and queues async_sleep, its awaiter.       *)
Woken(s) ==
    /\ Resumed(s) /\ pc[s] = "woken"
    /\ Queue(s, "expired")
    /\ UNCHANGED <<clockVars, res, timerfd, timerVars, slot>>

(* async_sleep resumes: read(timer_fd) takes the expirations or finds none *)
(* (EAGAIN), and round the loop; or the wait failed.                       *)
\* mutant: an expiration is taken for the end of the sleep
Expired_TrustTimer(s) ==
    /\ Resumed(s) /\ pc[s] = "expired"
    /\ IF fired THEN ReturnNow(s, FALSE, "ok") ELSE Top(s, FALSE)
    /\ UNCHANGED <<clockVars, timerfd, slot>>
Expired(s) ==
    /\ Resumed(s) /\ pc[s] = "expired"
    /\ Top(s, FALSE)
    /\ UNCHANGED <<clockVars, timerfd, slot>>
Failed(s) ==
    /\ Resumed(s) /\ pc[s] = "failed"
    /\ Return(s, "EBUSY")
    /\ UNCHANGED <<clockVars, timerfd, timerVars, slot>>

(* The caller has its result, and goes on to wait for something else.      *)
Returned(s) ==
    /\ Resumed(s) /\ pc[s] = "return"
    /\ ready' = Tail(ready)
    /\ pc' = [pc EXCEPT ![s] = "idle"]
    /\ left' = [left EXCEPT ![s] = 0]
    /\ UNCHANGED <<stop, calls, res, timerfd, timerVars, slot>>

(* request_stop() from any thread, and the clock.                          *)
RequestStop(s) ==
    /\ ~stop[s]
    /\ stop' = [stop EXCEPT ![s] = TRUE]
    /\ UNCHANGED <<ready, pc, left, calls, res, timerfd, timerVars, slot>>
Timed(s) == pc[s] \notin {"idle", "call", "start"}
Tick ==
    /\ left' = [s \in Sleeper |-> IF Timed(s) /\ left[s] > 0
                                  THEN left[s] - 1 ELSE left[s]]
    /\ timer' = IF timer > 0 THEN timer - 1 ELSE 0
    /\ fired' = (fired \/ timer = 1)
    /\ <<left', timer', fired'>> # <<left, timer, fired>>
    /\ UNCHANGED <<ready, pc, stop, calls, res, timerfd, slot>>

Resumes == \E s \in Sleeper : \/ Call(s) \/ Start(s) \/ Arm(s) \/ Woken(s)
                               \/ Expired(s) \/ Failed(s) \/ Returned(s)
SleepNext == \/ Poll \/ Resumes \/ Tick
             \/ \E s \in Sleeper : RequestStop(s)

SleepSpec == SleepInit /\ [][SleepNext]_sleepVars

(* The loop thread runs what is queued and polls; time passes.             *)
SleepFair == /\ SleepSpec
             /\ WF_sleepVars(Resumes) /\ WF_sleepVars(Poll /\ Readable # {})
             /\ WF_sleepVars(Tick)

----------------------------------------------------------------------------
(* A sleep in flight has one coroutine in the queue of the loop, or waits  *)
(* in the read slot of the shared timer, which one sleep holds at a time:  *)
(* in whatever order the sleeps of a thread meet, the loop resumes none    *)
(* twice and drops none.                                                   *)
Queued(s) == \E n \in 1..Len(ready) : ready[n] = s
HeldOnce ==
    /\ \A m, n \in 1..Len(ready) : ready[m] = ready[n] => m = n
    /\ \A s \in Sleeper : /\ Queued(s) <=> pc[s] \notin {"idle", "parked"}
                          /\ slot = s <=> pc[s] = "parked"

(* No sleep succeeds before its own deadline, whichever sleep programmed   *)
(* the slice that woke it and whoever read the expiration.                 *)
NotEarly == [][\A s \in Sleeper : pc[s] # "return" /\ pc'[s] = "return"
                                 /\ res'[s] = "ok" => left[s] = 0]_sleepVars

(* A sleep always returns.  Of one sleep at a time: with two in flight the *)
(* first may read the expiration of the timer that the second has just     *)
(* re-programmed, and leave it disarmed.                                   *)
SleepEnds == \A s \in Sleeper : pc[s] = "parked" ~> pc[s] = "return"
=============================================================================
