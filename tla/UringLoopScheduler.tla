------------------------- MODULE UringLoopScheduler -------------------------
(* uring_event_loop implements Scheduler, under the same mapping as        *)
(* event_loop: the two backends give coroutines the same service.          *)
EXTENDS UringLoop

Life(f) == IF f = "free" THEN "none"
           ELSE IF f = "running" THEN "running"
           ELSE IF f = "final" THEN "done" ELSE "suspended"
LifeMap == [h \in Handle |-> Life(frame[h])]
ParkedSet == {h \in Handle : \E w \in Waiter : waiters[w].handle = h}

Sched == INSTANCE Scheduler
    WITH Result <- Outcome, life <- LifeMap, parent <- continuation,
         ready <- ready_queue, parked <- ParkedSet, outcome <- wait_results

(* Every step of the io_uring loop is a step of Scheduler or none, with    *)
(* poll completions that arrive late, for waits that are over, included.   *)
ImplementsScheduler == Sched!SchedSpec
=============================================================================
