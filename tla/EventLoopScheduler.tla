------------------------- MODULE EventLoopScheduler -------------------------
(* event_loop implements Scheduler: a frame that lives is suspended,       *)
(* running or done, and a coroutine is parked while a registration of      *)
(* waiters_ holds its handle.                                              *)
EXTENDS EventLoop

Life(f) == IF f = "free" THEN "none"
           ELSE IF f = "running" THEN "running"
           ELSE IF f = "final" THEN "done" ELSE "suspended"
LifeMap == [h \in Handle |-> Life(frame[h])]
ParkedSet == {h \in Handle : Parked(h)}

Sched == INSTANCE Scheduler
    WITH Result <- Outcome, life <- LifeMap, parent <- continuation,
         ready <- ready_queue, parked <- ParkedSet, outcome <- wait_results

(* Every step of the epoll loop is a step of Scheduler or none: it resumes *)
(* only suspended coroutines, in FIFO order and one at a time, ends every  *)
(* wait once, wakes a parent only when its child is done and destroys a    *)
(* frame only when it is done or with the loop.                            *)
ImplementsScheduler == Sched!SchedSpec
=============================================================================
