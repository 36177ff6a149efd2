----------------------------- MODULE MCResolver -----------------------------
(***************************************************************************)
(* Instances for TLC of name resolution and what it is made of: the        *)
(* requests and the worker (Resolver), the sleeps between two looks at an  *)
(* answer (Sleep, with one and with two of them in flight), and the text   *)
(* form of an endpoint (ParseEndpoint).  They share no state: a behaviour  *)
(* picks one part and leaves the others where they start.                  *)
(***************************************************************************)
EXTENDS Resolver, Sleepers

VARIABLES part,
          queued, at, left, stop, calls, res, timerfd, timer, fired, slot,
          text, index, port, status

One == INSTANCE Sleep WITH
    Duration <- {0, 1, 3}, TicksPerMs <- 2,
    MaxSlice <- 2, AtOnce <- 1, MaxCalls <- 3, TimerFails <- TRUE,
    ready <- queued, pc <- at
Two == INSTANCE Sleep WITH
    Duration <- {0, 1, 3}, TicksPerMs <- 2,
    MaxSlice <- 2, AtOnce <- 2, MaxCalls <- 3, TimerFails <- TRUE,
    ready <- queued, pc <- at
Text == INSTANCE ParseEndpoint WITH
    Digit <- {0, 3, 5, 6}, Colon <- 11, Letter <- 10, Address <- {<<10>>},
    MaxLen <- 5, MaxPort <- 65, Width <- 660, i <- index

sleepVars == <<queued, at, left, stop, calls, res, timerfd, timer, fired, slot>>
textVars == <<text, index, port, status>>

PartsInit ==
    /\ part \in {"resolver", "one sleep", "two sleeps", "text"}
    /\ Init /\ One!SleepInit /\ Text!Init
    /\ part # "text" => text = <<>>
PartsNext ==
    /\ \/ part = "resolver" /\ Next /\ UNCHANGED <<sleepVars, textVars>>
       \/ part = "one sleep" /\ One!SleepNext /\ UNCHANGED <<vars, textVars>>
       \/ part = "two sleeps" /\ Two!SleepNext /\ UNCHANGED <<vars, textVars>>
       \/ part = "text" /\ Text!Next /\ UNCHANGED <<vars, sleepVars>>
    /\ UNCHANGED part

(* The fairness of Resolver and of Sleep, each in its part.                *)
InResolver == part = "resolver"
InSleep == part \in {"one sleep", "two sleeps"}
PartsFair ==
    /\ WF_vars(InResolver /\ Worker)
    /\ WF_vars(InResolver /\ StopNotify) /\ WF_vars(InResolver /\ Join)
    /\ \A r \in Request :
          WF_vars(InResolver /\ (Notify(r) \/ Loop(r)))
    /\ \A r \in Alone : WF_vars(InResolver /\ SleepOver(r))
    /\ WF_sleepVars(InSleep /\ Two!Resumes)
    /\ WF_sleepVars(InSleep /\ Two!Poll /\ Two!Readable # {})
    /\ WF_sleepVars(InSleep /\ Two!Tick)
Parts == PartsInit /\ [][PartsNext]_<<part, vars, sleepVars, textVars>>
                   /\ PartsFair

-----------------------------------------------------------------------------
(* No sleep succeeds before its own deadline, whichever sleep programmed   *)
(* the slice that woke it and whoever read the expiration.                 *)
NotEarly == Two!NotEarly

(* With one sleep at a time, every sleep returns.                          *)
SleepEnds == part = "one sleep" => One!SleepEnds

(* parse_ipv4_endpoint accepts exactly the texts that mean an endpoint, at *)
(* that port: no long digit string wraps round the accumulator, and what   *)
(* is parsed and formatted is the text again, but for leading zeros.       *)
ParsesExactly == Text!ParsesExactly
=============================================================================
