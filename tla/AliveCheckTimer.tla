--------------------------- MODULE AliveCheckTimer ---------------------------
(***************************************************************************)
(* libdoipcommon/src/AliveCheckTimer.cpp: the inactivity timer of one      *)
(* connection.  A thread polls the clock and runs the callback once        *)
(* maxSeconds have passed since the last reset.                            *)
(*                                                                         *)
(* The state is shared without a lock by the connection's receiver thread  *)
(* and the timer thread; the connection composes the actions below.        *)
(* elapsed is clock() - startTime in whole seconds.  clock() is the CPU    *)
(* time of the process: in one second every thread that polls adds one to  *)
(* it, this timer's and those of other connections.                        *)
(***************************************************************************)
EXTENDS Integers

CONSTANT MaxLoad  \* bound: how many threads of the process are busy

ASSUME LoadAssumption == MaxLoad \in Nat \ {0}

VARIABLES
  disabled, active, timeout,   \* the public flags
  elapsed, maxSeconds,
  silent,                      \* for checking: seconds since the last reset
  longest,                     \* for checking: the most silent has been
  timerThreads,                \* size of the vector of threads
  tpc                          \* where the timer thread is

timerVars ==
  <<disabled, active, timeout, elapsed, silent, longest, maxSeconds, timerThreads,
    tpc>>

TimerPc == {"none", "poll", "expired", "fire", "callback", "done"}

TimerTypeOK ==
  /\ disabled \in BOOLEAN /\ active \in BOOLEAN /\ timeout \in BOOLEAN
  /\ elapsed \in Nat /\ silent \in Nat /\ longest \in Nat /\ maxSeconds \in Nat
  /\ timerThreads \in Nat
  /\ tpc \in TimerPc

TimerInit ==
  /\ disabled = FALSE /\ active = FALSE /\ timeout = FALSE
  /\ elapsed = 0 /\ silent = 0 /\ longest = 0 /\ maxSeconds = 0
  /\ timerThreads = 0 /\ tpc = "none"

(* setTimer, and the disabling branch of setGeneralInactivityTime *)
SetTimer(seconds) ==
  /\ maxSeconds' = IF seconds > 0 THEN seconds ELSE maxSeconds
  /\ disabled' = (disabled \/ seconds = 0)
  /\ UNCHANGED <<active, timeout, elapsed, silent, longest, timerThreads, tpc>>

(* mutant: the start time is left as it is *)
ResetTimerForgotten ==
  /\ silent' = 0
  /\ active' = TRUE
  /\ UNCHANGED <<disabled, timeout, elapsed, longest, maxSeconds, timerThreads, tpc>>

ResetTimer ==
  /\ elapsed' = 0 /\ silent' = 0
  /\ active' = TRUE
  /\ UNCHANGED <<disabled, timeout, longest, maxSeconds, timerThreads, tpc>>

(* startTimer pushes one more thread; tpc follows the first, the one that   *)
(* the destructor joins                                                     *)
StartTimer ==
  \/ /\ ~disabled
     /\ elapsed' = 0 /\ silent' = 0
     /\ active' = TRUE
     /\ timerThreads' = timerThreads + 1
     /\ tpc' = IF timerThreads = 0 THEN "poll" ELSE tpc
     /\ UNCHANGED <<disabled, timeout, longest, maxSeconds>>
  \/ disabled /\ UNCHANGED timerVars

-----------------------------------------------------------------------------
(* waitForResponse.  The comparison and the assignments that follow it are  *)
(* separate steps: a reset may fall between them.                           *)

(* elapsed stops at maxSeconds: the comparison tells no later times apart *)
AtMost(seconds, limit) == IF seconds < limit THEN seconds ELSE limit

Tick ==
  /\ tpc = "poll"
  /\ ~disabled
  /\ elapsed < maxSeconds
  /\ \E load \in 1 .. MaxLoad : elapsed' = AtMost(elapsed + load, maxSeconds)
  /\ silent' = silent + 1
  /\ longest' = IF longest < silent + 1 THEN silent + 1 ELSE longest
  /\ UNCHANGED <<disabled, active, timeout, maxSeconds, timerThreads, tpc>>

PollExpired ==
  /\ tpc = "poll"
  /\ ~disabled
  /\ elapsed >= maxSeconds
  /\ tpc' = "expired"
  /\ UNCHANGED <<disabled, active, timeout, elapsed, silent, longest, maxSeconds,
                 timerThreads>>

PollDisabled ==
  /\ tpc = "poll"
  /\ disabled
  /\ tpc' = "done"
  /\ UNCHANGED <<disabled, active, timeout, elapsed, silent, longest, maxSeconds,
                 timerThreads>>

(* silent and longest are not needed after the timeout *)
Expire ==
  /\ tpc = "expired"
  /\ disabled' = TRUE
  /\ timeout' = TRUE
  /\ silent' = 0 /\ longest' = 0
  /\ tpc' = "fire"
  /\ UNCHANGED <<active, elapsed, maxSeconds, timerThreads>>

(* a step inside the callback only moves the thread on *)
TimerGoto(from, to) ==
  /\ tpc = from
  /\ tpc' = to
  /\ UNCHANGED <<disabled, active, timeout, elapsed, silent, longest, maxSeconds,
                 timerThreads>>

(* ~AliveCheckTimer, in two steps *)
Disarm ==
  /\ disabled' = TRUE
  /\ UNCHANGED <<active, timeout, elapsed, silent, longest, maxSeconds, timerThreads,
                 tpc>>

Joinable == timerThreads > 0 => tpc = "done"
=============================================================================
