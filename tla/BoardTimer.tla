------------------------------ MODULE BoardTimer ------------------------------
(***************************************************************************)
(* The countdown timer of one board: the row of table board_timers (boardId *)
(* is unique there), the calls of TimerService working on it, and the      *)
(* background cleanup of TimerCleanupService.                              *)
(*                                                                         *)
(* A call is a sequence of database statements with Node.js code between   *)
(* them; other calls run in the gaps.  Each statement is a step and so is  *)
(* the code that looks at the clock.  A call refused by the access check   *)
(* changes nothing and is left out, and so is createdById.                 *)
(***************************************************************************)
EXTENDS Integers, FiniteSets

CONSTANTS
    Calls,           \* bound: calls in flight at a time, a set
    Durations,       \* the seconds that clients ask for (1..86400 in the DTO)
    TicksPerSecond,  \* resolution of the clock (1000 in the code)
    MaxTime,         \* bound: ticks of the clock
    MaxCleanups,     \* bound: cleanups in flight at a time
    MaxFailures      \* bound: cleanups that the database fails

ASSUME TimerAssumption ==
    /\ Calls # {}
    /\ Durations \subseteq Nat \ {0}
    /\ TicksPerSecond \in Nat \ {0}
    /\ {MaxTime, MaxCleanups, MaxFailures} \subseteq Nat

VARIABLES
    now,       \* the clock, in ticks
    timer,     \* the row of the board, or NoTimer
    call,      \* what each call in flight has done and knows
    lanes,     \* the calls that clients make: all of Calls, or one at a time
    cleanups,  \* the cut-off times of cleanups whose DELETE is under way
    failures   \* cleanups that have failed so far

vars == <<now, timer, call, lanes, cleanups, failures>>

Never == -1  \* endsAt is null

NoTimer == [status |-> "NONE", duration |-> 0, remaining |-> 0, endsAt |-> Never]

Running(seconds, duration, at) ==
    [status |-> "RUNNING", duration |-> duration, remaining |-> seconds,
     endsAt |-> at + seconds * TicksPerSecond]

Idle == [step |-> "IDLE", row |-> NoTimer]

OneCall == CHOOSE c \in Calls : TRUE

Serial == \E c \in Calls : lanes = {c}

CeilSecondsPlusOne(ticks) == ticks \div TicksPerSecond + 1  \* mutant

\* Math.ceil of a non-negative number of ticks, in seconds.
CeilSeconds(ticks) == (ticks + TicksPerSecond - 1) \div TicksPerSecond

SecondsLeftFloored(row) ==  \* mutant: Math.floor
    IF row.endsAt <= now THEN 0 ELSE (row.endsAt - now) \div TicksPerSecond

\* The remainder pauseTimer computes: Math.max(0, Math.ceil(...)).
SecondsLeft(row) == IF row.endsAt <= now THEN 0 ELSE CeilSeconds(row.endsAt - now)

Expired(row) == row.status = "RUNNING" /\ row.endsAt <= now

-----------------------------------------------------------------------------

Init ==
    /\ now = 0
    /\ timer = NoTimer
    /\ call = [c \in Calls |-> Idle]
    /\ lanes \in {Calls, {OneCall}}
    /\ cleanups = {}
    /\ failures = 0

Tick ==
    /\ now < MaxTime
    /\ now' = now + 1
    /\ UNCHANGED <<lanes, timer, call, cleanups, failures>>

Enter(c, step, row) == call' = [call EXCEPT ![c] = [step |-> step, row |-> row]]

Finish(c) == call' = [call EXCEPT ![c] = Idle]

\* startTimer: the clock is read, then the whole row is upserted.
StartDecide(c, seconds) ==
    /\ call[c] = Idle
    /\ Enter(c, "START", Running(seconds, seconds, now))
    /\ UNCHANGED <<lanes, now, timer, cleanups, failures>>

StartWrite(c) ==
    /\ call[c].step = "START"
    /\ timer' = call[c].row
    /\ Finish(c)
    /\ UNCHANGED <<lanes, now, cleanups, failures>>

\* pauseTimer: the row is read, then the clock; an expired timer is deleted,
\* any other one updated.  Both writes name only the board: they hit whatever
\* row is there by then, and fail when there is none.
PauseRead(c) ==
    /\ call[c] = Idle
    /\ timer.status = "RUNNING"
    /\ Enter(c, "PAUSE", timer)
    /\ UNCHANGED <<lanes, now, timer, cleanups, failures>>

PausedWith(row, left) ==
    [row EXCEPT !.status = "PAUSED", !.remaining = left, !.endsAt = Never]

PauseDecideUnchecked(c) ==  \* mutant: no test for an expired timer
    /\ call[c].step = "PAUSE"
    /\ Enter(c, "PAUSE_WRITE", PausedWith(call[c].row, SecondsLeft(call[c].row)))
    /\ UNCHANGED <<lanes, now, timer, cleanups, failures>>

PauseDecide(c) ==
    /\ call[c].step = "PAUSE"
    /\ LET left == SecondsLeft(call[c].row) IN
       IF left <= 0
       THEN Enter(c, "EXPIRE", call[c].row)
       ELSE Enter(c, "PAUSE_WRITE", PausedWith(call[c].row, left))
    /\ UNCHANGED <<lanes, now, timer, cleanups, failures>>

ExpireDelete(c) ==
    /\ call[c].step = "EXPIRE"
    /\ timer' = NoTimer
    /\ Finish(c)
    /\ UNCHANGED <<lanes, now, cleanups, failures>>

PauseWrite(c) ==
    /\ call[c].step = "PAUSE_WRITE"
    /\ timer' = IF timer = NoTimer THEN timer
                ELSE PausedWith(timer, call[c].row.remaining)
    /\ Finish(c)
    /\ UNCHANGED <<lanes, now, cleanups, failures>>

\* resumeTimer: the row is read, then the clock, then the row is updated.
ResumeRead(c) ==
    /\ call[c] = Idle
    /\ timer.status = "PAUSED"
    /\ Enter(c, "RESUME", timer)
    /\ UNCHANGED <<lanes, now, timer, cleanups, failures>>

ResumeDecideAfresh(c) ==  \* mutant: counts down from durationSeconds
    /\ call[c].step = "RESUME"
    /\ LET row == call[c].row IN
       Enter(c, "RESUME_WRITE", Running(row.duration, row.duration, now))
    /\ UNCHANGED <<lanes, now, timer, cleanups, failures>>

ResumeDecide(c) ==
    /\ call[c].step = "RESUME"
    /\ LET row == call[c].row IN
       IF row.remaining <= 0
       THEN Enter(c, "EXPIRE", row)
       ELSE Enter(c, "RESUME_WRITE", Running(row.remaining, row.duration, now))
    /\ UNCHANGED <<lanes, now, timer, cleanups, failures>>

ResumeWrite(c) ==
    /\ call[c].step = "RESUME_WRITE"
    /\ timer' = IF timer = NoTimer THEN timer
                ELSE [timer EXCEPT !.status = "RUNNING",
                                   !.endsAt = call[c].row.endsAt]
    /\ Finish(c)
    /\ UNCHANGED <<lanes, now, cleanups, failures>>

\* deleteTimer is a single DELETE; it finds a timer or it does not.
DeleteTimer(c) ==
    /\ call[c] = Idle
    /\ timer # NoTimer
    /\ timer' = NoTimer
    /\ UNCHANGED <<lanes, now, call, cleanups, failures>>

\* The interval of TimerCleanupService: new Date() is taken when it fires, the
\* DELETE runs later.  runCleanup swallows an error of the database, and the
\* interval fires again whatever became of the previous cleanup.
CleanupFireUntilFailure ==  \* mutant: an error ends the interval
    /\ failures = 0
    /\ now \notin cleanups
    /\ Cardinality(cleanups) < MaxCleanups
    /\ cleanups' = cleanups \cup {now}
    /\ UNCHANGED <<lanes, now, timer, call, failures>>

CleanupFire ==
    /\ now \notin cleanups
    /\ Cardinality(cleanups) < MaxCleanups
    /\ cleanups' = cleanups \cup {now}
    /\ UNCHANGED <<lanes, now, timer, call, failures>>

CleanupDeleteAllRunning(cutoff) ==  \* mutant: no condition on endsAt
    /\ cleanups' = cleanups \ {cutoff}
    /\ timer' = IF timer.status = "RUNNING" THEN NoTimer ELSE timer
    /\ UNCHANGED <<lanes, now, call, failures>>

CleanupDelete(cutoff) ==
    /\ cleanups' = cleanups \ {cutoff}
    /\ timer' = IF timer.status = "RUNNING" /\ timer.endsAt <= cutoff
                THEN NoTimer ELSE timer
    /\ UNCHANGED <<lanes, now, call, failures>>

CleanupFail(cutoff) ==
    /\ failures < MaxFailures
    /\ failures' = failures + 1
    /\ cleanups' = cleanups \ {cutoff}
    /\ UNCHANGED <<lanes, now, timer, call>>

Step(c) ==
    \/ \E seconds \in Durations : StartDecide(c, seconds)
    \/ StartWrite(c)
    \/ PauseRead(c)
    \/ PauseDecide(c)
    \/ ExpireDelete(c)
    \/ PauseWrite(c)
    \/ ResumeRead(c)
    \/ ResumeDecide(c)
    \/ ResumeWrite(c)
    \/ DeleteTimer(c)

Next ==
    \/ Tick
    \/ \E c \in lanes : Step(c)
    \/ CleanupFire
    \/ \E cutoff \in cleanups : CleanupDelete(cutoff)
    \/ \E cutoff \in cleanups : CleanupFail(cutoff)

\* setInterval keeps firing while the process runs, and a DELETE that was sent
\* is answered.  Nothing is assumed of clients or of the calls they make.
Fairness ==
    /\ WF_vars(CleanupFire)
    /\ \A cutoff \in 0..MaxTime :
        WF_vars(cutoff \in cleanups /\ (CleanupDelete(cutoff) \/ CleanupFail(cutoff)))

Spec == Init /\ [][Next]_vars /\ Fairness

-----------------------------------------------------------------------------

Rows ==
    {NoTimer} \cup
    [status : {"RUNNING"}, duration : Durations, remaining : Nat, endsAt : Nat] \cup
    [status : {"PAUSED"}, duration : Durations, remaining : Nat, endsAt : {Never}]

TypeOK ==
    /\ now \in Nat
    /\ timer \in Rows
    /\ call \in [Calls -> [step : {"IDLE", "START", "PAUSE", "EXPIRE", "PAUSE_WRITE",
                                   "RESUME", "RESUME_WRITE"},
                           row : Rows]]
    /\ lanes \subseteq Calls
    /\ cleanups \subseteq 0..now
    /\ failures \in Nat

\* A timer is never stored with no time left, so resumeTimer never finds one:
\* pauseTimer deletes instead, whatever calls it overlaps with.
ResumeFindsTime ==
    /\ timer.status = "PAUSED" => timer.remaining > 0
    /\ \A c \in Calls : call[c].step = "RESUME" => call[c].row.remaining > 0

\* However pauses, resumes and restarts race, the timer never ends later than
\* the longest countdown a client may ask for, counted from now.
EndsWithinLongest ==
    timer.status = "RUNNING" =>
        \E d \in Durations : timer.endsAt <= now + d * TicksPerSecond

\* README "таймеры PAUSED не трогаются": the cleanup takes running timers that
\* have ended, whatever was paused, resumed or restarted since it fired.
CleanupSparesOthers ==
    [][\A cutoff \in cleanups : CleanupDelete(cutoff) /\ timer' # timer => Expired(timer)]_vars

\* A running timer past its end does not stay: the cleanup deletes it unless a
\* call does something to it first.
ExpiredTimerGoes == Expired(timer) ~> ~Expired(timer)

\* Where calls overlap nothing is promised: the promised timer stays at rest.
Promise == INSTANCE BoardTimerPromise WITH
    now   <- IF Serial THEN now ELSE 0,
    timer <- IF Serial THEN timer ELSE NoTimer,
    Durations <- Durations,
    TicksPerSecond <- TicksPerSecond

\* Calls made one at a time, with the cleanup beside them, act as single steps
\* on the timer: a pause loses no time and gains none (timer.service.test.ts
\* asserts as much), and a resume continues from it.
SerialKeepsPromise == Promise!Spec

\* README "удаляются только таймеры RUNNING, где endsAt <= now": a timer that
\* nobody deletes goes only after its end.  True of calls made one at a time.
SerialOnlyExpiredExpire ==
    [][Serial /\ timer # NoTimer /\ timer' = NoTimer =>
        Expired(timer) \/ \E c \in Calls : DeleteTimer(c)]_vars
=============================================================================
