--------------------------- MODULE BoardTimer_proofs ---------------------------
(***************************************************************************)
(* Proofs about BoardTimer for any durations, resolution of the clock,     *)
(* number of calls and length of a run: no timer without time, none that   *)
(* lasts too long, a cleanup that spares what has not ended, and calls     *)
(* made one at a time implementing BoardTimerPromise.                      *)
(*                                                                         *)
(* Rounding is settled first (CeilBounds).  What every row, stored or held *)
(* by a call, has to satisfy is Sound; what the call under way knows of    *)
(* the stored row, when there is only one, is Knows.                       *)
(***************************************************************************)
EXTENDS BoardTimer, TLAPS

-----------------------------------------------------------------------------
(* Seconds and ticks.                                                      *)

\* Rounding up loses no tick, and no second is begun for nothing.
LEMMA CeilBounds ==
    ASSUME NEW ticks \in Nat, NEW d \in Nat
    PROVE  /\ CeilSeconds(ticks) \in Nat
           /\ ticks <= CeilSeconds(ticks) * TicksPerSecond
           /\ ticks <= d * TicksPerSecond => CeilSeconds(ticks) <= d
           /\ ticks > 0 => CeilSeconds(ticks) > 0
<1> DEFINE T == TicksPerSecond
           q == (ticks + T - 1) \div T
<1>1. T \in Nat /\ T > 0
    BY TimerAssumption
<1>2. q \in Int /\ q * T <= ticks + T - 1 /\ ticks + T - 1 < q * T + T
    BY <1>1, SMTT(30)
<1>3. CeilSeconds(ticks) = q
    BY DEF CeilSeconds
<1> HIDE DEF q, T
<1>4. q >= 0
    <2>1. ASSUME q < 0 PROVE FALSE
        <3>1. (q + 1) * T <= 0
            BY <1>1, <1>2, <2>1, SMTT(30)
        <3> QED
            BY <1>1, <1>2, <3>1, SMTT(30)
    <2> QED
        BY <1>2, <2>1
<1>5. ticks <= d * T => q <= d
    <2>1. ASSUME ticks <= d * T, q > d PROVE FALSE
        <3>1. (d + 1) * T <= q * T
            BY <1>1, <1>2, <2>1, SMTT(30)
        <3> QED
            BY <1>1, <1>2, <2>1, <3>1, SMTT(30)
    <2> QED
        BY <1>2, <2>1
<1> QED
    BY <1>1, <1>2, <1>3, <1>4, <1>5 DEF T

-----------------------------------------------------------------------------
(* The inductive invariant.                                                *)

Steps == {"IDLE", "START", "PAUSE", "EXPIRE", "PAUSE_WRITE", "RESUME", "RESUME_WRITE"}

\* Of a row that is stored or that a call holds.
Sound(row) ==
    /\ row.status = "RUNNING" => \E d \in Durations : row.endsAt <= now + d * TicksPerSecond
    /\ row.status = "PAUSED" => row.remaining > 0 /\ \E d \in Durations : row.remaining <= d

\* What kind of row a call holds.
Holds(request) ==
    /\ request.step \in {"START", "PAUSE", "RESUME_WRITE"} => request.row.status = "RUNNING"
    /\ request.step \in {"PAUSE_WRITE", "RESUME"} => request.row.status = "PAUSED"

Inv ==
    /\ TypeOK
    /\ Sound(timer)
    /\ \A c \in Calls : Sound(call[c].row) /\ Holds(call[c])

\* Facts about rows and requests as records.
LEMMA RowFacts ==
    /\ NoTimer \in Rows /\ NoTimer.status = "NONE"
    /\ \A row \in Rows :
        /\ row.status \in {"NONE", "RUNNING", "PAUSED"}
        /\ row.status = "NONE" => row = NoTimer
        /\ row.status # "NONE" => row.duration \in Durations /\ row.remaining \in Nat
        /\ row.status = "RUNNING" => row.endsAt \in Nat
BY DEF Rows, NoTimer

LEMMA CallFacts ==
    ASSUME TypeOK, NEW c \in Calls
    PROVE  /\ call[c].step \in Steps /\ call[c].row \in Rows
           /\ Idle.step = "IDLE" /\ Idle.row = NoTimer
BY DEF TypeOK, Idle, Steps

LEMMA RunningFacts ==
    ASSUME NEW seconds \in Nat, NEW duration \in Durations, NEW at \in Nat
    PROVE  /\ Running(seconds, duration, at) \in Rows
           /\ Running(seconds, duration, at).status = "RUNNING"
           /\ Running(seconds, duration, at).remaining = seconds
           /\ Running(seconds, duration, at).endsAt = at + seconds * TicksPerSecond
<1>1. at + seconds * TicksPerSecond \in Nat
    BY TimerAssumption
<1> QED
    BY <1>1 DEF Running, Rows

LEMMA PausedFacts ==
    ASSUME NEW row \in Rows, row.status # "NONE", NEW left \in Nat
    PROVE  /\ PausedWith(row, left) \in Rows
           /\ PausedWith(row, left).status = "PAUSED"
           /\ PausedWith(row, left).remaining = left
           /\ PausedWith(row, left).duration = row.duration
<1>1. PICK state \in {"RUNNING", "PAUSED"}, end \in Int :
        row \in [status : {state}, duration : Durations, remaining : Nat, endsAt : {end}]
    <2>1. CASE row \in [status : {"RUNNING"}, duration : Durations, remaining : Nat, endsAt : Nat]
        <3>1. row.endsAt \in Int
            BY <2>1
        <3>2. row \in [status : {"RUNNING"}, duration : Durations, remaining : Nat,
                       endsAt : {row.endsAt}]
            BY <2>1
        <3> QED
            BY <3>1, <3>2
    <2>2. CASE row \in [status : {"PAUSED"}, duration : Durations, remaining : Nat, endsAt : {Never}]
        BY <2>2 DEF Never
    <2> QED
        BY <2>1, <2>2, RowFacts DEF Rows
<1>2. PausedWith(row, left) \in
        [status : {"PAUSED"}, duration : Durations, remaining : Nat, endsAt : {Never}]
    BY <1>1 DEF PausedWith
<1>3. /\ PausedWith(row, left).status = "PAUSED"
      /\ PausedWith(row, left).remaining = left
      /\ PausedWith(row, left).duration = row.duration
    BY <1>1 DEF PausedWith
<1> QED
    BY <1>2, <1>3 DEF Rows

\* A step of a call that only looks.
LEMMA EnterKeeps ==
    ASSUME Inv, NEW c \in Calls, NEW step \in Steps, NEW row \in Rows, Enter(c, step, row),
           UNCHANGED <<lanes, now, timer, cleanups, failures>>,
           Sound(row), Holds([step |-> step, row |-> row])
    PROVE  Inv'
<1>1. call' = [call EXCEPT ![c] = [step |-> step, row |-> row]]
    BY DEF Enter
<1>2. call'[c] = [step |-> step, row |-> row] /\ \A d \in Calls \ {c} : call'[d] = call[d]
    BY <1>1 DEF Inv, TypeOK
<1>3. TypeOK'
    BY <1>1 DEF Inv, TypeOK, Steps
<1>4. \A r : Sound(r)' <=> Sound(r)
    BY DEF Sound
<1>5. Sound(timer)'
    BY DEF Inv, Sound
<1>6. \A d \in Calls : Sound(call'[d].row) /\ Holds(call'[d])
    BY <1>2 DEF Inv
<1>7. \A d \in Calls : (Sound(call[d].row) /\ Holds(call[d]))'
    BY <1>6 DEF Sound, Holds
<1> QED
    BY <1>3, <1>5, <1>7 DEF Inv

\* A step that stores a row, or deletes it, and perhaps ends a call.
LEMMA WriteKeeps ==
    ASSUME Inv, timer' \in Rows, Sound(timer'), UNCHANGED <<lanes, now>>,
           cleanups' \subseteq cleanups, failures' \in Nat,
           \/ UNCHANGED call
           \/ \E c \in Calls : Finish(c)
    PROVE  Inv'
<1>1. \A c \in Calls : call'[c] = call[c] \/ call'[c] = Idle
    BY DEF Finish, Inv, TypeOK
<1>2. Idle \in [step : Steps, row : Rows] /\ Sound(Idle.row) /\ Holds(Idle)
    BY RowFacts DEF Idle, Steps, Sound, Holds
<1>3. call' \in [Calls -> [step : Steps, row : Rows]]
    BY <1>2 DEF Finish, Inv, TypeOK, Steps
<1>4. TypeOK'
    BY <1>3 DEF Inv, TypeOK, Steps
<1>5. Sound(timer)'
    BY DEF Sound
<1>6. \A c \in Calls : Sound(call'[c].row) /\ Holds(call'[c])
    BY <1>1, <1>2 DEF Inv
<1>7. \A c \in Calls : (Sound(call[c].row) /\ Holds(call[c]))'
    BY <1>6 DEF Sound, Holds
<1> QED
    BY <1>4, <1>5, <1>7 DEF Inv

-----------------------------------------------------------------------------
(* The steps.                                                              *)

LEMMA TickKeeps ==
    ASSUME Inv, Tick
    PROVE  Inv'
<1>1. now \in Nat /\ now' = now + 1
    BY DEF Inv, TypeOK, Tick
<1>2. TypeOK'
    BY <1>1 DEF Inv, TypeOK, Tick
<1>3. ASSUME NEW row \in Rows, Sound(row)
      PROVE  Sound(row)'
    <2>1. CASE row.status = "RUNNING"
        <3>1. PICK d \in Durations : row.endsAt <= now + d * TicksPerSecond
            BY <1>3, <2>1 DEF Sound
        <3>2. d * TicksPerSecond \in Nat /\ row.endsAt \in Nat
            BY <2>1, RowFacts, TimerAssumption
        <3>3. row.endsAt <= now' + d * TicksPerSecond
            BY <1>1, <3>1, <3>2
        <3> QED
            BY <2>1, <3>3 DEF Sound
    <2>2. CASE row.status # "RUNNING"
        BY <1>3, <2>2 DEF Sound
    <2> QED
        BY <2>1, <2>2
<1>4. timer' = timer /\ call' = call
    BY DEF Tick
<1>5. Sound(timer)'
    BY <1>3, <1>4 DEF Inv, TypeOK, Sound
<1>6. \A c \in Calls : Sound(call[c].row)'
    BY <1>3, <1>4, CallFacts DEF Inv, Sound
<1>7. \A c \in Calls : Holds(call[c])'
    BY <1>4 DEF Inv, Holds
<1> QED
    BY <1>2, <1>5, <1>6, <1>7 DEF Inv

LEMMA StartDecideKeeps ==
    ASSUME Inv, NEW c \in Calls, NEW seconds \in Durations, StartDecide(c, seconds)
    PROVE  Inv'
<1> DEFINE row == Running(seconds, seconds, now)
<1>1. now \in Nat /\ seconds \in Nat /\ seconds * TicksPerSecond \in Nat
    BY TimerAssumption DEF Inv, TypeOK
<1>2. row \in Rows /\ row.status = "RUNNING" /\ row.endsAt = now + seconds * TicksPerSecond
    BY <1>1, RunningFacts
<1>3. Enter(c, "START", row) /\ UNCHANGED <<lanes, now, timer, cleanups, failures>>
    BY DEF StartDecide
<1> HIDE DEF row
<1>4. Sound(row)
    BY <1>1, <1>2 DEF Sound
<1>5. Holds([step |-> "START", row |-> row])
    BY <1>2 DEF Holds
<1> QED
    BY <1>2, <1>3, <1>4, <1>5, EnterKeeps DEF Steps

LEMMA PauseDecideKeeps ==
    ASSUME Inv, NEW c \in Calls, PauseDecide(c)
    PROVE  Inv'
<1> DEFINE row  == call[c].row
           left == SecondsLeft(row)
<1>1. row \in Rows /\ row.status = "RUNNING" /\ row.endsAt \in Nat /\ now \in Nat
    BY CallFacts, RowFacts DEF Inv, TypeOK, Holds, PauseDecide
<1>2. Sound(row)
    BY DEF Inv
<1>3. IF left <= 0 THEN Enter(c, "EXPIRE", row)
      ELSE Enter(c, "PAUSE_WRITE", PausedWith(row, left))
    BY DEF PauseDecide
<1>4. UNCHANGED <<lanes, now, timer, cleanups, failures>>
    BY DEF PauseDecide
<1> HIDE DEF row
<1>5. CASE left <= 0
    <2>1. Holds([step |-> "EXPIRE", row |-> row])
        BY DEF Holds
    <2> QED
        BY <1>1, <1>2, <1>3, <1>4, <1>5, <2>1, EnterKeeps DEF Steps
<1>6. CASE ~(left <= 0)
    <2>1. row.endsAt - now \in Nat /\ left = CeilSeconds(row.endsAt - now)
        BY <1>1, <1>6 DEF SecondsLeft
    <2>2. PICK d \in Durations : row.endsAt <= now + d * TicksPerSecond
        BY <1>1, <1>2 DEF Sound
    <2>3. d \in Nat /\ d * TicksPerSecond \in Nat
        BY TimerAssumption
    <2>4. row.endsAt - now <= d * TicksPerSecond
        BY <1>1, <2>2, <2>3
    <2> HIDE DEF left
    <2>5. left \in Nat /\ left > 0 /\ left <= d
        BY <1>6, <2>1, <2>3, <2>4, CeilBounds
    <2>6. /\ PausedWith(row, left) \in Rows
          /\ PausedWith(row, left).status = "PAUSED"
          /\ PausedWith(row, left).remaining = left
        BY <1>1, <2>5, PausedFacts
    <2>7. Sound(PausedWith(row, left)) /\ Holds([step |-> "PAUSE_WRITE", row |-> PausedWith(row, left)])
        BY <2>5, <2>6 DEF Sound, Holds
    <2> QED
        BY <1>3, <1>4, <1>6, <2>6, <2>7, EnterKeeps DEF Steps
<1> QED
    BY <1>5, <1>6

LEMMA ResumeDecideKeeps ==
    ASSUME Inv, NEW c \in Calls, ResumeDecide(c)
    PROVE  Inv'
<1> DEFINE row == call[c].row
           new == Running(row.remaining, row.duration, now)
<1>1. /\ row \in Rows /\ row.status = "PAUSED" /\ row.remaining \in Nat
      /\ row.duration \in Durations /\ now \in Nat
    BY CallFacts, RowFacts DEF Inv, TypeOK, Holds, ResumeDecide
<1>2. Sound(row)
    BY DEF Inv
<1>3. IF row.remaining <= 0 THEN Enter(c, "EXPIRE", row) ELSE Enter(c, "RESUME_WRITE", new)
    BY DEF ResumeDecide
<1>4. UNCHANGED <<lanes, now, timer, cleanups, failures>>
    BY DEF ResumeDecide
<1> HIDE DEF row
<1>5. row.remaining > 0
    BY <1>1, <1>2 DEF Sound
<1>6. new \in Rows /\ new.status = "RUNNING" /\ new.endsAt = now + row.remaining * TicksPerSecond
    BY <1>1, RunningFacts
<1>7. Enter(c, "RESUME_WRITE", new)
    BY <1>1, <1>3, <1>5
<1> HIDE DEF new
<1>8. PICK d \in Durations : row.remaining <= d
    BY <1>1, <1>2 DEF Sound
<1>9. row.remaining * TicksPerSecond <= d * TicksPerSecond
    BY <1>1, <1>8, TimerAssumption, SMTT(30)
<1>10. new.endsAt <= now + d * TicksPerSecond
    <2>1. row.remaining * TicksPerSecond \in Nat /\ d * TicksPerSecond \in Nat
        BY <1>1, TimerAssumption
    <2> QED
        BY <1>1, <1>6, <1>9, <2>1
<1>11. Sound(new) /\ Holds([step |-> "RESUME_WRITE", row |-> new])
    BY <1>6, <1>10 DEF Sound, Holds
<1> QED
    BY <1>4, <1>6, <1>7, <1>11, EnterKeeps DEF Steps

LEMMA ReadKeeps ==
    ASSUME Inv, NEW c \in Calls, PauseRead(c) \/ ResumeRead(c)
    PROVE  Inv'
<1>1. timer \in Rows /\ Sound(timer) /\ UNCHANGED <<lanes, now, timer, cleanups, failures>>
    BY DEF Inv, TypeOK, PauseRead, ResumeRead
<1>2. CASE PauseRead(c)
    <2>1. Enter(c, "PAUSE", timer) /\ Holds([step |-> "PAUSE", row |-> timer])
        BY <1>2 DEF PauseRead, Holds
    <2> QED
        BY <1>1, <2>1, EnterKeeps DEF Steps
<1>3. CASE ResumeRead(c)
    <2>1. Enter(c, "RESUME", timer) /\ Holds([step |-> "RESUME", row |-> timer])
        BY <1>3 DEF ResumeRead, Holds
    <2> QED
        BY <1>1, <2>1, EnterKeeps DEF Steps
<1> QED
    BY <1>2, <1>3

\* What a pause or a resume makes of the row that is there.
LEMMA PauseWriteStores ==
    ASSUME Inv, NEW c \in Calls, PauseWrite(c)
    PROVE  timer' \in Rows /\ Sound(timer')
<1>1. call[c].row \in Rows /\ call[c].row.status = "PAUSED" /\ Sound(call[c].row)
    BY CallFacts DEF Inv, Holds, PauseWrite
<1>2. call[c].row.remaining \in Nat
    BY <1>1, RowFacts
<1>3. CASE timer = NoTimer
    BY <1>3, RowFacts DEF PauseWrite, Sound
<1>4. CASE timer # NoTimer
    <2>1. timer \in Rows /\ timer.status # "NONE"
        BY <1>4, RowFacts DEF Inv, TypeOK
    <2>2. timer' = PausedWith(timer, call[c].row.remaining)
        BY <1>4 DEF PauseWrite
    <2>3. timer' \in Rows /\ timer'.status = "PAUSED" /\ timer'.remaining = call[c].row.remaining
        BY <1>2, <2>1, <2>2, PausedFacts
    <2> QED
        BY <1>1, <2>3 DEF Sound
<1> QED
    BY <1>3, <1>4

LEMMA ResumeWriteStores ==
    ASSUME Inv, NEW c \in Calls, ResumeWrite(c)
    PROVE  timer' \in Rows /\ Sound(timer')
<1>1. call[c].row \in Rows /\ call[c].row.status = "RUNNING" /\ Sound(call[c].row)
    BY CallFacts DEF Inv, Holds, ResumeWrite
<1>2. call[c].row.endsAt \in Nat
    BY <1>1, RowFacts
<1>3. CASE timer = NoTimer
    BY <1>3, RowFacts DEF ResumeWrite, Sound
<1>4. CASE timer # NoTimer
    <2>1. timer \in Rows
        BY DEF Inv, TypeOK
    <2>2. timer' = [timer EXCEPT !.status = "RUNNING", !.endsAt = call[c].row.endsAt]
        BY <1>4 DEF ResumeWrite
    <2>3. timer' \in Rows
        BY <1>2, <1>4, <2>1, <2>2 DEF Rows
    <2>4. timer'.status = "RUNNING" /\ timer'.endsAt = call[c].row.endsAt
        BY <1>4, <2>1, <2>2 DEF Rows
    <2> QED
        BY <1>1, <2>3, <2>4 DEF Sound
<1> QED
    BY <1>3, <1>4

LEMMA InitEstablishes ==
    ASSUME Init
    PROVE  Inv
<1>1. OneCall \in Calls
    BY TimerAssumption DEF OneCall
<1>2. Idle \in [step : Steps, row : Rows] /\ Sound(Idle.row) /\ Holds(Idle) /\ Sound(NoTimer)
    BY RowFacts DEF Idle, Steps, Sound, Holds
<1>3. TypeOK
    BY <1>1, <1>2, RowFacts DEF Init, TypeOK, Steps
<1> QED
    BY <1>2, <1>3 DEF Init, Inv

LEMMA StepKeeps ==
    ASSUME Inv, [Next]_vars
    PROVE  Inv'
<1>1. CASE UNCHANGED vars
    BY <1>1, WriteKeeps DEF vars, Inv, TypeOK
<1>2. CASE Tick
    BY <1>2, TickKeeps
<1>3. ASSUME NEW c \in lanes, Step(c)
      PROVE  Inv'
    <2>1. c \in Calls
        BY DEF Inv, TypeOK
    <2>2. CASE \E seconds \in Durations : StartDecide(c, seconds)
        BY <2>1, <2>2, StartDecideKeeps
    <2>3. CASE PauseDecide(c)
        BY <2>1, <2>3, PauseDecideKeeps
    <2>4. CASE ResumeDecide(c)
        BY <2>1, <2>4, ResumeDecideKeeps
    <2>5. CASE PauseRead(c) \/ ResumeRead(c)
        BY <2>1, <2>5, ReadKeeps
    <2>6. CASE StartWrite(c)
        BY <2>1, <2>6, CallFacts, WriteKeeps DEF StartWrite, Inv, TypeOK
    <2>7. CASE PauseWrite(c)
        BY <2>1, <2>7, PauseWriteStores, WriteKeeps DEF PauseWrite, Inv, TypeOK
    <2>8. CASE ResumeWrite(c)
        BY <2>1, <2>8, ResumeWriteStores, WriteKeeps DEF ResumeWrite, Inv, TypeOK
    <2>9. CASE ExpireDelete(c) \/ DeleteTimer(c)
        <3>1. timer' \in Rows /\ Sound(timer')
            BY <2>9, RowFacts DEF ExpireDelete, DeleteTimer, Sound
        <3> QED
            BY <2>1, <2>9, <3>1, WriteKeeps DEF ExpireDelete, DeleteTimer, Inv, TypeOK
    <2> QED
        BY <1>3, <2>2, <2>3, <2>4, <2>5, <2>6, <2>7, <2>8, <2>9 DEF Step
<1>4. CASE CleanupFire
    <2>1. TypeOK'
        BY <1>4 DEF CleanupFire, Inv, TypeOK
    <2>2. Sound(timer)' /\ \A c \in Calls : (Sound(call[c].row) /\ Holds(call[c]))'
        BY <1>4 DEF CleanupFire, Inv, Sound, Holds
    <2> QED
        BY <2>1, <2>2 DEF Inv
<1>5. ASSUME NEW cutoff \in cleanups, CleanupDelete(cutoff) \/ CleanupFail(cutoff)
      PROVE  Inv'
    <2>1. timer' \in Rows /\ Sound(timer')
        BY <1>5, RowFacts DEF CleanupDelete, CleanupFail, Inv, TypeOK, Sound
    <2> QED
        BY <1>5, <2>1, WriteKeeps DEF CleanupDelete, CleanupFail, Inv, TypeOK
<1> QED
    BY <1>1, <1>2, <1>3, <1>4, <1>5 DEF Next

THEOREM Invariance == Spec => []Inv
BY InitEstablishes, StepKeeps, PTL DEF Spec

\* No timer is paused with nothing left, and no resume reads one that is,
\* however many calls race.
THEOREM ResumesFindTime == Spec => []ResumeFindsTime
<1>1. Inv => ResumeFindsTime
    BY DEF Inv, ResumeFindsTime, Sound, Holds
<1> QED
    BY <1>1, Invariance, PTL

\* However pauses, resumes and restarts race, no timer runs on for longer than
\* the longest countdown.
THEOREM EndsInTime == Spec => []EndsWithinLongest
<1>1. Inv => EndsWithinLongest
    BY DEF Inv, EndsWithinLongest, Sound
<1> QED
    BY <1>1, Invariance, PTL

\* The cleanup deletes nothing but a running timer that has ended.
THEOREM CleanupSpares == Spec => CleanupSparesOthers
<1>1. ASSUME Inv, NEW cutoff \in cleanups, CleanupDelete(cutoff), timer' # timer
      PROVE  Expired(timer)
    <2>1. timer.status = "RUNNING" /\ timer.endsAt <= cutoff
        BY <1>1 DEF CleanupDelete
    <2>2. timer.endsAt \in Nat /\ cutoff \in Nat /\ cutoff <= now /\ now \in Nat
        BY <1>1, <2>1, RowFacts DEF Inv, TypeOK
    <2> QED
        BY <2>1, <2>2 DEF Expired
<1>2. Inv /\ [Next]_vars =>
        [\A cutoff \in cleanups : CleanupDelete(cutoff) /\ timer' # timer => Expired(timer)]_vars
    BY <1>1
<1> QED
    BY <1>2, Invariance, PTL DEF Spec, CleanupSparesOthers

-----------------------------------------------------------------------------
(* Calls made one at a time.  Only a cleanup can come between the steps of  *)
(* a call then, and all it does is delete: a call that still finds a timer  *)
(* finds the one it has read.                                               *)

\* A running timer has no more than its remainder to go.
Timely == timer.status = "RUNNING" => timer.endsAt <= now + timer.remaining * TicksPerSecond

\* What a call that finds the timer still there knows of it.
Recalls(request) ==
    /\ request.step \in {"PAUSE", "RESUME"} => request.row = timer
    /\ request.step = "EXPIRE" => Expired(timer)
    /\ request.step = "PAUSE_WRITE" =>
        /\ timer.status = "RUNNING"
        /\ request.row.remaining \in 1..timer.remaining
        /\ timer.endsAt - now <= request.row.remaining * TicksPerSecond
    /\ request.step = "RESUME_WRITE" =>
        /\ timer.status = "PAUSED"
        /\ \E at \in 0..now : request.row.endsAt = at + timer.remaining * TicksPerSecond

Knows(request) ==
    /\ request.step = "START" =>
        \E seconds \in Durations, at \in 0..now : request.row = Running(seconds, seconds, at)
    /\ timer # NoTimer => Recalls(request)

SerialInv ==
    Serial =>
        /\ Timely
        /\ \A c \in Calls : Knows(call[c]) /\ (c \notin lanes => call[c] = Idle)

\* A step that disturbs nothing but what one call knows.
LEMMA LaneKeeps ==
    ASSUME Inv, SerialInv, NEW c \in lanes, lanes' = lanes, Serial => Timely',
           \A d \in Calls \ {c} : call'[d] = call[d], Serial => Knows(call[c])'
    PROVE  SerialInv'
<1>1. SUFFICES ASSUME Serial
               PROVE  Timely' /\ \A d \in Calls : Knows(call[d])' /\ (d \notin lanes => call'[d] = Idle)
    BY DEF SerialInv, Serial
<1>2. lanes = {c}
    BY <1>1 DEF Serial
<1>3. \A d \in Calls \ {c} : call'[d] = Idle
    BY <1>1, <1>2 DEF SerialInv
<1>4. \A d \in Calls \ {c} : Knows(call[d])'
    BY <1>3 DEF Knows, Recalls, Idle
<1> QED
    BY <1>1, <1>2, <1>3, <1>4

\* A step that ends a call and leaves the timer as it can be.
LEMMA FinishKeeps ==
    ASSUME Inv, SerialInv, NEW c \in lanes, lanes' = lanes, Serial => Timely',
           Finish(c) \/ (call[c] = Idle /\ UNCHANGED call)
    PROVE  SerialInv'
<1>1. c \in Calls
    BY DEF Inv, TypeOK
<1>2. call'[c] = Idle /\ \A d \in Calls \ {c} : call'[d] = call[d]
    BY <1>1 DEF Finish, Inv, TypeOK
<1>3. Knows(call[c])'
    BY <1>2 DEF Knows, Recalls, Idle
<1> QED
    BY <1>2, <1>3, LaneKeeps

\* A step of a call that only looks.
LEMMA LookKeeps ==
    ASSUME Inv, SerialInv, NEW c \in lanes, NEW step, NEW row, Enter(c, step, row),
           UNCHANGED <<lanes, now, timer, cleanups, failures>>,
           Serial => Knows([step |-> step, row |-> row])
    PROVE  SerialInv'
<1>1. c \in Calls
    BY DEF Inv, TypeOK
<1>2. /\ call'[c] = [step |-> step, row |-> row]
      /\ \A d \in Calls \ {c} : call'[d] = call[d]
    BY <1>1 DEF Enter, Inv, TypeOK
<1>3. Serial => Knows(call[c])'
    BY <1>2 DEF Knows, Recalls, Expired
<1>4. Serial => Timely'
    BY DEF SerialInv, Timely
<1> QED
    BY <1>2, <1>3, <1>4, LaneKeeps

\* Time passing, or a cleanup: what is known of the timer stays true of it as
\* long as it is there.
LEMMA KnowsOn ==
    ASSUME Inv, NEW c \in Calls, Knows(call[c]), UNCHANGED call,
           now' \in Nat, now <= now', timer' \in {timer, NoTimer}
    PROVE  Knows(call[c])'
<1>1. now \in Nat
    BY DEF Inv, TypeOK
<1>2. 0..now \subseteq 0..now'
    BY <1>1
<1>3. ASSUME call[c].step = "START"
      PROVE  \E seconds \in Durations, at \in 0..now' : call[c].row = Running(seconds, seconds, at)
    BY <1>2, <1>3 DEF Knows
<1>4. ASSUME timer' # NoTimer
      PROVE  Recalls(call[c])'
    <2>1. timer' = timer /\ Recalls(call[c])
        BY <1>4 DEF Knows
    <2>2. timer \in Rows
        BY DEF Inv, TypeOK
    <2>3. Expired(timer) => Expired(timer)'
        BY <1>1, <2>1, <2>2, RowFacts DEF Expired
    <2>4. ASSUME call[c].step = "PAUSE_WRITE"
          PROVE  timer.endsAt - now' <= call[c].row.remaining * TicksPerSecond
        <3>1. timer.endsAt \in Nat /\ timer.remaining \in Nat
            BY <2>1, <2>2, <2>4, RowFacts DEF Recalls
        <3>2. call[c].row.remaining \in Nat
            BY <2>1, <2>4, <3>1 DEF Recalls
        <3>3. call[c].row.remaining * TicksPerSecond \in Nat
            BY <3>2, TimerAssumption
        <3> QED
            BY <1>1, <2>1, <2>4, <3>1, <3>3 DEF Recalls
    <2>5. ASSUME call[c].step = "RESUME_WRITE"
          PROVE  \E at \in 0..now' : call[c].row.endsAt = at + timer.remaining * TicksPerSecond
        BY <1>2, <2>1, <2>5 DEF Recalls
    <2> QED
        BY <2>1, <2>3, <2>4, <2>5 DEF Recalls
<1> QED
    BY <1>3, <1>4 DEF Knows, Running

LEMMA TimelyOn ==
    ASSUME Inv, Timely, now' \in Nat, now <= now', timer' \in {timer, NoTimer}
    PROVE  Timely'
<1>1. CASE timer' = timer /\ timer.status = "RUNNING"
    <2>1. timer.endsAt \in Nat /\ timer.remaining \in Nat /\ now \in Nat
        BY <1>1, RowFacts DEF Inv, TypeOK
    <2>2. timer.remaining * TicksPerSecond \in Nat
        BY <2>1, TimerAssumption
    <2> QED
        BY <1>1, <2>1, <2>2 DEF Timely
<1>2. CASE ~(timer' = timer /\ timer.status = "RUNNING")
    BY <1>2, RowFacts DEF Timely
<1> QED
    BY <1>1, <1>2

\* A running timer with ticks to go has at least one second to go, and no more
\* than its remainder.
LEMMA LeftFacts ==
    ASSUME Inv, Timely, timer.status = "RUNNING"
    PROVE  LET left == SecondsLeft(timer) IN
           /\ left <= 0 => Expired(timer)
           /\ ~(left <= 0) => /\ left \in 1..timer.remaining
                              /\ timer.endsAt - now <= left * TicksPerSecond
<1> DEFINE left == SecondsLeft(timer)
<1>1. timer.endsAt \in Nat /\ timer.remaining \in Nat /\ now \in Nat
    BY RowFacts DEF Inv, TypeOK
<1>2. timer.remaining * TicksPerSecond \in Nat
    BY <1>1, TimerAssumption
<1>3. CASE timer.endsAt <= now
    BY <1>3 DEF Expired, SecondsLeft
<1>4. CASE ~(timer.endsAt <= now)
    <2>1. left = CeilSeconds(timer.endsAt - now) /\ timer.endsAt - now \in Nat /\ timer.endsAt - now > 0
        BY <1>1, <1>4 DEF SecondsLeft
    <2>2. timer.endsAt - now <= timer.remaining * TicksPerSecond
        BY <1>1, <1>2 DEF Timely
    <2> HIDE DEF left
    <2>3. left \in Nat /\ left > 0 /\ timer.endsAt - now <= left * TicksPerSecond /\ left <= timer.remaining
        BY <1>1, <2>1, <2>2, CeilBounds
    <2> QED
        BY <1>1, <2>3 DEF left
<1> QED
    BY <1>3, <1>4

LEMMA SerialStart ==
    ASSUME Inv, SerialInv, NEW c \in lanes,
           (\E seconds \in Durations : StartDecide(c, seconds)) \/ StartWrite(c)
    PROVE  SerialInv'
<1>0. c \in Calls /\ now \in Nat
    BY DEF Inv, TypeOK
<1>1. ASSUME NEW seconds \in Durations, StartDecide(c, seconds)
      PROVE  SerialInv'
    <2>1. now \in 0..now
        BY <1>0
    <2>2. Knows([step |-> "START", row |-> Running(seconds, seconds, now)])
        BY <2>1 DEF Knows, Recalls
    <2> QED
        BY <1>1, <2>2, LookKeeps DEF StartDecide
<1>2. CASE StartWrite(c)
    <2>1. Serial => Timely'
        <3>1. SUFFICES ASSUME Serial PROVE Timely'
            OBVIOUS
        <3>2. PICK seconds \in Durations, at \in 0..now : call[c].row = Running(seconds, seconds, at)
            BY <1>0, <1>2, <3>1 DEF SerialInv, Knows, StartWrite
        <3>3. seconds \in Nat /\ at \in Nat /\ seconds * TicksPerSecond \in Nat /\ at <= now
            BY <1>0, <3>2, TimerAssumption
        <3>4. timer'.remaining = seconds /\ timer'.endsAt = at + seconds * TicksPerSecond
            BY <1>2, <3>2, <3>3, RunningFacts DEF StartWrite
        <3> QED
            BY <1>0, <1>2, <3>3, <3>4 DEF Timely, StartWrite
    <2> QED
        BY <1>2, <2>1, FinishKeeps DEF StartWrite
<1> QED
    BY <1>1, <1>2

LEMMA SerialPause ==
    ASSUME Inv, SerialInv, NEW c \in lanes, PauseRead(c) \/ PauseDecide(c) \/ PauseWrite(c)
    PROVE  SerialInv'
<1>0. c \in Calls /\ now \in Nat
    BY DEF Inv, TypeOK
<1>1. CASE PauseRead(c)
    <2>1. Knows([step |-> "PAUSE", row |-> timer])
        BY DEF Knows, Recalls
    <2> QED
        BY <1>1, <2>1, LookKeeps DEF PauseRead
<1>2. CASE PauseDecide(c)
    <2> DEFINE row  == call[c].row
               left == SecondsLeft(row)
    <2>1. ASSUME Serial, timer # NoTimer
          PROVE  /\ row = timer /\ timer.status = "RUNNING"
                 /\ left <= 0 => Expired(timer)
                 /\ ~(left <= 0) => /\ left \in 1..timer.remaining
                                    /\ timer.endsAt - now <= left * TicksPerSecond
        <3>1. row = timer /\ Timely
            BY <1>0, <1>2, <2>1 DEF SerialInv, Knows, Recalls, PauseDecide
        <3>2. timer.status = "RUNNING"
            BY <1>0, <1>2, <3>1 DEF Inv, Holds, PauseDecide
        <3> QED
            BY <3>1, <3>2, LeftFacts
    <2>2. UNCHANGED <<lanes, now, timer, cleanups, failures>>
        BY <1>2 DEF PauseDecide
    <2>3. IF left <= 0 THEN Enter(c, "EXPIRE", row)
          ELSE Enter(c, "PAUSE_WRITE", PausedWith(row, left))
        BY <1>2 DEF PauseDecide
    <2>4. CASE left <= 0
        <3>1. Serial => Knows([step |-> "EXPIRE", row |-> row])
            BY <2>1, <2>4 DEF Knows, Recalls
        <3> QED
            BY <2>2, <2>3, <2>4, <3>1, LookKeeps
    <2>5. CASE ~(left <= 0)
        <3>1. ASSUME Serial, timer # NoTimer
              PROVE  PausedWith(row, left).remaining = left
            <4>1. timer \in Rows /\ timer.status # "NONE" /\ left \in Nat
                BY <2>1, <2>5, <3>1 DEF Inv, TypeOK
            <4> QED
                BY <2>1, <3>1, <4>1, PausedFacts
        <3> HIDE DEF left, row
        <3>2. Serial => Knows([step |-> "PAUSE_WRITE", row |-> PausedWith(row, left)])
            BY <2>1, <2>5, <3>1 DEF Knows, Recalls
        <3> QED
            BY <2>2, <2>3, <2>5, <3>2, LookKeeps
    <2> QED
        BY <2>4, <2>5
<1>3. CASE PauseWrite(c)
    <2>1. timer' = NoTimer \/ (timer # NoTimer /\ timer' = PausedWith(timer, call[c].row.remaining))
        BY <1>3 DEF PauseWrite
    <2>2. timer \in Rows /\ (timer # NoTimer => timer.status # "NONE")
        BY RowFacts DEF Inv, TypeOK
    <2>3. call[c].row.remaining \in Nat
        BY <1>0, <1>3, CallFacts, RowFacts DEF Inv, Holds, PauseWrite
    <2>4. timer'.status # "RUNNING"
        BY <2>1, <2>2, <2>3, PausedFacts, RowFacts
    <2> QED
        BY <1>3, <2>4, FinishKeeps DEF PauseWrite, Timely
<1> QED
    BY <1>1, <1>2, <1>3

\* What a resume stores.
LEMMA ResumedFacts ==
    ASSUME Inv, SerialInv, Serial, NEW c \in lanes, ResumeWrite(c), timer # NoTimer
    PROVE  /\ timer.status = "PAUSED" /\ timer.remaining \in Nat
           /\ timer'.remaining = timer.remaining
           /\ \E at \in 0..now :
                /\ timer' = [timer EXCEPT !.status = "RUNNING",
                                          !.endsAt = at + timer.remaining * TicksPerSecond]
                /\ timer'.endsAt = at + timer.remaining * TicksPerSecond
<1>1. c \in Calls
    BY DEF Inv, TypeOK
<1>2. PICK at \in 0..now : call[c].row.endsAt = at + timer.remaining * TicksPerSecond
    BY <1>1 DEF SerialInv, Knows, Recalls, ResumeWrite
<1>3. timer.status = "PAUSED"
    BY <1>1 DEF SerialInv, Knows, Recalls, ResumeWrite
<1>4. timer \in [status : {"PAUSED"}, duration : Durations, remaining : Nat, endsAt : {Never}]
    BY <1>3 DEF Inv, TypeOK, Rows
<1>5. timer' = [timer EXCEPT !.status = "RUNNING", !.endsAt = call[c].row.endsAt]
    BY DEF ResumeWrite
<1>6. timer'.remaining = timer.remaining /\ timer'.endsAt = call[c].row.endsAt
    BY <1>4, <1>5
<1> QED
    BY <1>2, <1>3, <1>4, <1>5, <1>6

LEMMA SerialResume ==
    ASSUME Inv, SerialInv, NEW c \in lanes, ResumeRead(c) \/ ResumeDecide(c) \/ ResumeWrite(c)
    PROVE  SerialInv'
<1>0. c \in Calls /\ now \in Nat
    BY DEF Inv, TypeOK
<1>1. CASE ResumeRead(c)
    <2>1. Knows([step |-> "RESUME", row |-> timer])
        BY DEF Knows, Recalls
    <2> QED
        BY <1>1, <2>1, LookKeeps DEF ResumeRead
<1>2. CASE ResumeDecide(c)
    <2> DEFINE row == call[c].row
               new == Running(row.remaining, row.duration, now)
    <2>1. /\ row \in Rows /\ row.status = "PAUSED" /\ row.remaining \in Nat
          /\ row.duration \in Durations
        BY <1>0, <1>2, CallFacts, RowFacts DEF Inv, Holds, ResumeDecide
    <2>2. row.remaining > 0
        BY <1>0, <2>1 DEF Inv, Sound
    <2>3. Enter(c, "RESUME_WRITE", new) /\ UNCHANGED <<lanes, now, timer, cleanups, failures>>
        BY <1>2, <2>1, <2>2 DEF ResumeDecide
    <2>4. Serial /\ timer # NoTimer => row = timer
        BY <1>0, <1>2 DEF SerialInv, Knows, Recalls, ResumeDecide
    <2>5. new.endsAt = now + row.remaining * TicksPerSecond /\ now \in 0..now
        BY <1>0, <2>1, RunningFacts
    <2> HIDE DEF row, new
    <2>6. Serial => Knows([step |-> "RESUME_WRITE", row |-> new])
        BY <2>1, <2>4, <2>5 DEF Knows, Recalls
    <2> QED
        BY <2>3, <2>6, LookKeeps
<1>3. CASE ResumeWrite(c)
    <2>1. Serial => Timely'
        <3>1. CASE timer = NoTimer
            BY <1>3, <3>1, RowFacts DEF ResumeWrite, Timely
        <3>2. CASE Serial /\ timer # NoTimer
            <4>1. PICK at \in 0..now : timer'.endsAt = at + timer.remaining * TicksPerSecond
                BY <1>3, <3>2, ResumedFacts
            <4>2. timer'.remaining = timer.remaining /\ timer.remaining \in Nat
                BY <1>3, <3>2, ResumedFacts
            <4>3. timer.remaining * TicksPerSecond \in Nat
                BY <4>2, TimerAssumption
            <4> QED
                BY <1>0, <1>3, <4>1, <4>2, <4>3 DEF ResumeWrite, Timely
        <3> QED
            BY <3>1, <3>2
    <2> QED
        BY <1>3, <2>1, FinishKeeps DEF ResumeWrite
<1> QED
    BY <1>1, <1>2, <1>3

LEMMA SerialDelete ==
    ASSUME Inv, SerialInv, NEW c \in lanes, ExpireDelete(c) \/ DeleteTimer(c)
    PROVE  SerialInv'
<1>1. timer'.status # "RUNNING" /\ lanes' = lanes
    BY RowFacts DEF ExpireDelete, DeleteTimer
<1> QED
    BY <1>1, FinishKeeps DEF ExpireDelete, DeleteTimer, Timely

\* The clock and the cleanup.
LEMMA SerialBackground ==
    ASSUME Inv, SerialInv,
           \/ UNCHANGED vars
           \/ Tick
           \/ CleanupFire
           \/ \E cutoff \in cleanups : CleanupDelete(cutoff) \/ CleanupFail(cutoff)
    PROVE  SerialInv'
<1>1. now \in Nat
    BY DEF Inv, TypeOK
<1>2. UNCHANGED <<lanes, call>> /\ timer' \in {timer, NoTimer} /\ now' \in {now, now + 1}
    BY DEF vars, Tick, CleanupFire, CleanupDelete, CleanupFail
<1>3. now' \in Nat /\ now <= now'
    BY <1>1, <1>2
<1>4. Serial => Timely'
    BY <1>2, <1>3, TimelyOn DEF SerialInv
<1>5. \A c \in Calls : Serial => Knows(call[c])'
    BY <1>2, <1>3, KnowsOn DEF SerialInv
<1> QED
    BY <1>2, <1>4, <1>5 DEF SerialInv, Serial

THEOREM SerialInvariance == Spec => []SerialInv
<1>1. Init => SerialInv
    BY RowFacts DEF Init, SerialInv, Timely, Knows, Recalls, Idle
<1>2. Inv /\ SerialInv /\ [Next]_vars => SerialInv'
    <2>1. ASSUME Inv, SerialInv, NEW c \in lanes, Step(c)
          PROVE  SerialInv'
        BY <2>1, SerialStart, SerialPause, SerialResume, SerialDelete DEF Step
    <2> QED
        BY <2>1, SerialBackground DEF Next
<1> QED
    BY <1>1, <1>2, Invariance, PTL DEF Spec

-----------------------------------------------------------------------------
(* What calls made one at a time promise.                                  *)

\* A timer nobody deletes goes only after its end.
THEOREM OnlyExpired == Spec => SerialOnlyExpiredExpire
<1>1. ASSUME Inv, SerialInv, Next, Serial, timer # NoTimer, timer' = NoTimer
      PROVE  Expired(timer) \/ \E c \in Calls : DeleteTimer(c)
    <2>1. timer \in Rows /\ timer.status # "NONE" /\ lanes \subseteq Calls
        BY <1>1, RowFacts DEF Inv, TypeOK
    <2>2. ASSUME NEW c \in lanes, Step(c)
          PROVE  Expired(timer) \/ DeleteTimer(c)
        <3>0. c \in Calls
            BY <2>1
        <3>1. CASE ExpireDelete(c)
            BY <1>1, <3>0, <3>1 DEF SerialInv, Knows, Recalls, ExpireDelete
        <3>2. ~PauseWrite(c)
            <4>1. ASSUME PauseWrite(c) PROVE FALSE
                <5>1. call[c].row.remaining \in Nat
                    BY <1>1, <3>0, <4>1, CallFacts, RowFacts DEF Inv, Holds, PauseWrite
                <5>2. timer'.status = "PAUSED"
                    BY <1>1, <2>1, <4>1, <5>1, PausedFacts DEF PauseWrite
                <5> QED
                    BY <1>1, <5>2, RowFacts
            <4> QED
                BY <4>1
        <3>3. ~ResumeWrite(c)
            <4>1. ASSUME ResumeWrite(c) PROVE FALSE
                <5>1. timer' = [timer EXCEPT !.status = "RUNNING", !.endsAt = call[c].row.endsAt]
                    BY <1>1, <4>1 DEF ResumeWrite
                <5>2. timer'.status = "RUNNING"
                    BY <1>1, <2>1, <5>1 DEF Rows
                <5> QED
                    BY <1>1, <5>2, RowFacts
            <4> QED
                BY <4>1
        <3>4. ~StartWrite(c)
            BY <1>1, <3>0, RowFacts DEF Inv, Holds, StartWrite
        <3> QED
            BY <1>1, <2>2, <3>1, <3>2, <3>3, <3>4
            DEF Step, StartDecide, PauseRead, PauseDecide, ResumeRead, ResumeDecide
    <2>3. ASSUME NEW cutoff \in cleanups, CleanupDelete(cutoff)
          PROVE  Expired(timer)
        <3>1. timer.status = "RUNNING" /\ timer.endsAt <= cutoff
            BY <1>1, <2>3 DEF CleanupDelete
        <3>2. timer.endsAt \in Nat /\ cutoff \in Nat /\ cutoff <= now /\ now \in Nat
            BY <1>1, <3>1, RowFacts DEF Inv, TypeOK
        <3> QED
            BY <3>1, <3>2 DEF Expired
    <2> QED
        BY <1>1, <2>1, <2>2, <2>3 DEF Next, Tick, CleanupFire, CleanupFail
<1>2. Inv /\ SerialInv /\ [Next]_vars =>
        [Serial /\ timer # NoTimer /\ timer' = NoTimer =>
            Expired(timer) \/ \E c \in Calls : DeleteTimer(c)]_vars
    BY <1>1
<1> QED
    BY <1>2, Invariance, SerialInvariance, PTL DEF Spec, SerialOnlyExpiredExpire

(* The refinement.  The writes of a call are the promised operations; what  *)
(* comes before them, and firing a cleanup, are no steps at all.            *)

\* The timer that BoardTimerPromise speaks of.
SeenNow == IF Serial THEN now ELSE 0
SeenTimer == IF Serial THEN timer ELSE NoTimer

LEMMA SeenFacts ==
    ASSUME Serial, lanes' = lanes
    PROVE  SeenNow = now /\ SeenNow' = now' /\ SeenTimer = timer /\ SeenTimer' = timer'
BY DEF SeenNow, SeenTimer, Serial

LEMMA StartIsPromised ==
    ASSUME Inv, SerialInv, Serial, NEW c \in lanes, StartWrite(c)
    PROVE  Promise!Start
<1>1. c \in Calls /\ lanes' = lanes /\ now' = now
    BY DEF Inv, TypeOK, StartWrite
<1>2. PICK seconds \in Durations, at \in 0..now : timer' = Running(seconds, seconds, at)
    BY <1>1 DEF SerialInv, Knows, StartWrite
<1> QED
    BY <1>1, <1>2, SeenFacts DEF Promise!Start, Running, SeenNow, SeenTimer

LEMMA PauseIsPromised ==
    ASSUME Inv, SerialInv, Serial, NEW c \in lanes, PauseWrite(c), timer # NoTimer
    PROVE  Promise!Pause
<1> DEFINE left == call[c].row.remaining
<1>1. c \in Calls /\ lanes' = lanes /\ now' = now
    BY DEF Inv, TypeOK, PauseWrite
<1>2. /\ timer.status = "RUNNING" /\ left \in 1..timer.remaining
      /\ timer.endsAt - now <= left * TicksPerSecond
    BY <1>1 DEF SerialInv, Knows, Recalls, PauseWrite
<1>3. timer' = [timer EXCEPT !.status = "PAUSED", !.remaining = left, !.endsAt = Never]
    BY DEF PauseWrite, PausedWith
<1> HIDE DEF left
<1> QED
    BY <1>1, <1>2, <1>3, SeenFacts DEF Promise!Pause, Promise!Never, Never, SeenNow, SeenTimer

LEMMA ResumeIsPromised ==
    ASSUME Inv, SerialInv, Serial, NEW c \in lanes, ResumeWrite(c), timer # NoTimer
    PROVE  Promise!Resume
<1>1. lanes' = lanes /\ now' = now
    BY DEF ResumeWrite
<1>2. timer.status = "PAUSED"
    BY ResumedFacts
<1>3. PICK at \in 0..now :
        timer' = [timer EXCEPT !.status = "RUNNING",
                               !.endsAt = at + timer.remaining * TicksPerSecond]
    BY ResumedFacts
<1> QED
    BY <1>1, <1>2, <1>3, SeenFacts DEF Promise!Resume, SeenNow, SeenTimer

LEMMA DeleteIsPromised ==
    ASSUME Serial, lanes' = lanes, now' = now, timer' = NoTimer
    PROVE  Promise!Vanish
BY SeenFacts DEF Promise!Vanish, Promise!NoTimer, NoTimer, Promise!Never, Never, SeenNow, SeenTimer

LEMMA StepIsPromised ==
    ASSUME Inv, SerialInv, Serial, [Next]_vars
    PROVE  Promise!Next \/ (SeenNow' = SeenNow /\ SeenTimer' = SeenTimer)
<1>1. CASE Tick
    <2>1. lanes' = lanes /\ now' = now + 1 /\ timer' = timer
        BY <1>1 DEF Tick
    <2> QED
        BY <2>1, SeenFacts DEF Promise!Next, Promise!Tick, SeenNow, SeenTimer
<1>2. ASSUME lanes' = lanes, now' = now, timer' = timer
      PROVE  SeenNow' = SeenNow /\ SeenTimer' = SeenTimer
    BY <1>2, SeenFacts
<1>3. ASSUME NEW c \in lanes, Step(c)
      PROVE  Promise!Next \/ UNCHANGED <<lanes, now, timer>>
    <2>1. CASE StartWrite(c)
        BY <2>1, StartIsPromised DEF Promise!Next
    <2>2. CASE PauseWrite(c)
        <3>1. CASE timer = NoTimer
            BY <2>2, <3>1 DEF PauseWrite
        <3>2. CASE timer # NoTimer
            BY <2>2, <3>2, PauseIsPromised DEF Promise!Next
        <3> QED
            BY <3>1, <3>2
    <2>3. CASE ResumeWrite(c)
        <3>1. CASE timer = NoTimer
            BY <2>3, <3>1 DEF ResumeWrite
        <3>2. CASE timer # NoTimer
            BY <2>3, <3>2, ResumeIsPromised DEF Promise!Next
        <3> QED
            BY <3>1, <3>2
    <2>4. CASE ExpireDelete(c) \/ DeleteTimer(c)
        <3>1. lanes' = lanes /\ now' = now /\ timer' = NoTimer
            BY <2>4 DEF ExpireDelete, DeleteTimer
        <3> QED
            BY <3>1, DeleteIsPromised DEF Promise!Next
    <2> QED
        BY <1>3, <2>1, <2>2, <2>3, <2>4
        DEF Step, StartDecide, PauseRead, PauseDecide, ResumeRead, ResumeDecide
<1>4. ASSUME NEW cutoff \in cleanups, CleanupDelete(cutoff)
      PROVE  Promise!Next \/ UNCHANGED <<lanes, now, timer>>
    <2>1. lanes' = lanes /\ now' = now /\ timer' \in {timer, NoTimer}
        BY <1>4 DEF CleanupDelete
    <2>2. CASE timer' = NoTimer
        BY <2>1, <2>2, DeleteIsPromised DEF Promise!Next
    <2> QED
        BY <2>1, <2>2
<1>5. CleanupFire \/ (\E cutoff \in cleanups : CleanupFail(cutoff)) \/ UNCHANGED vars
        => UNCHANGED <<lanes, now, timer>>
    BY DEF CleanupFire, CleanupFail, vars
<1> QED
    BY <1>1, <1>2, <1>3, <1>4, <1>5 DEF Next

\* Calls made one at a time act on the timer as single steps: a pause loses no
\* time and gains none, and a resume continues from it.
THEOREM KeepsPromise == Spec => SerialKeepsPromise
<1>1. Init => Promise!Init
    BY DEF Init, Promise!Init, NoTimer, Promise!NoTimer, Never, Promise!Never
<1>2. Inv /\ SerialInv /\ [Next]_vars
        => [Promise!Next]_<<IF Serial THEN now ELSE 0, IF Serial THEN timer ELSE NoTimer>>
    <2>1. CASE Serial
        BY <2>1, StepIsPromised DEF SeenNow, SeenTimer
    <2>2. ASSUME ~Serial, [Next]_vars
          PROVE  ~Serial'
        <3>1. lanes' = lanes
            BY <2>2 DEF Next, vars, Tick, Step, StartDecide, StartWrite, PauseRead, PauseDecide,
               ExpireDelete, PauseWrite, ResumeRead, ResumeDecide, ResumeWrite, DeleteTimer,
               CleanupFire, CleanupDelete, CleanupFail
        <3> QED
            BY <2>2, <3>1 DEF Serial
    <2> QED
        BY <2>1, <2>2
<1> QED
    BY <1>1, <1>2, Invariance, SerialInvariance, PTL
    DEF Spec, SerialKeepsPromise, Promise!Spec
=============================================================================
