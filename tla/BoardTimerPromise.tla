-------------------------- MODULE BoardTimerPromise --------------------------
(***************************************************************************)
(* What the users of a board are promised about its timer, with every      *)
(* operation a single step: a pause keeps the time that was left (rounded  *)
(* up to a second), and a resume continues from it (README: "продолжает    *)
(* таймер с сохраненного остатка").  An operation looks at the clock some  *)
(* time before it takes effect.                                            *)
(***************************************************************************)
EXTENDS Integers

CONSTANTS Durations, TicksPerSecond

VARIABLES now, timer

Never == -1

NoTimer == [status |-> "NONE", duration |-> 0, remaining |-> 0, endsAt |-> Never]

Init == now = 0 /\ timer = NoTimer

Tick == now' = now + 1 /\ UNCHANGED timer

Start ==
    /\ \E seconds \in Durations, at \in 0..now :
        timer' = [status |-> "RUNNING", duration |-> seconds, remaining |-> seconds,
                  endsAt |-> at + seconds * TicksPerSecond]
    /\ UNCHANGED now

Pause ==
    /\ timer.status = "RUNNING"
    /\ \E left \in 1..timer.remaining :
        /\ timer.endsAt - now <= left * TicksPerSecond
        /\ timer' = [timer EXCEPT !.status = "PAUSED", !.remaining = left,
                                  !.endsAt = Never]
    /\ UNCHANGED now

Resume ==
    /\ timer.status = "PAUSED"
    /\ \E at \in 0..now :
        timer' = [timer EXCEPT !.status = "RUNNING",
                               !.endsAt = at + timer.remaining * TicksPerSecond]
    /\ UNCHANGED now

\* Deleted by a client, or after its end.
Vanish == timer' = NoTimer /\ UNCHANGED now

Next == Tick \/ Start \/ Pause \/ Resume \/ Vanish

Spec == Init /\ [][Next]_<<now, timer>>
=============================================================================
