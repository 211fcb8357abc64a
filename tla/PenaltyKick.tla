----------------------------- MODULE PenaltyKick ----------------------------
(***************************************************************************)
(* agent::penalty_kick in attack mode, with the actions it returns         *)
(* executed in the same cycle.  The kicker waits, turns around the ball    *)
(* away from the enemy's keeper until turn_kick says that it waits, or     *)
(* until five seconds have passed, and kicks.                              *)
(***************************************************************************)
EXTENDS Actions

CONSTANT CheckTime    \* the five seconds, in ticks

ASSUME PenaltyAssumption == CheckTime \in Nat

\* placed is kicker_move_->finished(), age the time since change_command_time_.
PenaltyAgent ==
    [kind : {"penalty_kick"}, start : BOOLEAN, state : {"wait", "check", "kick"},
     placed : BOOLEAN, turn : TurnKick, age : 0 .. TimeBound]

NewPenaltyKick(start) ==
    [kind |-> "penalty_kick", start |-> start, state |-> "wait", placed |-> FALSE,
     turn |-> NewTurnKick, age |-> 0]

PenaltyFinished(a) == a.turn.finished

\* keeper: is the enemy's keeper visible; visible: is the kicker.
PenaltyView ==
    [keeper : BOOLEAN, visible : BOOLEAN, placed : BOOLEAN, atStart : BOOLEAN,
     atRadius : BOOLEAN, atAngle : BOOLEAN, moved : BOOLEAN]

-----------------------------------------------------------------------------
WaitForStart(a, v) ==
    LET go == a.start /\ a.placed
    IN [a EXCEPT !.state = IF go THEN "check" ELSE @,
                 !.age = IF go THEN 0 ELSE @,
                 !.placed = v.placed]

\* change_command_time_ - point > 5 s
TimeIsUp(a) == 0 - a.age > CheckTime

Check(a, v) ==
    [a EXCEPT !.state = IF TimeIsUp(a) \/ a.turn.wait THEN "kick" ELSE @,
              !.turn = ExecuteTurnKick(a.turn, v)]

\* set_kick(true)
KickPenalty(a, v) == [a EXCEPT !.turn = ExecuteTurnKick([@ EXCEPT !.kick = TRUE], v)]

\* execute(): at() throws without the enemy's keeper.
ExecutePenalty(a, v) ==
    IF ~(v.keeper /\ v.visible) THEN a
    ELSE CASE a.state = "wait"  -> WaitForStart(a, v)
           [] a.state = "check" -> Check(a, v)
           [] a.state = "kick"  -> KickPenalty(a, v)

\* Does the kicker's command kick, if the command before did so?
PenaltyKicks(a, v, before) ==
    IF v.keeper /\ v.visible THEN a.state # "wait" /\ a.turn.state = "kick" ELSE before
=============================================================================
