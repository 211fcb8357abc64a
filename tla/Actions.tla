------------------------------- MODULE Actions ------------------------------
(***************************************************************************)
(* The state machines of the actions that attacking agents use: kick,      *)
(* turn_kick, and what receive remembers.  An action lives for many cycles *)
(* and is executed once in each cycle whose agent returns it.              *)
(*                                                                         *)
(* The positions enter as what their comparisons yield; a view is what the *)
(* copy of the world in one cycle shows:                                   *)
(*   ball   "still" (below 100 mm/s), "rolling", or "fast" (above 550)     *)
(*   range  of the robot to the ball: "near" (below 350 mm), "far" (above  *)
(*          525), or "between"                                             *)
(*   aim    of robot and ball at the target: "on" (within margin_), "off"  *)
(*          (beyond 1.5 margin_), or "almost"                              *)
(*   atStart, atRadius, atAngle: is the robot where turn_kick wants it     *)
(*   moved  has the ball moved by more than 50 mm since the last cycle     *)
(***************************************************************************)
EXTENDS Integers

CONSTANTS
    Robot,       \* our field robots
    Nobody,      \* no robot
    TimeBound    \* ages are counted in ticks up to here

ASSUME TimeAssumption == TimeBound \in Nat

ASSUME RobotAssumption == Nobody \notin Robot

\* What a view shows of a comparison that is made only if b
Matters(b) == IF b THEN BOOLEAN ELSE {FALSE}

\* An age after a tick
Later(age) == IF age < TimeBound THEN age + 1 ELSE age

Ball == {"still", "rolling", "fast"}

-----------------------------------------------------------------------------
(* action::kick *)

Range == {"near", "between", "far"}

Aim == {"on", "almost", "off"}

Kick == [state : {"move", "round", "kick"}, finished : BOOLEAN]

NewKick == [state |-> "move", finished |-> FALSE]

\* Mutant for TouchesOnce: only the ball tells
KickOverNow(k, v) == v.ball = "fast"

KickOver(k, v) == k.finished \/ v.ball = "fast"

\* Later conditions override earlier ones.
KickState(k, v) ==
    CASE k.state = "kick" /\ v.range = "far" -> "move"
      [] k.state = "kick" /\ v.range # "far" -> IF v.aim = "off" THEN "round" ELSE "kick"
      [] k.state # "kick" /\ v.aim = "on"    -> "kick"
      [] k.state = "move" /\ v.aim # "on"    -> IF v.range = "near" THEN "round" ELSE "move"
      [] k.state = "round" /\ v.aim # "on"   -> IF v.range = "far" THEN "move" ELSE "round"

\* execute(): a fast ball has been kicked, whoever kicked it.
ExecuteKick(k, v) ==
    IF KickOver(k, v) THEN [k EXCEPT !.finished = TRUE]
    ELSE [k EXCEPT !.state = KickState(k, v)]

\* The command that execute() returns has a kick flag, if kick_type_ has one.
CommandsKick(k, v) == k.state = "kick" /\ ~KickOver(k, v)

-----------------------------------------------------------------------------
(* action::turn_kick *)

TurnKick ==
    [state : {"set", "move", "rotate", "wait", "kick"},
     wait : BOOLEAN, kick : BOOLEAN, finished : BOOLEAN]

NewTurnKick == [state |-> "set", wait |-> FALSE, kick |-> FALSE, finished |-> FALSE]

ExecuteTurnKick(t, v) ==
    CASE t.state = "set"    -> IF v.atStart THEN [t EXCEPT !.state = "rotate"] ELSE t
      [] t.state = "move"   -> IF v.atRadius THEN [t EXCEPT !.state = "wait"] ELSE t
      [] t.state = "rotate" -> IF v.atAngle THEN [t EXCEPT !.state = "wait"] ELSE t
      [] t.state = "wait"   ->
           IF ~v.atRadius THEN [t EXCEPT !.state = "move", !.wait = FALSE]
           ELSE IF ~v.atAngle THEN [t EXCEPT !.state = "rotate", !.wait = FALSE]
           ELSE IF t.kick THEN [t EXCEPT !.state = "kick", !.wait = FALSE]
           ELSE [t EXCEPT !.wait = TRUE]
      [] t.state = "kick"   -> IF v.moved THEN [t EXCEPT !.finished = TRUE] ELSE t
=============================================================================
