--------------------------------- MODULE All --------------------------------
(***************************************************************************)
(* agent::all, of the formation steady, which plays whenever nothing else  *)
(* is to be done.  In each cycle a chaser is chosen anew among the robots  *)
(* that have been seen within a second; the others wait.  Positions, the   *)
(* search for the one to pass to and the keeper, who is never among the    *)
(* robots here, are left out.                                              *)
(***************************************************************************)
EXTENDS Actions

CONSTANT LostTime    \* the second after which a robot is taken for lost, in ticks

ASSUME AllAssumption == LostTime \in Nat

\* lost is the time since lost_point_ of each robot; chaser is chaser_, Nobody when the
\* keeper is it.  kicking is what the driver remembers: the robots whose last command
\* kicks; seen is history: the robots that the last cycle has seen.
SteadyAgent ==
    [kind : {"steady"}, lost : [Robot -> 0 .. TimeBound], chaser : Robot \cup {Nobody},
     kicking : SUBSET Robot, seen : SUBSET Robot]

\* Nobody has been lost yet, whether it is there or not.
NewSteady(kicking) ==
    [kind |-> "steady", lost |-> [r \in Robot |-> 0], chaser |-> Nobody,
     kicking |-> kicking, seen |-> {}]

\* Mutant for ALoneRobotChases: lost_point_ is when a robot was looked for.
LookForAll(a, seen) == [r \in Robot |-> 0]

Look(a, seen) == [r \in Robot |-> IF r \in seen THEN 0 ELSE a.lost[r]]

\* visible_ids
Known(a, seen) == {r \in Robot : Look(a, seen)[r] <= LostTime}

\* What a cycle can see, whom positions and speeds make the chaser, and whether its
\* get_ball or receive comes to kick.
SteadyView(a) ==
    {v \in [seen : SUBSET Robot, chaser : Robot \cup {Nobody}, kicks : BOOLEAN] :
        /\ IF Known(a, v.seen) = {} THEN v.chaser = Nobody ELSE v.chaser \in Known(a, v.seen)
        /\ v.kicks => v.chaser \in v.seen}

\* Chaser and waiters get a command if they are seen; the waiters' do not kick.
Told(a, v) == Known(a, v.seen) \cap v.seen

\* execute(), and then that of the actions
ExecuteSteady(a, v) ==
    [a EXCEPT !.lost = Look(a, v.seen),
              !.chaser = v.chaser,
              !.kicking = (@ \ Told(a, v)) \cup (IF v.kicks THEN {v.chaser} ELSE {}),
              !.seen = v.seen]

AgeSteady(a) == [a EXCEPT !.lost = [r \in Robot |-> Later(@[r])]]
=============================================================================
