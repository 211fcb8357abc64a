---------------------------- MODULE BallPlacement ---------------------------
(***************************************************************************)
(* agent::ball_placement, with the ball_place actions of its robots.  In   *)
(* each cycle a chaser is chosen anew; it carries the ball to the target,  *)
(* or passes it to a receiver there, and goes away.  Each robot's action   *)
(* keeps its state while another one is the chaser.  mode_ and target_ are *)
(* of the geometry, which enters as the comparisons' results.              *)
(***************************************************************************)
EXTENDS Actions

CONSTANT WaitTime    \* the second that the ball is left to rest, in ticks

ASSUME PlacementAssumption == WaitTime \in Nat

-----------------------------------------------------------------------------
(* action::ball_place *)

\* fresh is wait_flag_, age the time since begin_.  History of the wait: stands tells
\* whether the robot has not been told to stand still yet ("no"), has stood still
\* since it was ("still"), or has been driven away meanwhile ("driven"); rest is how
\* long it has stood still.
BallPlace ==
    [state : {"move", "hold", "place", "wait", "leave", "finished"},
     fresh : BOOLEAN, age : 0 .. TimeBound,
     stands : {"no", "still", "driven"}, rest : 0 .. TimeBound]

\* begin_ is the clock's epoch.
NewBallPlace ==
    [state |-> "move", fresh |-> TRUE, age |-> TimeBound, stands |-> "no", rest |-> 0]

\* What a cycle that executes the action in state s can see: the ball at the target and
\* the robot away from it (done); the robot behind the ball, or where it was (reached), or
\* more than 100 mm from it (apart); ball or robot at the target (arrived); the ball left
\* behind (slipped); the robot aimed at the target, far from the ball (away); the
\* ball far from the target, or near the robot (off).  What s does not ask is constant.
PlaceView(s) ==
    {v \in [done : BOOLEAN,
            aligned : Matters(s = "move"),
            reached : Matters(s = "hold"), apart : Matters(s = "hold"),
            arrived : Matters(s = "place"), slipped : Matters(s = "place"),
            aimed : Matters(s = "place"),
            away : Matters(s = "leave"), off : Matters(s = "finished")] :
        ~(v.done /\ v.off)}

\* The state that the cycle acts in
Acting(b, v) == IF v.done THEN "finished" ELSE b.state

\* Mutant for RestsBeforeLeaving: wait_flag_ is not set.
CarryOn(b, v) ==
    [b EXCEPT !.state = IF v.slipped THEN "move" ELSE IF v.arrived THEN "wait" ELSE "place"]

Carry(b, v) ==
    [b EXCEPT !.state = IF v.slipped THEN "move" ELSE IF v.arrived THEN "wait" ELSE "place",
              !.fresh = @ \/ v.arrived]

\* begin_ has been set in an earlier hold, or never.
HoldBall(b, v) ==
    LET age == IF v.apart THEN 0 ELSE b.age
    IN  [b EXCEPT !.age = age,
                  !.state = IF v.reached \/ age >= WaitTime THEN "place" ELSE "hold"]

\* The dribbler stands still, and the ball comes to rest.
RestBall(b) ==
    LET age  == IF b.fresh THEN 0 ELSE b.age
        over == age >= WaitTime
    IN  [b EXCEPT !.age = age, !.fresh = over, !.state = IF over THEN "leave" ELSE "wait"]

LeaveBall(b, v) ==
    [b EXCEPT !.state = IF v.away THEN "finished" ELSE "leave",
              !.fresh = FALSE, !.age = IF b.fresh THEN 0 ELSE @]

\* The state machine of execute()
NextPlace(b, v) ==
    LET s == Acting(b, v)
    IN CASE s = "finished" -> [b EXCEPT !.state = IF v.off THEN "move" ELSE "finished"]
         [] s = "leave"    -> LeaveBall(b, v)
         [] s = "wait"     -> RestBall(b)
         [] s = "place"    -> Carry(b, v)
         [] s = "hold"     -> HoldBall(b, v)
         [] s = "move"     -> IF v.aligned THEN [b EXCEPT !.state = "hold"] ELSE b

\* execute(), with its history
ExecutePlace(b, v) ==
    LET n == NextPlace(b, v)
    IN CASE Acting(b, v) = "wait" -> [n EXCEPT !.stands = IF @ = "no" THEN "still" ELSE @]
         [] Acting(b, v) = "leave" /\ n.state = "leave" -> n
         [] OTHER -> [n EXCEPT !.stands = "no", !.rest = 0]

\* History: another action's command drives the robot away.
DriveAway(b) ==
    IF b.state = "wait" THEN [b EXCEPT !.stands = "driven", !.rest = 0] ELSE b

\* Time passes. A robot that gets no command, as it is not seen, keeps its last one.
AgePlace(b) ==
    [b EXCEPT !.age = Later(@),
              !.rest = IF b.state = "wait" /\ b.stands = "still" THEN Later(@) ELSE @]

-----------------------------------------------------------------------------
(* agent::ball_placement *)

\* place is abp_, active is_active_.  chaser_ and current_receiver_, which are not
\* initialized, are set before they are read.  kicking is what the driver remembers: the
\* robots whose last command kicks; unseen is history: those of them that the last cycle
\* has not seen.
PlacementAgent ==
    [kind : {"placement"}, ids : SUBSET Robot, active : BOOLEAN,
     chaser : Robot \cup {Nobody}, place : [Robot -> BallPlace],
     kicking : SUBSET Robot, unseen : SUBSET Robot]

NewPlacement(ids, active) ==
    [kind |-> "placement", ids |-> ids, active |-> active,
     chaser |-> Nobody, place |-> [r \in Robot |-> NewBallPlace],
     kicking |-> {}, unseen |-> {}]

\* Who may be what in a cycle: the positions decide.  known are the visible_ids, who have
\* been seen within lost_count_.  incoming: does the ball roll towards the chaser?  line:
\* is the receiver at the target, and the ball on the field?
Roles(a) ==
    {r \in [visible : SUBSET a.ids, known : SUBSET a.ids, chaser : a.ids \cup {Nobody},
            receiver : a.ids \cup {Nobody}, incoming : BOOLEAN, line : BOOLEAN] :
        /\ r.visible \subseteq r.known
        /\ IF a.active /\ r.known # {} THEN r.chaser \in r.known ELSE r.chaser = Nobody
        /\ r.receiver \in (r.known \ {r.chaser}) \cup {Nobody}
        /\ r.receiver # Nobody => r.chaser # Nobody
        /\ r.incoming => r.chaser \in r.visible
        /\ r.line => r.receiver \in r.visible /\ r.chaser \in r.visible /\ ~r.incoming}

\* Does the chaser execute its ball_place?
Places(r) == r.chaser \in r.visible /\ ~r.incoming

PlacementLooks(a, r) == PlaceView(IF Places(r) THEN a.place[r.chaser].state ELSE "none")

\* Mutant for OnlyChaserKicks: the receiver is not one of the waiters.
WaitersButReceiver(r) == r.known \ {r.chaser, r.receiver}

\* The receiver has been taken from the waiters and is put back.
Waiters(r) == (r.known \ {r.chaser, r.receiver}) \cup ({r.receiver} \ {Nobody})

\* Everyone who is visible gets a command.
Commanded(r) == ({r.chaser} \cup Waiters(r)) \cap r.visible

\* Does the chaser's command kick?
Passes(a, r, v) ==
    Places(r) /\ r.line /\ v.aimed /\ Acting(a.place[r.chaser], v) = "place"

Kicking(a, r, v) ==
    (a.kicking \ Commanded(r)) \cup (IF Passes(a, r, v) THEN {r.chaser} ELSE {})

\* The ball_place of the chaser is executed. A chaser that receives, and the waiters,
\* are driven away by the actions they execute instead.
PlaceActions(a, r, v) ==
    [q \in Robot |->
        IF Places(r) /\ q = r.chaser THEN ExecutePlace(a.place[q], v)
        ELSE IF q \in Commanded(r) THEN DriveAway(a.place[q])
        ELSE a.place[q]]

\* execute(), and then that of the actions
ExecutePlacement(a, r, v) ==
    [a EXCEPT !.chaser = IF r.chaser = Nobody THEN @ ELSE r.chaser,
              !.place = PlaceActions(a, r, v),
              !.kicking = Kicking(a, r, v),
              !.unseen = Kicking(a, r, v) \ r.visible]

\* Time passes for the actions.
AgePlacement(a) == [a EXCEPT !.place = [r \in Robot |-> AgePlace(a.place[r])]]

\* The chaser of the last cycle has placed the ball.
Placed(a) == a.chaser # Nobody /\ a.place[a.chaser].state = "finished"
=============================================================================
