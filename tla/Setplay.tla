------------------------------- MODULE Setplay ------------------------------
(***************************************************************************)
(* agent::setplay, with the actions it returns executed in the same cycle. *)
(* The kicker passes to a receiver, who shoots; without receivers, it      *)
(* shoots itself.  Robots are numbered: 0 is the kicker, and i the i-th    *)
(* of n receivers.  is_direct_, which nothing sets, is left out.           *)
(***************************************************************************)
EXTENDS Actions

CONSTANTS
    Receivers,    \* how many receivers there may be
    MaxChanges,   \* of the receiver: five
    PassTime      \* the four seconds, in ticks

ASSUME SetplayAssumption ==
    Receivers \subseteq Nat /\ MaxChanges \in Nat /\ PassTime \in Nat

\* mode_: 0 and 1 have a meaning, 2 is any other.
Mode == {0, 1, 2}

\* receive and getter are the robots of receive_ and get_ball_ (0: none), caught
\* is receive_->finished(), near is neflag, ready is receive_flag_, age the time since
\* start_point_; far is pos_ = pos::far.  came is history: has a pass cycle found the
\* robot that the pass goes to at its place, that robot ("receiver") or only one that
\* was the receiver before it ("earlier")?
SetplayAgent ==
    [kind : {"setplay"}, n : Nat, mode : Mode, far : BOOLEAN,
     state : {"setup", "pass", "receive", "shoot", "finished"},
     shooter : Nat, receive : Nat, caught : BOOLEAN, getter : Nat,
     kick : Kick, near : BOOLEAN, ready : BOOLEAN,
     came : {"nobody", "earlier", "receiver"},
     changes : 0 .. MaxChanges, age : 0 .. TimeBound]

NewSetplay(n, mode) ==
    [kind |-> "setplay", n |-> n, mode |-> mode, far |-> FALSE, state |-> "setup",
     shooter |-> 0, receive |-> 0, caught |-> FALSE, getter |-> 0, kick |-> NewKick,
     near |-> FALSE, ready |-> FALSE, came |-> "nobody", changes |-> 0, age |-> 0]

SetplayFinished(a) == a.state = "finished"

Chasing(a) == a.state \in {"receive", "shoot"}

\* What a cycle with all robots visible can see; what its state does not ask is
\* constant.  Where the ball lies for a corner (far); the best place for a pass; is an
\* enemy in its way; is the receiver within 500 mm of its place, and of the line of the
\* pass; is the ball within 100 mm of it; its distance to the ball (below 500 mm, above
\* 1000 mm); has the ball turned away; has it stopped between kicker and receiver?
SetplayLooks(a, balls, ranges, aims) ==
    [ball : balls, range : ranges, aim : aims,
     far : Matters(a.state = "setup"),
     best : IF a.state = "pass" THEN 1 .. a.n ELSE {0},
     blocked : Matters(a.state = "pass"),
     inPlace : Matters(a.state = "pass"),
     lined : Matters(a.state = "pass" /\ a.mode = 1 /\ a.far),
     caught : Matters(a.state \in {"pass", "receive"}),
     dist : IF Chasing(a) THEN {"close", "middle", "gone"} ELSE {"middle"},
     turned : Matters(Chasing(a)),
     stranded : Matters(Chasing(a))]

\* A ball that rolls slowly is taken for one that lies.
SetplayView(a) == SetplayLooks(a, {"still", "fast"}, Range, Aim)

-----------------------------------------------------------------------------
\* Has the ball been taken from us?
Lost(a, v) ==
    \/ a.n > 0 /\ v.turned
    \/ a.near /\ v.dist = "gone"
    \/ a.n > 0 /\ v.stranded /\ v.dist # "close" /\ ~a.caught

Judge(a, v) ==
    IF ~Chasing(a) THEN a
    ELSE [a EXCEPT !.state = IF Lost(a, v) THEN "finished" ELSE @,
                   !.near = @ \/ v.dist = "close"]

\* kick_ is the same in pass and in shoot, and stays finished.
AfterKick(a) ==
    CASE a.kick.finished /\ a.state = "pass"  -> [a EXCEPT !.state = "receive", !.getter = a.shooter]
      [] a.kick.finished /\ a.state = "shoot" -> [a EXCEPT !.state = "finished"]
      [] OTHER                                -> a

\* The first cycle only finds the places.
SetUp(a, v) ==
    [a EXCEPT !.state = "pass", !.far = v.far, !.shooter = 1, !.receive = 1, !.caught = FALSE]

-----------------------------------------------------------------------------
\* Is there a better receiver?
Better(a, v) ==
    /\ ~(a.mode = 1 /\ a.far)
    /\ v.best # a.shooter
    /\ v.best < (a.n \div 3) * 2

\* History: whoever came was an earlier receiver.
Handed(a) == IF a.came = "nobody" THEN "nobody" ELSE "earlier"

\* Mutant for ShooterIsServed: receive_ is kept.
ChooseKeeping(a, v) ==
    IF a.changes < MaxChanges /\ Better(a, v)
    THEN [a EXCEPT !.kick = NewKick, !.shooter = v.best, !.changes = @ + 1,
                   !.came = Handed(a)]
    ELSE a

\* Mutant for TypeOK: one change more
ChooseOnceMore(a, v) ==
    IF a.changes <= MaxChanges /\ Better(a, v)
    THEN [a EXCEPT !.kick = NewKick, !.shooter = v.best,
                   !.receive = v.best, !.caught = FALSE, !.changes = @ + 1,
                   !.came = Handed(a)]
    ELSE a

\* Mutant for PlaysEnd: the changes are not counted.
ChooseAlways(a, v) ==
    IF Better(a, v)
    THEN [a EXCEPT !.kick = NewKick, !.shooter = v.best,
                   !.receive = v.best, !.caught = FALSE, !.came = Handed(a)]
    ELSE a

\* receive_flag_ is not reset.
Choose(a, v) ==
    IF a.changes < MaxChanges /\ Better(a, v)
    THEN [a EXCEPT !.kick = NewKick, !.shooter = v.best,
                   !.receive = v.best, !.caught = FALSE, !.changes = @ + 1,
                   !.came = Handed(a)]
    ELSE a

\* With an enemy in the way, receive_ is made anew, and the kick is a chip.
Chip(a, v) == IF v.blocked THEN [a EXCEPT !.receive = a.shooter, !.caught = FALSE] ELSE a

\* movedflag
Moved(a, v) == v.inPlace \/ a.ready \/ a.age >= PassTime

\* Mutant for PassWaits: round instead of round and later
HoldsRounding(a, v) ==
    IF a.mode = 1 /\ a.far /\ (a.ready \/ Moved(a, v)) THEN ~v.lined
    ELSE a.kick.state = "round" /\ ~Moved(a, v)

\* Is kick_type none?
Holds(a, v) ==
    IF a.mode = 1 /\ a.far /\ (a.ready \/ Moved(a, v)) THEN ~v.lined
    ELSE a.kick.state # "move" /\ ~Moved(a, v)

\* Is receive_ executed, and not a move?
Receiving(a, v) ==
    /\ a.kick.state = "kick"
    /\ \/ a.mode = 1 /\ a.far /\ (a.ready \/ Moved(a, v))
       \/ a.mode = 0 /\ Moved(a, v)

\* The receiver and the kind of kick
Aimed(a, v) == Chip(Choose(a, v), v)

Pass(a, v) ==
    LET b == Aimed(a, v)
    IN [b EXCEPT !.ready = @ \/ Moved(b, v),
                 !.came = IF v.inPlace THEN "receiver" ELSE @,
                 !.kick = ExecuteKick(b.kick, v),
                 !.caught = @ \/ (Receiving(b, v) /\ v.caught)]

\* Shot at once when the ball has been caught.
ReceivePass(a, v) ==
    IF a.caught THEN [a EXCEPT !.state = "shoot"] ELSE [a EXCEPT !.caught = v.caught]

-----------------------------------------------------------------------------
\* The state in which the cycle acts
Judged(a, v) == AfterKick(Judge(a, v))

\* execute(), and then that of the actions
ExecuteSetplay(a, v) ==
    LET b == Judged(a, v)
    IN CASE b.state = "finished" -> b
         [] b.state # "finished" /\ b.n = 0 ->
              [b EXCEPT !.state = "shoot", !.kick = ExecuteKick(@, v)]
         [] b.state = "setup" /\ b.n > 0   -> SetUp(b, v)
         [] b.state = "pass" /\ b.n > 0    -> Pass(b, v)
         [] b.state = "receive" /\ b.n > 0 -> ReceivePass(b, v)
         [] b.state = "shoot" /\ b.n > 0   -> b

\* Does the kicker's command kick, if the command before did so? From receive on it
\* gets none.
SetplayKicks(a, v, before) ==
    LET b == Judged(a, v)
    IN CASE b.state # "finished" /\ b.n = 0 -> CommandsKick(b.kick, v)
         [] b.state = "pass" /\ b.n > 0 ->
              CommandsKick(Aimed(b, v).kick, v) /\ ~Holds(Aimed(b, v), v)
         [] OTHER -> before
=============================================================================
