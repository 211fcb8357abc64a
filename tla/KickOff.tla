------------------------------- MODULE KickOff ------------------------------
(***************************************************************************)
(* agent::kick_off, with the actions it returns executed in the same cycle.*)
(* The kicker waits behind the ball until the start, kicks to the nearest  *)
(* waiter and leaves the ball alone; the waiter receives it.               *)
(***************************************************************************)
EXTENDS Actions

KickOffAgent ==
    [kind : {"kick_off"}, kicker : Robot, waiters : SUBSET Robot, start : BOOLEAN,
     placed : BOOLEAN, kick : Kick, kicked : BOOLEAN, received : BOOLEAN,
     receiver : Robot \cup {Nobody}, receive : {"null", "made", "caught"},
     alone : BOOLEAN]

\* placed, kicked and received are move_finished_, kick_finished_ and
\* receive_finished_, and receive is what receive_ points to and remembers.
\* receiver_id_, which is not initialized, is not read before it is set. alone
\* is history: no waiter was visible in the last cycle.
NewKickOff(kicker, waiters, start) ==
    [kind |-> "kick_off", kicker |-> kicker, waiters |-> waiters, start |-> start,
     placed |-> FALSE, kick |-> NewKick, kicked |-> FALSE, received |-> FALSE,
     receiver |-> Nobody, receive |-> "null", alone |-> FALSE]

\* finished()
KickOffFinished(a) == a.placed /\ a.kicked /\ a.received

\* nearest is the visible waiter next to the ball; placed: is the kicker within
\* 250 mm of its place; caught: is the ball within 100 mm of the receiver.
KickOffView ==
    [visible : SUBSET Robot, ball : Ball, range : Range, aim : Aim,
     nearest : Robot \cup {Nobody}, placed : BOOLEAN, caught : BOOLEAN]

Waiting(a, v) == a.waiters \cap v.visible

\* Views that a world can give to a.
KickOffSees(a, v) ==
    IF Waiting(a, v) = {} THEN v.nearest = Nobody ELSE v.nearest \in Waiting(a, v)

-----------------------------------------------------------------------------
\* Without these, receive_->finished() is not called.
AsksReceiver(a, v) == Waiting(a, v) # {} \/ v.ball = "still"

\* execute() dereferences receive_ before it has been made.
NullReceiver(a, v) ==
    a.kicker \in v.visible /\ a.kicked /\ a.receive = "null" /\ AsksReceiver(a, v)

\* After the kick, the receiver gets a new action in each cycle.
Receives(a, v) ==
    IF a.kicked /\ a.receiver \in Waiting(a, v)
    THEN [a EXCEPT !.receive = IF v.caught THEN "caught" ELSE "made"]
    ELSE a

\* The ball has been kicked.
AwaitReceiver(a, v) ==
    [a EXCEPT !.received = IF AsksReceiver(a, v) THEN a.receive = "caught" ELSE TRUE]

\* Mutant for KickedHasReceiver: the receiver is not chosen after the kick.
KickToChosen(a, v) ==
    [a EXCEPT !.receiver = IF Waiting(a, v) = {} \/ a.kick.finished THEN @ ELSE v.nearest,
              !.kicked = a.kick.finished,
              !.kick = ExecuteKick(a.kick, v)]

\* The kick; whether the one before has succeeded is asked first.
KickToReceiver(a, v) ==
    [a EXCEPT !.receiver = IF Waiting(a, v) = {} THEN @ ELSE v.nearest,
              !.kicked = a.kick.finished,
              !.kick = ExecuteKick(a.kick, v)]

\* Mutant for StartsOnSignal: being in place is enough.
KickWhenPlaced(a) == a.placed

MayKick(a) == a.placed /\ a.start

\* execute(), and then that of the actions
ExecuteKickOff(a, v) ==
    IF a.kicker \notin v.visible THEN a
    ELSE LET b == IF a.kicked THEN AwaitReceiver(a, v)
                  ELSE IF MayKick(a) THEN KickToReceiver(a, v)
                  ELSE [a EXCEPT !.placed = v.placed]
         IN [Receives(b, v) EXCEPT !.alone = Waiting(a, v) = {}]

\* Does the kicker's command kick, if the command before did so? A robot that
\* gets no command keeps the one it has.
KickOffKicks(a, v, before) ==
    IF a.kicker \notin v.visible THEN before
    ELSE ~a.kicked /\ MayKick(a) /\ CommandsKick(a.kick, v)
=============================================================================
