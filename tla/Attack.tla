------------------------------- MODULE Attack -------------------------------
(***************************************************************************)
(* A play of ours: the formations kickoff_attack, penalty_attack,          *)
(* setplay_attack, ball_placement and steady make the agent that plays;    *)
(* the captain asks the attacks for finished() at the begin of each cycle  *)
(* and executes the formation otherwise.                                   *)
(***************************************************************************)
EXTENDS KickOff, PenaltyKick, Setplay, BallPlacement, All

VARIABLES
    agent,   \* of the formation that the captain has
    kicks    \* does the last command that this play gave its kicker, or one of
             \* the robots that place the ball, kick?

vars == <<agent, kicks>>

NoPlay == [kind |-> "none"]

\* A null pointer has been dereferenced.
Crashed == [kind |-> "crashed"]

Finished(a) ==
    CASE a.kind = "kick_off"     -> KickOffFinished(a)
      [] a.kind = "penalty_kick" -> PenaltyFinished(a)
      [] a.kind = "setplay"      -> SetplayFinished(a)
      [] a.kind \in {"placement", "steady"} -> FALSE
      [] OTHER                   -> TRUE

Init == agent = NoPlay /\ kicks = FALSE

-----------------------------------------------------------------------------
Begin(a) == agent = NoPlay /\ agent' = a /\ kicks' = FALSE

\* kickoff_attack::kickoff_attack: the next to the ball kicks, the others wait.
\* Without a visible robot it makes no agents, and execute() calls a null pointer;
\* the formation is taken to be made when there is one.
FormKickOff ==
    \E seen \in SUBSET Robot \ {{}}, start \in BOOLEAN : \E kicker \in seen :
        Begin(NewKickOff(kicker, seen \ {kicker}, start))

\* penalty_attack::penalty_attack
FormPenalty == \E start \in BOOLEAN : Begin(NewPenaltyKick(start))

\* setplay_attack::setplay_attack
FormSetplay == \E n \in Receivers, mode \in Mode : Begin(NewSetplay(n, mode))

\* ball_placement::ball_placement, for all our field robots, visible or not
FormPlacement ==
    \E ids \in SUBSET Robot, active \in BOOLEAN : Begin(NewPlacement(ids, active))

\* steady::steady. Whoever was to kick in the play before still is.
FormSteady == \E kicking \in SUBSET Robot : Begin(NewSteady(kicking))

\* The captain makes another formation: the play is over, or the referee or the
\* clock demands it.
Leave == agent \notin {NoPlay, Crashed} /\ agent' = NoPlay /\ kicks' = FALSE

\* Cycles with a view
PlayKickOff(v) ==
    /\ agent.kind = "kick_off"
    /\ ~Finished(agent)
    /\ KickOffSees(agent, v)
    /\ agent' = IF NullReceiver(agent, v) THEN Crashed ELSE ExecuteKickOff(agent, v)
    /\ kicks' = KickOffKicks(agent, v, kicks)

PlayPenalty(v) ==
    /\ agent.kind = "penalty_kick"
    /\ ~Finished(agent)
    /\ agent' = ExecutePenalty(agent, v)
    /\ kicks' = PenaltyKicks(agent, v, kicks)

PlaySetplay(v) ==
    /\ agent.kind = "setplay"
    /\ ~Finished(agent)
    /\ agent' = ExecuteSetplay(agent, v)
    /\ kicks' = SetplayKicks(agent, v, kicks)

PlayPlacement(r, v) ==
    /\ agent' = ExecutePlacement(agent, r, v)
    /\ kicks' = (Kicking(agent, r, v) # {})

PlaySteady(v) ==
    /\ agent' = ExecuteSteady(agent, v)
    /\ UNCHANGED kicks

KickOffCycle == \E v \in KickOffView : PlayKickOff(v)

PenaltyCycle == \E v \in PenaltyView : PlayPenalty(v)

SetplayCycle == agent.kind = "setplay" /\ \E v \in SetplayView(agent) : PlaySetplay(v)

PlacementCycle ==
    /\ agent.kind = "placement"
    /\ \E r \in Roles(agent) : \E v \in PlacementLooks(agent, r) : PlayPlacement(r, v)

SteadyCycle == agent.kind = "steady" /\ \E v \in SteadyView(agent) : PlaySteady(v)

\* Time passes for an agent, or for actions, that read the clock.
TickAgent ==
    /\ agent.kind = "setplay" \/ (agent.kind = "penalty_kick" /\ agent.state = "check")
    /\ agent.age < TimeBound
    /\ agent' = [agent EXCEPT !.age = @ + 1]
    /\ UNCHANGED kicks

TickPlacement ==
    /\ agent.kind = "placement"
    /\ agent' = AgePlacement(agent)
    /\ UNCHANGED kicks

TickSteady ==
    /\ agent.kind = "steady"
    /\ agent' = AgeSteady(agent)
    /\ UNCHANGED kicks

Tick == TickAgent \/ TickPlacement \/ TickSteady

Next ==
    \/ FormKickOff
    \/ FormPenalty
    \/ FormSetplay
    \/ FormPlacement
    \/ FormSteady
    \/ Leave
    \/ KickOffCycle
    \/ PenaltyCycle
    \/ SetplayCycle
    \/ PlacementCycle
    \/ SteadyCycle
    \/ Tick

Spec == Init /\ [][Next]_vars

-----------------------------------------------------------------------------
(* Cycles run and time passes; what they see is arbitrary, but in some of  *)
(* them the robots that they ask for are visible.                          *)

SeenPenalty == \E v \in PenaltyView : v.keeper /\ v.visible /\ PlayPenalty(v)

FairSpec ==
    Spec /\ WF_vars(SetplayCycle \/ SteadyCycle) /\ SF_vars(SeenPenalty) /\ SF_vars(Tick)

(* Fairness of the field, for plays whose robots do as they are told.  A   *)
(* play works for one thing at a time; as long as it comes back to that,   *)
(* there are cycles in which it has been reached.  In between, and in what *)
(* these cycles see besides, the enemy and the noise do as they like.      *)
(* Things of different plays go by the same name.                          *)

Phases == {"place", "set", "move", "rotate", "wait", "kick"}

KickPhase(k) ==
    CASE kicks                       -> "wait"
      [] ~kicks /\ k.state = "kick"  -> "kick"
      [] ~kicks /\ k.state # "kick"  -> "rotate"

PlacePhase(a) ==
    IF a.chaser = Nobody THEN "set"
    ELSE LET s == a.place[a.chaser].state
         IN CASE s = "hold"  -> "rotate"
              [] s = "leave" -> "kick"
              [] OTHER       -> s

Phase(a) ==
    CASE a.kind = "kick_off" /\ a.kicked                -> "move"
      [] a.kind = "kick_off" /\ ~a.kicked /\ MayKick(a)  -> KickPhase(a.kick)
      [] a.kind = "kick_off" /\ ~a.kicked /\ ~MayKick(a) -> "place"
      [] a.kind = "penalty_kick" -> IF a.state = "wait" THEN "place" ELSE a.turn.state
      [] a.kind = "setplay" -> IF a.state = "receive" THEN "move" ELSE KickPhase(a.kick)
      [] a.kind = "placement" -> PlacePhase(a)
      [] OTHER -> "none"

Hit == {IF kicks THEN "fast" ELSE "still"}

ReachKickOff ==
    \E v \in [visible : {Robot}, ball : Hit, range : {"near"}, aim : {"on"},
              nearest : Robot \cup {Nobody}, placed : {TRUE}, caught : {TRUE}] : PlayKickOff(v)

ReachPenalty ==
    \E v \in PenaltyView : (\A f \in DOMAIN v : v[f]) /\ PlayPenalty(v)

ReachSetplay ==
    /\ agent.kind = "setplay"
    /\ \E v \in SetplayLooks(agent, Hit, {"near"}, {"on"}) :
          /\ v.caught = (agent.state = "receive")
          /\ v.lined = (agent.state = "pass" /\ agent.mode = 1 /\ agent.far)
          /\ PlaySetplay(v)

ReachPlacement ==
    /\ agent.kind = "placement"
    /\ \E r \in Roles(agent) :
          /\ r.visible = agent.ids
          /\ r.chaser = agent.chaser \/ (agent.chaser = Nobody /\ r.chaser # Nobody)
          /\ Places(r)
          /\ LET s == agent.place[r.chaser].state
             IN \E v \in PlaceView(s) :
                   /\ v.aligned = (s = "move") /\ v.reached = (s = "hold")
                   /\ v.arrived = (s = "place") /\ ~v.slipped
                   /\ v.away = (s = "leave")
                   /\ PlayPlacement(r, v)

Reach(p) ==
    /\ Phase(agent) = p
    /\ ReachKickOff \/ ReachPenalty \/ ReachSetplay \/ ReachPlacement

CoopSpec == FairSpec /\ \A p \in Phases : SF_vars(Reach(p))

-----------------------------------------------------------------------------
(* Properties                                                              *)

\* A record of one of the agents, or none.
TypeOK ==
    /\ agent \in KickOffAgent \cup PenaltyAgent \cup SetplayAgent \cup PlacementAgent
                  \cup SteadyAgent \cup {NoPlay, Crashed}
    /\ kicks \in BOOLEAN

\* Before normal_start, the kicker of a kickoff or a penalty does not kick,
\* wherever the ball and the robots are (the start flag in kick_off.cc and
\* penalty_kick.cc).
StartsOnSignal ==
    agent.kind \in {"kick_off", "penalty_kick"} /\ kicks => agent.start

\* Who has kicked off, or passed in a setplay, is not left with a command that
\* kicks: the ball must not be touched twice, and the passer of a setplay gets no
\* command after the pass (kick.cc, setplay.cc).
TouchesOnce ==
    agent.kind \in {"kick_off", "setplay"} /\ agent.kick.finished => ~kicks

\* receive_ is asked after the kick without a check. It has been made, unless
\* no waiter was visible in the cycle before (kick_off.cc).
KickedHasReceiver ==
    agent.kind = "kick_off" /\ agent.kicked /\ ~agent.alone => agent.receive # "null"

\* The receiver whose receive_ tells that the ball has been caught, and the one
\* that get_ball_ is for, is the one that the pass goes to, through all
\* changes of the receiver (setplay.cc).
ShooterIsServed ==
    agent.kind = "setplay" /\ agent.n > 0 =>
        /\ agent.receive = agent.shooter
        /\ Chasing(agent) => agent.getter = agent.shooter

\* Has a robot that the pass was to come to its place, or is the time up?
Awaited(a) ==
    \/ a.age >= PassTime
    \/ a.came = "receiver"
    \/ a.came = "earlier" /\ a.changes > 0

\* A pass is not kicked before four seconds have passed, unless the robot that it goes
\* to has been found at its place: that robot itself, or, if the receiver has been
\* changed meanwhile, one that was the receiver before. A new receiver need not be there:
\* receive_flag_ outlives the change (setplay.cc).
PassWaits ==
    agent.kind = "setplay" /\ agent.state = "pass" /\ kicks => Awaited(agent)

\* A robot that the last cycle has seen, and that is not the chaser of the placement or
\* of the steady play, has not been left with a command that kicks, however often
\* the robots vanish and change places (ball_placement.cc, all.cc).
OnlyChaserKicks ==
    /\ agent.kind = "placement" => agent.kicking \ agent.unseen \subseteq {agent.chaser}
    /\ agent.kind = "steady" => agent.kicking \cap agent.seen \subseteq {agent.chaser}

\* A robot that has placed the ball does not turn away before it has stood still for
\* the second in which the ball comes to rest: begin_ is of this wait, and not of an
\* earlier one or of a hold. Only a robot that was driven away during the wait, as
\* another was the chaser or the ball came back, may leave as soon as it is the chaser
\* again, since its second has gone on meanwhile (ball_place.cc, ball_placement.cc).
RestsBeforeLeaving ==
    agent.kind = "placement" =>
        \A r \in Robot : agent.place[r].state = "leave" =>
            agent.place[r].rest >= WaitTime \/ agent.place[r].stands = "driven"

\* A play that has been started does not go on for ever, however often the enemy
\* makes it turn to another receiver.
Started(a) ==
    \/ a.kind = "setplay"
    \/ a.kind \in {"kick_off", "penalty_kick"} /\ a.start
    \/ a.kind = "placement" /\ a.active /\ a.ids # {}

Ended(a) == Finished(a) \/ (a.kind = "placement" /\ Placed(a))

PlaysEnd == Started(agent) ~> Ended(agent)

\* A robot that is the only one to be seen gets the ball in the steady play: others that
\* were seen, or never have been, count as visible, and one of them may be the chaser,
\* but not for ever (all.cc).
ALoneRobotChases ==
    \A r \in Robot :
        <>[](agent.kind = "steady" /\ agent.seen = {r})
            => <>[](agent.kind = "steady" /\ agent.chaser = r)

\* penalty_kick.cc: "5秒経過したらキック" (kick when 5 seconds have passed).
\* The kicker does not wait for ever, wherever its action turns.
PenaltyInTime ==
    (agent.kind = "penalty_kick" /\ agent.state = "check")
        ~> ~(agent.kind = "penalty_kick" /\ agent.state = "check")
=============================================================================
