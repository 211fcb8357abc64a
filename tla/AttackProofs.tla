---------------------------- MODULE AttackProofs ----------------------------
(***************************************************************************)
(* Whatever the cycles see: no kick before the signal, no second touch, a  *)
(* receiver for whoever has kicked off, the pass goes where it is expected *)
(* and waits until a receiver has come to its place; of those who place    *)
(* the ball, or play when nothing else is to be done, only the chaser      *)
(* kicks, and who places the ball, and stays there, lets it come to rest.  *)
(***************************************************************************)
EXTENDS Attack, TLAPS

\* What keeps the invariant, of each agent and its kicker's last command.

KickOffOK(a, k) ==
    /\ k => a.start
    /\ a.kick.finished => ~k
    /\ a.kicked /\ ~a.alone => a.receive # "null"

PenaltyOK(a, k) ==
    /\ k => a.start
    /\ a.state # "wait" => a.start

SetplayOK(a, k) ==
    /\ a.kick.finished => ~k
    /\ a.n > 0 => a.receive = a.shooter
    /\ a.n > 0 /\ Chasing(a) => a.getter = a.shooter
    /\ a.ready \/ (a.state = "pass" /\ k) => Awaited(a)
    /\ a.n > 0 /\ a.state = "setup" => ~k

\* Once wait_flag_ is cleared, the robot has been told to stand still, and begin_ is
\* not older than that.
PlaceOK(b) ==
    /\ b.state = "wait" /\ ~b.fresh =>
          \/ b.stands = "driven"
          \/ b.stands = "still" /\ b.age <= b.rest
    /\ b.state = "leave" => b.rest >= WaitTime \/ b.stands = "driven"

PlacementOK(a) ==
    /\ a.kicking \ a.unseen \subseteq {a.chaser}
    /\ \A r \in Robot : PlaceOK(a.place[r])

SteadyOK(a) == a.kicking \cap a.seen \subseteq {a.chaser}

\* The inductive invariant: a penalty is not left waiting before the signal, a
\* setplay's first cycle finds a kicker that does not kick, receive_flag_ is not set
\* before someone has come or the time is up, and begin_ is of the wait that is
\* read with it.
IInv ==
    /\ TypeOK
    /\ agent.kind = "kick_off" => KickOffOK(agent, kicks)
    /\ agent.kind = "penalty_kick" => PenaltyOK(agent, kicks)
    /\ agent.kind = "setplay" => SetplayOK(agent, kicks)
    /\ agent.kind = "placement" => PlacementOK(agent)
    /\ agent.kind = "steady" => SteadyOK(agent)

-----------------------------------------------------------------------------
(* The actions *)

\* A kick that comes out finished has not commanded to kick.
LEMMA KickStep ==
    ASSUME NEW k \in Kick, NEW v, v.range \in Range, v.aim \in Aim
    PROVE  /\ ExecuteKick(k, v) \in Kick
           /\ ExecuteKick(k, v).finished => ~CommandsKick(k, v)
<1>1. KickState(k, v) \in {"move", "round", "kick"}
  BY DEF KickState, Kick, Range, Aim
<1> QED BY <1>1 DEF ExecuteKick, CommandsKick, KickOver, Kick

LEMMA TurnKickStep ==
    ASSUME NEW t \in TurnKick, NEW v
    PROVE  ExecuteTurnKick(t, v) \in TurnKick
BY DEF ExecuteTurnKick, TurnKick

-----------------------------------------------------------------------------
(* kick_off *)

LEMMA KickOffNew ==
    ASSUME NEW kicker \in Robot, NEW w \in SUBSET Robot, NEW start \in BOOLEAN
    PROVE  /\ NewKickOff(kicker, w, start) \in KickOffAgent
           /\ KickOffOK(NewKickOff(kicker, w, start), FALSE)
BY DEF NewKickOff, KickOffAgent, KickOffOK, NewKick, Kick

LEMMA KickOffStep ==
    ASSUME NEW a \in KickOffAgent, NEW k \in BOOLEAN, KickOffOK(a, k),
           NEW v \in KickOffView, KickOffSees(a, v), ~NullReceiver(a, v)
    PROVE  /\ ExecuteKickOff(a, v) \in KickOffAgent
           /\ KickOffKicks(a, v, k) \in BOOLEAN
           /\ KickOffOK(ExecuteKickOff(a, v), KickOffKicks(a, v, k))
<1>1. CASE a.kicker \notin v.visible
  BY <1>1 DEF ExecuteKickOff, KickOffKicks
<1>2. CASE a.kicker \in v.visible /\ a.kicked
  <2> DEFINE b == AwaitReceiver(a, v)
  <2>1. b \in KickOffAgent /\ b.start = a.start /\ b.kick = a.kick /\ b.kicked = a.kicked
        /\ b.receive = a.receive /\ b.receiver = a.receiver
    BY <1>2 DEF AwaitReceiver, KickOffAgent
  <2>2. ExecuteKickOff(a, v) = [Receives(b, v) EXCEPT !.alone = Waiting(a, v) = {}]
    BY <1>2 DEF ExecuteKickOff
  <2>3. KickOffKicks(a, v, k) = FALSE
    BY <1>2 DEF KickOffKicks
  <2>4. a.receive = "null" => Waiting(a, v) = {}
    BY <1>2 DEF NullReceiver, AsksReceiver
  <2> HIDE DEF b
  <2> QED BY <1>2, <2>1, <2>2, <2>3, <2>4 DEF Receives, KickOffOK, KickOffAgent
<1>3. CASE a.kicker \in v.visible /\ ~a.kicked /\ MayKick(a)
  <2> DEFINE b == KickToReceiver(a, v)
  <2>1. /\ ExecuteKick(a.kick, v) \in Kick
        /\ ExecuteKick(a.kick, v).finished => ~CommandsKick(a.kick, v)
    BY KickStep DEF KickOffAgent, KickOffView
  <2>2. /\ b \in KickOffAgent
        /\ b.start = a.start
        /\ b.kick = ExecuteKick(a.kick, v)
        /\ b.waiters = a.waiters
        /\ Waiting(a, v) # {} => b.receiver \in Waiting(a, v)
    BY <2>1 DEF KickToReceiver, KickOffAgent, KickOffView, KickOffSees, Kick
  <2>3. ExecuteKickOff(a, v) = [Receives(b, v) EXCEPT !.alone = Waiting(a, v) = {}]
    BY <1>3 DEF ExecuteKickOff
  <2>4. KickOffKicks(a, v, k) = CommandsKick(a.kick, v)
    BY <1>3 DEF KickOffKicks, MayKick, CommandsKick
  <2>5. a.start /\ CommandsKick(a.kick, v) \in BOOLEAN
    BY <1>3 DEF MayKick, CommandsKick
  <2>6. Waiting(b, v) = Waiting(a, v)
    BY <2>2 DEF Waiting
  <2>7. /\ Receives(b, v) \in KickOffAgent
        /\ Receives(b, v).start = a.start
        /\ Receives(b, v).kick = b.kick
        /\ Waiting(a, v) # {} /\ Receives(b, v).kicked => Receives(b, v).receive # "null"
    <3> HIDE DEF b
    <3> QED BY <2>2, <2>6 DEF Receives, KickOffAgent
  <2> DEFINE c == Receives(b, v)
  <2> HIDE DEF b, c
  <2> DEFINE d == [c EXCEPT !.alone = Waiting(a, v) = {}]
  <2>8. /\ d \in KickOffAgent
        /\ d.start = c.start /\ d.kick = c.kick /\ d.kicked = c.kicked
        /\ d.receive = c.receive
        /\ ~d.alone => Waiting(a, v) # {}
    BY <2>7 DEF KickOffAgent, c
  <2>9. ExecuteKickOff(a, v) = d
    BY <2>3 DEF c
  <2> HIDE DEF d
  <2>10. KickOffOK(d, CommandsKick(a.kick, v))
    BY <2>1, <2>2, <2>5, <2>7, <2>8 DEF KickOffOK, c
  <2> QED BY <2>4, <2>5, <2>8, <2>9, <2>10
<1>4. CASE a.kicker \in v.visible /\ ~a.kicked /\ ~MayKick(a)
  <2> DEFINE b == [a EXCEPT !.placed = v.placed]
  <2>1. b \in KickOffAgent /\ b.start = a.start /\ b.kick = a.kick /\ ~b.kicked
    BY <1>4 DEF KickOffAgent, KickOffView
  <2>2. ExecuteKickOff(a, v) = [b EXCEPT !.alone = Waiting(a, v) = {}]
    BY <1>4, <2>1 DEF ExecuteKickOff, Receives
  <2>3. KickOffKicks(a, v, k) = FALSE
    BY <1>4 DEF KickOffKicks
  <2> HIDE DEF b
  <2> QED BY <2>1, <2>2, <2>3 DEF KickOffOK, KickOffAgent
<1> QED BY <1>1, <1>2, <1>3, <1>4

-----------------------------------------------------------------------------
(* penalty_kick *)

LEMMA PenaltyNew ==
    ASSUME NEW start \in BOOLEAN
    PROVE  /\ NewPenaltyKick(start) \in PenaltyAgent
           /\ PenaltyOK(NewPenaltyKick(start), FALSE)
BY TimeAssumption DEF NewPenaltyKick, PenaltyAgent, PenaltyOK, NewTurnKick, TurnKick

LEMMA PenaltyStep ==
    ASSUME NEW a \in PenaltyAgent, NEW k \in BOOLEAN, PenaltyOK(a, k), NEW v \in PenaltyView
    PROVE  /\ ExecutePenalty(a, v) \in PenaltyAgent
           /\ PenaltyKicks(a, v, k) \in BOOLEAN
           /\ PenaltyOK(ExecutePenalty(a, v), PenaltyKicks(a, v, k))
<1>1. CASE ~(v.keeper /\ v.visible)
  BY <1>1 DEF ExecutePenalty, PenaltyKicks
<1>2. CASE v.keeper /\ v.visible /\ a.state = "wait"
  <2>1. ExecutePenalty(a, v) = WaitForStart(a, v) /\ PenaltyKicks(a, v, k) = FALSE
    BY <1>2 DEF ExecutePenalty, PenaltyKicks
  <2>2. WaitForStart(a, v) \in PenaltyAgent
    <3>1. 0 \in 0 .. TimeBound
      BY TimeAssumption
    <3>2. CASE a.start /\ a.placed
      BY <3>1, <3>2 DEF WaitForStart, PenaltyAgent, PenaltyView
    <3>3. CASE ~(a.start /\ a.placed)
      BY <3>3 DEF WaitForStart, PenaltyAgent, PenaltyView
    <3> QED BY <3>2, <3>3
  <2>3. /\ WaitForStart(a, v).start = a.start
        /\ WaitForStart(a, v).state # "wait" => a.start
    BY <1>2 DEF WaitForStart, PenaltyAgent
  <2> QED BY <2>1, <2>2, <2>3 DEF PenaltyOK
<1>3. CASE v.keeper /\ v.visible /\ a.state = "check"
  <2>1. ExecutePenalty(a, v) = Check(a, v) /\ PenaltyKicks(a, v, k) \in BOOLEAN
    BY <1>3 DEF ExecutePenalty, PenaltyKicks
  <2>2. ExecuteTurnKick(a.turn, v) \in TurnKick
    BY TurnKickStep DEF PenaltyAgent
  <2> QED BY <1>3, <2>1, <2>2 DEF Check, PenaltyAgent, PenaltyOK
<1>4. CASE v.keeper /\ v.visible /\ a.state = "kick"
  <2>1. ExecutePenalty(a, v) = KickPenalty(a, v) /\ PenaltyKicks(a, v, k) \in BOOLEAN
    BY <1>4 DEF ExecutePenalty, PenaltyKicks
  <2>2. [a.turn EXCEPT !.kick = TRUE] \in TurnKick
    BY DEF PenaltyAgent, TurnKick
  <2>3. ExecuteTurnKick([a.turn EXCEPT !.kick = TRUE], v) \in TurnKick
    BY <2>2, TurnKickStep
  <2> QED BY <1>4, <2>1, <2>3 DEF KickPenalty, PenaltyAgent, PenaltyOK
<1>5. a.state \in {"wait", "check", "kick"}
  BY DEF PenaltyAgent
<1> QED BY <1>1, <1>2, <1>3, <1>4, <1>5

-----------------------------------------------------------------------------
(* setplay *)

LEMMA SetplayNew ==
    ASSUME NEW n \in Nat, NEW mode \in Mode
    PROVE  /\ NewSetplay(n, mode) \in SetplayAgent
           /\ SetplayOK(NewSetplay(n, mode), FALSE)
<1>1. 0 \in 0 .. TimeBound /\ 0 \in 0 .. MaxChanges
  BY TimeAssumption, SetplayAssumption
<1> QED BY <1>1 DEF NewSetplay, SetplayAgent, SetplayOK, Chasing, NewKick, Kick

\* Before a cycle acts, its state may have changed.
LEMMA JudgedFacts ==
    ASSUME NEW a \in SetplayAgent, NEW k \in BOOLEAN, SetplayOK(a, k), NEW v
    PROVE  /\ Judged(a, v) \in SetplayAgent
           /\ SetplayOK(Judged(a, v), k)
           /\ Judged(a, v).state = "pass" => a.state = "pass"
<1> DEFINE b == Judge(a, v)
<1>1. /\ b \in SetplayAgent
      /\ SetplayOK(b, k)
      /\ b.state = "pass" => a.state = "pass"
      /\ b.state = "shoot" => a.state = "shoot"
  <2>1. CASE ~Chasing(a)
    BY <2>1 DEF Judge, Chasing
  <2>2. CASE Chasing(a)
    BY <2>2 DEF Judge, Chasing, SetplayAgent, SetplayOK, Awaited
  <2> QED BY <2>1, <2>2
<1>2. Judged(a, v) = AfterKick(b)
  BY DEF Judged
<1> HIDE DEF b
<1>3. CASE b.kick.finished /\ b.state = "pass"
  <2> DEFINE c == [b EXCEPT !.state = "receive", !.getter = b.shooter]
  <2>1. Judged(a, v) = c
    BY <1>1, <1>2, <1>3 DEF AfterKick, SetplayAgent
  <2>2. /\ c \in SetplayAgent
        /\ c.state = "receive" /\ c.getter = c.shooter
        /\ c.kick = b.kick /\ c.n = b.n /\ c.receive = b.receive /\ c.shooter = b.shooter
        /\ c.ready = b.ready /\ c.came = b.came
        /\ c.changes = b.changes /\ c.age = b.age
    BY <1>1 DEF SetplayAgent
  <2> HIDE DEF c
  <2> QED BY <1>1, <2>1, <2>2 DEF SetplayOK, Awaited
<1>4. CASE b.kick.finished /\ b.state = "shoot"
  BY <1>1, <1>2, <1>4 DEF AfterKick, SetplayAgent, SetplayOK, Chasing, Awaited
<1>5. CASE ~(b.kick.finished /\ b.state \in {"pass", "shoot"})
  BY <1>1, <1>2, <1>5 DEF AfterKick
<1> QED BY <1>3, <1>4, <1>5

\* Whatever receiver is chosen, receive_ is that one's.
LEMMA AimedFacts ==
    ASSUME NEW a \in SetplayAgent, NEW v, v.best \in Nat
    PROVE  LET b == Aimed(a, v)
           IN  /\ b \in SetplayAgent
               /\ b.n = a.n /\ b.state = a.state /\ b.ready = a.ready
               /\ a.receive = a.shooter => b.receive = b.shooter
               /\ Awaited(a) => Awaited(b)
<1> DEFINE c == Choose(a, v)
<1>1. /\ c \in SetplayAgent
      /\ c.n = a.n /\ c.state = a.state /\ c.ready = a.ready
      /\ a.receive = a.shooter => c.receive = c.shooter
      /\ Awaited(a) => Awaited(c)
  <2>1. CASE a.changes < MaxChanges /\ Better(a, v)
    <3>1. a.changes + 1 \in 0 .. MaxChanges
      BY <2>1, SetplayAssumption DEF SetplayAgent
    <3>2. NewKick \in Kick
      BY DEF NewKick, Kick
    <3>3. /\ Handed(a) \in {"nobody", "earlier"}
          /\ a.came \in {"earlier", "receiver"} => Handed(a) = "earlier"
      BY DEF Handed, SetplayAgent
    <3>4. a.changes + 1 > 0
      BY DEF SetplayAgent
    <3> QED BY <2>1, <3>1, <3>2, <3>3, <3>4 DEF Choose, SetplayAgent, Awaited
  <2>2. CASE ~(a.changes < MaxChanges /\ Better(a, v))
    BY <2>2 DEF Choose
  <2> QED BY <2>1, <2>2
<1>2. Aimed(a, v) = Chip(c, v)
  BY DEF Aimed
<1> HIDE DEF c
<1>3. /\ Chip(c, v) \in SetplayAgent
      /\ Chip(c, v).n = c.n /\ Chip(c, v).state = c.state /\ Chip(c, v).ready = c.ready
      /\ c.receive = c.shooter => Chip(c, v).receive = Chip(c, v).shooter
      /\ Chip(c, v).came = c.came
      /\ Chip(c, v).changes = c.changes /\ Chip(c, v).age = c.age
  BY <1>1 DEF Chip, SetplayAgent
<1> QED BY <1>1, <1>2, <1>3 DEF Awaited

LEMMA PassStep ==
    ASSUME NEW a \in SetplayAgent, NEW k \in BOOLEAN, SetplayOK(a, k), a.state = "pass", a.n > 0,
           NEW v, v.best \in Nat, v.range \in Range, v.aim \in Aim,
           v.inPlace \in BOOLEAN, v.caught \in BOOLEAN
    PROVE  LET commands == CommandsKick(Aimed(a, v).kick, v) /\ ~Holds(Aimed(a, v), v)
           IN  /\ Pass(a, v) \in SetplayAgent
               /\ commands \in BOOLEAN
               /\ SetplayOK(Pass(a, v), commands)
<1> DEFINE b == Aimed(a, v)
           commands == CommandsKick(b.kick, v) /\ ~Holds(b, v)
           kick == ExecuteKick(b.kick, v)
           ready == b.ready \/ Moved(b, v)
           caught == b.caught \/ (Receiving(b, v) /\ v.caught)
           came == IF v.inPlace THEN "receiver" ELSE b.came
<1>1. /\ b \in SetplayAgent
      /\ b.n = a.n /\ b.state = "pass"
      /\ b.receive = b.shooter
      /\ b.ready => Awaited(b)
  BY AimedFacts DEF SetplayOK
<1>2. kick \in Kick /\ (kick.finished => ~CommandsKick(b.kick, v))
  BY <1>1, KickStep DEF SetplayAgent
<1>3. ready \in BOOLEAN /\ caught \in BOOLEAN
  BY <1>1 DEF Moved, Receiving, SetplayAgent
<1>4. CommandsKick(b.kick, v) /\ ~Holds(b, v) => ready
  BY <1>1 DEF Holds, CommandsKick
<1>5. commands \in BOOLEAN
  BY DEF CommandsKick
<1>6. Pass(a, v) = [b EXCEPT !.ready = ready, !.came = came, !.kick = kick,
                             !.caught = caught]
  BY <1>1 DEF Pass, SetplayAgent
<1> DEFINE p == [b EXCEPT !.ready = ready, !.came = came, !.kick = kick,
                          !.caught = caught]
<1>7. /\ p \in SetplayAgent
      /\ p.state = "pass" /\ p.n = b.n
      /\ p.receive = b.receive /\ p.shooter = b.shooter
      /\ p.kick = kick /\ p.ready = ready
      /\ p.came = came /\ p.age = b.age /\ p.changes = b.changes
  <2>1. came \in {"nobody", "earlier", "receiver"}
    BY <1>1 DEF SetplayAgent
  <2> HIDE DEF b, kick, ready, caught, came
  <2> QED BY <1>1, <1>2, <1>3, <2>1 DEF SetplayAgent
<1>8. ready => Awaited(p)
  <2>1. ready => b.ready \/ v.inPlace \/ b.age >= PassTime
    BY DEF Moved
  <2>2. v.inPlace => came = "receiver"
    OBVIOUS
  <2>3. ~v.inPlace => came = b.came
    OBVIOUS
  <2> HIDE DEF p, b, kick, ready, caught, came
  <2> QED BY <1>1, <1>7, <2>1, <2>2, <2>3 DEF Awaited
<1> HIDE DEF p, b, kick, ready, caught, came
<1>9. SetplayOK(p, commands)
  BY <1>1, <1>2, <1>4, <1>7, <1>8 DEF SetplayOK, Chasing
<1> QED BY <1>5, <1>6, <1>7, <1>9 DEF p, b

LEMMA SetplayStep ==
    ASSUME NEW a \in SetplayAgent, NEW k \in BOOLEAN, SetplayOK(a, k), NEW v \in SetplayView(a)
    PROVE  /\ ExecuteSetplay(a, v) \in SetplayAgent
           /\ SetplayKicks(a, v, k) \in BOOLEAN
           /\ SetplayOK(ExecuteSetplay(a, v), SetplayKicks(a, v, k))
<1> DEFINE b == Judged(a, v)
<1>1. /\ v.best \in Nat
      /\ v.range \in Range /\ v.aim \in Aim
      /\ v.inPlace \in BOOLEAN /\ v.caught \in BOOLEAN /\ v.far \in BOOLEAN
  <2>1. \A x : Matters(x) \subseteq BOOLEAN
    BY DEF Matters
  <2>2. (IF a.state = "pass" THEN 1 .. a.n ELSE {0}) \subseteq Nat
    BY DEF SetplayAgent
  <2> QED BY <2>1, <2>2 DEF SetplayView, SetplayLooks
<1>2. b \in SetplayAgent /\ SetplayOK(b, k)
  BY JudgedFacts
<1>3. b.state \in {"setup", "pass", "receive", "shoot", "finished"} /\ b.n \in Nat
  BY <1>2 DEF SetplayAgent
<1>4. ExecuteSetplay(a, v) =
        CASE b.state = "finished" -> b
          [] b.state # "finished" /\ b.n = 0 ->
               [b EXCEPT !.state = "shoot", !.kick = ExecuteKick(@, v)]
          [] b.state = "setup" /\ b.n > 0   -> SetUp(b, v)
          [] b.state = "pass" /\ b.n > 0    -> Pass(b, v)
          [] b.state = "receive" /\ b.n > 0 -> ReceivePass(b, v)
          [] b.state = "shoot" /\ b.n > 0   -> b
  BY DEF ExecuteSetplay
<1>5. SetplayKicks(a, v, k) =
        CASE b.state # "finished" /\ b.n = 0 -> CommandsKick(b.kick, v)
          [] b.state = "pass" /\ b.n > 0 ->
               CommandsKick(Aimed(b, v).kick, v) /\ ~Holds(Aimed(b, v), v)
          [] OTHER -> k
  BY DEF SetplayKicks
<1> HIDE DEF b
<1>6. CASE b.state = "finished" \/ (b.state = "shoot" /\ b.n > 0)
  BY <1>2, <1>4, <1>5, <1>6
<1>7. CASE b.state # "finished" /\ b.n = 0
  <2>1. /\ ExecuteKick(b.kick, v) \in Kick
        /\ ExecuteKick(b.kick, v).finished => ~CommandsKick(b.kick, v)
    BY <1>1, <1>2, KickStep DEF SetplayAgent
  <2>2. ExecuteSetplay(a, v) = [b EXCEPT !.state = "shoot", !.kick = ExecuteKick(b.kick, v)]
    BY <1>2, <1>4, <1>7 DEF SetplayAgent
  <2>3. SetplayKicks(a, v, k) = CommandsKick(b.kick, v)
    BY <1>5, <1>7
  <2>4. CommandsKick(b.kick, v) \in BOOLEAN
    BY DEF CommandsKick
  <2> DEFINE c == [b EXCEPT !.state = "shoot", !.kick = ExecuteKick(b.kick, v)]
  <2>5. /\ c \in SetplayAgent
        /\ c.state = "shoot" /\ c.n = b.n /\ c.kick = ExecuteKick(b.kick, v)
        /\ c.ready = b.ready /\ c.came = b.came
        /\ c.changes = b.changes /\ c.age = b.age
    BY <1>2, <2>1 DEF SetplayAgent
  <2> HIDE DEF c
  <2>6. SetplayOK(c, CommandsKick(b.kick, v))
    BY <1>2, <1>7, <2>1, <2>5 DEF SetplayOK, Awaited
  <2> QED BY <2>2, <2>3, <2>4, <2>5, <2>6 DEF c
<1>8. CASE b.state = "setup" /\ b.n > 0
  <2>1. ExecuteSetplay(a, v) = SetUp(b, v) /\ SetplayKicks(a, v, k) = k
    BY <1>4, <1>5, <1>8
  <2>2. SetUp(b, v) \in SetplayAgent
    BY <1>1, <1>2 DEF SetUp, SetplayAgent
  <2> QED BY <1>2, <1>8, <2>1, <2>2 DEF SetUp, SetplayAgent, SetplayOK, Chasing, Awaited
<1>9. CASE b.state = "pass" /\ b.n > 0
  <2>1. /\ ExecuteSetplay(a, v) = Pass(b, v)
        /\ SetplayKicks(a, v, k) =
             (CommandsKick(Aimed(b, v).kick, v) /\ ~Holds(Aimed(b, v), v))
    BY <1>4, <1>5, <1>9
  <2> QED BY <1>1, <1>2, <1>9, <2>1, PassStep
<1>10. CASE b.state = "receive" /\ b.n > 0
  <2>1. ExecuteSetplay(a, v) = ReceivePass(b, v) /\ SetplayKicks(a, v, k) = k
    BY <1>4, <1>5, <1>10
  <2> QED BY <1>1, <1>2, <1>10, <2>1 DEF ReceivePass, SetplayAgent, SetplayOK, Chasing, Awaited
<1> QED BY <1>3, <1>6, <1>7, <1>8, <1>9, <1>10

-----------------------------------------------------------------------------
(* ball_place and ball_placement *)

LEMMA PlaceStep ==
    ASSUME NEW b \in BallPlace, PlaceOK(b), NEW s, NEW v \in PlaceView(s)
    PROVE  ExecutePlace(b, v) \in BallPlace /\ PlaceOK(ExecutePlace(b, v))
<1> DEFINE n == NextPlace(b, v)
<1>1. 0 \in 0 .. TimeBound /\ WaitTime \in Nat
  BY TimeAssumption, PlacementAssumption
<1>2. v.arrived \in BOOLEAN
  BY DEF PlaceView, Matters
<1>3. /\ n \in BallPlace
      /\ n.rest = b.rest /\ n.stands = b.stands
      /\ Acting(b, v) \notin {"wait", "leave"} =>
            n.state # "leave" /\ (n.state = "wait" => n.fresh)
      /\ Acting(b, v) = "leave" => b.state = "leave" /\ n.state \in {"leave", "finished"}
      /\ Acting(b, v) = "wait" =>
            \/ b.stands = "driven"
            \/ n.age <= b.rest /\ (n.state = "leave" => b.rest >= WaitTime)
  <2>1. Acting(b, v) \in {"move", "hold", "place", "wait", "leave", "finished"}
    BY DEF Acting, BallPlace
  <2>2. Acting(b, v) # "finished" => Acting(b, v) = b.state
    BY DEF Acting
  <2>3. CASE Acting(b, v) = "finished"
    BY <2>3 DEF NextPlace, BallPlace
  <2>4. CASE Acting(b, v) = "leave"
    BY <1>1, <2>2, <2>4 DEF NextPlace, LeaveBall, BallPlace, PlaceOK
  <2>5. CASE Acting(b, v) = "wait"
    <3>1. n = RestBall(b) /\ b.state = "wait"
      BY <2>2, <2>5 DEF NextPlace
    <3> DEFINE age == IF b.fresh THEN 0 ELSE b.age
               over == age >= WaitTime
    <3>2. n = [b EXCEPT !.age = age, !.fresh = over, !.state = IF over THEN "leave" ELSE "wait"]
      BY <3>1 DEF RestBall
    <3>3. /\ age \in 0 .. TimeBound
          /\ b.stands # "driven" => age <= b.rest /\ (over => b.rest >= WaitTime)
      BY <1>1, <3>1 DEF BallPlace, PlaceOK
    <3>4. over \in BOOLEAN
      OBVIOUS
    <3> HIDE DEF n, age, over
    <3> QED BY <2>5, <3>1, <3>2, <3>3, <3>4 DEF BallPlace
  <2>6. CASE Acting(b, v) = "place"
    BY <1>2, <2>2, <2>6 DEF NextPlace, Carry, BallPlace
  <2>7. CASE Acting(b, v) = "hold"
    BY <1>1, <2>2, <2>7 DEF NextPlace, HoldBall, BallPlace
  <2>8. CASE Acting(b, v) = "move"
    BY <2>2, <2>8 DEF NextPlace, BallPlace
  <2> QED BY <2>1, <2>3, <2>4, <2>5, <2>6, <2>7, <2>8
<1> DEFINE e == ExecutePlace(b, v)
<1>4. CASE Acting(b, v) = "wait"
  <2>1. e = [n EXCEPT !.stands = IF b.stands = "no" THEN "still" ELSE b.stands]
    BY <1>3, <1>4 DEF ExecutePlace, BallPlace
  <2> HIDE DEF n, e
  <2> QED BY <1>3, <1>4, <2>1 DEF BallPlace, PlaceOK, e
<1>5. CASE Acting(b, v) = "leave" /\ n.state = "leave"
  <2>1. e = n
    BY <1>5 DEF ExecutePlace
  <2> HIDE DEF n, e
  <2> QED BY <1>3, <1>5, <2>1 DEF PlaceOK, e
<1>6. CASE ~(Acting(b, v) = "wait" \/ (Acting(b, v) = "leave" /\ n.state = "leave"))
  <2>1. e = [n EXCEPT !.stands = "no", !.rest = 0]
    BY <1>6 DEF ExecutePlace
  <2> HIDE DEF n, e
  <2> QED BY <1>1, <1>3, <1>6, <2>1 DEF BallPlace, PlaceOK, e
<1> QED BY <1>4, <1>5, <1>6

LEMMA PlaceDriven ==
    ASSUME NEW b \in BallPlace, PlaceOK(b)
    PROVE  DriveAway(b) \in BallPlace /\ PlaceOK(DriveAway(b))
<1>1. 0 \in 0 .. TimeBound
  BY TimeAssumption
<1> QED BY <1>1 DEF DriveAway, BallPlace, PlaceOK

LEMMA PlaceAge ==
    ASSUME NEW b \in BallPlace, PlaceOK(b)
    PROVE  AgePlace(b) \in BallPlace /\ PlaceOK(AgePlace(b))
<1>1. \A x \in 0 .. TimeBound : Later(x) \in 0 .. TimeBound /\ Later(x) >= x
  BY TimeAssumption DEF Later
<1>2. \A x, y \in 0 .. TimeBound : x <= y => Later(x) <= Later(y)
  BY TimeAssumption DEF Later
<1>3. b.age \in 0 .. TimeBound /\ b.rest \in 0 .. TimeBound
  BY DEF BallPlace
<1> QED BY <1>1, <1>2, <1>3 DEF AgePlace, BallPlace, PlaceOK

LEMMA PlacementNew ==
    ASSUME NEW ids \in SUBSET Robot, NEW active \in BOOLEAN
    PROVE  /\ NewPlacement(ids, active) \in PlacementAgent
           /\ PlacementOK(NewPlacement(ids, active))
<1>1. NewBallPlace \in BallPlace /\ PlaceOK(NewBallPlace)
  BY TimeAssumption DEF NewBallPlace, BallPlace, PlaceOK
<1> QED BY <1>1 DEF NewPlacement, PlacementAgent, PlacementOK

\* Whoever is visible and not the chaser gets a command without a kick.
LEMMA PlacementStep ==
    ASSUME NEW a \in PlacementAgent, PlacementOK(a),
           NEW r \in Roles(a), NEW v \in PlacementLooks(a, r)
    PROVE  /\ ExecutePlacement(a, r, v) \in PlacementAgent
           /\ PlacementOK(ExecutePlacement(a, r, v))
<1> DEFINE chaser == IF r.chaser = Nobody THEN a.chaser ELSE r.chaser
           place == PlaceActions(a, r, v)
           kicking == Kicking(a, r, v)
           unseen == kicking \ r.visible
<1>1. /\ a.ids \subseteq Robot /\ a.kicking \subseteq Robot
      /\ a.chaser \in Robot \cup {Nobody}
      /\ a.place \in [Robot -> BallPlace]
  BY DEF PlacementAgent
<1>2. /\ r.visible \subseteq r.known /\ r.known \subseteq a.ids
      /\ r.chaser \in a.ids \cup {Nobody}
      /\ r.chaser = Nobody => r.receiver = Nobody
  BY DEF Roles
<1>3. Nobody \notin r.visible
  BY <1>1, <1>2, RobotAssumption
<1>4. /\ place \in [Robot -> BallPlace]
      /\ \A q \in Robot : PlaceOK(place[q])
  <2>1. ASSUME NEW q \in Robot PROVE place[q] \in BallPlace /\ PlaceOK(place[q])
    <3>1. a.place[q] \in BallPlace /\ PlaceOK(a.place[q])
      BY <1>1 DEF PlacementOK
    <3>2. CASE Places(r) /\ q = r.chaser
      <4>1. v \in PlaceView(a.place[q].state)
        BY <3>2 DEF PlacementLooks
      <4>2. place[q] = ExecutePlace(a.place[q], v)
        BY <3>2 DEF PlaceActions
      <4> QED BY <3>1, <4>1, <4>2, PlaceStep
    <3>3. CASE ~(Places(r) /\ q = r.chaser) /\ q \in Commanded(r)
      <4>1. place[q] = DriveAway(a.place[q])
        BY <3>3 DEF PlaceActions
      <4> QED BY <3>1, <4>1, PlaceDriven
    <3>4. CASE ~(Places(r) /\ q = r.chaser) /\ q \notin Commanded(r)
      <4>1. place[q] = a.place[q]
        BY <3>4 DEF PlaceActions
      <4> QED BY <3>1, <4>1
    <3> QED BY <3>2, <3>3, <3>4
  <2> QED BY <2>1 DEF PlaceActions
<1>5. r.visible \subseteq Commanded(r)
  BY <1>2, <1>3 DEF Commanded, Waiters
<1>6. kicking \subseteq Robot /\ kicking \ unseen \subseteq {r.chaser}
  <2>1. CASE Passes(a, r, v)
    BY <1>1, <1>2, <1>5, <2>1 DEF Kicking, Passes, Places
  <2>2. CASE ~Passes(a, r, v)
    BY <1>1, <1>5, <2>2 DEF Kicking
  <2> QED BY <2>1, <2>2
<1>7. kicking \ unseen \subseteq r.visible
  OBVIOUS
<1>8. kicking \ unseen \subseteq {chaser}
  BY <1>3, <1>6, <1>7
<1>9. chaser \in Robot \cup {Nobody}
  BY <1>1, <1>2
<1>10. ExecutePlacement(a, r, v) =
         [a EXCEPT !.chaser = chaser, !.place = place, !.kicking = kicking, !.unseen = unseen]
  BY DEF ExecutePlacement, PlacementAgent
<1> HIDE DEF chaser, place, kicking, unseen
<1> DEFINE p == [a EXCEPT !.chaser = chaser, !.place = place,
                          !.kicking = kicking, !.unseen = unseen]
<1>11. /\ p.chaser = chaser /\ p.place = place
       /\ p.kicking = kicking /\ p.unseen = unseen
  BY DEF PlacementAgent
<1>12. unseen \subseteq Robot
  BY <1>6 DEF unseen
<1>13. p \in PlacementAgent
  BY <1>4, <1>6, <1>9, <1>12 DEF PlacementAgent
<1> HIDE DEF p
<1> QED BY <1>4, <1>8, <1>10, <1>11, <1>13 DEF PlacementOK, p

LEMMA PlacementAge ==
    ASSUME NEW a \in PlacementAgent, PlacementOK(a)
    PROVE  AgePlacement(a) \in PlacementAgent /\ PlacementOK(AgePlacement(a))
<1> DEFINE aged == [r \in Robot |-> AgePlace(a.place[r])]
<1>1. \A r \in Robot : a.place[r] \in BallPlace /\ PlaceOK(a.place[r])
  BY DEF PlacementAgent, PlacementOK
<1>2. \A r \in Robot : aged[r] \in BallPlace /\ PlaceOK(aged[r])
  BY <1>1, PlaceAge
<1>3. aged \in [Robot -> BallPlace]
  BY <1>2
<1>4. AgePlacement(a) = [a EXCEPT !.place = aged]
  BY DEF AgePlacement
<1> HIDE DEF aged
<1> QED BY <1>2, <1>3, <1>4 DEF PlacementAgent, PlacementOK

-----------------------------------------------------------------------------
(* all *)

LEMMA SteadyNew ==
    ASSUME NEW kicking \in SUBSET Robot
    PROVE  NewSteady(kicking) \in SteadyAgent /\ SteadyOK(NewSteady(kicking))
BY TimeAssumption DEF NewSteady, SteadyAgent, SteadyOK

\* Whoever is seen is known, and has been told.
LEMMA SteadyStep ==
    ASSUME NEW a \in SteadyAgent, NEW v \in SteadyView(a)
    PROVE  ExecuteSteady(a, v) \in SteadyAgent /\ SteadyOK(ExecuteSteady(a, v))
<1> DEFINE lost == Look(a, v.seen)
           told == Told(a, v)
           kicking == (a.kicking \ told) \cup (IF v.kicks THEN {v.chaser} ELSE {})
<1>1. 0 \in 0 .. TimeBound /\ LostTime >= 0
  BY TimeAssumption, AllAssumption
<1>2. /\ a.lost \in [Robot -> 0 .. TimeBound] /\ a.kicking \subseteq Robot
      /\ v.seen \subseteq Robot /\ v.chaser \in Robot \cup {Nobody}
      /\ v.kicks => v.chaser \in v.seen
  BY DEF SteadyAgent, SteadyView
<1>3. lost \in [Robot -> 0 .. TimeBound]
  BY <1>1, <1>2 DEF Look
<1>4. v.seen \subseteq told
  BY <1>1, <1>2 DEF Told, Known, Look
<1> HIDE DEF lost, told
<1>5. kicking \subseteq Robot /\ kicking \cap v.seen \subseteq {v.chaser}
  BY <1>2, <1>4
<1>6. ExecuteSteady(a, v) =
        [a EXCEPT !.lost = lost, !.chaser = v.chaser, !.kicking = kicking, !.seen = v.seen]
  BY DEF ExecuteSteady, SteadyAgent, lost, told
<1> HIDE DEF kicking
<1> QED BY <1>2, <1>3, <1>5, <1>6 DEF SteadyAgent, SteadyOK

LEMMA SteadyAge ==
    ASSUME NEW a \in SteadyAgent, SteadyOK(a)
    PROVE  AgeSteady(a) \in SteadyAgent /\ SteadyOK(AgeSteady(a))
<1> DEFINE lost == [r \in Robot |-> Later(a.lost[r])]
<1>1. \A x \in 0 .. TimeBound : Later(x) \in 0 .. TimeBound
  BY TimeAssumption DEF Later
<1>2. lost \in [Robot -> 0 .. TimeBound]
  BY <1>1 DEF SteadyAgent
<1>3. AgeSteady(a) = [a EXCEPT !.lost = lost]
  BY DEF AgeSteady, SteadyAgent
<1> HIDE DEF lost
<1> QED BY <1>2, <1>3 DEF SteadyAgent, SteadyOK

-----------------------------------------------------------------------------
(* The play *)

LEMMA NoAgent == NoPlay.kind = "none" /\ Crashed.kind = "crashed"
BY DEF NoPlay, Crashed

\* An agent is of its kind.
LEMMA Kinds ==
    ASSUME TypeOK
    PROVE  /\ agent.kind = "kick_off" => agent \in KickOffAgent
           /\ agent.kind = "penalty_kick" => agent \in PenaltyAgent
           /\ agent.kind = "setplay" => agent \in SetplayAgent
           /\ agent.kind = "placement" => agent \in PlacementAgent
           /\ agent.kind = "steady" => agent \in SteadyAgent
<1>1. /\ \A a \in KickOffAgent : a.kind = "kick_off"
      /\ \A a \in PenaltyAgent : a.kind = "penalty_kick"
      /\ \A a \in SetplayAgent : a.kind = "setplay"
      /\ \A a \in PlacementAgent : a.kind = "placement"
      /\ \A a \in SteadyAgent : a.kind = "steady"
  BY DEF KickOffAgent, PenaltyAgent, SetplayAgent, PlacementAgent, SteadyAgent
<1> QED BY <1>1, NoAgent DEF TypeOK

\* What keeps the invariant, of the agent and its kicker's command afterwards.
LEMMA KeepsInv ==
    /\ \A a \in KickOffAgent, k \in BOOLEAN :
          agent' = a /\ kicks' = k /\ KickOffOK(a, k) => IInv'
    /\ \A a \in PenaltyAgent, k \in BOOLEAN :
          agent' = a /\ kicks' = k /\ PenaltyOK(a, k) => IInv'
    /\ \A a \in SetplayAgent, k \in BOOLEAN :
          agent' = a /\ kicks' = k /\ SetplayOK(a, k) => IInv'
    /\ \A a \in PlacementAgent, k \in BOOLEAN :
          agent' = a /\ kicks' = k /\ PlacementOK(a) => IInv'
    /\ \A a \in SteadyAgent, k \in BOOLEAN :
          agent' = a /\ kicks' = k /\ SteadyOK(a) => IInv'
    /\ \A a \in {NoPlay, Crashed}, k \in BOOLEAN : agent' = a /\ kicks' = k => IInv'
<1>1. /\ \A a \in KickOffAgent : a.kind = "kick_off"
      /\ \A a \in PenaltyAgent : a.kind = "penalty_kick"
      /\ \A a \in SetplayAgent : a.kind = "setplay"
      /\ \A a \in PlacementAgent : a.kind = "placement"
      /\ \A a \in SteadyAgent : a.kind = "steady"
  BY DEF KickOffAgent, PenaltyAgent, SetplayAgent, PlacementAgent, SteadyAgent
<1>2. IInv' <=> /\ TypeOK'
                /\ agent'.kind = "kick_off" => KickOffOK(agent', kicks')
                /\ agent'.kind = "penalty_kick" => PenaltyOK(agent', kicks')
                /\ agent'.kind = "setplay" => SetplayOK(agent', kicks')
                /\ agent'.kind = "placement" => PlacementOK(agent')
                /\ agent'.kind = "steady" => SteadyOK(agent')
  BY DEF IInv
<1> QED BY <1>1, <1>2, NoAgent DEF TypeOK

LEMMA InitInv == Init => IInv
BY NoAgent DEF Init, IInv, TypeOK

LEMMA FormInv ==
    ASSUME FormKickOff \/ FormPenalty \/ FormSetplay \/ FormPlacement \/ FormSteady
    PROVE  IInv'
<1>1. CASE FormKickOff
  <2>1. PICK seen \in SUBSET Robot \ {{}}, start \in BOOLEAN : \E kicker \in seen :
           Begin(NewKickOff(kicker, seen \ {kicker}, start))
    BY <1>1 DEF FormKickOff
  <2>2. PICK kicker \in seen : Begin(NewKickOff(kicker, seen \ {kicker}, start))
    BY <2>1
  <2>3. kicker \in Robot /\ seen \ {kicker} \in SUBSET Robot
    BY <2>2
  <2> QED BY <2>2, <2>3, KickOffNew, KeepsInv DEF Begin
<1>2. CASE FormPenalty
  BY <1>2, PenaltyNew, KeepsInv DEF FormPenalty, Begin
<1>3. CASE FormSetplay
  BY <1>3, SetplayNew, KeepsInv, SetplayAssumption DEF FormSetplay, Begin
<1>4. CASE FormPlacement
  BY <1>4, PlacementNew, KeepsInv DEF FormPlacement, Begin
<1>5. CASE FormSteady
  BY <1>5, SteadyNew, KeepsInv DEF FormSteady, Begin
<1> QED BY <1>1, <1>2, <1>3, <1>4, <1>5

LEMMA CycleInv ==
    ASSUME IInv,
           KickOffCycle \/ PenaltyCycle \/ SetplayCycle \/ PlacementCycle \/ SteadyCycle
    PROVE  IInv'
<1>0. TypeOK /\ kicks \in BOOLEAN
  BY DEF IInv, TypeOK
<1>1. CASE KickOffCycle
  <2>1. PICK v \in KickOffView : PlayKickOff(v)
    BY <1>1 DEF KickOffCycle
  <2>2. agent \in KickOffAgent /\ KickOffOK(agent, kicks) /\ KickOffSees(agent, v)
    BY <1>0, <2>1, Kinds DEF PlayKickOff, IInv
  <2>3. CASE NullReceiver(agent, v)
    <3>1. agent' = Crashed /\ kicks' = FALSE
      BY <2>1, <2>3 DEF PlayKickOff, KickOffKicks, NullReceiver
    <3> QED BY <3>1, KeepsInv
  <2>4. CASE ~NullReceiver(agent, v)
    <3>1. agent' = ExecuteKickOff(agent, v) /\ kicks' = KickOffKicks(agent, v, kicks)
      BY <2>1, <2>4 DEF PlayKickOff
    <3> QED BY <1>0, <2>2, <2>4, <3>1, KickOffStep, KeepsInv
  <2> QED BY <2>3, <2>4
<1>2. CASE PenaltyCycle
  <2>1. PICK v \in PenaltyView : PlayPenalty(v)
    BY <1>2 DEF PenaltyCycle
  <2>2. agent \in PenaltyAgent /\ PenaltyOK(agent, kicks)
    BY <1>0, <2>1, Kinds DEF PlayPenalty, IInv
  <2> QED BY <1>0, <2>1, <2>2, PenaltyStep, KeepsInv DEF PlayPenalty
<1>3. CASE SetplayCycle
  <2>1. PICK v \in SetplayView(agent) : PlaySetplay(v)
    BY <1>3 DEF SetplayCycle
  <2>2. agent \in SetplayAgent /\ SetplayOK(agent, kicks)
    BY <1>0, <2>1, Kinds DEF PlaySetplay, IInv
  <2> QED BY <1>0, <2>1, <2>2, SetplayStep, KeepsInv DEF PlaySetplay
<1>4. CASE PlacementCycle
  <2>1. agent \in PlacementAgent /\ PlacementOK(agent)
    BY <1>0, <1>4, Kinds DEF PlacementCycle, IInv
  <2>2. PICK r \in Roles(agent) : \E v \in PlacementLooks(agent, r) : PlayPlacement(r, v)
    BY <1>4 DEF PlacementCycle
  <2>3. PICK v \in PlacementLooks(agent, r) : PlayPlacement(r, v)
    BY <2>2
  <2> QED BY <2>1, <2>3, PlacementStep, KeepsInv DEF PlayPlacement
<1>5. CASE SteadyCycle
  <2>1. agent \in SteadyAgent
    BY <1>0, <1>5, Kinds DEF SteadyCycle
  <2>2. PICK v \in SteadyView(agent) : PlaySteady(v)
    BY <1>5 DEF SteadyCycle
  <2> QED BY <1>0, <2>1, <2>2, SteadyStep, KeepsInv DEF PlaySteady
<1> QED BY <1>1, <1>2, <1>3, <1>4, <1>5

LEMMA TickAgentInv == ASSUME IInv, TickAgent PROVE IInv'
<1>0. TypeOK /\ kicks \in BOOLEAN
  BY DEF IInv, TypeOK
<1> DEFINE a == [agent EXCEPT !.age = @ + 1]
<1>1. agent' = a /\ kicks' = kicks
  BY DEF TickAgent
<1>2. CASE agent.kind = "setplay"
  <2>1. agent \in SetplayAgent /\ SetplayOK(agent, kicks)
    BY <1>0, <1>2, Kinds DEF IInv
  <2>2. agent.age + 1 \in 0 .. TimeBound
    BY <2>1, TimeAssumption DEF TickAgent, SetplayAgent
  <2>3. a \in SetplayAgent
    BY <2>1, <2>2 DEF SetplayAgent
  <2>4. SetplayOK(a, kicks)
    BY <2>1, SetplayAssumption DEF SetplayAgent, SetplayOK, Chasing, Awaited
  <2> QED BY <1>0, <1>1, <2>3, <2>4, KeepsInv
<1>3. CASE agent.kind = "penalty_kick"
  <2>1. agent \in PenaltyAgent /\ PenaltyOK(agent, kicks)
    BY <1>0, <1>3, Kinds DEF IInv
  <2>2. agent.age + 1 \in 0 .. TimeBound
    BY <2>1, TimeAssumption DEF TickAgent, PenaltyAgent
  <2>3. a \in PenaltyAgent
    BY <2>1, <2>2 DEF PenaltyAgent
  <2>4. PenaltyOK(a, kicks)
    BY <2>1 DEF PenaltyAgent, PenaltyOK
  <2> QED BY <1>0, <1>1, <2>3, <2>4, KeepsInv
<1> QED BY <1>2, <1>3 DEF TickAgent

LEMMA TickPlacementInv == ASSUME IInv, TickPlacement PROVE IInv'
<1>1. agent \in PlacementAgent /\ PlacementOK(agent) /\ kicks \in BOOLEAN
  BY Kinds DEF IInv, TickPlacement, TypeOK
<1> QED BY <1>1, PlacementAge, KeepsInv DEF TickPlacement

LEMMA TickSteadyInv == ASSUME IInv, TickSteady PROVE IInv'
<1>1. agent \in SteadyAgent /\ SteadyOK(agent) /\ kicks \in BOOLEAN
  BY Kinds DEF IInv, TickSteady, TypeOK
<1> QED BY <1>1, SteadyAge, KeepsInv DEF TickSteady

\* The invariant holds in every state of every play.
THEOREM Invariance == Spec => []IInv
<1>1. ASSUME IInv, [Next]_vars PROVE IInv'
  <2>1. CASE Leave
    BY <2>1, KeepsInv DEF Leave
  <2>2. CASE UNCHANGED vars
    BY <1>1, <2>2 DEF vars, IInv, TypeOK
  <2> QED BY <1>1, <2>1, <2>2, FormInv, CycleInv, TickAgentInv,
           TickPlacementInv, TickSteadyInv DEF Next, Tick
<1> QED BY <1>1, InitInv, PTL DEF Spec

\* Agents and commands are of their types.
THEOREM TypeCorrect == Spec => []TypeOK
BY Invariance, PTL DEF IInv

\* No kickoff and no penalty is kicked before the signal.
THEOREM Signal == Spec => []StartsOnSignal
<1>1. IInv => StartsOnSignal
  BY DEF IInv, StartsOnSignal, KickOffOK, PenaltyOK
<1> QED BY <1>1, Invariance, PTL

\* Nobody whose kick is over commands another.
THEOREM OneTouch == Spec => []TouchesOnce
<1>1. IInv => TouchesOnce
  BY DEF IInv, TouchesOnce, KickOffOK, SetplayOK
<1> QED BY <1>1, Invariance, PTL

\* After a kickoff there is a receiver, unless no waiter was visible.
THEOREM Receiver == Spec => []KickedHasReceiver
<1>1. IInv => KickedHasReceiver
  BY DEF IInv, KickedHasReceiver, KickOffOK
<1> QED BY <1>1, Invariance, PTL

\* The pass of a setplay goes to the robot whose actions wait for it.
THEOREM Served == Spec => []ShooterIsServed
<1>1. IInv => ShooterIsServed
  BY DEF IInv, ShooterIsServed, SetplayOK
<1> QED BY <1>1, Invariance, PTL

\* It is not kicked before the receiver, or an earlier one, has come to its place, or
\* the time is up.
THEOREM Waits == Spec => []PassWaits
<1>1. IInv => PassWaits
  BY DEF IInv, PassWaits, SetplayOK
<1> QED BY <1>1, Invariance, PTL

\* Whoever may be chaser or receiver, and whoever vanishes, no other robot is left with
\* a kick.
THEOREM ChaserKicks == Spec => []OnlyChaserKicks
<1>1. IInv => OnlyChaserKicks
  BY DEF IInv, OnlyChaserKicks, PlacementOK, SteadyOK
<1> QED BY <1>1, Invariance, PTL

\* Who has placed the ball, and is not driven away from it, lets it come to rest.
THEOREM Rests == Spec => []RestsBeforeLeaving
<1>1. IInv => RestsBeforeLeaving
  BY DEF IInv, RestsBeforeLeaving, PlacementOK, PlaceOK
<1> QED BY <1>1, Invariance, PTL
=============================================================================
