------------------------------ MODULE Captain -------------------------------
(***************************************************************************)
(* captain::first: follows the referee's commands and chooses, in every    *)
(* cycle of the game, the formation that the team plays.                   *)
(*                                                                         *)
(* detail::state turns a command into a situation, which does not depend   *)
(* on colors any more.  "normal_start" is the only command whose meaning   *)
(* depends on the situation before.  A formation is made when the          *)
(* situation changes; some are made anew in every cycle, and the plays     *)
(* turn into steady when they have finished or have taken too long.        *)
(*                                                                         *)
(* A cycle works on copies of the referee's message and of the world, so   *)
(* nothing else happens between captain::execute() and the execute() of    *)
(* the formation (running).  Time is counted in ticks up to TimeBound.     *)
(***************************************************************************)
EXTENDS Integers

CONSTANTS
    Color,         \* team colors
    TeamColor,     \* ours
    NoTeam,        \* the team of a command that is meant for both
    Position,      \* places for the ball that the referee may designate
    Place,         \* places of the ball that are more than 200 mm apart
    Nothing,       \* nullptr, or no value
    Samples,       \* the length of past_ball_
    KickedTime,    \* how long a defense waits after the kick
    KickoffTime,   \* how long a kickoff may take
    PenaltyTime,   \* how long a penalty may take
    SetplayTime,   \* how long a setplay may take
    TimeBound      \* ticks are counted up to here

ASSUME CaptainAssumption ==
    /\ TeamColor \in Color
    /\ NoTeam \notin Color
    /\ Nothing \notin Position \cup Place
    /\ Samples \in Nat \ {0}
    /\ {KickedTime, KickoffTime, PenaltyTime, SetplayTime} \subseteq 0 .. TimeBound - 1
    /\ TimeBound \in Nat

VARIABLES
    refbox,      \* the value of updater::refbox
    situation,   \* state_.current_situation_
    formation,   \* current_formation_
    prevTarget,  \* prev_abp_target_
    elapsed,     \* the time since situation_changed_time_
    ball,        \* where the world model's ball is
    running,     \* has captain::execute() returned the formation of this cycle?
    prepared     \* history: the last command that was not "normal_start"

vars == <<refbox, situation, formation, prevTarget, elapsed, ball, running, prepared>>

-----------------------------------------------------------------------------
(* The referee's commands and the situations they lead to                  *)

Command ==
    [name : {"halt", "stop", "normal_start", "force_start"}, team : {NoTeam}]
    \cup
    [name : {"prepare_kickoff", "prepare_penalty", "direct_free", "indirect_free",
             "timeout", "ball_placement"}, team : Color]

Stage == {"penalty_shootout", "other"}

Placements == {"ball_placement", "ball_placement_enemy"}

\* Mutant for StartsWhatWasPrepared: normal_start turns a defense into an attack.
StartsDefense ==
    [kickoff_attack   |-> "kickoff_attack_start",
     kickoff_defense  |-> "kickoff_attack_start",
     penalty_attack   |-> "penalty_attack_start",
     shootout_attack  |-> "shootout_attack_start",
     shootout_defense |-> "shootout_defense_start"]

\* What normal_start makes of a situation; it leaves the others alone.
Started ==
    [kickoff_attack   |-> "kickoff_attack_start",
     penalty_attack   |-> "penalty_attack_start",
     shootout_attack  |-> "shootout_attack_start",
     shootout_defense |-> "shootout_defense_start"]

NextSituation(prev, stage, c) ==
    LET Side(attack, defense) == IF c.team = TeamColor THEN attack ELSE defense
    IN CASE c.name \in {"halt", "stop", "force_start", "timeout"} -> c.name
         [] c.name = "prepare_kickoff" -> Side("kickoff_attack", "kickoff_defense")
         [] c.name = "prepare_penalty" ->
              IF stage = "penalty_shootout"
              THEN Side("shootout_attack", "shootout_defense")
              ELSE Side("penalty_attack", "penalty_defense")
         [] c.name = "normal_start" ->
              IF prev \in DOMAIN Started THEN Started[prev] ELSE prev
         [] c.name \in {"direct_free", "indirect_free"} ->
              Side("setplay_attack", "setplay_defense")
         [] c.name = "ball_placement" ->
              Side("ball_placement", "ball_placement_enemy")

-----------------------------------------------------------------------------
(* Formations                                                              *)

\* The formation that is made when a situation is entered.
Kind ==
    [halt                   |-> "halt",
     stop                   |-> "stopgame",
     force_start            |-> "steady",
     kickoff_attack         |-> "kickoff_attack",
     kickoff_attack_start   |-> "kickoff_attack",
     kickoff_defense        |-> "kickoff_defense",
     penalty_attack         |-> "penalty_attack",
     penalty_attack_start   |-> "penalty_attack",
     penalty_defense        |-> "penalty_defense",
     shootout_attack        |-> "stopgame",
     shootout_attack_start  |-> "shootout_attack",
     shootout_defense       |-> "shootout_defense",
     shootout_defense_start |-> "shootout_defense",
     setplay_attack         |-> "setplay_attack",
     setplay_defense        |-> "setplay_defense",
     ball_placement         |-> "ball_placement",
     ball_placement_enemy   |-> "ball_placement",
     timeout                |-> "timeout",
     unknown                |-> "halt"]

Situation == DOMAIN Kind

\* Formations that watch the ball for the opponent's kick.
Watching == {"kickoff_defense", "penalty_defense", "setplay_defense"}

\* Plays of ours that begin with normal_start, and those that need no start.
StartedPlays == {"kickoff_attack_start", "penalty_attack_start"}

\* start is is_start_, active is is_active_, target is abp_target_, origin is
\* previous_ball_; far counts the latest elements of past_ball_ that are away
\* from origin, and since is the time since kicked_time_.
FormationType ==
    [kind     : {Kind[s] : s \in Situation},
     start    : BOOLEAN,
     active   : BOOLEAN,
     target   : Position \cup {Nothing},
     origin   : Place \cup {Nothing},
     far      : 0 .. Samples,
     kicked   : BOOLEAN,
     since    : 0 .. TimeBound,
     finished : BOOLEAN]

ASSUME NothingAssumption == Nothing \notin Command \cup FormationType

Make(kind) ==
    [kind |-> kind, start |-> FALSE, active |-> FALSE, target |-> Nothing,
     origin |-> IF kind \in Watching THEN ball ELSE Nothing,
     far |-> 0, kicked |-> FALSE, since |-> 0, finished |-> FALSE]

\* Mutant for FormationFits: the kickoff is made as if it were not to start.
FreshKickoff(s) ==
    [Make(Kind[s]) EXCEPT
        !.start = s = "penalty_attack_start",
        !.active = s = "ball_placement",
        !.target = IF s \in Placements THEN refbox.position ELSE Nothing]

\* The formation that a handler makes for situation s.
Fresh(s) ==
    [Make(Kind[s]) EXCEPT
        !.start = s \in StartedPlays,
        !.active = s = "ball_placement",
        !.target = IF s \in Placements THEN refbox.position ELSE Nothing]

-----------------------------------------------------------------------------
(* captain::execute()                                                      *)

Never == -1   \* elapsed, before situation_changed_time_ is set

\* Mutant for AttackEnds: the time is taken in every cycle.
TimeAnew(changed) == 0

\* The new time since situation_changed_time_.
TimeSince(changed) == IF changed THEN 0 ELSE elapsed

\* Situations whose handler makes a new formation in every cycle.
EveryCycle == {"stop", "shootout_attack", "shootout_defense"}

\* Mutant for SetBeforeUse: the target is remembered from the second cycle on.
RememberLater(s) == prevTarget

\* The handlers of ball placements remember the target.
Remember(s) == IF s \in Placements THEN refbox.position ELSE prevTarget

\* make_formation() in the handler of a situation that was entered, or whose
\* handler makes its formation anew in every cycle.
MakeFormation(s, changed) ==
    /\ s # "shootout_defense_start"
    /\ changed \/ s \in EveryCycle
    /\ formation' = Fresh(s)
    /\ prevTarget' = Remember(s)

\* Mutant for ObeysReferee: the target is that of the first message.
PlaceOnce(s, changed) ==
    /\ s \in Placements
    /\ ~changed
    /\ prevTarget' = refbox.position
    /\ UNCHANGED formation

\* The two handlers of ball placements, in a situation that lasts.
ContinuePlacement(s, changed) ==
    /\ s \in Placements
    /\ ~changed
    /\ formation' = IF formation = Nothing \/ refbox.position # prevTarget
                    THEN Fresh(s) ELSE formation
    /\ prevTarget' = refbox.position

\* shootout_defense_start(): start the formation that has waited.
StartShootoutDefense(s) ==
    /\ s = "shootout_defense_start"
    /\ formation' = IF formation # Nothing /\ formation.kind = "shootout_defense"
                    THEN [formation EXCEPT !.start = TRUE]
                    ELSE formation
    /\ UNCHANGED prevTarget

\* The play of each situation that may turn into steady, and how long it may
\* take.  A defense may take for ever.
TimeLimit ==
    [kickoff_attack_start |-> KickoffTime,
     penalty_attack_start |-> PenaltyTime,
     setplay_attack       |-> SetplayTime,
     kickoff_defense      |-> TimeBound,
     penalty_defense      |-> TimeBound,
     setplay_defense      |-> TimeBound]

Plays == DOMAIN TimeLimit

\* ..._to_steady(): done is what finished() of an attack answers, which the
\* agents decide.
ContinuePlay(s, changed, done) ==
    /\ s \in Plays
    /\ ~changed
    /\ formation' =
         IF /\ formation # Nothing
            /\ formation.kind = Kind[s]
            /\ \/ IF Kind[s] \in Watching THEN formation.finished ELSE done
               \/ elapsed > TimeLimit[s]
         THEN Make("steady") ELSE formation
    /\ UNCHANGED prevTarget

\* Situations without a handler for the cycles after the first.
KeepFormation(s, changed) ==
    /\ ~changed
    /\ s \notin Plays \cup Placements \cup EveryCycle \cup {"shootout_defense_start"}
    /\ UNCHANGED <<formation, prevTarget>>

Execute(done) ==
    LET s == NextSituation(situation, refbox.stage, refbox.command)
        changed == s # situation
    IN /\ ~running
       /\ running' = TRUE
       /\ situation' = s
       /\ elapsed' = TimeSince(changed)
       /\ prepared' = IF refbox.command.name = "normal_start"
                      THEN prepared ELSE refbox.command
       /\ \/ MakeFormation(s, changed)
          \/ ContinuePlacement(s, changed)
          \/ StartShootoutDefense(s)
          \/ ContinuePlay(s, changed, done)
          \/ KeepFormation(s, changed)
       /\ UNCHANGED <<refbox, ball>>

-----------------------------------------------------------------------------
(* execute() of the formation, as far as it decides finished()             *)

\* Mutant for TypeOK: one may count more samples than past_ball_ has.
WatchTooLong(f) ==
    LET far == IF ball = f.origin THEN 0 ELSE f.far + 1
    IN [f EXCEPT !.far = far, !.kicked = @ \/ far >= Samples]

\* Mutant for DefenseEnds: kicked_time_ is taken in every cycle.
WatchAnew(f) ==
    [f EXCEPT
        !.far = IF ball = f.origin THEN 0
                ELSE IF f.far < Samples THEN f.far + 1 ELSE Samples,
        !.kicked = @ \/ f.far = Samples,
        !.since = 0,
        !.finished = @ \/ (f.kicked /\ f.since > KickedTime)]

\* One more sample of the ball; a kick is one that is away in all of them.
Watch(f) ==
    LET far    == IF ball = f.origin THEN 0
                  ELSE IF f.far < Samples THEN f.far + 1 ELSE Samples
        kicked == f.kicked \/ far = Samples
    IN [f EXCEPT
          !.far = far,
          !.kicked = kicked,
          !.finished = \/ f.finished
                       \/ kicked /\ f.kind = "kickoff_defense"
                       \/ f.kicked /\ f.since > KickedTime]

\* Without a visible robot the defenses against penalties and setplays return
\* early.
Run(visible) ==
    /\ running
    /\ running' = FALSE
    /\ formation' =
         IF /\ formation # Nothing
            /\ formation.kind \in Watching
            /\ visible \/ formation.kind = "kickoff_defense"
         THEN Watch(formation) ELSE formation
    /\ UNCHANGED <<refbox, situation, prevTarget, elapsed, ball, prepared>>

-----------------------------------------------------------------------------
(* Between two cycles                                                      *)

\* updater::refbox::update(): a message without a position keeps the old one.
Receive(c, stage, p) ==
    /\ ~running
    /\ refbox' = [command |-> c, stage |-> stage,
                  position |-> IF p = Nothing THEN refbox.position ELSE p]
    /\ UNCHANGED <<situation, formation, prevTarget, elapsed, ball, running, prepared>>

\* The referee designates a position, if at all, when the ball is to be placed.
Designated(c) ==
    {Nothing} \cup IF c.name = "ball_placement" THEN Position ELSE {}

MoveBall(p) ==
    /\ ~running
    /\ ball' = p
    /\ UNCHANGED <<refbox, situation, formation, prevTarget, elapsed, running, prepared>>

Later(t) == IF t = TimeBound THEN t ELSE t + 1

Tick ==
    /\ ~running
    /\ elapsed' = IF elapsed = Never THEN Never ELSE Later(elapsed)
    /\ formation' = IF formation # Nothing /\ formation.kicked
                    THEN [formation EXCEPT !.since = Later(@)]
                    ELSE formation
    /\ UNCHANGED <<refbox, situation, prevTarget, ball, running, prepared>>

\* The GUI has changed the team: the game makes a new captain. prev_abp_target_
\* is not initialized (Nothing).
Reset ==
    /\ ~running
    /\ situation' = "unknown"
    /\ formation' = Nothing
    /\ prevTarget' = Nothing
    /\ elapsed' = Never
    /\ prepared' = Nothing
    /\ UNCHANGED <<refbox, ball, running>>

-----------------------------------------------------------------------------
Init ==
    /\ refbox \in [command : {[name |-> "halt", team |-> NoTeam]},
                   stage : {"other"}, position : Position]
    /\ situation = "unknown"
    /\ formation = Nothing
    /\ prevTarget = Nothing
    /\ elapsed = Never
    /\ prepared = Nothing
    /\ ball \in Place
    /\ running = FALSE

Next ==
    \/ \E done \in BOOLEAN : Execute(done)
    \/ \E visible \in BOOLEAN : Run(visible)
    \/ \E c \in Command, stage \in Stage : \E p \in Designated(c) : Receive(c, stage, p)
    \/ \E p \in Place : MoveBall(p)
    \/ Tick
    \/ Reset

Spec == Init /\ [][Next]_vars

\* The game thread runs its cycles, time passes, and in some of the cycles one
\* of our robots is visible.
Fairness ==
    /\ WF_vars(\E done \in BOOLEAN : Execute(done))
    /\ WF_vars(\E visible \in BOOLEAN : Run(visible))
    /\ SF_vars(Run(TRUE))
    /\ SF_vars(Tick)

FairSpec == Spec /\ Fairness

-----------------------------------------------------------------------------
(* Properties                                                              *)

RefboxType == [command : Command, stage : Stage, position : Position]

\* Types.
TypeOK ==
    /\ refbox \in RefboxType
    /\ situation \in Situation
    /\ formation \in FormationType \cup {Nothing}
    /\ prevTarget \in Position \cup {Nothing}
    /\ elapsed \in {Never} \cup 0 .. TimeBound
    /\ ball \in Place
    /\ running \in BOOLEAN
    /\ prepared \in Command \cup {Nothing}

\* There is a formation exactly when some situation has been entered, and it
\* is the one that first::table_ has for the situation, on its side and in its
\* state of play, or the steady one that has followed a play.
FormationFits ==
    IF situation = "unknown"
    THEN formation = Nothing
    ELSE /\ formation # Nothing
         /\ \/ /\ formation.kind = Kind[situation]
               /\ formation.start <=> situation \in StartedPlays
                                        \cup {"shootout_defense_start"}
            \/ /\ formation.kind = "steady"
               /\ ~formation.start
               /\ situation \in Plays
         /\ formation.active <=> situation = "ball_placement"

\* What our team may play under a command.
Permitted(c) ==
    LET Side(attack, defense) == IF c.team = TeamColor THEN attack ELSE defense
    IN CASE c.name = "halt" -> {"halt"}
         [] c.name = "stop" -> {"stopgame"}
         [] c.name = "force_start" -> {"steady"}
         [] c.name = "timeout" -> {"timeout"}
         [] c.name = "ball_placement" -> {"ball_placement"}
         [] c.name = "prepare_kickoff" ->
              Side({"kickoff_attack"}, {"kickoff_defense", "steady"})
         [] c.name = "prepare_penalty" ->
              Side({"penalty_attack", "stopgame"},
                   {"penalty_defense", "shootout_defense", "steady"})
         [] c.name \in {"direct_free", "indirect_free"} ->
              Side({"setplay_attack", "steady"}, {"setplay_defense", "steady"})
         [] c.name = "normal_start" -> {Kind[s] : s \in Situation}

\* In each cycle the team plays what the referee's command of that cycle
\* permits: it halts when told to, prepares its own kickoff or penalty without
\* starting it, and places the ball, if that is up to us, where the referee
\* wants it now. Only under normal_start may execute() return no formation.
ObeysReferee ==
    running =>
      /\ formation = Nothing => refbox.command.name = "normal_start"
      /\ formation # Nothing =>
           /\ formation.kind \in Permitted(refbox.command)
           /\ formation.start => refbox.command.name = "normal_start"
           /\ formation.kind = "ball_placement" =>
                /\ formation.target = refbox.position
                /\ formation.active <=> prepared.team = TeamColor

\* A play of ours starts only if the last command before normal_start was the
\* preparation of just that play, for our team.
StartsWhatWasPrepared ==
    situation \in {Started[s] : s \in DOMAIN Started} =>
      /\ prepared # Nothing
      /\ prepared.name = IF situation = "kickoff_attack_start"
                         THEN "prepare_kickoff" ELSE "prepare_penalty"
      /\ situation = "shootout_defense_start" <=> prepared.team # TeamColor

\* What has no value before the first situation is not used before: the time of
\* the change where a play may time out, the previous target where targets are
\* compared.
SetBeforeUse ==
    /\ situation \in Plays => elapsed # Never
    /\ situation \in Placements => prevTarget # Nothing

\* While the situation lasts, a play that is over does not begin again.
SteadyStays ==
    [][(formation # Nothing /\ formation.kind = "steady" /\ situation' = situation)
         => formation' = formation]_vars

\* A kickoff, penalty or setplay of ours does not go on for ever.
AttackEnds ==
    []<>~(/\ situation \in Plays
          /\ Kind[situation] \notin Watching
          /\ formation.kind = Kind[situation])

\* A defense does not go on for ever while the ball stays away from where it
\* was when the defense was formed.
DefenseEnds ==
    []<>~(/\ formation # Nothing
          /\ formation.kind \in Watching
          /\ ball # formation.origin)

\* Strengthens StartsWhatWasPrepared: what can be started has been prepared, and
\* placements have been ordered.
SituationPrepared ==
    LET Prepared(names) == prepared # Nothing /\ prepared.name \in names
    IN /\ situation \in {"kickoff_attack", "kickoff_attack_start"} =>
            Prepared({"prepare_kickoff"}) /\ prepared.team = TeamColor
       /\ situation \in {"penalty_attack", "penalty_attack_start",
                        "shootout_attack", "shootout_attack_start"} =>
            Prepared({"prepare_penalty"}) /\ prepared.team = TeamColor
       /\ situation \in {"shootout_defense", "shootout_defense_start"} =>
            Prepared({"prepare_penalty"}) /\ prepared.team # TeamColor
       /\ situation \in Placements =>
            /\ Prepared({"ball_placement"})
            /\ situation = "ball_placement" <=> prepared.team = TeamColor

\* The formation's target is the one it is compared with.
TargetRemembered ==
    situation \in Placements => formation.target = prevTarget

\* Only a formation that watches the ball has seen it kicked.
OnlyWatchersKick ==
    formation # Nothing /\ formation.kicked => formation.kind \in Watching

\* The inductive invariant.
IInv ==
    /\ TypeOK
    /\ FormationFits
    /\ SetBeforeUse
    /\ SituationPrepared
    /\ TargetRemembered
    /\ OnlyWatchersKick
    /\ ObeysReferee
=============================================================================
