--------------------------- MODULE CaptainProofs ----------------------------
(***************************************************************************)
(* The captain obeys the referee, for every set of positions and places,   *)
(* any time limits and any number of samples of the ball.                  *)
(***************************************************************************)
EXTENDS Captain, TLAPS

\* What the referee's commands lead to, one by one.
LEMMA NextSituationFacts ==
    ASSUME NEW prev \in Situation, NEW stage \in Stage, NEW c \in Command
    PROVE  LET s == NextSituation(prev, stage, c)
           IN  /\ s \in Situation
               /\ c.name \in {"halt", "stop", "force_start", "timeout"} => s = c.name
               /\ c.name = "prepare_kickoff" =>
                    s = IF c.team = TeamColor THEN "kickoff_attack" ELSE "kickoff_defense"
               /\ c.name = "prepare_penalty" =>
                    IF c.team = TeamColor
                    THEN s \in {"penalty_attack", "shootout_attack"}
                    ELSE s \in {"penalty_defense", "shootout_defense"}
               /\ c.name \in {"direct_free", "indirect_free"} =>
                    s = IF c.team = TeamColor THEN "setplay_attack" ELSE "setplay_defense"
               /\ c.name = "ball_placement" =>
                    s = IF c.team = TeamColor
                        THEN "ball_placement" ELSE "ball_placement_enemy"
               /\ c.name = "normal_start" =>
                    s = IF prev \in DOMAIN Started THEN Started[prev] ELSE prev
<1>1. c.name \in {"halt", "stop", "normal_start", "force_start", "prepare_kickoff",
                  "prepare_penalty", "direct_free", "indirect_free", "timeout",
                  "ball_placement"}
  BY DEF Command
<1>2. CASE c.name = "normal_start"
  BY <1>2 DEF NextSituation, Situation, Kind, Started
<1>3. CASE c.name \in {"halt", "stop", "force_start", "timeout"}
  BY <1>3 DEF NextSituation, Situation, Kind
<1>4. CASE c.name \in {"prepare_kickoff", "ball_placement"}
  BY <1>4 DEF NextSituation, Situation, Kind
<1>5. CASE c.name \in {"prepare_penalty", "direct_free", "indirect_free"}
  BY <1>5 DEF NextSituation, Situation, Kind
<1> QED BY <1>1, <1>2, <1>3, <1>4, <1>5

\* Making a formation does not fail.
LEMMA MakeType ==
    ASSUME IInv, NEW k \in {Kind[s] : s \in Situation}
    PROVE  /\ Make(k) \in FormationType
           /\ Make(k).kind = k
           /\ ~Make(k).start
           /\ ~Make(k).active
           /\ ~Make(k).kicked
BY CaptainAssumption DEF Make, FormationType, IInv, TypeOK

\* A fresh formation fits its situation and has the current target.
LEMMA FreshFacts ==
    ASSUME IInv, NEW s \in Situation
    PROVE  /\ Fresh(s) \in FormationType
           /\ Fresh(s) # Nothing
           /\ Fresh(s).kind = Kind[s]
           /\ Fresh(s).start <=> s \in StartedPlays
           /\ Fresh(s).active <=> s = "ball_placement"
           /\ s \in Placements => Fresh(s).target = refbox.position
           /\ ~Fresh(s).kicked
<1>1. refbox.position \in Position
  BY DEF IInv, TypeOK, RefboxType
<1>2. Fresh(s) \in FormationType
  <2> DEFINE t == IF s \in Placements THEN refbox.position ELSE Nothing
             m == Make(Kind[s])
  <2>1. m \in FormationType
    BY MakeType
  <2>2. t \in Position \cup {Nothing}
    BY <1>1
  <2>3. Fresh(s) = [m EXCEPT !.start = s \in StartedPlays,
                             !.active = s = "ball_placement",
                             !.target = t]
    BY DEF Fresh
  <2>4. (s \in StartedPlays) \in BOOLEAN /\ (s = "ball_placement") \in BOOLEAN
    OBVIOUS
  <2> HIDE DEF m, t
  <2> QED BY <2>1, <2>2, <2>3, <2>4 DEF FormationType
<1>3. /\ Fresh(s).kind = Kind[s]
      /\ Fresh(s).start <=> s \in StartedPlays
      /\ Fresh(s).active <=> s = "ball_placement"
      /\ s \in Placements => Fresh(s).target = refbox.position
      /\ ~Fresh(s).kicked
  BY DEF Fresh, Make
<1> QED BY <1>2, <1>3, NothingAssumption

LEMMA InitInv == Init => IInv
<1> SUFFICES ASSUME Init PROVE IInv
  OBVIOUS
<1>1. refbox \in RefboxType
  BY DEF Init, RefboxType, Command, Stage
<1>2. TypeOK
  BY <1>1 DEF Init, TypeOK, Situation, Kind
<1> QED
  BY <1>2 DEF Init, IInv, FormationFits, SetBeforeUse, SituationPrepared,
     TargetRemembered, OnlyWatchersKick, ObeysReferee, Plays, TimeLimit, Placements

-----------------------------------------------------------------------------
(* A cycle of the captain                                                  *)

\* Whatever handler runs, the formation fits the situation that it is called
\* for, and a ball placement has the current target, which is remembered.
LEMMA HandlerFacts ==
    ASSUME IInv, NEW done \in BOOLEAN, NEW s \in Situation, NEW changed \in BOOLEAN,
           changed <=> s # situation,
           s = "unknown" => ~changed,
           s = "shootout_defense_start" =>
             situation \in {"shootout_defense", "shootout_defense_start"},
           \/ MakeFormation(s, changed)
           \/ ContinuePlacement(s, changed)
           \/ StartShootoutDefense(s)
           \/ ContinuePlay(s, changed, done)
           \/ KeepFormation(s, changed)
    PROVE  /\ formation' \in FormationType \cup {Nothing}
           /\ prevTarget' \in Position \cup {Nothing}
           /\ s = "unknown" => formation' = Nothing
           /\ s # "unknown" =>
                /\ formation' # Nothing
                /\ \/ /\ formation'.kind = Kind[s]
                      /\ formation'.start <=> s \in StartedPlays
                                               \cup {"shootout_defense_start"}
                   \/ /\ formation'.kind = "steady"
                      /\ ~formation'.start
                      /\ s \in Plays
                /\ formation'.active <=> s = "ball_placement"
                /\ formation'.kicked => formation'.kind \in Watching
           /\ s \in Placements =>
                /\ formation'.target = refbox.position
                /\ prevTarget' = refbox.position
                /\ prevTarget' # Nothing
<1>1. refbox.position \in Position /\ refbox.position # Nothing
  BY CaptainAssumption DEF IInv, TypeOK, RefboxType
<1>2. /\ formation \in FormationType \cup {Nothing}
      /\ prevTarget \in Position \cup {Nothing}
  BY DEF IInv, TypeOK
<1>3. ~changed =>
        /\ s = "unknown" => formation = Nothing
        /\ s # "unknown" =>
             /\ formation # Nothing
             /\ \/ /\ formation.kind = Kind[s]
                   /\ formation.start <=> s \in StartedPlays
                                            \cup {"shootout_defense_start"}
                \/ /\ formation.kind = "steady"
                   /\ ~formation.start
                   /\ s \in Plays
             /\ formation.active <=> s = "ball_placement"
             /\ formation.kicked => formation.kind \in Watching
        /\ s \in Placements => formation.target = prevTarget
  BY DEF IInv, FormationFits, TargetRemembered, OnlyWatchersKick
<1>4. "unknown" \notin Placements \cup Plays \cup EveryCycle
  BY DEF Placements, Plays, TimeLimit, EveryCycle
<1>5. CASE MakeFormation(s, changed)
  <2>1. s # "unknown" /\ s # "shootout_defense_start"
    BY <1>4, <1>5 DEF MakeFormation
  <2>2. formation' = Fresh(s) /\ prevTarget' = Remember(s)
    BY <1>5 DEF MakeFormation
  <2> QED BY <1>1, <1>2, <2>1, <2>2, FreshFacts DEF Remember
<1>6. CASE ContinuePlacement(s, changed)
  <2>1. s \in Placements /\ ~changed /\ s # "unknown" /\ s # "shootout_defense_start"
    BY <1>4, <1>6 DEF ContinuePlacement, Placements
  <2>2. prevTarget' = refbox.position
    BY <1>6 DEF ContinuePlacement
  <2>3. CASE formation' = Fresh(s)
    BY <1>1, <2>1, <2>2, <2>3, FreshFacts
  <2>4. CASE formation' = formation /\ refbox.position = prevTarget
    BY <1>1, <1>2, <1>3, <2>1, <2>2, <2>4
  <2> QED BY <1>6, <2>3, <2>4 DEF ContinuePlacement
<1>7. CASE StartShootoutDefense(s)
  <2>1. s = "shootout_defense_start" /\ prevTarget' = prevTarget
    BY <1>7 DEF StartShootoutDefense
  <2>2. formation # Nothing /\ formation.kind = "shootout_defense"
        /\ ~formation.active /\ ~formation.kicked
    BY <2>1, <1>2 DEF IInv, FormationFits, Kind, Plays, TimeLimit, OnlyWatchersKick, Watching
  <2>3. formation' = [formation EXCEPT !.start = TRUE]
    BY <1>7, <2>2 DEF StartShootoutDefense
  <2>4. /\ formation' \in FormationType
        /\ formation'.kind = "shootout_defense"
        /\ formation'.start
        /\ ~formation'.active
        /\ ~formation'.kicked
    BY <1>2, <2>2, <2>3 DEF FormationType
  <2>5. Kind[s] = "shootout_defense" /\ s \notin Placements /\ s # "unknown"
    BY <2>1 DEF Kind, Placements
  <2>6. formation' # Nothing
    BY <2>4, NothingAssumption
  <2> QED BY <1>2, <2>1, <2>4, <2>5, <2>6
<1>8. CASE ContinuePlay(s, changed, done)
  <2>1. s \in Plays /\ ~changed /\ s # "unknown" /\ prevTarget' = prevTarget
    BY <1>4, <1>8 DEF ContinuePlay
  <2>2. s \notin Placements /\ s # "ball_placement"
    BY <2>1 DEF Plays, TimeLimit, Placements
  <2>3. CASE formation' = formation
    BY <1>2, <1>3, <2>1, <2>2, <2>3
  <2>4. CASE formation' = Make("steady")
    <3>1. "steady" \in {Kind[x] : x \in Situation}
      <4>1. Kind["force_start"] = "steady" /\ "force_start" \in Situation
        BY DEF Kind, Situation
      <4> QED BY <4>1
    <3>2. /\ Make("steady") \in FormationType
          /\ Make("steady").kind = "steady"
          /\ ~Make("steady").start
          /\ ~Make("steady").active
          /\ ~Make("steady").kicked
      BY <3>1, MakeType
    <3> QED BY <1>2, <2>1, <2>2, <2>4, <3>2, NothingAssumption
  <2> QED BY <1>8, <2>3, <2>4 DEF ContinuePlay
<1>9. CASE KeepFormation(s, changed)
  BY <1>2, <1>3, <1>9 DEF KeepFormation
<1> QED BY <1>5, <1>6, <1>7, <1>8, <1>9

\* What a cycle returns fits the referee's command of that cycle, because it fits
\* the situation that the command leads to.
LEMMA ObedienceFacts ==
    ASSUME IInv, NEW done \in BOOLEAN, Execute(done),
           SituationPrepared', FormationFits',
           situation' \in Placements => formation'.target = refbox.position
    PROVE  ObeysReferee'
<1> DEFINE c == refbox.command
<1>1. /\ c \in Command
      /\ refbox.stage \in Stage
      /\ situation \in Situation
  BY DEF IInv, TypeOK, RefboxType
<1>2. /\ situation' = NextSituation(situation, refbox.stage, c)
      /\ refbox' = refbox
      /\ prepared' = IF c.name = "normal_start" THEN prepared ELSE c
  BY DEF Execute
<1>3. situation' \in Situation
  BY <1>1, <1>2, NextSituationFacts
<1>4. CASE c.name = "normal_start"
  <2>1. formation' # Nothing => formation'.kind \in Permitted(c)
    <3>1. formation' # Nothing => formation'.kind \in {Kind[s] : s \in Situation}
      <4>1. Kind["force_start"] = "steady" /\ "force_start" \in Situation
        BY DEF Kind, Situation
      <4> QED BY <1>3, <4>1 DEF FormationFits
    <3> QED BY <1>4, <3>1 DEF Permitted
  <2>2. formation' # Nothing /\ formation'.kind = "ball_placement" =>
          /\ situation' \in Placements
          /\ formation'.active <=> prepared'.team = TeamColor
    BY <1>3 DEF FormationFits, SituationPrepared, Kind, Situation, Placements
  <2> QED BY <1>2, <1>4, <2>1, <2>2 DEF ObeysReferee
<1>5. CASE c.name # "normal_start"
  <2>1. /\ prepared' = c
        /\ situation' # "unknown"
        /\ situation' \notin StartedPlays \cup {"shootout_defense_start"}
    BY <1>1, <1>2, <1>5, NextSituationFacts DEF Command, StartedPlays
  <2>2. formation' # Nothing /\ ~formation'.start
    BY <2>1 DEF FormationFits
  <2>3. formation'.kind = "ball_placement" =>
          /\ situation' \in Placements
          /\ formation'.active <=> c.team = TeamColor
    BY <1>3, <2>1 DEF FormationFits, SituationPrepared, Kind, Situation, Placements
  <2>4. formation'.kind \in Permitted(c)
    <3>1. \/ formation'.kind = Kind[situation']
          \/ formation'.kind = "steady" /\ situation' \in Plays
      BY <2>1 DEF FormationFits
    <3>2. CASE c.name \in {"halt", "stop", "force_start", "timeout"}
      <4>1. situation' = c.name
        BY <1>1, <1>2, <3>2, NextSituationFacts
      <4> QED BY <3>1, <3>2, <4>1 DEF Permitted, Kind, Plays, TimeLimit
    <3>3. CASE c.name = "prepare_kickoff"
      <4>1. situation' = IF c.team = TeamColor THEN "kickoff_attack" ELSE "kickoff_defense"
        BY <1>1, <1>2, <3>3, NextSituationFacts
      <4> QED BY <3>1, <3>3, <4>1 DEF Permitted, Kind, Plays, TimeLimit
    <3>4. CASE c.name = "prepare_penalty"
      <4>1. IF c.team = TeamColor
            THEN situation' \in {"penalty_attack", "shootout_attack"}
            ELSE situation' \in {"penalty_defense", "shootout_defense"}
        BY <1>1, <1>2, <3>4, NextSituationFacts
      <4> QED BY <3>1, <3>4, <4>1 DEF Permitted, Kind, Plays, TimeLimit
    <3>5. CASE c.name \in {"direct_free", "indirect_free"}
      <4>1. situation' = IF c.team = TeamColor THEN "setplay_attack" ELSE "setplay_defense"
        BY <1>1, <1>2, <3>5, NextSituationFacts
      <4> QED BY <3>1, <3>5, <4>1 DEF Permitted, Kind, Plays, TimeLimit
    <3>6. CASE c.name = "ball_placement"
      <4>1. situation' \in Placements
        BY <1>1, <1>2, <3>6, NextSituationFacts DEF Placements
      <4> QED BY <3>1, <3>6, <4>1 DEF Permitted, Kind, Plays, TimeLimit, Placements
    <3> QED BY <1>1, <1>5, <3>2, <3>3, <3>4, <3>5, <3>6 DEF Command
  <2> QED BY <1>2, <2>1, <2>2, <2>3, <2>4 DEF ObeysReferee
<1> QED BY <1>4, <1>5

\* Commands change what is prepared together with the situation; normal_start
\* changes neither the team nor the kind of play.
LEMMA PreparedFacts ==
    ASSUME IInv, NEW done \in BOOLEAN, Execute(done)
    PROVE  SituationPrepared'
<1> DEFINE c == refbox.command
<1>1. /\ c \in Command
      /\ refbox.stage \in Stage
      /\ situation \in Situation
  BY DEF IInv, TypeOK, RefboxType
<1>2. /\ situation' = NextSituation(situation, refbox.stage, c)
      /\ prepared' = IF c.name = "normal_start" THEN prepared ELSE c
  BY DEF Execute
<1>3. CASE c.name = "normal_start"
  <2>1. situation' = IF situation \in DOMAIN Started THEN Started[situation] ELSE situation
    BY <1>1, <1>2, <1>3, NextSituationFacts
  <2>2. prepared' = prepared
    BY <1>2, <1>3
  <2> QED
    BY <2>1, <2>2 DEF IInv, SituationPrepared, Started, Placements
<1>4. CASE c.name # "normal_start"
  <2>1. prepared' = c /\ prepared' # Nothing
    BY <1>1, <1>2, <1>4, NothingAssumption
  <2>2. CASE c.name \in {"halt", "stop", "force_start", "timeout",
                         "direct_free", "indirect_free"}
    <3>1. situation' \in {"halt", "stop", "force_start", "timeout",
                          "setplay_attack", "setplay_defense"}
      BY <1>1, <1>2, <2>2, NextSituationFacts
    <3> QED BY <3>1 DEF SituationPrepared, Placements
  <2>3. CASE c.name = "prepare_kickoff"
    <3>1. situation' = IF c.team = TeamColor THEN "kickoff_attack" ELSE "kickoff_defense"
      BY <1>1, <1>2, <2>3, NextSituationFacts
    <3> QED BY <2>1, <2>3, <3>1 DEF SituationPrepared, Placements
  <2>4. CASE c.name = "prepare_penalty"
    <3>1. IF c.team = TeamColor
          THEN situation' \in {"penalty_attack", "shootout_attack"}
          ELSE situation' \in {"penalty_defense", "shootout_defense"}
      BY <1>1, <1>2, <2>4, NextSituationFacts
    <3> QED BY <2>1, <2>4, <3>1 DEF SituationPrepared, Placements
  <2>5. CASE c.name = "ball_placement"
    <3>1. situation' = IF c.team = TeamColor
                       THEN "ball_placement" ELSE "ball_placement_enemy"
      BY <1>1, <1>2, <2>5, NextSituationFacts
    <3> QED BY <2>1, <2>5, <3>1 DEF SituationPrepared, Placements
  <2> QED BY <1>1, <1>4, <2>2, <2>3, <2>4, <2>5 DEF Command
<1> QED BY <1>3, <1>4

LEMMA ExecuteInv ==
    ASSUME IInv, NEW done \in BOOLEAN, Execute(done)
    PROVE  IInv'
<1> DEFINE s == NextSituation(situation, refbox.stage, refbox.command)
           changed == s # situation
<1>1. /\ refbox.command \in Command
      /\ refbox.stage \in Stage
      /\ situation \in Situation
  BY DEF IInv, TypeOK, RefboxType
<1>2. s \in Situation
  BY <1>1, NextSituationFacts
<1>3. s = "unknown" => ~changed
  BY <1>1, NextSituationFacts DEF Command, Started
<1>4. s = "shootout_defense_start" =>
        situation \in {"shootout_defense", "shootout_defense_start"}
  BY <1>1, NextSituationFacts DEF Command, Started
<1>5. /\ situation' = s
      /\ elapsed' = TimeSince(changed)
      /\ prepared' = IF refbox.command.name = "normal_start"
                     THEN prepared ELSE refbox.command
      /\ running' = TRUE
      /\ UNCHANGED <<refbox, ball>>
      /\ \/ MakeFormation(s, changed)
         \/ ContinuePlacement(s, changed)
         \/ StartShootoutDefense(s)
         \/ ContinuePlay(s, changed, done)
         \/ KeepFormation(s, changed)
  BY DEF Execute
<1>6. changed \in BOOLEAN
  OBVIOUS
<1> HIDE DEF s
<1>7. /\ formation' \in FormationType \cup {Nothing}
      /\ prevTarget' \in Position \cup {Nothing}
      /\ s = "unknown" => formation' = Nothing
      /\ s # "unknown" =>
           /\ formation' # Nothing
           /\ \/ /\ formation'.kind = Kind[s]
                 /\ formation'.start <=> s \in StartedPlays
                                          \cup {"shootout_defense_start"}
              \/ /\ formation'.kind = "steady"
                 /\ ~formation'.start
                 /\ s \in Plays
           /\ formation'.active <=> s = "ball_placement"
           /\ formation'.kicked => formation'.kind \in Watching
      /\ s \in Placements =>
           /\ formation'.target = refbox.position
           /\ prevTarget' = refbox.position
           /\ prevTarget' # Nothing
  BY <1>2, <1>3, <1>4, <1>5, <1>6, HandlerFacts
<1>8. TypeOK'
  <2>1. elapsed' \in {Never} \cup 0 .. TimeBound
    BY <1>5, CaptainAssumption DEF TimeSince, IInv, TypeOK
  <2> QED BY <1>1, <1>2, <1>5, <1>7, <2>1 DEF IInv, TypeOK
<1>9. FormationFits'
  BY <1>5, <1>7 DEF FormationFits
<1>10. SetBeforeUse'
  BY <1>5, <1>7 DEF SetBeforeUse, IInv, TimeSince, Never
<1>11. TargetRemembered'
  BY <1>5, <1>7 DEF TargetRemembered
<1>12. SituationPrepared'
  BY PreparedFacts
<1>13. ObeysReferee'
  BY <1>5, <1>7, <1>9, <1>12, ObedienceFacts
<1>14. OnlyWatchersKick'
  BY <1>7 DEF OnlyWatchersKick
<1> QED BY <1>8, <1>9, <1>10, <1>11, <1>12, <1>13, <1>14 DEF IInv

-----------------------------------------------------------------------------
(* The other steps                                                         *)

\* Another sample changes nothing but what is known of the ball.
LEMMA WatchFacts ==
    ASSUME IInv, NEW f \in FormationType
    PROVE  /\ Watch(f) \in FormationType
           /\ Watch(f).kind = f.kind
           /\ Watch(f).start = f.start
           /\ Watch(f).active = f.active
           /\ Watch(f).target = f.target
<1> DEFINE far == IF ball = f.origin THEN 0
                  ELSE IF f.far < Samples THEN f.far + 1 ELSE Samples
           kicked == f.kicked \/ far = Samples
           finished == \/ f.finished
                       \/ kicked /\ f.kind = "kickoff_defense"
                       \/ f.kicked /\ f.since > KickedTime
<1>1. Watch(f) = [f EXCEPT !.far = far, !.kicked = kicked, !.finished = finished]
  BY DEF Watch
<1>2. far \in 0 .. Samples
  BY CaptainAssumption DEF FormationType
<1>3. kicked \in BOOLEAN /\ finished \in BOOLEAN
  BY DEF FormationType
<1> HIDE DEF far, kicked, finished
<1> QED BY <1>1, <1>2, <1>3 DEF FormationType

\* Steps that leave the captain alone but for the formation's view of the ball
\* and the time.
LEMMA SameCaptainInv ==
    ASSUME IInv, TypeOK', ~running',
           UNCHANGED <<situation, prevTarget, prepared>>,
           elapsed = Never <=> elapsed' = Never,
           formation = Nothing <=> formation' = Nothing,
           formation # Nothing =>
             /\ formation'.kind = formation.kind
             /\ formation'.start = formation.start
             /\ formation'.active = formation.active
             /\ formation'.target = formation.target
             /\ formation'.kicked => formation.kicked \/ formation.kind \in Watching
    PROVE  IInv'
<1>1. FormationFits'
  BY DEF IInv, FormationFits
<1>2. SetBeforeUse' /\ SituationPrepared'
  BY DEF IInv, SetBeforeUse, SituationPrepared
<1>3. TargetRemembered'
  <2>1. situation \in Placements => formation # Nothing
    BY DEF IInv, FormationFits, Placements
  <2> QED BY <2>1 DEF IInv, TargetRemembered
<1>4. OnlyWatchersKick'
  BY DEF IInv, OnlyWatchersKick
<1> QED BY <1>1, <1>2, <1>3, <1>4 DEF IInv, ObeysReferee

LEMMA RunInv ==
    ASSUME IInv, NEW visible \in BOOLEAN, Run(visible)
    PROVE  IInv'
<1>1. /\ UNCHANGED <<refbox, situation, prevTarget, elapsed, ball, prepared>>
      /\ running' = FALSE
  BY DEF Run
<1>2. formation \in FormationType \cup {Nothing}
  BY DEF IInv, TypeOK
<1>3. CASE formation' = formation
  BY <1>1, <1>3, SameCaptainInv DEF IInv, TypeOK
<1>4. CASE /\ formation # Nothing
           /\ formation.kind \in Watching
           /\ formation' = Watch(formation)
  <2>1. /\ formation' \in FormationType
        /\ formation' # Nothing
        /\ formation'.kind = formation.kind
        /\ formation'.start = formation.start
        /\ formation'.active = formation.active
        /\ formation'.target = formation.target
    BY <1>2, <1>4, WatchFacts, NothingAssumption
  <2>2. TypeOK'
    BY <1>1, <2>1 DEF IInv, TypeOK
  <2> QED BY <1>1, <1>4, <2>1, <2>2, SameCaptainInv
<1> QED BY <1>3, <1>4 DEF Run

LEMMA ReceiveInv ==
    ASSUME IInv, NEW c \in Command, NEW stage \in Stage,
           NEW p \in Designated(c), Receive(c, stage, p)
    PROVE  IInv'
<1>1. /\ UNCHANGED <<situation, formation, prevTarget, elapsed, ball, running, prepared>>
      /\ ~running
  BY DEF Receive
<1>2. refbox' \in RefboxType
  BY DEF Receive, RefboxType, Designated, IInv, TypeOK
<1>3. TypeOK'
  BY <1>1, <1>2 DEF IInv, TypeOK
<1> QED BY <1>1, <1>3, SameCaptainInv

LEMMA MoveBallInv ==
    ASSUME IInv, NEW p \in Place, MoveBall(p)
    PROVE  IInv'
BY SameCaptainInv DEF MoveBall, IInv, TypeOK

LEMMA TickInv ==
    ASSUME IInv, Tick
    PROVE  IInv'
<1>1. /\ UNCHANGED <<refbox, situation, prevTarget, ball, running, prepared>>
      /\ ~running
  BY DEF Tick
<1>2. /\ formation \in FormationType \cup {Nothing}
      /\ elapsed \in {Never} \cup 0 .. TimeBound
  BY DEF IInv, TypeOK
<1>3. \A t \in 0 .. TimeBound : Later(t) \in 0 .. TimeBound
  BY CaptainAssumption DEF Later
<1>4. /\ elapsed' \in {Never} \cup 0 .. TimeBound
      /\ elapsed = Never <=> elapsed' = Never
  BY <1>2, <1>3, CaptainAssumption DEF Tick, Never
<1>5. CASE formation' = formation
  <2>1. TypeOK'
    BY <1>1, <1>4, <1>5 DEF IInv, TypeOK
  <2> QED BY <1>1, <1>4, <1>5, <2>1, SameCaptainInv
<1>6. CASE /\ formation # Nothing
           /\ formation' = [formation EXCEPT !.since = Later(@)]
  <2>1. formation \in FormationType /\ formation.since \in 0 .. TimeBound
    BY <1>2, <1>6 DEF FormationType
  <2>2. /\ formation' \in FormationType
        /\ formation'.kind = formation.kind
        /\ formation'.start = formation.start
        /\ formation'.active = formation.active
        /\ formation'.target = formation.target
        /\ formation'.kicked = formation.kicked
    BY <1>3, <1>6, <2>1 DEF FormationType
  <2>3. TypeOK' /\ formation' # Nothing
    BY <1>1, <1>4, <2>2, NothingAssumption DEF IInv, TypeOK
  <2> QED BY <1>1, <1>4, <1>6, <2>2, <2>3, SameCaptainInv
<1> QED BY <1>5, <1>6 DEF Tick

LEMMA ResetInv ==
    ASSUME IInv, Reset
    PROVE  IInv'
<1>1. TypeOK'
  BY DEF Reset, IInv, TypeOK, Situation, Kind
<1> QED
  BY <1>1 DEF Reset, IInv, FormationFits, SetBeforeUse, SituationPrepared,
     TargetRemembered, OnlyWatchersKick, ObeysReferee, Plays, TimeLimit, Placements

LEMMA StutterInv ==
    ASSUME IInv, UNCHANGED vars
    PROVE  IInv'
<1>1. UNCHANGED <<refbox, situation, formation, prevTarget, elapsed, ball, running, prepared>>
  BY DEF vars
<1> QED
  BY <1>1 DEF IInv, TypeOK, FormationFits, SetBeforeUse, SituationPrepared,
     TargetRemembered, OnlyWatchersKick, ObeysReferee

-----------------------------------------------------------------------------
(* Theorems                                                                *)

\* The inductive invariant holds: the formation always belongs to the situation,
\* and the situation to the commands heard.
THEOREM Invariance == Spec => []IInv
<1>1. IInv /\ [Next]_vars => IInv'
  <2> SUFFICES ASSUME IInv, [Next]_vars PROVE IInv'
    OBVIOUS
  <2>1. CASE UNCHANGED vars
    BY <2>1, StutterInv
  <2>2. CASE \E done \in BOOLEAN : Execute(done)
    BY <2>2, ExecuteInv
  <2>3. CASE \E visible \in BOOLEAN : Run(visible)
    BY <2>3, RunInv
  <2>4. CASE \E c \in Command, stage \in Stage : \E p \in Designated(c) : Receive(c, stage, p)
    BY <2>4, ReceiveInv
  <2>5. CASE \E p \in Place : MoveBall(p)
    BY <2>5, MoveBallInv
  <2>6. CASE Tick
    BY <2>6, TickInv
  <2>7. CASE Reset
    BY <2>7, ResetInv
  <2> QED BY <2>1, <2>2, <2>3, <2>4, <2>5, <2>6, <2>7 DEF Next
<1> QED BY <1>1, InitInv, PTL DEF Spec

\* Situations, formations and times are well-typed; the samples of the ball stay
\* within past_ball_.
THEOREM TypeCorrect == Spec => []TypeOK
BY Invariance, PTL DEF IInv

\* The formation is the one that first::table_ has for the situation, or the
\* steady one that follows a play.
THEOREM FormationAlwaysFits == Spec => []FormationFits
BY Invariance, PTL DEF IInv

\* What a cycle returns is permitted by the referee's command of that cycle.
THEOREM Obedience == Spec => []ObeysReferee
BY Invariance, PTL DEF IInv

\* The previous target and the time of the change are never used uninitialized.
THEOREM NothingUsedUnset == Spec => []SetBeforeUse
BY Invariance, PTL DEF IInv

\* What starts has been prepared, for the same team.
THEOREM OnlyPreparedStarts == Spec => []StartsWhatWasPrepared
<1>1. IInv => StartsWhatWasPrepared
  BY DEF IInv, SituationPrepared, StartsWhatWasPrepared, Started
<1> QED BY <1>1, Invariance, PTL

\* A play that is over does not begin again while the situation lasts.
THEOREM SteadyIsFinal == Spec => SteadyStays
<1> DEFINE Over == formation # Nothing /\ formation.kind = "steady"
<1>1. IInv /\ [Next]_vars => (Over /\ situation' = situation => formation' = formation)
  <2> SUFFICES ASSUME IInv, Next, Over, situation' = situation
               PROVE  formation' = formation
    BY DEF vars
  <2>1. situation # "unknown" /\ situation \in Plays \cup {"force_start"}
    BY DEF IInv, TypeOK, FormationFits, Kind, Situation
  <2>2. formation \in FormationType
    BY DEF IInv, TypeOK
  <2>3. ASSUME NEW done \in BOOLEAN, Execute(done)
        PROVE  formation' = formation
    <3>1. /\ situation' = NextSituation(situation, refbox.stage, refbox.command)
          /\ \/ MakeFormation(situation', FALSE)
             \/ ContinuePlacement(situation', FALSE)
             \/ StartShootoutDefense(situation')
             \/ ContinuePlay(situation', FALSE, done)
             \/ KeepFormation(situation', FALSE)
      BY <2>3 DEF Execute
    <3>2. situation' \notin EveryCycle \cup Placements \cup {"shootout_defense_start"}
      BY <2>1 DEF Plays, TimeLimit, EveryCycle, Placements
    <3>3. CASE ContinuePlay(situation', FALSE, done)
      <4>1. situation \in Plays
        BY <3>3 DEF ContinuePlay
      <4>2. Kind[situation] # "steady"
        BY <4>1 DEF Plays, TimeLimit, Kind
      <4> QED BY <3>3, <4>2 DEF ContinuePlay
    <3> QED
      BY <3>1, <3>2, <3>3 DEF MakeFormation, ContinuePlacement,
         StartShootoutDefense, KeepFormation
  <2>4. ASSUME NEW visible \in BOOLEAN, Run(visible)
        PROVE  formation' = formation
    BY <2>4 DEF Run, Watching
  <2>5. CASE Tick
    <3>1. ~formation.kicked
      BY <2>2 DEF IInv, OnlyWatchersKick, Watching
    <3> QED BY <2>5, <3>1 DEF Tick
  <2>6. ASSUME Reset PROVE FALSE
    BY <2>1, <2>6 DEF Reset
  <2> QED
    BY <2>3, <2>4, <2>5, <2>6 DEF Next, Receive, MoveBall
<1> QED BY <1>1, Invariance, PTL DEF Spec, SteadyStays

=============================================================================
