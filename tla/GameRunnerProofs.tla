-------------------------- MODULE GameRunnerProofs --------------------------
(***************************************************************************)
(* The properties of GameRunner, for any number of robots, any commands    *)
(* and speeds.                                                             *)
(***************************************************************************)
EXTENDS GameRunner, TLAPS

USE DriverAssumption, RunnerAssumption DEF DriverAssumption, RunnerAssumption

\* The motions are the seven that MotionVelocity has, with integer speeds.
LEMMA MotionFacts ==
    /\ Motion = {"stop", "turn_left", "turn_right", "walk_forward",
                 "walk_backward", "walk_right", "walk_left"}
    /\ Zero \in Velocity
    /\ \A m \in Motion : MotionVelocity[m] \in Velocity
    /\ DefaultCommand \in Command
    /\ \A v \in Velocity : MotionFor(v) \in Motion
<1>1. Motion = {"stop", "turn_left", "turn_right", "walk_forward",
                "walk_backward", "walk_right", "walk_left"}
  BY DEF Motion, MotionVelocity
<1>2. Zero \in Velocity
  BY DEF Zero, Velocity
<1>3. \A m \in Motion : MotionVelocity[m] \in Velocity
  BY <1>1, <1>2 DEF MotionVelocity, Velocity, Zero
<1>4. DefaultCommand \in Command
  BY <1>2 DEF DefaultCommand, Command
<1>5. \A v \in Velocity : MotionFor(v) \in Motion
  BY <1>1 DEF MotionFor
<1> QED BY <1>1, <1>2, <1>3, <1>4, <1>5

\* The controller turns integer velocities into integer velocities.
LEMMA ControlType ==
    ASSUME NEW id \in Id, u[id] \in Velocity, limit[id] \in Nat,
           NEW setpoint \in Velocity, NEW v \in Control(id, setpoint)
    PROVE  v \in Velocity
<1> DEFINE x == Accelerate(setpoint.x, u[id].x)
           y == Accelerate(setpoint.y, u[id].y)
<1>1. /\ setpoint.x \in Int /\ setpoint.y \in Int /\ setpoint.turn \in Int
      /\ u[id].x \in Int /\ u[id].y \in Int /\ u[id].turn \in Int
  BY DEF Velocity
<1>2. x \in Int /\ y \in Int
  BY <1>1 DEF Accelerate, Clamp
<1> HIDE DEF x, y
<1>3. Clamp(x, -limit[id], limit[id]) \in Int
  BY <1>2 DEF Clamp
<1>4. Clamp(y, -limit[id], limit[id]) \in Int
  BY <1>2 DEF Clamp
<1>5. Turn(setpoint.turn, u[id].turn) \in Int
  BY <1>1 DEF Turn, Clamp
<1>6. \A n \in Int : NearEdge(n) \subseteq Int
  BY DEF NearEdge
<1>7. v \in [x : NearEdge(Clamp(x, -limit[id], limit[id])),
             y : NearEdge(Clamp(y, -limit[id], limit[id])),
             turn : {Turn(setpoint.turn, u[id].turn)}]
  BY DEF Control, x, y
<1> QED BY <1>3, <1>4, <1>5, <1>6, <1>7 DEF Velocity

\* What process() stores and sends for one robot is well-typed.
LEMMA ProcessType ==
    ASSUME TypeOK, NEW id \in Id, NEW r \in Process(id)
    PROVE  r.command \in Command /\ r.u \in Velocity /\ r.packet \in Packet
<1> DEFINE m == command[id].motion
           setpoint == IF m = Nothing THEN command[id].setpoint
                       ELSE MotionVelocity[m]
<1>1. m \in Motion \cup {Nothing} /\ setpoint \in Velocity
  BY MotionFacts DEF TypeOK, Command
<1>2. PICK v \in Control(id, setpoint) :
         LET chosen == IF m = Nothing THEN MotionFor(v) ELSE m
         IN  r = [command |-> [motion |-> chosen, setpoint |-> setpoint],
                  u |-> v,
                  packet |-> Sent(chosen, m # Nothing, v)]
  BY DEF Process
<1> DEFINE chosen == IF m = Nothing THEN MotionFor(v) ELSE m
<1> HIDE DEF setpoint
<1>3. v \in Velocity
  BY <1>1, ControlType DEF TypeOK
<1>4. chosen \in Motion
  BY <1>1, <1>3, MotionFacts
<1>5. MotionVelocity[chosen] \in Velocity
  BY <1>4, MotionFacts
<1> HIDE DEF m, chosen
<1>6. r = [command |-> [motion |-> chosen, setpoint |-> setpoint],
           u |-> v,
           packet |-> Sent(chosen, m # Nothing, v)]
  BY <1>2 DEF chosen
<1>7. r.command \in Command
  BY <1>1, <1>4, <1>6 DEF Command
<1>8. r.packet \in Packet
  BY <1>3, <1>4, <1>5, <1>6 DEF Packet, Sent
<1> QED BY <1>3, <1>6, <1>7, <1>8

LEMMA InitInv == Init => IInv
BY MotionFacts DEF Init, DriverInit, IInv, TypeOK, Place, ActiveIsRegistered,
   LimitFollowsReferee, StaleCommandPending, FreshSeen, LimitsSet,
   OnlyThenStopping, MadeForRegistered

\* A driver cycle changes commands, controllers and packets only.
LEMMA CycleInv ==
    ASSUME IInv, NEW visible \in SUBSET Id, DriverThread(visible)
    PROVE  IInv'
<1> DEFINE ids == visible \cap registered
<1>1. PICK r \in [ids -> UNION {Process(id) : id \in ids}] :
         /\ \A id \in ids : r[id] \in Process(id)
         /\ command' = [id \in Id |->
               IF id \in ids THEN r[id].command ELSE command[id]]
         /\ u' = [id \in Id |-> IF id \in ids THEN r[id].u ELSE u[id]]
         /\ told' = [id \in Id |->
               IF id \in ids THEN r[id].packet ELSE told[id]]
  BY DEF DriverThread, Cycle
<1>2. \A id \in ids : /\ r[id].command \in Command
                      /\ r[id].u \in Velocity
                      /\ r[id].packet \in Packet
  BY <1>1, ProcessType DEF IInv
<1>3. UNCHANGED <<registered, limit, driverColor>> /\ UNCHANGED runnerVars
  BY DEF DriverThread, Cycle
<1> HIDE DEF ids
<1>4. TypeOK'
  BY <1>1, <1>2, <1>3 DEF IInv, TypeOK, runnerVars
<1> QED
  BY <1>3, <1>4 DEF IInv, ActiveIsRegistered, LimitFollowsReferee, LimitsFor,
     StaleCommandPending, FreshSeen, LimitsSet, OnlyThenStopping,
     MadeForRegistered, runnerVars

\* Setting the limits sets them for every registered robot.
LEMMA ReadInputsInv == IInv /\ ReadInputs => IInv'
<1> SUFFICES ASSUME IInv, ReadInputs PROVE IInv'
  OBVIOUS
<1>1. pc = "read" /\ pc' = "act" /\ seen' = refbox
  BY DEF ReadInputs
<1>2. TypeOK'
  BY DEF ReadInputs, SetVelocityLimit, IInv, TypeOK, Place
<1>3. seen' = "halt" \/ LimitsFor(seen)'
  <2>1. CASE refbox # seen \/ needReset
    BY <1>1, <2>1 DEF ReadInputs, LimitsDue, SetVelocityLimit, IInv, TypeOK, LimitsFor
  <2>2. CASE ~(refbox # seen \/ needReset)
    BY <1>1, <2>2 DEF ReadInputs, LimitsDue, IInv, LimitFollowsReferee, LimitsFor
  <2> QED BY <2>1, <2>2
<1>4. LimitFollowsReferee' /\ LimitsSet'
  BY <1>3 DEF LimitFollowsReferee, LimitsSet
<1> QED
  BY <1>1, <1>2, <1>4 DEF ReadInputs, IInv, ActiveIsRegistered,
     StaleCommandPending, FreshSeen, OnlyThenStopping, MadeForRegistered

\* Handing over a command, one of the action's or the default one
LEMMA CommandInv == IInv /\ (SendCommand \/ \E id \in Id : StopRobot(id)) => IInv'
<1>1. ASSUME IInv, SendCommand PROVE IInv'
  <2>1. TypeOK'
    BY <1>1, MotionFacts DEF SendCommand, UpdateCommand, IInv, TypeOK, Place
  <2> QED
    BY <1>1, <2>1 DEF SendCommand, UpdateCommand, IInv, ActiveIsRegistered,
       LimitFollowsReferee, LimitsFor, StaleCommandPending, FreshSeen,
       LimitsSet, OnlyThenStopping, MadeForRegistered
<1>2. ASSUME IInv, NEW id \in Id, StopRobot(id) PROVE IInv'
  <2>1. TypeOK'
    BY <1>2, MotionFacts DEF StopRobot, UpdateCommand, IInv, TypeOK
  <2> QED
    BY <1>2, <2>1 DEF StopRobot, UpdateCommand, IInv, ActiveIsRegistered,
       LimitFollowsReferee, LimitsFor, StaleCommandPending, FreshSeen,
       LimitsSet, OnlyThenStopping, MadeForRegistered
<1> QED BY <1>1, <1>2

\* The steps that only move a thread on or pass its inputs around
Moves == \/ Lock \/ WakeUp \/ Act \/ BeginStopping \/ EndThread
         \/ Start \/ Stop \/ Close \/ Join

LEMMA MovesInv == IInv /\ Moves => IInv'
<1> SUFFICES ASSUME IInv, Moves PROVE IInv'
  OBVIOUS
<1> USE DEF IInv, TypeOK, Place, driverVars, ActiveIsRegistered,
        LimitFollowsReferee, LimitsFor, StaleCommandPending, FreshSeen,
        LimitsSet, OnlyThenStopping, MadeForRegistered
<1>1. CASE Lock \/ WakeUp
  BY <1>1 DEF Lock, WakeUp
<1>2. CASE Act
  BY <1>2 DEF Act
<1>3. CASE BeginStopping \/ EndThread
  BY <1>3 DEF BeginStopping, EndThread
<1>4. CASE Start \/ Stop \/ Close
  BY <1>4 DEF Start, Stop, Close
<1>5. CASE Join
  BY <1>5 DEF Join
<1> QED BY <1>1, <1>2, <1>3, <1>4, <1>5 DEF Moves

\* Registering and unregistering keeps the driver's robots the active ones, and
\* any change of them asks for a reset.
LEMMA SetActiveRobotsInv ==
    ASSUME IInv, NEW ids \in SUBSET Id, SetActiveRobots(ids)
    PROVE  IInv'
<1> DEFINE removed == active \ ids
           changed == ids \ registered # {} \/ removed # {}
<1>1. /\ Reregister(ids, removed)
      /\ active' = IF changed THEN ids ELSE active
      /\ needReset' = (needReset \/ changed)
      /\ madeFor' = IF ActionId \in removed THEN NoColor ELSE madeFor
      /\ UNCHANGED <<driverColor, told, pc, gui, running, color, refbox, seen,
                     next, stopping>>
      /\ MutexFree
  BY DEF SetActiveRobots
<1>2. active = registered /\ active \subseteq Id
  BY DEF IInv, ActiveIsRegistered, TypeOK
<1>3. registered' = ids /\ active' = ids
  BY <1>1, <1>2 DEF Reregister
<1>4. changed \/ ids = registered
  BY <1>2
<1>5. stopping = {} /\ pc # "act"
  BY <1>1 DEF IInv, OnlyThenStopping, MutexFree
<1>6. TypeOK'
  <2>1. command' \in [Id -> Command] /\ limit' \in [Id -> Nat]
        /\ u' \in [Id -> Velocity]
    BY <1>1, MotionFacts DEF Reregister, IInv, TypeOK
  <2>2. needReset' \in BOOLEAN
    BY <1>1 DEF IInv, TypeOK
  <2>3. madeFor' \in Color \cup {NoColor}
    BY <1>1 DEF IInv, TypeOK
  <2> HIDE DEF changed
  <2> QED BY <1>1, <1>3, <2>1, <2>2, <2>3 DEF IInv, TypeOK
<1>7. ActiveIsRegistered' /\ OnlyThenStopping'
  BY <1>1, <1>3, <1>5 DEF ActiveIsRegistered, OnlyThenStopping
<1>8. LimitFollowsReferee' /\ LimitsSet'
  <2>1. CASE changed
    BY <1>1, <1>5, <2>1 DEF LimitFollowsReferee, LimitsSet
  <2>2. CASE ~changed
    <3>1. limit' = limit /\ registered' = registered
      BY <1>1, <1>2, <1>3, <2>2 DEF Reregister, IInv, TypeOK
    <3>2. needReset' <=> needReset
      BY <1>1, <2>2
    <3> QED
      BY <1>1, <3>1, <3>2 DEF IInv, LimitFollowsReferee, LimitsSet, LimitsFor
  <2> QED BY <2>1, <2>2
<1>9. StaleCommandPending' /\ FreshSeen'
  BY <1>1 DEF IInv, StaleCommandPending, FreshSeen
<1>10. MadeForRegistered'
  BY <1>1, <1>2, <1>3 DEF IInv, MadeForRegistered
<1> QED BY <1>6, <1>7, <1>8, <1>9, <1>10 DEF IInv

LEMMA ColorRefereeInv ==
    ASSUME IInv,
           \/ \E c \in Color : SetTeamColor(c)
           \/ \E c \in RefboxCommand : Referee(c)
    PROVE  IInv'
BY DEF SetTeamColor, MutexFree, Referee, driverVars, IInv, TypeOK, Place,
   ActiveIsRegistered, LimitFollowsReferee, LimitsFor, StaleCommandPending,
   FreshSeen, LimitsSet, OnlyThenStopping, MadeForRegistered

LEMMA StutterInv == IInv /\ UNCHANGED vars => IInv'
BY DEF vars, driverVars, runnerVars, IInv, TypeOK, ActiveIsRegistered,
   LimitFollowsReferee, LimitsFor, StaleCommandPending, FreshSeen, LimitsSet,
   OnlyThenStopping, MadeForRegistered

\* Every reachable state of the game thread, the GUI, the driver and the
\* receiver satisfies the inductive invariant.
THEOREM Invariance == Spec => []IInv
<1>1. ASSUME IInv, [Next]_vars PROVE IInv'
  <2>1. CASE UNCHANGED vars
    BY <1>1, <2>1, StutterInv
  <2>2. CASE GameThread
    BY <1>1, <2>2, MovesInv, ReadInputsInv, CommandInv DEF GameThread, Moves
  <2>3. CASE Gui
    BY <1>1, <2>3, MovesInv, SetActiveRobotsInv, ColorRefereeInv DEF Gui, Moves
  <2>4. CASE \E c \in RefboxCommand : Referee(c)
    BY <1>1, <2>4, ColorRefereeInv
  <2>5. CASE \E visible \in SUBSET Id : DriverThread(visible)
    BY <1>1, <2>5, CycleInv
  <2> QED BY <1>1, <2>1, <2>2, <2>3, <2>4, <2>5 DEF Next
<1> QED BY <1>1, InitInv, PTL DEF Spec

\* Commands, limits, controller outputs and packets are well-typed, and the
\* threads are where the code has a place for them.
THEOREM TypeCorrect == Spec => []TypeOK
BY Invariance, PTL DEF IInv

\* main_loop() can stop every active robot: the driver knows each of them.
THEOREM StoppingNeverThrows == Spec => []ActiveIsRegistered
BY Invariance, PTL DEF IInv

\* The speed limit of STOP holds for every registered robot, and for no longer.
THEOREM LimitIsTheReferees == Spec => []LimitFollowsReferee
BY Invariance, PTL DEF IInv

\* A command computed for the other team is about to be replaced.
THEOREM StaleCommandReplaced == Spec => []StaleCommandPending
BY Invariance, PTL DEF IInv

-----------------------------------------------------------------------------
(* Robots of a game that has ended *)

\* The ramp of the angular speed does not leave the range of its ends, and does not
\* pass zero on its way to it.
LEMMA TurnFacts ==
    ASSUME NEW target \in Int, NEW previous \in Int,
           target >= -TurnSpeed, previous >= -TurnSpeed
    PROVE  /\ Turn(target, previous) \in Int
           /\ Turn(target, previous) >= -TurnSpeed
           /\ target = 0 \/ (target <= 0 /\ previous <= 0) => Turn(target, previous) <= 0
BY DEF Turn, Clamp, Abs

LEMMA MotionTurns == \A m \in Motion : MotionVelocity[m].turn >= -TurnSpeed
BY MotionFacts DEF MotionVelocity, Zero

LEMMA BoundedProcess ==
    ASSUME TypeOK, TurnsBounded, NEW id \in Id, NEW r \in Process(id)
    PROVE  r.u.turn >= -TurnSpeed /\ r.command.setpoint.turn >= -TurnSpeed
<1> DEFINE m == command[id].motion
           setpoint == IF m = Nothing THEN command[id].setpoint ELSE MotionVelocity[m]
<1>1. m \in Motion \cup {Nothing} /\ setpoint \in Velocity
  BY MotionFacts DEF TypeOK, Command
<1>2. setpoint.turn >= -TurnSpeed
  BY <1>1, MotionTurns DEF TurnsBounded
<1>3. r.command.setpoint = setpoint /\ r.u \in Control(id, setpoint)
  BY DEF Process
<1> HIDE DEF setpoint
<1>4. r.u.turn = Turn(setpoint.turn, u[id].turn)
  BY <1>3 DEF Control
<1>5. u[id].turn \in Int /\ setpoint.turn \in Int
  BY <1>1 DEF TypeOK, Velocity
<1> QED BY <1>2, <1>3, <1>4, <1>5, TurnFacts DEF TurnsBounded

\* A resting robot stays on its place and turns to the right, if at all.
LEMMA RestingProcess ==
    ASSUME TypeOK, TurnsBounded, NEW id \in Id, Resting(id), NEW r \in Process(id)
    PROVE  /\ r.command.motion \in {"stop", "turn_right"}
           /\ r.u.turn <= 0
           /\ r.packet \in IF Simulator THEN Rightward ELSE {"stop", "turn_right"}
<1> DEFINE m == command[id].motion
           setpoint == IF m = Nothing THEN command[id].setpoint ELSE MotionVelocity[m]
<1>1. /\ m \in Motion \cup {Nothing}
      /\ u[id] \in Velocity /\ u[id].turn \in Int
      /\ limit[id] \in Nat
  BY DEF TypeOK, Command, Velocity
<1>2. /\ setpoint.x = 0 /\ setpoint.y = 0
      /\ setpoint.turn \in Int /\ setpoint.turn >= -TurnSpeed
      /\ setpoint.turn = 0 \/ (setpoint.turn <= 0 /\ u[id].turn <= 0)
  <2>1. CASE m = Nothing
    BY <2>1, MotionFacts, NothingAssumption DEF Resting, Zero
  <2>2. CASE m = "stop"
    BY <2>2, MotionFacts, NothingAssumption DEF MotionVelocity, Zero
  <2>3. CASE m = "turn_right" /\ u[id].turn <= 0
    BY <2>3, MotionFacts, NothingAssumption DEF MotionVelocity, Zero
  <2> QED BY <2>1, <2>2, <2>3 DEF Resting
<1>3. m \in {Nothing, "stop", "turn_right"}
  BY DEF Resting
<1>4. PICK v \in Control(id, setpoint) :
         LET chosen == IF m = Nothing THEN MotionFor(v) ELSE m
         IN  r = [command |-> [motion |-> chosen, setpoint |-> setpoint],
                  u |-> v,
                  packet |-> Sent(chosen, m # Nothing, v)]
  BY DEF Process
<1> DEFINE chosen == IF m = Nothing THEN MotionFor(v) ELSE m
<1>5. /\ r.command.motion = chosen
      /\ r.u = v
      /\ r.packet = Sent(chosen, m # Nothing, v)
  BY <1>4
<1> HIDE DEF m, setpoint
<1>6. /\ v.x = 0 /\ v.y = 0
      /\ v.turn = Turn(setpoint.turn, u[id].turn)
      /\ v = [x |-> 0, y |-> 0, turn |-> v.turn]
  <2>1. Accelerate(setpoint.x, u[id].x) = 0 /\ Accelerate(setpoint.y, u[id].y) = 0
    BY <1>2 DEF Accelerate
  <2>2. Clamp(0, -limit[id], limit[id]) = 0
    BY <1>1 DEF Clamp
  <2>3. NearEdge(0) = {0}
    BY DEF NearEdge, Abs
  <2>4. v \in [x : {0}, y : {0}, turn : {Turn(setpoint.turn, u[id].turn)}]
    BY <1>4, <2>1, <2>2, <2>3 DEF Control
  <2> QED BY <2>4
<1>7. v.turn \in Int /\ v.turn >= -TurnSpeed /\ v.turn <= 0
  BY <1>1, <1>2, <1>6, TurnFacts DEF TurnsBounded
<1>8. MotionFor(v) \in {"stop", "turn_right"}
  BY <1>6, <1>7 DEF MotionFor, Abs
<1>9. chosen \in {"stop", "turn_right"}
  BY <1>3, <1>8
<1>10. v \in Rightward
  BY <1>6, <1>7 DEF Rightward
<1>11. MotionVelocity[chosen] \in Rightward
  BY <1>9 DEF MotionVelocity, Zero, Rightward
<1> HIDE DEF chosen
<1> QED BY <1>5, <1>7, <1>9, <1>10, <1>11 DEF Sent

LEMMA IdleInit == Init => IdleInv
BY MotionFacts DEF Init, DriverInit, IdleInv, TurnsBounded, Resting, DefaultCommand, Zero

LEMMA IdleCycle ==
    ASSUME IInv, IdleInv, NEW visible \in SUBSET Id, DriverThread(visible)
    PROVE  /\ IdleInv'
           /\ \A id \in Id : Resting(id) /\ told'[id] # told[id] =>
                 told'[id] \in IF Simulator THEN Rightward ELSE {"stop", "turn_right"}
<1> DEFINE ids == visible \cap registered
<1>1. PICK r \in [ids -> UNION {Process(id) : id \in ids}] :
         /\ \A id \in ids : r[id] \in Process(id)
         /\ command' = [id \in Id |->
               IF id \in ids THEN r[id].command ELSE command[id]]
         /\ u' = [id \in Id |-> IF id \in ids THEN r[id].u ELSE u[id]]
         /\ told' = [id \in Id |->
               IF id \in ids THEN r[id].packet ELSE told[id]]
  BY DEF DriverThread, Cycle
<1>2. UNCHANGED <<registered, limit>> /\ UNCHANGED runnerVars
  BY DEF DriverThread, Cycle
<1>3. TypeOK /\ TurnsBounded
  BY DEF IInv, IdleInv
<1>4. \A id \in ids : /\ r[id].u.turn >= -TurnSpeed
                      /\ r[id].command.setpoint.turn >= -TurnSpeed
  BY <1>1, <1>3, BoundedProcess
<1>5. \A id \in ids : Resting(id) =>
         /\ r[id].command.motion \in {"stop", "turn_right"}
         /\ r[id].u.turn <= 0
         /\ r[id].packet \in IF Simulator THEN Rightward ELSE {"stop", "turn_right"}
  BY <1>1, <1>3, RestingProcess
<1> HIDE DEF ids
<1>6. TurnsBounded'
  BY <1>1, <1>3, <1>4 DEF TurnsBounded
<1>7. ASSUME NEW id \in Id PROVE (Resting(id) \/ ToBeStopped(id))'
  <2>1. CASE ToBeStopped(id)
    BY <1>2, <2>1 DEF ToBeStopped, NoGame, runnerVars
  <2>2. CASE Resting(id) /\ id \in ids
    BY <1>1, <1>5, <2>2 DEF Resting
  <2>3. CASE Resting(id) /\ id \notin ids
    BY <1>1, <2>3 DEF Resting
  <2> QED BY <2>1, <2>2, <2>3 DEF IdleInv
<1>8. ASSUME NEW id \in Id, Resting(id), told'[id] # told[id]
      PROVE  told'[id] \in IF Simulator THEN Rightward ELSE {"stop", "turn_right"}
  BY <1>1, <1>5, <1>8
<1> QED BY <1>6, <1>7, <1>8 DEF IdleInv

\* A command for the action's robot comes only while it is to be stopped.
LEMMA IdleCommand ==
    ASSUME IInv, IdleInv, SendCommand \/ \E id \in Id : StopRobot(id)
    PROVE  IdleInv'
<1>1. DefaultCommand \in Command /\ DefaultCommand.setpoint = Zero
      /\ DefaultCommand.motion = Nothing /\ Zero.turn = 0
  BY MotionFacts DEF DefaultCommand, Zero
<1>2. CASE SendCommand
  <2>1. /\ pc = "command" /\ pc' = "lock"
        /\ UNCHANGED <<registered, u, stopping>>
        /\ command' = IF ActionId \in registered
                      THEN [command EXCEPT ![ActionId] = next] ELSE command
    BY <1>2 DEF SendCommand, UpdateCommand
  <2>2. next.setpoint.turn >= -TurnSpeed
    BY ClearAssumption DEF IInv, TypeOK
  <2>3. TurnsBounded'
    BY <2>1, <2>2 DEF IInv, IdleInv, TypeOK, TurnsBounded
  <2>4. ASSUME NEW id \in Id PROVE (Resting(id) \/ ToBeStopped(id))'
    BY <2>1 DEF IInv, TypeOK, IdleInv, Resting, ToBeStopped, NoGame
  <2> QED BY <2>3, <2>4 DEF IdleInv
<1>3. ASSUME NEW id \in Id, StopRobot(id) PROVE IdleInv'
  <2>1. /\ pc = "stopping" /\ pc' = pc
        /\ UNCHANGED <<registered, u>>
        /\ command' = [command EXCEPT ![id] = DefaultCommand]
        /\ stopping' = stopping \ {id}
    BY <1>3 DEF StopRobot, UpdateCommand
  <2>2. TurnsBounded'
    BY <1>1, <2>1 DEF IInv, IdleInv, TypeOK, TurnsBounded
  <2>3. ASSUME NEW i \in Id PROVE (Resting(i) \/ ToBeStopped(i))'
    <3>1. CASE i = id
      BY <1>1, <2>1, <3>1 DEF IInv, TypeOK, Resting
    <3>2. CASE i # id
      BY <2>1, <3>2 DEF IInv, TypeOK, IdleInv, Resting, ToBeStopped, NoGame
    <3> QED BY <3>1, <3>2
  <2> QED BY <2>2, <2>3 DEF IdleInv
<1> QED BY <1>2, <1>3

LEMMA IdleMoves ==
    ASSUME IInv, IdleInv, Moves \/ ReadInputs
    PROVE  IdleInv'
<1>1. UNCHANGED <<registered, command, u>>
  BY DEF Moves, ReadInputs, Lock, WakeUp, Act, BeginStopping, EndThread, Start, Stop,
         Close, Join, driverVars
<1>2. TurnsBounded'
  BY <1>1 DEF IdleInv, TurnsBounded
<1>3. ASSUME NEW id \in Id PROVE (Resting(id) \/ ToBeStopped(id))'
  <2>1. CASE Resting(id)
    BY <1>1, <2>1 DEF Resting
  <2>2. CASE ToBeStopped(id)
    <3>1. id \in active
      BY <2>2 DEF IInv, ActiveIsRegistered, ToBeStopped
    <3> QED BY <1>1, <2>2, <3>1 DEF ToBeStopped, NoGame, Moves, ReadInputs, Lock, WakeUp,
               Act, BeginStopping, EndThread, Start, Stop, Close, Join
  <2> QED BY <2>1, <2>2 DEF IdleInv
<1> QED BY <1>2, <1>3 DEF IdleInv

LEMMA IdleSetActiveRobots ==
    ASSUME IInv, IdleInv, NEW ids \in SUBSET Id, SetActiveRobots(ids)
    PROVE  IdleInv'
<1> DEFINE fresh == (ids \ registered) \cup (active \ ids)
<1>1. /\ registered' = (registered \cup ids) \ (active \ ids)
      /\ command' = [id \in Id |-> IF id \in fresh THEN DefaultCommand ELSE command[id]]
      /\ u' = [id \in Id |-> IF id \in fresh THEN Zero ELSE u[id]]
      /\ UNCHANGED <<pc, stopping>>
  BY DEF SetActiveRobots, Reregister
<1>2. active = registered
  BY DEF IInv, ActiveIsRegistered
<1>3. DefaultCommand.setpoint = Zero /\ DefaultCommand.motion = Nothing /\ Zero.turn = 0
  BY DEF DefaultCommand, Zero
<1>4. TurnsBounded'
  BY <1>1, <1>3 DEF IdleInv, TurnsBounded
<1>5. ASSUME NEW id \in Id PROVE (Resting(id) \/ ToBeStopped(id))'
  <2>1. CASE id \in fresh
    BY <1>1, <1>3, <2>1 DEF Resting
  <2>2. CASE id \notin fresh
    <3>1. /\ command'[id] = command[id] /\ u'[id] = u[id]
          /\ id \in registered => id \in registered'
      BY <1>1, <1>2, <2>2
    <3> QED BY <1>1, <3>1 DEF IdleInv, Resting, ToBeStopped, NoGame
  <2> QED BY <2>1, <2>2
<1> QED BY <1>4, <1>5 DEF IdleInv

LEMMA IdleElsewhere ==
    ASSUME IdleInv,
           \/ UNCHANGED vars
           \/ \E c \in Color : SetTeamColor(c)
           \/ \E c \in RefboxCommand : Referee(c)
    PROVE  IdleInv'
<1>1. UNCHANGED <<registered, command, u, pc, stopping>>
  BY DEF SetTeamColor, Referee, vars, driverVars, runnerVars
<1> QED BY <1>1 DEF IdleInv, TurnsBounded, Resting, ToBeStopped, NoGame

\* Outside the driver's cycle, nothing is sent.
LEMMA Silent ==
    ASSUME \/ GameThread \/ Gui \/ UNCHANGED vars
           \/ \E c \in RefboxCommand : Referee(c)
    PROVE  told' = told
BY DEF GameThread, Gui, Lock, WakeUp, ReadInputs, Act, SendCommand, BeginStopping,
   EndThread, StopRobot, Start, Stop, Close, Join, SetActiveRobots, SetTeamColor,
   Referee, vars, driverVars

\* Robots of a game that has ended have been told to stop.
THEOREM IdleInvariance == Spec => []IdleInv
<1>1. ASSUME IInv, IdleInv, [Next]_vars PROVE IdleInv'
  <2>1. CASE GameThread
    BY <1>1, <2>1, IdleMoves, IdleCommand DEF GameThread, Moves
  <2>2. CASE Gui
    BY <1>1, <2>2, IdleMoves, IdleSetActiveRobots, IdleElsewhere DEF Gui, Moves
  <2>3. CASE \E visible \in SUBSET Id : DriverThread(visible)
    BY <1>1, <2>3, IdleCycle
  <2> QED BY <1>1, <2>1, <2>2, <2>3, IdleElsewhere DEF Next
<1> QED BY <1>1, IdleInit, Invariance, PTL DEF Spec

\* After the game, no cycle of the driver lets a robot walk or turn to the left, whatever
\* its controller's last output was.
THEOREM IdleRobots == Spec => IdleNeverWalks
<1> DEFINE Told == NoGame => \A id \in Id :
                told'[id] # told[id] =>
                    told'[id] \in IF Simulator THEN Rightward ELSE {"stop", "turn_right"}
<1>1. ASSUME IInv, IdleInv, [Next]_vars PROVE [Told]_vars
  <2>1. CASE \E visible \in SUBSET Id : DriverThread(visible)
    <3>1. NoGame => \A id \in Id : Resting(id)
      BY <1>1 DEF IdleInv, ToBeStopped
    <3> QED BY <1>1, <2>1, <3>1, IdleCycle
  <2>2. CASE ~\E visible \in SUBSET Id : DriverThread(visible)
    BY <1>1, <2>2, Silent DEF Next
  <2> QED BY <2>1, <2>2
<1> QED BY <1>1, Invariance, IdleInvariance, PTL DEF Spec, IdleNeverWalks

-----------------------------------------------------------------------------
(* stop() returns *)

\* While the GUI waits in join(), running_ stays false, and the thread it waits for is
\* there.
JoinInv ==
    /\ gui # "idle" => ~running
    /\ gui = "joining" => pc # "none"

LEMMA JoinInvariance == Spec => []JoinInv
<1>1. Init => JoinInv
  BY DEF Init, JoinInv
<1>2. JoinInv /\ [Next]_vars => JoinInv'
  <2> SUFFICES ASSUME JoinInv, [Next]_vars PROVE JoinInv'
    OBVIOUS
  <2> USE DEF JoinInv
  <2>1. CASE GameThread
    BY <2>1 DEF GameThread, Lock, WakeUp, ReadInputs, Act, SendCommand, BeginStopping,
       StopRobot, EndThread
  <2>2. CASE Start \/ Stop \/ Close
    BY <2>2 DEF Start, Stop, Close
  <2>3. CASE Join
    <3>1. gui' # "joining" /\ running' = running /\ gui # "idle"
      BY <2>3 DEF Join
    <3> QED BY <3>1
  <2>4. CASE UNCHANGED <<pc, gui, running>>
    BY <2>4
  <2> QED BY <2>1, <2>2, <2>3, <2>4
          DEF Next, Gui, SetActiveRobots, SetTeamColor, Referee, DriverThread, vars,
              runnerVars
<1> QED BY <1>1, <1>2, PTL DEF Spec

\* The GUI waits, and the game thread is at one of the places ps.
Waiting(ps) == gui \in {"joining", "closing"} /\ pc \in ps

Back == gui \in {"idle", "closed"}

\* Steps of other threads leave the game thread where it is, and the GUI in join().
LEMMA WaitKept ==
    ASSUME [Next]_vars, gui \in {"joining", "closing"}, ~GameThread, ~Join
    PROVE  UNCHANGED <<pc, gui, running>>
BY DEF Next, Gui, Start, Stop, Close, SetActiveRobots, SetTeamColor, Referee, DriverThread,
   vars, runnerVars

\* The way of the game thread once running_ is false: it finishes its iteration, does
\* not begin another, and stops the robots.
LEMMA WayOut ==
    ASSUME GameThread, ~running, gui \in {"joining", "closing"}
    PROVE  /\ UNCHANGED <<gui, running>>
           /\ pc = "read" => pc' = "act"
           /\ pc = "act" => pc' = "command"
           /\ pc = "command" => pc' = "lock"
           /\ pc \in {"lock", "wait"} => pc' = "final"
           /\ pc = "final" => pc' = "stopping"
           /\ pc = "stopping" => pc' \in {"stopping", "done"}
           /\ pc \notin {"none", "done"}
BY DEF GameThread, Lock, WakeUp, ReadInputs, Act, SendCommand, BeginStopping, StopRobot,
   EndThread

\* join() returns at once when the thread has ended.
LEMMA JoinReturns ==
    ASSUME Join
    PROVE  Back' /\ pc \in {"done", "none"}
BY DEF Join, Back

\* With the thread at ps, a step of another thread changes nothing, and the game
\* thread's step leads to qs.
LEMMA NextPlace ==
    ASSUME NEW ps, NEW qs, ps \cap {"none", "done"} = {},
           JoinInv /\ Waiting(ps) /\ GameThread => Waiting(qs)'
    PROVE  JoinInv /\ Waiting(ps) /\ [Next]_vars => Waiting(ps)' \/ Waiting(qs)'
<1> SUFFICES ASSUME JoinInv, Waiting(ps), [Next]_vars, ~GameThread
             PROVE  Waiting(ps)'
  OBVIOUS
<1>1. ~Join
  BY JoinReturns DEF Waiting
<1> QED BY <1>1, WaitKept DEF Waiting

\* The GUI gets out of join() if the game thread is never stuck and its last loop, over
\* finitely many robots, ends: whatever the thread is doing when stop() sets running_
\* without the mutex, it looks at running_ once more before it waits or begins another
\* iteration, so no notification is needed that could be lost.
THEOREM StopComesBack == FairSpec /\ []NeverStuck /\ LoopEnds => StopReturns
<1>1. /\ JoinInv /\ Waiting({"read"}) /\ GameThread => Waiting({"act"})'
      /\ JoinInv /\ Waiting({"act"}) /\ GameThread => Waiting({"command"})'
      /\ JoinInv /\ Waiting({"command"}) /\ GameThread => Waiting({"lock", "wait"})'
      /\ JoinInv /\ Waiting({"lock", "wait"}) /\ GameThread => Waiting({"final"})'
      /\ JoinInv /\ Waiting({"final"}) /\ GameThread => Waiting({"stopping"})'
      /\ JoinInv /\ Waiting({"stopping"}) /\ GameThread => Waiting({"stopping", "done"})'
  BY WayOut DEF Waiting, JoinInv
<1>2. /\ JoinInv /\ Waiting({"read"}) /\ [Next]_vars
         => Waiting({"read"})' \/ Waiting({"act"})'
      /\ JoinInv /\ Waiting({"act"}) /\ [Next]_vars
         => Waiting({"act"})' \/ Waiting({"command"})'
      /\ JoinInv /\ Waiting({"command"}) /\ [Next]_vars
         => Waiting({"command"})' \/ Waiting({"lock", "wait"})'
      /\ JoinInv /\ Waiting({"lock", "wait"}) /\ [Next]_vars
         => Waiting({"lock", "wait"})' \/ Waiting({"final"})'
      /\ JoinInv /\ Waiting({"final"}) /\ [Next]_vars
         => Waiting({"final"})' \/ Waiting({"stopping"})'
      /\ JoinInv /\ Waiting({"stopping"}) /\ [Next]_vars
         => Waiting({"stopping"})' \/ Waiting({"stopping", "done"})'
  <2> USE <1>1, NextPlace
  <2>1. \A p \in {"read", "act", "command", "lock", "wait", "final", "stopping"} :
            p \notin {"none", "done"}
    OBVIOUS
  <2> QED OBVIOUS
<1>3. JoinInv /\ Waiting({"stopping", "done"}) /\ [Next]_vars
         => Waiting({"stopping", "done"})' \/ Back'
  BY WaitKept, WayOut, JoinReturns DEF Waiting, JoinInv
<1>4. /\ Waiting({"stopping", "done"}) /\ pc # "stopping" => Waiting({"none", "done"})
      /\ Waiting({"none", "done"}) => Waiting({"none", "done"}) /\ NoGame
  BY DEF Waiting, NoGame
<1>5. JoinInv /\ Waiting({"none", "done"}) => JoinReady
  BY DEF JoinInv, Waiting, JoinReady, NoGame
<1>6. JoinInv /\ Waiting({"none", "done"}) /\ [Next]_vars
         => Waiting({"none", "done"})' \/ Back'
  BY WaitKept, WayOut, JoinReturns DEF Waiting, JoinInv
<1>7. Waiting({"none", "done"}) /\ <<Join>>_vars => Back'
  BY JoinReturns
<1>8. /\ Waiting({"read"}) => ~NoGame
      /\ Waiting({"act"}) => ~NoGame
      /\ Waiting({"command"}) => ~NoGame
      /\ Waiting({"lock", "wait"}) => ~NoGame
      /\ Waiting({"final"}) => ~NoGame
  BY DEF Waiting, NoGame
<1>9. IInv /\ gui \in {"joining", "closing"} =>
        \/ Waiting({"read"}) \/ Waiting({"act"}) \/ Waiting({"command"})
        \/ Waiting({"lock", "wait"}) \/ Waiting({"final"})
        \/ Waiting({"stopping", "done"}) \/ Waiting({"none", "done"})
  BY DEF IInv, TypeOK, Place, Waiting
<1>10. Waiting({"stopping"}) => Waiting({"stopping", "done"})
  BY DEF Waiting
<1>11. <<GameThread>>_vars => GameThread
  OBVIOUS
<1>12. Back => gui \in {"idle", "closed"}
  BY DEF Back
<1> QED
  BY <1>1, <1>2, <1>3, <1>4, <1>5, <1>6, <1>7, <1>8, <1>9, <1>10, <1>11, <1>12, Invariance,
     JoinInvariance, PTL DEF FairSpec, Fairness, Spec, StopReturns, LoopEnds, NeverStuck
=============================================================================
