------------------------------- MODULE Driver -------------------------------
(***************************************************************************)
(* driver: keeps the last command of every registered robot and, once per  *)
(* control cycle, passes it through the robot's controller and sends the   *)
(* result over the radio.                                                  *)
(*                                                                         *)
(* A humanoid understands motions only.  A command without one is given a  *)
(* motion that fits the controller's output, and the motion is stored in   *)
(* the command: it stays until the next update_command().                  *)
(*                                                                         *)
(* Each member function locks the driver's recursive mutex for its whole   *)
(* body, so each is one action.  Velocities are counted in small units;    *)
(* kick flag and dribble are passed through and left out.                  *)
(***************************************************************************)
EXTENDS Integers, FiniteSets

CONSTANTS
    Id,              \* robot IDs
    Color,           \* team colors
    Nothing,         \* nullptr, or nothing sent yet
    Simulator,       \* is the radio a radio::base::simulator?
    WalkSpeed,       \* speed of the walk motions
    TurnSpeed,       \* angular speed of the turn motions
    MoveThreshold,   \* move_th
    TurnThreshold,   \* rot_th
    AccelStep,       \* a_max_ * cycle_, the change of speed in one cycle
    TurnStep,        \* alpha_max_ * cycle_
    VMax             \* state_feedback::v_max_

ASSUME DriverAssumption ==
    /\ {WalkSpeed, TurnSpeed, MoveThreshold, TurnThreshold, AccelStep,
        TurnStep, VMax} \subseteq Nat
    /\ Simulator \in BOOLEAN

VARIABLES
    registered,   \* the keys of robots_metadata_
    command,      \* the command of each robot
    limit,        \* the velocity limit of each robot's controller
    u,            \* the controller's previous output, u_[1]
    driverColor,  \* team_color_
    told          \* what each robot was last sent: a motion or, simulated,
                  \* a velocity

driverVars == <<registered, command, limit, u, driverColor, told>>

-----------------------------------------------------------------------------
(* Commands and motions                                                    *)

Zero == [x |-> 0, y |-> 0, turn |-> 0]

\* x is forward, y is to the right, turn is to the left, all as signed numbers.
MotionVelocity ==
    [stop          |-> Zero,
     turn_left     |-> [Zero EXCEPT !.turn = TurnSpeed],
     turn_right    |-> [Zero EXCEPT !.turn = -TurnSpeed],
     walk_forward  |-> [Zero EXCEPT !.x = WalkSpeed],
     walk_backward |-> [Zero EXCEPT !.x = -WalkSpeed],
     walk_right    |-> [Zero EXCEPT !.y = WalkSpeed],
     walk_left     |-> [Zero EXCEPT !.y = -WalkSpeed]]

Motion == DOMAIN MotionVelocity

ASSUME NothingAssumption == Nothing \notin Motion

Velocity == [x : Int, y : Int, turn : Int]

Packet == IF Simulator THEN Velocity ELSE Motion

\* Setpoints are velocities along one axis. (Positions are set by no command
\* that reaches this driver: action::clear sets motions.)
Command == [motion : Motion \cup {Nothing}, setpoint : Velocity]

\* model::command{}: stand still
DefaultCommand == [motion |-> Nothing, setpoint |-> Zero]

-----------------------------------------------------------------------------
(* controller::state_feedback                                              *)

Abs(n) == IF n < 0 THEN -n ELSE n

Clamp(n, lo, hi) == IF n < lo THEN lo ELSE IF n > hi THEN hi ELSE n

\* velocity_generator::control_vel on one axis: no target is reached at once,
\* except standing still (the normalized zero vector is zero).
Accelerate(target, previous) ==
    IF target = 0 THEN 0
    ELSE Clamp(target, previous - AccelStep, previous + AccelStep)

\* Turning speeds up by at most TurnStep. It slows down at once, but only when
\* signbit() of target and previous output agree: 0 counts as positive.
Turn(target, previous) ==
    IF \/ Abs(previous) < Abs(target)
       \/ (previous < 0) # (target < 0)
    THEN Clamp(target, previous - TurnStep, previous + TurnStep)
    ELSE target

\* A speed above the threshold may be cut at the edge of the field.
NearEdge(v) ==
    IF Abs(v) <= MoveThreshold THEN {v}
    ELSE IF v > 0 THEN 0..v ELSE v..0

\* The controller of id, given a setpoint: its possible outputs.
Control(id, setpoint) ==
    LET x == Accelerate(setpoint.x, u[id].x)
        y == Accelerate(setpoint.y, u[id].y)
    IN  [x : NearEdge(Clamp(x, -limit[id], limit[id])),
         y : NearEdge(Clamp(y, -limit[id], limit[id])),
         turn : {Turn(setpoint.turn, u[id].turn)}]

\* The motion process() picks for the controller's output v.
MotionFor(v) ==
    IF Abs(v.y) < Abs(v.x) /\ v.x > MoveThreshold THEN "walk_forward"
    ELSE IF Abs(v.y) < Abs(v.x) /\ v.x < -MoveThreshold THEN "walk_backward"
    ELSE IF Abs(v.y) >= Abs(v.x) /\ v.y > MoveThreshold THEN "walk_right"
    ELSE IF Abs(v.y) >= Abs(v.x) /\ v.y < -MoveThreshold THEN "walk_left"
    ELSE IF v.turn > TurnThreshold THEN "turn_left"
    ELSE IF v.turn < -TurnThreshold THEN "turn_right"
    ELSE "stop"

-----------------------------------------------------------------------------
(* The driver's operations                                                 *)

\* A driver of team c in which the robots in ids have been registered.
DriverInit(c, ids) ==
    /\ registered = ids
    /\ command = [id \in Id |-> DefaultCommand]
    /\ limit = [id \in Id |-> VMax]
    /\ u = [id \in Id |-> Zero]
    /\ driverColor = c
    /\ told = [id \in Id |-> Nothing]

\* Mutant for ActiveIsRegistered: nothing is unregistered.
RegisterOnly(new, old) ==
    LET fresh == new \ registered
    IN  /\ registered' = registered \cup new
        /\ command' = [id \in Id |->
              IF id \in fresh THEN DefaultCommand ELSE command[id]]
        /\ limit' = [id \in Id |-> IF id \in fresh THEN VMax ELSE limit[id]]
        /\ u' = [id \in Id |-> IF id \in fresh THEN Zero ELSE u[id]]

\* register_robot for the IDs in new, unregister_robot for those in old. A new
\* entry gets a default command and a new controller without a limit.
Reregister(new, old) ==
    LET fresh == (new \ registered) \cup old
    IN  /\ registered' = (registered \cup new) \ old
        /\ command' = [id \in Id |->
              IF id \in fresh THEN DefaultCommand ELSE command[id]]
        /\ limit' = [id \in Id |-> IF id \in fresh THEN VMax ELSE limit[id]]
        /\ u' = [id \in Id |-> IF id \in fresh THEN Zero ELSE u[id]]

\* set_velocity_limit; state_feedback keeps the smaller of it and VMax.
SetVelocityLimit(l) ==
    limit' = [id \in Id |->
        IF id \in registered THEN IF l < VMax THEN l ELSE VMax ELSE limit[id]]

\* Mutant for IdleNeverWalks: a stored motion outlives the next command.
UpdateSetpoint(id, c) ==
    /\ id \in registered
    /\ command' = [command EXCEPT ![id] =
          IF c.motion = Nothing THEN [@ EXCEPT !.setpoint = c.setpoint] ELSE c]

\* update_command of a registered robot (of another one it throws)
UpdateCommand(id, c) ==
    /\ id \in registered
    /\ command' = [command EXCEPT ![id] = c]

\* Mutant for TypeOK: a simulator is not sent the angular speed.
SentWithoutTurn(motion, stored, v) ==
    LET w == IF stored THEN v ELSE MotionVelocity[motion]
    IN  IF Simulator THEN [x |-> w.x, y |-> w.y] ELSE motion

\* What the radio is given to send: a simulator gets the controller's velocity
\* v, or the motion's if it has just been chosen.
Sent(motion, stored, v) ==
    IF ~Simulator THEN motion
    ELSE IF stored THEN v ELSE MotionVelocity[motion]

\* process() of one visible robot: the new command, controller output and
\* radio packet. A stored motion replaces the setpoint before control. (The
\* packet is addressed to the robot of team driverColor, left out here.)
Process(id) ==
    LET m == command[id].motion
        setpoint == IF m = Nothing THEN command[id].setpoint ELSE MotionVelocity[m]
    IN  {LET chosen == IF m = Nothing THEN MotionFor(v) ELSE m
         IN  [command |-> [motion |-> chosen, setpoint |-> setpoint],
              u |-> v,
              packet |-> Sent(chosen, m # Nothing, v)] :
         v \in Control(id, setpoint)}

\* main_loop: one control cycle, in which the robots in visible are in the
\* world model as members of the driver's team.
Cycle(visible) ==
    LET ids == visible \cap registered
        results == {r \in [ids -> UNION {Process(id) : id \in ids}] :
                        \A id \in ids : r[id] \in Process(id)}
    IN  \E r \in results :
           /\ command' = [id \in Id |->
                 IF id \in ids THEN r[id].command ELSE command[id]]
           /\ u' = [id \in Id |-> IF id \in ids THEN r[id].u ELSE u[id]]
           /\ told' = [id \in Id |->
                 IF id \in ids THEN r[id].packet ELSE told[id]]
           /\ UNCHANGED <<registered, limit, driverColor>>
=============================================================================
