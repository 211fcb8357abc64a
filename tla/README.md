# A verification model of the AI server

This directory holds TLA+ models of the robot-soccer AI in `src/`, configurations
that check them with TLC on small instances, and proofs that TLAPS checks for
every value of the constants. `PROJECT.json` ties every definition to the lines
it translates, every property to a hazard of the code, and lists the runs, the
mutants that show that a property can fail, and the theorems.

## The system

SSL-Vision's cameras and the referee box send multicast packets. A *receiver*
thread parses them and hands them to the *updaters*, which keep the world model.
A *game* thread computes commands from the world model and the referee's
command; a *driver* timer passes the last command of each robot through a
controller and sends it by radio, and makes the robots' observers publish what the
command will have done; the *GUI* thread starts and stops the game and
reconfigures everything. They share memory under mutexes. Which commands are
computed is decided in layers, once per cycle: the *captain* keeps a
formation for the referee's situation, the formation has agents, and an agent
answers the actions that its robots execute.

| part | source (under `src/src/ai_server`) | state | operations | correct when |
|---|---|---|---|---|
| robot updater | `model/updater/robot.*` | frames per camera, reliable and published values, two filter tables, matrix | `update`, setters, late writes of manual filters | tables agree in every order of packets, nothing throws, losses are told |
| ball updater | `model/updater/ball.*` | best detection per camera, ball, filter, matrix | the same | lost exactly when nobody sees it; follows the best camera |
| world updater | `model/updater/world.*`, `field.*` | disabled cameras, field | `update`, enable, disable | disabled cameras are ignored |
| ball state observer | `filter/state_observer/ball.*` | estimate | `update` | a lost ball is reported lost |
| robot state observer | `filter/state_observer/robot.*`, GUI | raw value, times of capture, estimate | `observe`, `set_raw_value`, time-out | a seen robot is published, a lost one leaves, and is tracked again when seen |
| driver, controller | `driver.*`, `controller/*` | command, controller and radio per robot, team color | register, command, limit, cycle | the last command is what the robot does |
| game runner | `src/app/standalone-gui/main.cc` | active robots, color, `running_`, `need_reset_`, the thread | start, stop, reconfigure, main loop | stopping stops the robots; limits follow the referee; no stale command |
| refbox updater | `model/updater/refbox.*` | the referee's last message | `update` | the newest command counts; of an older message only the designated position survives one without |
| captain | `game/captain/*` | situation, formation, time of change | `execute` | the formation fits the referee's commands |
| formations, agents | `game/formation`, `game/agent` | roles, flags, state machines | `execute`, `finished` | nobody kicks before the signal, out of its role, or twice; a receiver is where the pass goes; each play ends |
| actions | `game/action` | state machines with thresholds | `execute`, `finished` | a finished kick commands no kick; a placed ball comes to rest |
| planners, search | `planner/`, `game/detail/mcts` | trees | search | geometry |
| receivers, radio | `receiver/`, `radio/`, `util/net` | sockets, statistics, queues | receive, send | every packet is handled once |
| logger | `logger/` | registered sinks | register, log | a sink is complete when it is called |

The rest is vendored (`src/src/_deps`, `src/3rd`), build files, protocol
definitions and drawing code.

**Hard behaviours.** Packets of up to eight cameras arrive in any order and each
stored frame outlives its packet, so nearly every fault needs two or three
packets and a setter in between. The GUI reconfigures the game thread and the
driver while they run. The driver *stores* in a command a motion it has picked
from a transient of the controller. Filters are owned by others and may write
after they have been dropped; the observers are called by three threads. Plays last for hundreds
of cycles, each of which sees another world: what an agent asks an action for is what an
earlier cycle has left, a robot that gets no command keeps its last one, and roles change from
one cycle to the next. `PROJECT.json` lists these as hazards, with their
lines and the properties for them; where no property exists it says why.

## Modules

| module | models | of |
|---|---|---|
| `RobotUpdater` | `updater::robot<Color>` | one team's robots, all its operations; filters are known by their interface |
| `RobotObserver` | `filter::state_observer::robot`, its owner in the GUI, and the updater it is a filter of | receiver, driver and GUI threads; implements `RobotUpdater` |
| `BallUpdater` | `updater::ball` | state and operations, without a next-state relation of its own |
| `World` (extends `BallUpdater`) | `updater::world`, `field` | packets, cameras that are enabled and disabled between their steps |
| `Driver` | `driver`, velocity control of `state_feedback`, motions | operations used by `GameRunner` |
| `GameRunner` (extends `Driver`) | `game_runner` of the GUI | game, GUI, driver and receiver threads |
| `Captain` | `captain::first`, `captain::detail::state`, the referee's message, what formations know of their end | cycles of the captain, and what happens between them |
| `Actions` | `action::kick`, `action::turn_kick`, what `receive` remembers | state machines, without variables |
| `KickOff`, `PenaltyKick`, `Setplay` (extend `Actions`) | the agents of the same names | what one cycle makes of an agent, and of its kicker's command |
| `BallPlacement` (extends `Actions`) | `agent::ball_placement`, `action::ball_place` | the same, for several robots |
| `All` (extends `Actions`) | `agent::all`, of the formation steady | who is taken for visible, who gets the ball, who is told what |
| `Attack` (extends these five) | the formations that make these agents | one play after another, cycle by cycle |
| `Regular` | `agent::regular` | who chases the ball, marks, waits for a pass, moves; cycles and setters |
| `MC…` | small instances | |
| `…Proofs` | theorems | |
| `Maxima` | a lemma: numbers on a finite set have a greatest one | used by the proofs about cameras' choice |

**How state and actions correspond to the code.** A member function that holds a
mutex for its whole body is one action. Where it locks several times, or calls
into another locked object, there is an action per critical section: `Receive`,
`Detect` and `Survey` for `world::update`; `Lock`, `WakeUp`, `ReadInputs`, `Act`,
`SendCommand` for an iteration of `game_runner::main_loop`, which holds
`mutex_` from `WakeUp` to `SendCommand` (`MutexFree` is false there, and the GUI's
handlers wait) but takes the driver's mutex anew for each call. The destructor and
`stop()` are split at `join()`.

*RobotUpdater.* `Update(c, f)` stores frame `f` of camera `c` and then treats each
ID by itself. The code iterates over a hash table with the IDs as keys, and what it does to
one ID depends on no other, so `Outcomes` gives the possible new entries of one ID and `Results`
one outcome per ID. Equal confidences are decided by hash order: any
maximum may be chosen. `Adopt` is the branch in which the packet's camera won, `Inherit`
the other one, `Lose` the loop over the published robots. Filters are known by
their interface: a *same* filter answers any estimate, and an observation with
nothing only if `DropsValues`; a *manual* filter writes when its owner says
(`Hold`, `Write`), also after it was dropped. `held` is who locked the
`weak_ptr`; `unfiltered` and `erased` are history variables.

*BallUpdater and World.* The same for one ball; the best detection per camera is
stored instead of the frame. A camera's geometry is lost with its detection if it
is disabled, as the tests expect. A `same` filter that tracks the ball answers a loss with nothing, as
`filter/base.h` says; `Observer` makes it the state observer, which answers with an estimate always.

*RobotObserver.* The same `update`, with the observers in the place of abstract filters. Points of time
appear as ages, capped one tick above `LostAfter`; `Unset` is the age of `time_point::min()`. The difference of
`now()` to it has more than 63 bits and wraps to a negative number, so `TimedOut` is false for it: that is
what the code does, and what `LostLeaves` is about. A frame's age when it arrives is at most `MaxDelay`. The Euler
step's result is one value, `Estimated`; `Default` is the robot that nothing has been observed of. Observers are
locked and called in two steps (`LockObserver`, `Observe`), both under the driver's lock, which the GUI holds
when it sets or clears one. `U` is the instance of `RobotUpdater` that the module implements:
an observer with a raw value is a tracking manual filter, one without is idle, and the locked one is `held`.

*Driver.* Velocities are small integers, along one axis at a time, relative to the
robot. `Control` is the controller: ramps of speed (`Accelerate`) and angular speed
(`Turn`, with `signbit` of zero positive), the limit, and the cut at the edge of the
field, an arbitrary smaller speed. The regulator's gains are zero (`k_ = omega_` and
damping one), so the output is the ramped target; a turn of the robot during the Smith predictor's
delay is ignored. `Process` stores the chosen motion in the command, as the code
does. Packets carry no team color in the model.

*GameRunner.* `Act` stands for `action::clear::execute`, which keeps no state: with the
robot invisible it answers the default command, otherwise a turn or a walk. Guards of
the GUI actions are those of its buttons. `madeFor` is a history variable: the color for
which the command that the driver keeps for `ActionId` was computed. A `set_team_color` with the
same color changes nothing and is left out. Exceptions of `update_command` in the loop are
caught, as in `SendCommand`; those after the loop end the process, and
`ActiveIsRegistered` says that there are none.

*Captain.* `Execute` is `captain::execute`: `NextSituation` is the state machine of
`detail::state`, and the five disjuncts are the handlers that `first::table_` names,
by what they do with the formation: make one, keep a placement unless its target has
changed, start the shootout's defense, turn a play into steady, nothing. `Run` is
`execute()` of the formation, as far as it decides `finished()`; the attacks' `finished()` is an
arbitrary answer (`done`), as their agents decide it (`Attack` shows what they answer). A cycle works on copies of message and world, so
between `Execute` and `Run` nothing else happens; `Receive`, `MoveBall`, `Tick` and
`Reset` do between cycles. A command is a name and a team, so that one definition stands for
`next_situation<yellow>` and `<blue>`. The five samples of `past_ball_` are kept as the number of the latest
ones that are away from the first position (`far`): the code asks only whether all are. Places of the ball
are more than 200 mm apart, so "away" is "elsewhere". `prepared` is a history variable. Formations are taken to be
made while the keeper and a field robot of ours are visible: some constructors are undefined otherwise
(hazards at `kickoff_defense.cc:33`, `penalty_attack.cc:33`). The game
loop has the captain commented out at present; the module follows the commented lines for when it is made.

*Actions, agents and Attack.* Positions and speeds are real numbers, and the code uses them only in
comparisons. A cycle works on one copy of the world, so all that it can learn is a *view*: one result for each
comparison that its state makes. Views are chosen arbitrarily, except that results that exclude each other do not come
together (`KickOffSees`, `Roles`, `PlaceView`). `Execute…` is a whole cycle of an agent: `execute()` of the agent and then
of the actions it answers. `…Kicks` is whether the kicker's last command kicks; a robot that gets none in a cycle keeps the one it
has in the driver. Ages count ticks since the point of time that an agent or action keeps, up to `TimeBound`. History
variables: `alone` (no waiter was visible in the last cycle), `unseen` (kicking robots that the last cycle
has not seen), `came` (whether the receiver of a pass, or one before it, has been at its place), `stands` and `rest` (whether a robot in
the state wait stands still or has been driven away by another action, and how long it has stood still).

In `Setplay`, 0 is the kicker and 1 to `n` are the receivers, which are alike; `n` and `mode_`, which depend on the
world, are chosen at first. All its robots are taken to be visible; where they are not, the cycle does not get to the state machine. In
`PenaltyKick`, a cycle without the enemy's keeper changes nothing, as `at()` throws before any assignment. In `KickOff`,
the null pointer that is called when no waiter was visible leads to `Crashed`, a state without a successor.
In `BallPlacement`, `place` maps each robot to its `ball_place`, which keeps its state while the robot is not the chaser.
`mode_` and `target_` only decide which comparisons a view holds, so they are not state (nor is the value that `mode_` has
before it is first set). `Tick` lets time pass between cycles. `Leave` is the captain, who may end a play at any time.

*All*, the steady play, has no state machine, but a memory: the time since it saw each robot (`lost`, zero for one that it
has never seen, as the constructor does not look). `Known` are the robots it takes for visible, among whom it chooses a chaser by position;
only those that are seen in this very cycle are `Told`. `Nobody` is the chaser when the keeper is it, who is not one of
`Robot`. `kicking` is what the driver remembers of all robots, those of the play before included; `seen` is a history variable. The
robot that is passed to, the mode and the search that chooses them decide where robots go and are left out.

*Regular.* `Cycle` is `execute()` with the actions it answers: the chaser first, then the markings, the receivers and who is left.
Positions decide which robot is the nearest, the order of the enemies' importance (an arbitrary injection into numbers),
who marks whom, and who stands where a pass could go; each is arbitrary. `UseChaser`, `UseNoChaser` and `CustomizeMarking` are the setters, which may be called
between any cycles. `chaser_id_` is not initialised before `select_chaser()` may answer it, so it may be any robot. `seen`,
`chasing` and `missed` are history variables. No formation makes this agent at present, so its setters may be called whenever a cycle is not running.

## Runs

| run | instance | shows |
|---|---|---|
| `robot_updater` | two robots, two cameras, two confidences, two matrices, one detection per frame, a manual filter for one robot | types; the table of reliable values has exactly the robots of the stored frames; `at()` never throws; a robot without filters is published as its most reliable observation; *same* filters that always answer are told of each loss, unless a late write has taken the robot off the list; the published value converges; a lost robot disappears, also after a late write |
| `robot_observer` | one robot, two cameras, two detections per frame, frames up to one tick old, a time-out of two | a tracked robot is published and never as the default robot; the composition implements `RobotUpdater`; a robot that is seen is tracked again after each loss |
| `robot_observer_lost` | one robot, one camera, one detection per frame, a time-out of one, no delay | **violated**: a robot that nobody sees comes back after its time-out |
| `game_runner` | two robots, two colors, three referee commands | types; active robots are registered; limits follow the referee; no stale command stays; nothing walks or turns left once the game has ended; `stop()` returns |
| `game_runner_stop` | one robot | **violated**: a robot that turned right when the game stopped turns for ever |
| `world` | two cameras, two confidences, two matrices, two balls per frame | lost means unseen; the ball converges; a loss is reported |
| `world_disabled` | the same, two poses | **violated**: a disabled camera's last detection freezes the ball |
| `ball_observer` | the state observer as filter | **violated**: a lost ball is never reported as lost |
| `captain` | two colors, two target positions, two places of the ball, two samples | types; the formation fits situation and command; placements follow the target; normal_start starts what was prepared; nothing is read before it is set; plays of ours end; a defense ends while the ball stays away |
| `attack` | two robots, setplays with none or six receivers, one change of the receiver, times of one tick (robots are lost at once in the steady play) | types; no kick before the signal, none after a finished one; a receiver for a kickoff; the pass goes to whom it is prepared for, and waits until a receiver has come or the time is up; only the chaser of a placement or of the steady play kicks; the placed ball rests, unless the robot is driven away from it; a play whose robots do as they are told ends; the only robot in sight gets the ball |
| `attack_penalty` | the same, without receivers | **violated**: the five seconds of a penalty never pass |
| `regular` | four robots, of which three are the agent's, two enemies | `get_ball` is there when it is called; each robot in sight has one role; receivers wait for who has the ball; a lost chaser is replaced within two cycles |

The violated runs check what a comment or a test of the repository says; the
findings in `PROJECT.json` quote it.

**Bounds.** Two cameras and two confidences give every order of "better", "worse"
and "equal", with frames that are stored and stale. A third camera adds nothing but another stored frame that is
neither the packet's nor the best. IDs do not influence each other in `update`, so two suffice to
have one with a manual filter and one without. Two robots in `game_runner` give one with an action and one
that is only ever told to stop. `MaxDetections` and `MaxBalls` bound the frames, which are finite in the proofs too; nothing
else is unbounded. In `game_runner_stop`, `TurnSpeed = 2`, `TurnStep = 1`, `TurnThreshold = 0` put the ramp of a
turn above its threshold for one cycle, as the code's 1.5, 0.105 and 0.5 do for ten;
`WalkSpeed = MoveThreshold`, as both are 100 in the code.
In `Captain`, two samples distinguish a ball that is away from one that is away in all samples;
two positions give a target that changes; time limits of one tick below `TimeBound` give
cycles before and after them, and a clock that stays at `TimeBound` answers every comparison as a later
one would. There, a defense must wait for two ticks (`KickedTime = 1`), so a time that is taken anew does not
get there by one long cycle.
In `robot_observer`, a time-out above the delay gives frames that are in time, late, and followed by none; a second
robot would have an observer of its own.
In `attack`, two robots give a kicker and a waiter, or a chaser and a receiver who change places; who of three is what is
decided by positions only. Six receivers are the fewest for which a change of the receiver is possible
(`Better`: below `n / 3 * 2`) with more than one to change to; one change tells "changed" from "may change again". `LostTime = 0` below
`TimeBound = 1` gives robots that are seen, unseen but still taken for visible, and lost.
In `regular`, three robots give a chaser, one that marks and one that waits, or two that could change places; the fourth is what an uninitialised
`chaser_id_` may name. With two enemies some robots keep their marking while others are assigned anew, and the loop that keeps them
stops before its end. `missed` is the only counter, and the property bounds it.

**Fairness.** Cameras send periodically and the receiver handles packets in order
of arrival. In `RobotUpdater` each camera sends for ever, a new frame or, when it sees nothing new,
its last one again: either there are steps of `Update` for this camera, or a repetition of its last frame would change
nothing (`Settled`), again and again; `RobotObserver` says the same of the composition (`Sending`). In `World`, frames of each camera are handled again and again
unless it is again and again disabled (`Sending`; `Receive` is disabled while another packet is handled, so the receiver has to come to each camera's packets),
and what has been received is handled (`Handling`). None of these conditions on cameras asks what is enabled, so the provers can use them; that
the packets they promise can be handled is proved (`EveryPacketHandled`). The game thread runs (weak fairness), `join()` returns when the thread has
ended, the driver's timer fires, and in some of the cycles the robots are visible. Nothing is assumed of
the GUI, the referee, filters' owners or of what cameras see. The captain's cycles run, time passes (strong fairness of `Tick`, as it waits while a cycle runs), and in some of the cycles one of our robots is visible; without that the
defenses of penalty and setplay return early for ever. The driver computes a command for each robot in each of its cycles, so
observers are called again and again (`Driving`).

No agent can make the world do what it commands. `FairSpec` of `Attack` says only that cycles run, that time passes, and
that in some of them kicker and keeper are visible; with it alone, `PenaltyInTime` is checked. `ALoneRobotChases` rests on nothing else either. `CoopSpec` adds that the robots reach what
they work for: as long as a play comes back to a phase (`Phases`: place, set, move, rotate, wait, kick), there are cycles in which it has been reached
(`Reach`), while what these cycles see besides, and all cycles in between, are arbitrary. `PlaysEnd` then says that the state machines
themselves do not keep a play from its end. Phases of different plays share names, which is sound, as a play leaves its
kind only by ending, and keeps the number of fairness conditions, which TLC pays for exponentially, small. Mutexes need no fairness of their
own: who holds one is about to finish an action.

Each property has a mutant, a definition changed the way a slip in that code would change
it, under which TLC finds the property violated.

## Proofs

The proofs hold for any sets of robots, cameras, poses and any speeds that satisfy
the `ASSUME`s (confidences are numbers, the identity is a matrix, `std::nullopt` is
not a value, the limit at stop is below the maximum). TLC evaluates the assumptions in each run.

`RobotUpdaterProofs`: `Invariance` shows the inductive invariant `IInv`. Of the checked
invariants, `ReliableIsDetected` is nearly inductive: `Inherit` keeps an entry only because there
was one, and every other outcome sets or clears it. `NeverThrows` follows from it: the winning detection
of another camera was stored before, so its ID has an entry. `UnfilteredIsReliable` needs that a robot without a filter in its history has no
manual filter that some owner still holds, which is why `IInv` bounds `held`. `LossNotified` needs
that a *tracking* filter's robot is published and has a reliable value; this is false with `DropsValues` (below, "Observed"), so `FiltersHearOfLoss` assumes it false.
It is false, too, after the late write of `nullopt` by a manual filter that the *same* one has replaced: `erased` are the IDs to which this has happened
since they were last published by `update`, and the property excepts exactly these.
`EveryPacketHandled` shows that `update()` has a result for every packet, if there are finitely many cameras and `Estimate` is not empty:
frames are finite (`FramesStayFinite`), and of finitely many confidences one is the greatest (`GreatestExists` of `Maxima`, by a
minimal counterexample).

*Liveness of the updaters.* `Convergence` and `LossDisappears` prove `Converges` and `LostDisappears`. The argument is the same for all of the updaters' liveness
properties: while the premise lasts, a packet of the camera in question establishes the goal, or would change nothing because the goal holds already
(`Settled`), and no other step spoils it; fairness brings the packet, and a temporal step combines these. `LossDisappears` assumes that there is a camera: without
one, what a dropped filter has left would stay.

`RobotObserverProofs`: `IInv` adds that an observer that tracks and has no news has made an estimate, so that what `observe()`
writes again is not the default robot, and that the GUI does not destroy an observer that the driver thread has
locked. `Refinement` proves `Spec => ImplementsUpdater`: each step of the composition is a step of `RobotUpdater` with manual
filters (`Update` with `Adopt`, `Inherit` or `Lose` robot by robot, `Observe` a write by the owner) or leaves its variables alone.
So what `RobotUpdaterProofs` proves of all manual filters holds with these observers: `NeverThrowsWithObservers` and `UnfilteredWithObservers` take it over, through
an instance of that module. Fairness is not carried over by a refinement of safety, so `BareConverges` proves `Converges` again, of the composition and its own
fairness. `TrackedAgain` proves `FollowsAgain`: a frame of the camera that sees the robot best makes the observer track, and where a repetition of its
last frame would change nothing, the robot is tracked.

`GameRunnerProofs`: `IInv` adds to the checked invariants where they may be suspended: between
setting the limits and clearing the reset (`LimitsSet`), between threads (`FreshSeen`), and that
nothing is left to be stopped elsewhere (`OnlyThenStopping`). `MadeForRegistered` says that an unregistered robot's command is forgotten.
`IdleRobots` proves the action property `IdleNeverWalks` from a second invariant, `IdleInv`: when the game has ended every robot is *resting*, its
command being the default one, or one in which the driver has stored a stop, or a turn to the right that was chosen while the controller's output
was not positive. `TurnFacts` is the lemma on the controller's ramp behind it: it leaves neither the range of its
ends nor passes zero on its way. Its assumption (`ClearAssumption`) is that the action commands no faster turn than a motion's.
`StopComesBack` proves `StopReturns` from two hypotheses that are beyond the provers: `NeverStuck`, that the game thread can make a step until it has ended, and
`join()` can return when it has (a statement about ENABLED), and `LoopEnds`, that the loop over finitely many robots ends. Both hold in the instance of `game_runner`.
What is proved is the rest: from each place in `main_loop()`, the thread comes to the final loop, as `running_` stays false while the GUI is in `join()` (`JoinInv`) and
is looked at before each wait and each iteration, so that no notification can be lost to any harm.

`WorldProofs`: `IInv` adds that a ball without a filter in its history has no writer. `Convergence` proves `BallConverges`, and `LossIsReported`
proves `LossReported` for every filter but the state observer. Two theorems show what the findings about the ball come from, in general:
`BallObserverNeverLoses` (with the state observer, no step loses the ball) and `DisabledFreezes` (the foremost detection of a camera that stays disabled
freezes the ball, after its last packet). They, too, leave nothing to the values of the constants but `Observer`; that no camera is called `Nothing` is `WorldAssumption`.

`CaptainProofs`: `IInv` adds three facts. `SituationPrepared` extends `StartsWhatWasPrepared` to the
situations that normal_start begins with; `Execute` changes situation and `prepared` together, so each command establishes
it, and normal_start takes it from the situation before. `TargetRemembered` says that the formation's target is the
one that the next cycle compares with, without which a kept formation could have an older target than the message's.
`OnlyWatchersKick` is for `Tick`, the only other action that touches a formation: it leaves steady alone. `SteadyIsFinal` is proved of a step from the same invariant.
The time limits and the number of samples are arbitrary.

`AttackProofs`: one lemma per agent shows that a cycle with any view keeps the agent's part of `IInv`; `KickStep` is the common
one, that a kick that comes out of a cycle finished has commanded no kick in it. `PenaltyOK` adds that no penalty leaves the state wait before
the signal. `SetplayOK` adds that the kicker does not kick while places are sought, and what `receive_flag_` stands for (`Awaited`): its being set, not the robots' places, is what lets the pass go, so
a change of the receiver after an earlier one has come does not make the pass wait again. `JudgedFacts` and `AimedFacts` treat the changes that a cycle of a setplay makes
before it acts. `PlacementOK` adds that, once `wait_flag_` is cleared, the robot has been told to stand still and `begin_` is not older than that, unless it has been driven away: this is why the ball
rests, though `begin_` is shared with the state hold and robots change places. A robot that is driven away in its wait is excepted (below, "Observed"). `PlacementStep` shows that every visible robot but the chaser is given a command that
does not kick, whatever it had before. `SteadyStep` says the same of the steady play: who is seen is known, and who is known and seen is told something.

`RegularProofs`: `IInv` adds one fact to the invariants, that a cycle that counts as missed has told nobody to get the ball, which with
`ReceiversServed` means that nobody waits for a pass, so that the next cycle can take any robot. `FirstMarking` shows that markings use each follower once, those
kept and those new together, for any order of the enemies; the roles are then disjoint because each takes
from what the ones before it have left. The set of robots need not be finite.

Only model-checked: `StopReturns` without the two hypotheses, `AttackEnds`, `DefenseEnds`, `PlaysEnd` and `ALoneRobotChases`. They need an induction inside
the temporal formula (over the robots that are left to be stopped, the samples, the clock's ticks, the phases of a play), and ask what is enabled; both are
out of the provers' reach. Every invariant, every action property and every other liveness property of a passing run
is proved. Proved without a run of their own are `OneFilter` (no robot has two filters), `SteadyStays` (a play that has turned into steady does not
begin again), the type invariants of `World`, `RobotObserver` and `Regular`, that updaters handle every packet, and the causes of two findings.

## Observed

Besides the findings, reading the code for the models showed:

- A *same* filter that answers an observation with nothing unpublishes its robot, and is then not told of its loss (`updater/robot.cc:119` looks at published robots
  only), though `filter/base.h:34` says that a loss is told by `nullopt`. No filter of the repository does so.
- Nor is a *same* filter told when a manual filter that it has replaced, still held by its owner, writes `nullopt` late: `write` unpublishes the robot whatever filter
  it has by then (`updater/robot.h:98`), and if the cameras lose the robot before a packet publishes it again, `updater/robot.cc:119` passes it over. `LossNotified` excepts this history.
- A captain that is made while the referee has given `normal_start` has no handler for its first situation and answers a null pointer (`captain/first.cc:42`).
- `setplay.cc:125`: `kick_` is still finished from the pass when the state becomes shoot, so the shot of a receiver lasts one cycle.
- `setplay.cc:265`: `receive_flag_` is not reset when the receiver changes, so the pass may go to a new receiver that is still on its way (`PassWaits` says only that the one before had come). `setplay.cc:162`: `far_max` is indexed with a value that may be out of its bounds.
- `kick_off.cc:92`: `receive_` is null if the kick was over before a waiter was ever visible; `KickedHasReceiver` says that there is no other case.
- `kickoff_attack.cc:20` makes no agents without a visible robot, and leaves `defense_` and `kickoff_` null; `execute()` (`:54`) and `finished()` (`:62`) call them
  without a check. `FormKickOff` leaves this case out.
- `ball_place.cc:167` says that the robot's position counts when the ball is not visible; the code lets it count always. `:66` reads `mode_` before it is set, and `:214` compares with a `begin_` that the state hold
  has not set (the place that follows does not depend on it being right).
- `ball_place.cc:158`: the second of the wait goes on while another robot is the chaser. A chaser that is replaced in its wait is driven away by the action of a waiter
  (`ball_placement.cc:166`); when it becomes the chaser again, it leaves the ball at once. `RestsBeforeLeaving` excepts a wait that was interrupted in this way.
- `state_observer/robot.cc:53`: the first estimate uses the time since `time_point::min()`.
- `regular.cc:308`: the loop that keeps the old markings stops when it has kept as many as there are robots *left*, as these are taken from the list it
  compares with; so with two robots for two enemies one marking is made anew in each cycle. `:770` compares an iterator with the end of another vector.
- `regular.cc:292`: `chaser_id_` is answered before it is initialised if the constructor sees no robot. If it happens to name one of
  our robots that comes into sight, that one is told to get the ball, also if it belongs to another agent.
- `marking.cc:238` asks for robots by `at()`, which throws for one that is not visible, before the branch (`:261`) that would stop it.
- `all.cc:316` pushes the action guard alone and once more with its planner; the second command is the one that counts.

## Not modelled

- *Planners, tree search, neural networks, filters' arithmetic* (`planner/`, `game/detail/mcts.cc`, `game/nnabla.cc`, `va_calculator`, the Smith predictor): real-valued
  geometry and estimation. What their callers depend on enters as an arbitrary result.
- *Agents and actions without memory* (`agent/defense`, `agent/stopgame`, `agent/kick_off_waiter`, `agent/alignment`, `agent/performance`, and of the actions `guard`, `goal_keep`, `marking`, `move`, `vec`, `rush`): functions of one cycle's positions. With positions abstracted to
  comparisons nothing would be left to state; with positions kept, TLC cannot enumerate them.
  The agent `marking` remembers whom it has assigned to whom, but only what the enemies' distances were when they last changed.
- *`get_ball`, `chase_ball`*: `get_ball` remembers whether it moves, dribbles or has finished, each cycle's positions decide which; `chase_ball`, which counts
  frames and sets flags for the path around the ball, is made by nothing in the program.
- *Logger*: its sinks are made before the first thread and outlive the last.
- *Radio, receivers*: packing and unpacking of messages; sockets and statistics run on one thread each.
- *Drawing and settings of the GUI*: no state that the game depends on, except what `GameRunner` and `RobotObserver` have.
- *Unused parts*: `controller/humanoid`, `setplay::is_direct_`, `driver::set_stable`.
- *Vendored nnabla* (`src/src/_deps`, most of the repository's lines), build files, generated protocol code.

## Order of the work

1. Robot updater; game runner and driver; world and ball updater; captain; their safety proofs.
2. Robot observers as an implementation of the robot updater's specification; kickoff, penalty, setplay, ball placement with their actions; proofs
   of both, and of what robots do after a game.
3. The roles of `regular`, the steady play, liveness of the updater with two robots, and the proofs of these; liveness of the updaters and observers proved.
4. Left: the attacks' `finished()` in the place of `Captain`'s arbitrary `done`, by composing `Attack` with `Captain`, which
   TLC cannot enumerate as they are; readers of the whole world (`updater/world.cc:28`), for which no document says what they may see.
