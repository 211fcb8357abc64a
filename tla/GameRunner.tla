----------------------------- MODULE GameRunner -----------------------------
(***************************************************************************)
(* game_runner of the standalone GUI: the game thread, which runs an       *)
(* action once per cycle and passes its commands to the driver, the GUI    *)
(* thread, which starts, stops and reconfigures it, and the driver thread. *)
(*                                                                         *)
(* The game thread holds game_runner::mutex_ from waking up to the end of  *)
(* its iteration, but takes the driver's mutex anew for each call, so      *)
(* driver cycles come between its steps. The GUI's handlers hold both      *)
(* mutexes (std::lock) for their whole body: one action each.              *)
(***************************************************************************)
EXTENDS Driver

CONSTANTS
    ActionId,       \* the robot that main_loop's action commands
    ActionCommands, \* what the action's execute() may return
    StopLimit,      \* velocity_limit_at_stopgame
    RefboxCommand,  \* the game commands the referee gives
    NoColor         \* history: no command was computed

ASSUME RunnerAssumption ==
    /\ ActionId \in Id
    /\ ActionCommands \subseteq Command
    /\ DefaultCommand \in ActionCommands
    /\ StopLimit \in Nat /\ StopLimit < VMax
    /\ {"halt", "stop"} \subseteq RefboxCommand
    /\ "yellow" \in Color
    /\ NoColor \notin Color

\* action::clear commands no turn that is faster than a motion's.
ASSUME ClearAssumption == \A c \in ActionCommands : c.setpoint.turn >= -TurnSpeed

VARIABLES
    pc,         \* where the game thread is
    gui,        \* where the GUI thread is
    running,    \* running_
    needReset,  \* need_reset_
    active,     \* active_robots_
    color,      \* team_color_
    refbox,     \* the command in updater_refbox_
    seen,       \* refbox.command() in main_loop
    next,       \* the command main_loop has got from the action
    stopping,   \* robots still to be stopped at the end of main_loop
    madeFor     \* history: the color ActionId's command was computed for

runnerVars == <<pc, gui, running, needReset, active, color, refbox, seen,
                next, stopping, madeFor>>

vars == <<driverVars, runnerVars>>

\* "none": no thread.  "lock": about to lock mutex_.  "wait": in wait_until.
\* "read", "act", "command": in an iteration.  "final": out of the loop.
\* "stopping": sending the last commands.  "done": ended, not joined.
Place == {"none", "lock", "wait", "read", "act", "command", "final",
          "stopping", "done"}

TypeOK ==
    /\ registered \subseteq Id
    /\ command \in [Id -> Command]
    /\ limit \in [Id -> Nat]
    /\ u \in [Id -> Velocity]
    /\ driverColor \in Color
    /\ told \in [Id -> Packet \cup {Nothing}]
    /\ pc \in Place
    /\ gui \in {"idle", "joining", "closing", "closed"}
    /\ running \in BOOLEAN
    /\ needReset \in BOOLEAN
    /\ active \subseteq Id
    /\ color \in Color
    /\ refbox \in RefboxCommand
    /\ seen \in RefboxCommand
    /\ next \in ActionCommands
    /\ stopping \subseteq Id
    /\ madeFor \in Color \cup {NoColor}

\* The constructor registers the robots that are active at first.
Init ==
    /\ DriverInit("yellow", Id)
    /\ active = Id
    /\ color = "yellow"
    /\ pc = "none"
    /\ gui = "idle"
    /\ running = FALSE
    /\ needReset = FALSE
    /\ refbox = "halt"
    /\ seen = "halt"
    /\ next = DefaultCommand
    /\ stopping = {}
    /\ madeFor = NoColor

\* No thread holds mutex_.
MutexFree == pc \notin {"read", "act", "command", "stopping"}

-----------------------------------------------------------------------------
(* The game thread                                                         *)

\* Lock mutex_ and look at running_: wait_until's predicate comes first.
Lock ==
    /\ pc = "lock"
    /\ pc' = IF running THEN "wait" ELSE "final"
    /\ UNCHANGED driverVars
    /\ UNCHANGED <<gui, running, needReset, active, color, refbox, seen,
                   next, stopping, madeFor>>

\* wait_until returns, by a notification or because the cycle is over (which
\* needs no notification: stop() sets running_ without the mutex, and its
\* notify_all may come just before the wait begins).
WakeUp ==
    /\ pc = "wait"
    /\ pc' = IF running THEN "read" ELSE "final"
    /\ UNCHANGED driverVars
    /\ UNCHANGED <<gui, running, needReset, active, color, refbox, seen,
                   next, stopping, madeFor>>

\* Mutant for LimitFollowsReferee: new robots are forgotten.
CommandChanged == refbox # seen

\* The limits have to be set: another command, or a change of the robots.
LimitsDue == refbox # seen \/ needReset

\* Read world and refbox; set the velocity limit if the command has changed.
ReadInputs ==
    /\ pc = "read"
    /\ pc' = "act"
    /\ seen' = refbox
    /\ IF LimitsDue
       THEN SetVelocityLimit(IF refbox = "stop" THEN StopLimit ELSE VMax)
       ELSE UNCHANGED limit
    /\ UNCHANGED <<registered, command, u, driverColor, told>>
    /\ UNCHANGED <<gui, running, needReset, active, color, refbox,
                   next, stopping, madeFor>>

\* Make a new action if there is none or a reset is due, and execute it.
\* action::clear keeps no state, so old or new makes no difference.
Act ==
    /\ pc = "act"
    /\ pc' = "command"
    /\ needReset' = FALSE
    /\ next' \in ActionCommands
    /\ UNCHANGED driverVars
    /\ UNCHANGED <<gui, running, active, color, refbox, seen, stopping, madeFor>>

\* Hand the command to the driver. For a robot that is not registered it
\* throws; the exception is caught, logged, and the loop goes on.
SendCommand ==
    /\ pc = "command"
    /\ pc' = "lock"
    /\ IF ActionId \in registered
       THEN /\ UpdateCommand(ActionId, next)
            /\ madeFor' = IF next = DefaultCommand THEN NoColor ELSE color
       ELSE UNCHANGED <<command, madeFor>>
    /\ next' = DefaultCommand \* out of scope
    /\ UNCHANGED <<registered, limit, u, driverColor, told>>
    /\ UNCHANGED <<gui, running, needReset, active, color, refbox, seen, stopping>>

\* After the loop, mutex_ is locked again to stop every active robot.
BeginStopping ==
    /\ pc = "final"
    /\ pc' = "stopping"
    /\ stopping' = active
    /\ UNCHANGED driverVars
    /\ UNCHANGED <<gui, running, needReset, active, color, refbox, seen,
                   next, madeFor>>

\* update_command(id, {}), outside of any try block
StopRobot(id) ==
    /\ pc = "stopping"
    /\ id \in stopping
    /\ UpdateCommand(id, DefaultCommand)
    /\ stopping' = stopping \ {id}
    /\ madeFor' = IF id = ActionId THEN NoColor ELSE madeFor
    /\ UNCHANGED <<registered, limit, u, driverColor, told>>
    /\ UNCHANGED <<pc, gui, running, needReset, active, color, refbox, seen,
                   next>>

\* main_loop's locals go: the next thread's refbox is a default one.
EndThread ==
    /\ pc = "stopping"
    /\ stopping = {}
    /\ pc' = "done"
    /\ seen' = "halt"
    /\ UNCHANGED driverVars
    /\ UNCHANGED <<gui, running, needReset, active, color, refbox, next, stopping, madeFor>>

GameThread ==
    \/ Lock \/ WakeUp \/ ReadInputs \/ Act \/ SendCommand
    \/ BeginStopping \/ EndThread
    \/ \E id \in Id : StopRobot(id)

-----------------------------------------------------------------------------
(* The GUI thread                                                          *)

\* start(), behind a button that is labelled "start" when no game runs.
Start ==
    /\ gui = "idle"
    /\ pc = "none"
    /\ running' = TRUE
    /\ pc' = "lock"
    /\ UNCHANGED driverVars
    /\ UNCHANGED <<gui, needReset, active, color, refbox, seen, next, stopping, madeFor>>

\* Mutant for StopReturns: the thread is notified of nothing.
StopUnnoticed ==
    /\ gui = "idle"
    /\ pc # "none"
    /\ gui' = "joining"
    /\ UNCHANGED driverVars
    /\ UNCHANGED <<pc, running, needReset, active, color, refbox, seen, next,
                   stopping, madeFor>>

\* stop() up to join()
Stop ==
    /\ gui = "idle"
    /\ pc # "none"
    /\ running' = FALSE
    /\ gui' = "joining"
    /\ UNCHANGED driverVars
    /\ UNCHANGED <<pc, needReset, active, color, refbox, seen, next,
                   stopping, madeFor>>

\* ~game_runner() up to join()
Close ==
    /\ gui = "idle"
    /\ running' = FALSE
    /\ gui' = "closing"
    /\ UNCHANGED driverVars
    /\ UNCHANGED <<pc, needReset, active, color, refbox, seen, next,
                   stopping, madeFor>>

\* join() returns when the thread has ended; the destructor joins only a
\* joinable thread.
Join ==
    /\ \/ gui = "joining" /\ pc = "done"
       \/ gui = "closing" /\ pc \in {"done", "none"}
    /\ pc' = "none"
    /\ gui' = IF gui = "joining" THEN "idle" ELSE "closed"
    /\ UNCHANGED driverVars
    /\ UNCHANGED <<running, needReset, active, color, refbox, seen,
                   next, stopping, madeFor>>

\* set_active_robots, behind the "apply" button
SetActiveRobots(ids) ==
    /\ gui = "idle"
    /\ MutexFree
    /\ LET removed == active \ ids
           changed == ids \ registered # {} \/ removed # {}
       IN  /\ Reregister(ids, removed)
           /\ active' = IF changed THEN ids ELSE active
           /\ needReset' = (needReset \/ changed)
           /\ madeFor' = IF ActionId \in removed THEN NoColor ELSE madeFor
    /\ UNCHANGED <<driverColor, told>>
    /\ UNCHANGED <<pc, gui, running, color, refbox, seen, next, stopping>>

\* Mutant for StaleCommandPending: the action keeps playing for the old team.
SetColorOnly(c) ==
    /\ gui = "idle"
    /\ MutexFree
    /\ driverColor' = c
    /\ color' = c
    /\ UNCHANGED <<registered, command, limit, u, told>>
    /\ UNCHANGED <<pc, gui, running, needReset, active, refbox, seen, next,
                   stopping, madeFor>>

\* set_team_color: the same color changes nothing.
SetTeamColor(c) ==
    /\ gui = "idle"
    /\ MutexFree
    /\ c # color
    /\ driverColor' = c
    /\ color' = c
    /\ needReset' = TRUE
    /\ UNCHANGED <<registered, command, limit, u, told>>
    /\ UNCHANGED <<pc, gui, running, active, refbox, seen, next,
                   stopping, madeFor>>

Gui ==
    \/ Start \/ Stop \/ Close \/ Join
    \/ \E ids \in SUBSET Id : SetActiveRobots(ids)
    \/ \E c \in Color : SetTeamColor(c)

-----------------------------------------------------------------------------

\* The receiver thread stores a referee packet.
Referee(c) ==
    /\ refbox' = c
    /\ UNCHANGED driverVars
    /\ UNCHANGED <<pc, gui, running, needReset, active, color, seen,
                   next, stopping, madeFor>>

DriverThread(visible) == Cycle(visible) /\ UNCHANGED runnerVars

Next ==
    \/ GameThread
    \/ Gui
    \/ \E c \in RefboxCommand : Referee(c)
    \/ \E visible \in SUBSET Id : DriverThread(visible)

Spec == Init /\ [][Next]_vars

\* The game thread runs, join() returns when it can, and the driver's timer
\* fires every cycle, in some of which the robots are seen.
Fairness ==
    /\ WF_vars(GameThread)
    /\ WF_vars(Join)
    /\ WF_vars(DriverThread(Id))

FairSpec == Spec /\ Fairness

-----------------------------------------------------------------------------
(* Properties                                                              *)

\* There is no game thread, or it has ended.
NoGame == pc \in {"none", "done"}

Rightward == [x : {0}, y : {0}, turn : -TurnSpeed..0]

\* The driver knows exactly the active robots, so that stopping them at the
\* end of main_loop() throws for none (it would terminate the process).
ActiveIsRegistered == active = registered /\ stopping \subseteq registered

\* The limit of every registered robot is right for the command c.
LimitsFor(c) ==
    \A id \in registered : limit[id] = IF c = "stop" THEN StopLimit ELSE VMax

\* While the last command the game thread saw is STOP, every robot is limited,
\* also one registered since then, as soon as the pending reset is handled; and
\* no limit outlives STOP into play. (A new game thread takes HALT for granted
\* and may find an old limit.)
LimitFollowsReferee ==
    pc \in {"lock", "wait", "read", "act", "command"} =>
        needReset \/ seen = "halt" \/ LimitsFor(seen)

\* A command that was computed for the other team is never left with a robot
\* for good: a reset is pending or the next command is on its way.
StaleCommandPending ==
    madeFor \in {NoColor, color} \/ needReset \/ pc = "command"

\* Once the game thread has ended, no robot is made to walk or turn left.
IdleNeverWalks ==
    [][NoGame => \A id \in Id :
          told'[id] # told[id] =>
              told'[id] \in IF Simulator THEN Rightward
                            ELSE {"stop", "turn_right"}]_vars

\* stop() and the destructor return: the GUI does not hang in join().
StopReturns == gui \in {"joining", "closing"} ~> gui \in {"idle", "closed"}

\* main_loop() ends with "stop all robots": each is eventually told to.
StopsAllRobots ==
    \A id \in Id :
        (NoGame /\ id \in registered)
            ~> \/ ~NoGame
               \/ id \notin registered
               \/ told[id] = IF Simulator THEN Zero ELSE "stop"

\* join() is called for a thread that has ended, or for none.
JoinReady == (gui = "joining" /\ pc = "done") \/ (gui = "closing" /\ NoGame)

\* The game thread always has a step to make until it has ended, as no lock and no
\* exception holds it, and join() returns when it can.
NeverStuck ==
    /\ ~NoGame => ENABLED <<GameThread>>_vars
    /\ JoinReady => ENABLED <<Join>>_vars

\* The loop that stops the active robots ends.
LoopEnds == []<>(pc # "stopping")

-----------------------------------------------------------------------------
(* The inductive invariant behind the safety properties                    *)

\* Between threads, the next one's refbox is already the default one.
FreshSeen == pc \in {"none", "done"} => seen = "halt"

\* Once the limits are set, nobody disturbs them until the reset is cleared.
LimitsSet == pc = "act" => seen = "halt" \/ LimitsFor(seen)

OnlyThenStopping == stopping # {} => pc = "stopping"

\* A robot that has been unregistered has forgotten its command.
MadeForRegistered == madeFor # NoColor => ActionId \in registered

IInv ==
    /\ TypeOK
    /\ ActiveIsRegistered
    /\ LimitFollowsReferee
    /\ StaleCommandPending
    /\ FreshSeen
    /\ LimitsSet
    /\ OnlyThenStopping
    /\ MadeForRegistered

(* The one behind IdleNeverWalks                                           *)

\* No command or output turns a robot to the right faster than the motion.
TurnsBounded ==
    \A id \in Id : u[id].turn >= -TurnSpeed /\ command[id].setpoint.turn >= -TurnSpeed

\* A robot that has been told to stop; where a turn to the right has been chosen for
\* it, it does not turn to the left.
Resting(id) ==
    \/ command[id].motion = Nothing /\ command[id].setpoint = Zero
    \/ command[id].motion = "stop"
    \/ command[id].motion = "turn_right" /\ u[id].turn <= 0

\* The action's robot has a game thread that is still to stop it.
ToBeStopped(id) ==
    /\ id = ActionId /\ id \in registered
    /\ ~NoGame
    /\ pc = "stopping" => id \in stopping

IdleInv ==
    /\ TurnsBounded
    /\ \A id \in Id : Resting(id) \/ ToBeStopped(id)
=============================================================================
