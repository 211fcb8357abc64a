--------------------------- MODULE RobotObserver ----------------------------
(***************************************************************************)
(* filter::state_observer::robot as the manual filter of the robots of our *)
(* team: the receiver thread tells it what the updater has received, and   *)
(* the driver thread makes it publish an estimate whenever it has computed *)
(* a command (game_runner::handle_command_updated).                        *)
(*                                                                         *)
(* The driver thread and the GUI thread, which sets and clears observers,  *)
(* exclude each other by the driver's lock; both exclude the receiver only *)
(* within one call, by the updater's mutex.                                *)
(*                                                                         *)
(* Points of time appear as ages up to LostAfter + 1.  An estimate is      *)
(* either the default robot, which no observation has entered, or another. *)
(***************************************************************************)
EXTENDS Naturals

CONSTANTS
    Id,             \* robot IDs of our team
    Camera,         \* camera IDs
    Confidence,     \* detection confidences (numbers)
    Pose,           \* positions in camera coordinates
    Matrix,         \* the transformation to the coordinates of the world
    Default,        \* model::robot{}
    Estimated,      \* what the Euler step yields
    MaxDetections,  \* bound: robots reported in one frame
    LostAfter,      \* lost_duration_
    MaxDelay,       \* bound: the age of a frame that arrives
    NoRobot         \* std::nullopt, no entry, no observer

ASSUME ObserverAssumption ==
    /\ Confidence \subseteq Nat
    /\ MaxDetections \in Nat
    /\ LostAfter \in Nat
    /\ MaxDelay \in 0 .. LostAfter
    /\ Default \notin [pose : Pose, affine : {Matrix}] \cup {Estimated}
    /\ NoRobot \notin [pose : Pose, affine : {Matrix}] \cup {Default, Estimated} \cup Id

VARIABLES
    robots,      \* robots_ of the updater
    raw,         \* raw_robots_ of the updater
    reliable,    \* reliable_robots_ of the updater
    observer,    \* the observer that filters_manual_ holds for each ID
    observing,   \* the robot whose observer the driver thread has locked
    unfiltered   \* history: IDs that never had an observer

vars == <<robots, raw, reliable, observer, observing, unfiltered>>

-----------------------------------------------------------------------------
(* What the updater knows of its filters *)

\* It tells an observer of observations and losses, and lets it write.
Manual ==
    [id \in Id |-> IF observer[id] = NoRobot THEN "absent"
                   ELSE IF observer[id].raw = NoRobot THEN "idle" ELSE "tracking"]

U == INSTANCE RobotUpdater WITH
        Affine <- {Matrix}, Identity <- Matrix, Estimate <- {Default, Estimated},
        ManualIds <- Id, DropsValues <- FALSE,
        same <- [id \in Id |-> "absent"], manual <- Manual, initializer <- FALSE,
        affine <- Matrix, held <- {observing} \ {NoRobot},
        erased <- {}

-----------------------------------------------------------------------------
(* The observer *)

Unset == LostAfter + 2   \* the age of time_point::min()

Age == 0 .. LostAfter + 1

\* raw is raw_value_, capture the age of capture_time_, state is prev_state_;
\* news tells whether receive_time_ differs from prev_time_.
Observer ==
    [raw : U!Transformed \cup {NoRobot}, capture : Age \cup {Unset},
     news : BOOLEAN, state : {Default, Estimated}]

ASSUME ObserverIsSomething == NoRobot \notin Observer

NewObserver == [raw |-> NoRobot, capture |-> Unset, news |-> FALSE, state |-> Default]

\* Mutant for FollowsAgain: an observer that has lost its robot stays lost.
SetRawOnce(o, v, age) ==
    [o EXCEPT !.raw = v, !.news = TRUE,
              !.capture = IF v = NoRobot \/ (@ = Unset /\ o.state = Estimated)
                          THEN @ ELSE age]

\* set_raw_value(v, time): the observer afterwards.  Every frame has a capture
\* time of its own.
SetRaw(o, v, age) ==
    [o EXCEPT !.raw = v, !.news = TRUE, !.capture = IF v = NoRobot THEN @ ELSE age]

\* Mutant for ImplementsUpdater: the last estimate is written for a first value.
Resume(id, v) == IF observer[id].capture = Unset THEN Estimated ELSE robots[id]

\* What set_raw_value(v, time) leaves published: a first value is written.
Restart(id, v) == IF observer[id].capture = Unset THEN v ELSE robots[id]

\* now() - capture_time_ > lost_duration_.  The difference to time_point::min()
\* has more than 63 bits, so it comes out negative.
TimedOut(o) == o.capture # Unset /\ o.capture > LostAfter

\* Mutant for TrackedIsPublished: capture_time_ is not set back.
ObserveKeeping(o) ==
    IF TimedOut(o) THEN [written |-> NoRobot, observer |-> o]
    ELSE IF ~o.news THEN [written |-> o.state, observer |-> o]
    ELSE [written |-> Estimated,
          observer |-> [o EXCEPT !.news = FALSE, !.state = Estimated]]

\* observe(): what it writes and what becomes of the observer.
Observed(o) ==
    IF TimedOut(o) THEN [written |-> NoRobot, observer |-> [o EXCEPT !.capture = Unset]]
    ELSE IF ~o.news THEN [written |-> o.state, observer |-> o]
    ELSE [written |-> Estimated,
          observer |-> [o EXCEPT !.news = FALSE, !.state = Estimated]]

-----------------------------------------------------------------------------
(* The receiver thread: robot<Color>::update() *)

\* Camera c's frame, of the given age, has the most reliable value v.
Adopt(id, v, age) ==
    IF observer[id] = NoRobot
    THEN [robot |-> v, reliable |-> v, observer |-> NoRobot]
    ELSE [robot |-> Restart(id, v), reliable |-> v,
          observer |-> SetRaw(observer[id], v, age)]

\* Another camera has it.
Inherit(id) ==
    [robot |-> robots[id], reliable |-> reliable[id], observer |-> observer[id]]

\* Only a published robot's observer is told of the loss.
Lose(id, age) ==
    IF robots[id] = NoRobot \/ observer[id] = NoRobot
    THEN [robot |-> NoRobot, reliable |-> NoRobot, observer |-> observer[id]]
    ELSE [robot |-> robots[id], reliable |-> NoRobot,
          observer |-> SetRaw(observer[id], NoRobot, age)]

Outcomes(r, c, age, id) ==
    IF id \notin U!Detected(r) THEN {Lose(id, age)}
    ELSE {IF x.camera = c THEN Adopt(id, U!Transform(Matrix, x.detection), age)
          ELSE Inherit(id) : x \in U!MostReliable(r, id)}

Update(c, f, age) ==
    LET r == [raw EXCEPT ![c] = f]
    IN  /\ raw' = r
        /\ \E out \in [Id -> UNION {Outcomes(r, c, age, id) : id \in Id}] :
              /\ \A id \in Id : out[id] \in Outcomes(r, c, age, id)
              /\ robots' = [id \in Id |-> out[id].robot]
              /\ reliable' = [id \in Id |-> out[id].reliable]
              /\ observer' = [id \in Id |-> out[id].observer]
        /\ UNCHANGED <<observing, unfiltered>>

-----------------------------------------------------------------------------
(* The GUI thread, which holds the driver's lock meanwhile *)

\* set_state_observer()
SetObserver(id) ==
    /\ observing = NoRobot
    /\ observer' = [observer EXCEPT ![id] = NewObserver]
    /\ unfiltered' = unfiltered \ {id}
    /\ UNCHANGED <<robots, raw, reliable, observing>>

\* clear_state_observer()
ClearObserver(id) ==
    /\ observing = NoRobot
    /\ observer' = [observer EXCEPT ![id] = NoRobot]
    /\ UNCHANGED <<robots, raw, reliable, observing, unfiltered>>

-----------------------------------------------------------------------------
(* The driver thread: handle_command_updated() *)

\* state_observers_.at(id).lock()
LockObserver(id) ==
    /\ observing = NoRobot
    /\ observer[id] # NoRobot
    /\ observing' = id
    /\ UNCHANGED <<robots, raw, reliable, observer, unfiltered>>

Observe(id) ==
    /\ observing = id
    /\ observing' = NoRobot
    /\ robots' = [robots EXCEPT ![id] = Observed(observer[id]).written]
    /\ observer' = [observer EXCEPT ![id] = Observed(@).observer]
    /\ UNCHANGED <<raw, reliable, unfiltered>>

-----------------------------------------------------------------------------

Older(age) == IF age \in 0 .. LostAfter THEN age + 1 ELSE age

Tick ==
    /\ observer' = [id \in Id |->
                       IF observer[id] = NoRobot THEN NoRobot
                       ELSE [observer[id] EXCEPT !.capture = Older(@)]]
    /\ UNCHANGED <<robots, raw, reliable, observing, unfiltered>>

Init ==
    /\ robots = [id \in Id |-> NoRobot]
    /\ raw = [c \in Camera |-> {}]
    /\ reliable = [id \in Id |-> NoRobot]
    /\ observer = [id \in Id |-> NoRobot]
    /\ observing = NoRobot
    /\ unfiltered = Id

Next ==
    \/ \E c \in Camera, f \in U!Frame, age \in 0 .. MaxDelay : Update(c, f, age)
    \/ \E id \in Id : SetObserver(id) \/ ClearObserver(id)
    \/ \E id \in Id : LockObserver(id) \/ Observe(id)
    \/ Tick

Spec == Init /\ [][Next]_vars

\* The last frame of camera c, sent once more, would change nothing.
Settled(c) ==
    \A age \in 0 .. MaxDelay, id \in Id : \A out \in Outcomes(raw, c, age, id) :
        out = [robot |-> robots[id], reliable |-> reliable[id], observer |-> observer[id]]

\* Every camera goes on sending its frames, so what a repetition of the last one
\* would change does not stay as it is. (RobotUpdater says more of this.)
Sending ==
    \A c \in Camera :
        \/ []<><<\E age \in 0 .. MaxDelay : Update(c, raw'[c], age)>>_vars
        \/ []<>Settled(c)

\* The driver computes a command for every robot in each of its cycles, and time
\* passes.
Driving ==
    /\ \A id \in Id : SF_vars(LockObserver(id)) /\ WF_vars(Observe(id))
    /\ WF_vars(Tick)

Fairness == Sending /\ Driving

FairSpec == Spec /\ Fairness

-----------------------------------------------------------------------------
(* Properties *)

TypeOK ==
    /\ robots \in [Id -> U!Transformed \cup {Default, Estimated, NoRobot}]
    /\ raw \in [Camera -> SUBSET U!Detection]
    /\ reliable \in [Id -> U!Transformed \cup {NoRobot}]
    /\ observer \in [Id -> Observer \cup {NoRobot}]
    /\ observing \in Id \cup {NoRobot}
    /\ unfiltered \subseteq Id

\* The observer counts on having seen the robot within the last lost_duration_,
\* or will find out at the next observe() that it has not.
Tracked(id) == observer[id] # NoRobot /\ observer[id].capture # Unset

\* A robot that its observer tracks is in the world, whatever losses came
\* before, and never as the default robot in the middle of the field.
TrackedIsPublished ==
    \A id \in Id : Tracked(id) => robots[id] \notin {NoRobot, Default}

\* What the updater's at() relies on, of the composition.
ReliableIsDetected ==
    \A id \in Id : reliable[id] # NoRobot <=> id \in U!Detected(raw)

\* An observer that tracks, and has no news, has made an estimate.
EstimateMade ==
    \A id \in Id : Tracked(id) /\ ~observer[id].news => observer[id].state = Estimated

\* While the driver thread has locked an observer, nobody destroys it.
LockedExists == observing # NoRobot => observer[observing] # NoRobot

\* The inductive invariant.
IInv ==
    /\ TypeOK
    /\ ReliableIsDetected
    /\ TrackedIsPublished
    /\ EstimateMade
    /\ LockedExists

\* The observer keeps to what the updater expects of a manual filter: it writes
\* while the updater tells it a value, or when its owner calls it, and then one
\* value only.
ImplementsUpdater == U!Spec

\* A robot that one camera keeps seeing best is tracked again and again, also
\* after it has been lost by a time-out or has been given a new observer.
FollowsAgain ==
    \A id \in Id, c \in Camera, p \in Pose :
        <>[](observer[id] # NoRobot /\ U!BestFrom(id, c, p)) => []<>Tracked(id)

\* "lost_duration_: the time after a robot has become invisible until it is
\* taken for lost" (robot.h:25): a robot that has been tracked and that no camera
\* sees any more leaves the world for good, while its observer goes on being
\* called.
LostLeaves ==
    \A id \in Id :
        [](/\ Tracked(id)
           /\ [](/\ observer[id] # NoRobot /\ observer[id].state = Estimated
                 /\ id \notin U!Detected(raw))
           => <>[](robots[id] = NoRobot))
=============================================================================
