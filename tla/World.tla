------------------------------- MODULE World --------------------------------
(***************************************************************************)
(* model::updater::world: hands the receiver thread's SSL-Vision packets   *)
(* on to the updaters, unless they are of a camera that the GUI thread has *)
(* disabled. Between looking up the camera and the updates no lock is held.*)
(*                                                                         *)
(* The ball is followed here; both teams' robots get the same packets and  *)
(* are the subject of RobotUpdater.                                        *)
(***************************************************************************)
EXTENDS BallUpdater

CONSTANT Geometry  \* field geometries

ASSUME WorldAssumption == Nothing \notin Camera \cup Geometry

VARIABLES
    disabled,  \* disabled_camera_
    field,     \* the field of field_
    packet     \* what update() is still to handle

vars == <<ballVars, disabled, field, packet>>

\* A packet may have a detection, with its camera, and a geometry.
Packet ==
    {p \in [camera : Camera \cup {Nothing}, balls : Balls,
            geometry : Geometry \cup {Nothing}] :
        p.camera = Nothing => p.balls = {}}

NoPacket == [camera |-> Nothing, balls |-> {}, geometry |-> Nothing]

TypeOK ==
    /\ BallTypeOK
    /\ disabled \subseteq Camera
    /\ field \in Geometry \cup {Nothing}
    /\ packet \in Packet

Init ==
    /\ BallInit
    /\ disabled = {}
    /\ field = Nothing
    /\ packet = NoPacket

-----------------------------------------------------------------------------

\* update() begins. A disabled camera's packet is ignored as a whole, with
\* the geometry it may have.
Receive(p) ==
    /\ packet = NoPacket
    /\ packet' = IF p.camera \in disabled THEN NoPacket ELSE p
    /\ UNCHANGED <<ballVars, disabled, field>>

\* ball_.update(detection), then the robots'
Detect ==
    /\ packet.camera # Nothing
    /\ UpdateBall(packet.camera, packet.balls)
    /\ packet' = [NoPacket EXCEPT !.geometry = packet.geometry]
    /\ UNCHANGED <<disabled, field>>

\* field_.update(geometry)
Survey ==
    /\ packet.camera = Nothing
    /\ packet.geometry # Nothing
    /\ field' = packet.geometry
    /\ packet' = NoPacket
    /\ UNCHANGED <<ballVars, disabled>>

DisableCamera(c) ==
    /\ disabled' = disabled \cup {c}
    /\ UNCHANGED <<ballVars, field, packet>>

EnableCamera(c) ==
    /\ disabled' = disabled \ {c}
    /\ UNCHANGED <<ballVars, field, packet>>

\* The ball updater's own operations, called from other threads
Configure ==
    /\ \/ \E m \in Affine : SetBallMatrix(m)
       \/ \E kind \in {"same", "manual"} : SetFilter(kind)
       \/ ClearFilter
       \/ \E v \in Estimate \cup {Nothing} : Write(v)
       \/ Release
    /\ UNCHANGED <<disabled, field, packet>>

Next ==
    \/ \E p \in Packet : Receive(p)
    \/ Detect
    \/ Survey
    \/ \E c \in Camera : DisableCamera(c) \/ EnableCamera(c)
    \/ Configure

Spec == Init /\ [][Next]_vars

\* The receiver thread handles what it has received.
Handling == WF_vars(Detect \/ Survey)

\* Frames of every camera that stays enabled are handled again and again.
Sending ==
    \A c \in Camera : []<><<Detect /\ packet.camera = c>>_vars \/ []<>(c \in disabled)

Fairness == Handling /\ Sending

FairSpec == Spec /\ Fairness

-----------------------------------------------------------------------------
(* Properties                                                              *)

\* Without filters, the ball is lost exactly while no stored detection is
\* left, in whatever order the cameras found and lost it.
UnseenIsLost == bare => (ball.lost <=> Seen(balls) = {})

\* The detection stored for camera c is the most confident one.
Foremost(c) ==
    /\ c \in Seen(balls)
    /\ \A k \in Seen(balls) \ {c} : balls[k].confidence < balls[c].confidence

\* The ball, in no filter's hands, is stored for camera c at pose p.
SeenBy(c, p, m) ==
    /\ filter = "none" /\ ~writers /\ ballAffine = m
    /\ c \notin disabled
    /\ balls[c] # Nothing /\ balls[c].pose = p

\* A ball that an enabled camera keeps seeing best at one place ends up there.
BallConverges ==
    \A c \in Camera, p \in Pose, m \in Affine :
        <>[](SeenBy(c, p, m) /\ Foremost(c))
            => <>[](ball = [at |-> [pose |-> p, affine |-> m], lost |-> FALSE])

\* What keeps a disabled camera from being ignored: while its last detection is the
\* most confident one, and no filter's owner writes, the ball stays where it is,
\* whatever the enabled cameras see.
FrozenByDisabled ==
    \A c \in Camera :
        <>[](c \in disabled /\ Foremost(c) /\ ~writers) => <>[][ball' = ball]_ball

\* Whatever packet is due, the ball updater can handle it.
AlwaysHandled ==
    packet.camera # Nothing =>
        /\ Candidates(packet.balls) # {}
        /\ \A d \in Candidates(packet.balls) :
              Outcomes([balls EXCEPT ![packet.camera] = d], packet.camera) # {}

\* A ball that no camera sees any more is in the end reported as lost if a
\* camera goes on sending frames, unless a manual filter decides.
LossReported ==
    \A c \in Camera :
        <>[](/\ Seen(balls) = {} /\ c \notin disabled
             /\ filter # "manual" /\ ~writers)
            => <>[]ball.lost

\* What keeps a loss from being reported with a state_observer::ball: once it has given
\* the ball a position, no packet makes it lost again, however long no camera sees it.
ObserverNeverLoses ==
    [][filter = "same" /\ ~writers /\ ~ball.lost => ~ball'.lost]_vars

\* Disabled cameras are ignored: when all others are disabled, the ball ends
\* up where the only enabled camera sees it.
DisabledIgnored ==
    \A c \in Camera, p \in Pose, m \in Affine :
        <>[](SeenBy(c, p, m) /\ Camera \ disabled = {c})
            => <>[](ball.at = [pose |-> p, affine |-> m])

-----------------------------------------------------------------------------

\* The inductive invariant behind UnseenIsLost: a bare ball has no filter and
\* no owner of one, so only detections move it.
IInv ==
    /\ TypeOK
    /\ UnseenIsLost
    /\ bare => filter = "none" /\ ~writers
=============================================================================
