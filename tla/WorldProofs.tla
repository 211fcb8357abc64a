---------------------------- MODULE WorldProofs -----------------------------
(***************************************************************************)
(* The properties of World, for any number of cameras and any packets,     *)
(* matrices and filters.                                                   *)
(***************************************************************************)
EXTENDS World, Maxima

USE BallAssumption DEF BallAssumption

BallType == [at : Transformed \cup Estimate \cup {Nothing}, lost : BOOLEAN]

LEMMA CandidateType ==
    ASSUME NEW b \in Balls, NEW d \in Candidates(b)
    PROVE  d \in Detection \cup {Nothing}
BY DEF Balls, Candidates, MostConfident

\* A filter's answer leaves a ball, and a ball without a filter is adopted
\* from a detection as found.
LEMMA AnswerType ==
    ASSUME ball \in BallType, NEW e \in Estimate \cup {Nothing}
    PROVE  Answered(e) \in BallType
<1>1. CASE e = Nothing
  BY <1>1 DEF Answered, BallType
<1>2. CASE e # Nothing
  BY <1>2 DEF Answered, BallType
<1> QED BY <1>1, <1>2

LEMMA AdoptType ==
    ASSUME ball \in BallType, ballAffine \in Affine, NEW d \in Detection,
           NEW o \in Adopt(d)
    PROVE  o \in BallType
<1>1. CASE filter = "same"
  BY <1>1, AnswerType DEF Adopt, Answers
<1>2. CASE filter = "manual"
  BY <1>2 DEF Adopt
<1>3. CASE filter \notin {"same", "manual"}
  <2>1. o = [at |-> [pose |-> d.pose, affine |-> ballAffine], lost |-> FALSE]
    BY <1>3 DEF Adopt
  <2>2. [pose |-> d.pose, affine |-> ballAffine] \in Transformed
    BY DEF Transformed, Detection
  <2> QED BY <2>1, <2>2 DEF BallType
<1> QED BY <1>1, <1>2, <1>3

LEMMA LoseType ==
    ASSUME ball \in BallType, NEW o \in Lose
    PROVE  o \in BallType
<1>1. CASE filter = "same"
  BY <1>1, AnswerType DEF Lose, Answers
<1>2. CASE filter = "manual"
  BY <1>2 DEF Lose
<1>3. CASE filter \notin {"same", "manual"}
  BY <1>3 DEF Lose, BallType
<1> QED BY <1>1, <1>2, <1>3

LEMMA InitInv == Init => IInv
<1> SUFFICES ASSUME Init PROVE IInv
  OBVIOUS
<1>1. Seen(balls) = {}
  BY DEF Init, BallInit, Seen
<1>2. packet \in Packet
  <2>1. {} \in Balls
    BY FS_EmptySet DEF Balls
  <2> QED BY <2>1 DEF Init, NoPacket, Packet
<1> QED
  BY <1>1, <1>2 DEF Init, BallInit, IInv, TypeOK, BallTypeOK, UnseenIsLost

\* A frame of camera c: while no filter was ever set, a chosen camera makes the
\* ball seen, and the last camera's empty frame makes it lost.
LEMMA DetectInv == IInv /\ Detect => IInv'
<1> SUFFICES ASSUME IInv, Detect PROVE IInv'
  OBVIOUS
<1> DEFINE c == packet.camera
           b == packet.balls
<1>1. c \in Camera /\ b \in Balls /\ packet.geometry \in Geometry \cup {Nothing}
  BY DEF Detect, IInv, TypeOK, Packet
<1>2. PICK d \in Candidates(b) :
         /\ balls' = [balls EXCEPT ![c] = d]
         /\ ball' \in Outcomes(balls', c)
  BY DEF Detect, UpdateBall
<1>3. UNCHANGED <<filter, ballAffine, writers, bare, disabled, field>>
  BY DEF Detect, UpdateBall
<1>4. packet' = [NoPacket EXCEPT !.geometry = packet.geometry]
  BY DEF Detect
<1> HIDE DEF b, c
<1>5. d \in Detection \cup {Nothing}
  BY <1>1, CandidateType
<1>6. balls' \in [Camera -> Detection \cup {Nothing}]
  BY <1>2, <1>5 DEF IInv, TypeOK, BallTypeOK
<1>7. packet' \in Packet
  <2>1. {} \in Balls
    BY FS_EmptySet DEF Balls
  <2> QED BY <1>1, <1>4, <2>1 DEF NoPacket, Packet
<1>8. CASE Seen(balls') = {}
  <2>1. ball' \in Lose
    BY <1>2, <1>8 DEF Outcomes
  <2>2. ball' \in BallType
    BY <2>1, LoseType DEF IInv, TypeOK, BallTypeOK, BallType
  <2>3. bare => ball'.lost
    BY <2>1 DEF IInv, Lose, TypeOK, BallTypeOK
  <2> QED
    BY <1>3, <1>6, <1>7, <1>8, <2>2, <2>3 DEF IInv, TypeOK, BallTypeOK,
       BallType, UnseenIsLost, Seen
<1>9. CASE Seen(balls') # {}
  <2>1. PICK k \in Reliable(balls') :
           ball' \in IF k = c THEN Adopt(balls'[c]) ELSE {ball}
    BY <1>2, <1>9 DEF Outcomes
  <2>2. k \in Camera /\ balls'[k] \in Detection
    BY <1>6, <2>1 DEF Reliable, Seen
  <2>3. CASE k = c
    <3>1. ball' \in BallType
      BY <2>1, <2>2, <2>3, AdoptType DEF IInv, TypeOK, BallTypeOK, BallType
    <3>2. bare => ~ball'.lost
      BY <2>1, <2>3 DEF IInv, Adopt
    <3> QED
      BY <1>3, <1>6, <1>7, <1>9, <3>1, <3>2 DEF IInv, TypeOK, BallTypeOK,
         BallType, UnseenIsLost, Seen
  <2>4. CASE k # c
    <3>1. ball' = ball
      BY <2>1, <2>4
    <3>2. k \in Seen(balls)
      BY <1>2, <2>2, <2>4 DEF IInv, TypeOK, BallTypeOK, Seen
    <3> QED
      BY <1>3, <1>6, <1>7, <1>9, <3>1, <3>2 DEF IInv, TypeOK, BallTypeOK,
         UnseenIsLost, Seen
  <2> QED BY <2>3, <2>4
<1> QED BY <1>8, <1>9

\* What the GUI and a filter's owner do
LEMMA ConfigureInv == IInv /\ Configure => IInv'
<1> SUFFICES ASSUME IInv, Configure PROVE IInv'
  OBVIOUS
<1> USE DEF IInv, TypeOK, BallTypeOK, UnseenIsLost, Seen
<1>0. UNCHANGED <<disabled, field, packet>>
  BY DEF Configure
<1>1. CASE ClearFilter
  BY <1>0, <1>1 DEF ClearFilter
<1>2. CASE Release
  <2>1. writers' \in BOOLEAN /\ ~writers'
    BY <1>2 DEF Release
  <2> QED BY <1>0, <1>2, <2>1 DEF Release
<1>3. CASE \E m \in Affine : SetBallMatrix(m)
  <2>1. PICK m \in Affine : SetBallMatrix(m)
    BY <1>3
  <2> QED BY <1>0, <2>1 DEF SetBallMatrix
<1>4. CASE \E v \in Estimate \cup {Nothing} : Write(v)
  <2>1. PICK v \in Estimate \cup {Nothing} : Write(v)
    BY <1>4
  <2>2. ball' \in BallType
    BY <2>1, AnswerType DEF Write, BallType
  <2> QED BY <1>0, <2>1, <2>2 DEF Write, BallType
<1>5. CASE \E kind \in {"same", "manual"} : SetFilter(kind)
  <2>1. PICK kind \in {"same", "manual"} : SetFilter(kind)
    BY <1>5
  <2>2. writers' \in BOOLEAN
    BY <2>1 DEF SetFilter
  <2> QED BY <1>0, <2>1, <2>2 DEF SetFilter
<1> QED BY <1>1, <1>2, <1>3, <1>4, <1>5 DEF Configure

LEMMA OtherInv ==
    ASSUME IInv,
           \/ \E p \in Packet : Receive(p)
           \/ Survey
           \/ \E c \in Camera : DisableCamera(c) \/ EnableCamera(c)
           \/ UNCHANGED vars
    PROVE  IInv'
<1> USE DEF IInv, TypeOK, BallTypeOK, UnseenIsLost, Seen, ballVars
<1>1. NoPacket \in Packet
  <2>1. {} \in Balls
    BY FS_EmptySet DEF Balls
  <2> QED BY <2>1 DEF NoPacket, Packet
<1>2. CASE \E p \in Packet : Receive(p)
  BY <1>1, <1>2 DEF Receive
<1>3. CASE Survey
  BY <1>1, <1>3 DEF Survey, Packet
<1>4. CASE \E c \in Camera : DisableCamera(c) \/ EnableCamera(c)
  BY <1>4 DEF DisableCamera, EnableCamera
<1>5. CASE UNCHANGED vars
  BY <1>5 DEF vars
<1> QED BY <1>2, <1>3, <1>4, <1>5

THEOREM Invariance == Spec => []IInv
<1>1. ASSUME IInv, [Next]_vars PROVE IInv'
  BY <1>1, DetectInv, ConfigureInv, OtherInv DEF Next
<1> QED BY <1>1, InitInv, PTL DEF Spec

\* The ball, the stored detections and the pending packet are well-typed.
THEOREM TypeCorrect == Spec => []TypeOK
BY Invariance, PTL DEF IInv

\* A ball without filters is lost exactly while no camera's detection is
\* stored, however the cameras' packets and the GUI's calls interleave.
THEOREM LostIsUnseen == Spec => []UnseenIsLost
BY Invariance, PTL DEF IInv

\* A frame with a ball has a most confident one.
LEMMA MostConfidentExists ==
    ASSUME NEW b \in Balls, b # {}
    PROVE  MostConfident(b) # {}
<1> DEFINE f == [d \in b |-> d.confidence]
<1>1. IsFiniteSet(b) /\ f \in [b -> Nat]
  BY DEF Balls, Detection
<1>2. PICK d \in b : \A e \in b : f[e] <= f[d]
  BY <1>1, GreatestExists
<1> QED BY <1>2 DEF MostConfident

\* One of finitely many cameras whose detections are stored is the most confident.
LEMMA ReliableExists ==
    ASSUME IsFiniteSet(Camera), NEW r \in [Camera -> Detection \cup {Nothing}], Seen(r) # {}
    PROVE  Reliable(r) # {}
<1> DEFINE f == [c \in Seen(r) |-> r[c].confidence]
<1>1. IsFiniteSet(Seen(r)) /\ f \in [Seen(r) -> Nat]
  BY FS_Subset DEF Seen, Detection
<1>2. PICK c \in Seen(r) : \A k \in Seen(r) : f[k] <= f[c]
  BY <1>1, GreatestExists
<1> QED BY <1>2 DEF Reliable

\* The ball updater handles whatever packet is due: where fairness has one handled,
\* there is a step that does it.
THEOREM EveryPacketHandled ==
    ASSUME IsFiniteSet(Camera), Estimate # {}
    PROVE  Spec => []AlwaysHandled
<1>1. ASSUME IInv, packet.camera # Nothing
      PROVE  /\ Candidates(packet.balls) # {}
             /\ \A d \in Candidates(packet.balls) :
                   Outcomes([balls EXCEPT ![packet.camera] = d], packet.camera) # {}
  <2> DEFINE c == packet.camera
             b == packet.balls
  <2>1. c \in Camera /\ b \in Balls
    BY <1>1 DEF IInv, TypeOK, Packet
  <2> HIDE DEF c, b
  <2>2. Candidates(b) # {}
    BY <2>1, MostConfidentExists DEF Candidates
  <2>3. ASSUME NEW d \in Candidates(b)
        PROVE  Outcomes([balls EXCEPT ![c] = d], c) # {}
    <3> DEFINE r == [balls EXCEPT ![c] = d]
    <3>1. r \in [Camera -> Detection \cup {Nothing}]
      BY <1>1, <2>1, CandidateType DEF IInv, TypeOK, BallTypeOK
    <3> HIDE DEF r
    <3>2. Lose # {} /\ Adopt(r[c]) # {}
      BY DEF Lose, Adopt, Answers
    <3>3. Outcomes(r, c) # {}
      <4>1. CASE Seen(r) = {}
        BY <3>2, <4>1 DEF Outcomes
      <4>2. CASE Seen(r) # {}
        <5>1. PICK k \in Reliable(r) : TRUE
          BY <3>1, <4>2, ReliableExists
        <5>2. (IF k = c THEN Adopt(r[c]) ELSE {ball}) # {}
          BY <3>2
        <5> QED BY <4>2, <5>1, <5>2 DEF Outcomes
      <4> QED BY <4>1, <4>2
    <3> QED BY <3>3 DEF r
  <2> QED BY <2>2, <2>3 DEF b, c
<1>2. IInv => AlwaysHandled
  BY <1>1 DEF AlwaysHandled
<1> QED BY <1>2, Invariance, PTL

-----------------------------------------------------------------------------
(* What the ball comes to. Fairness is stated without ENABLED, so           *)
(* propositional temporal logic gets from steps to behaviours.              *)

\* Only packets move a ball that has no owner of a filter.
LEMMA BallKept ==
    ASSUME ~writers, [Next]_vars
    PROVE  UNCHANGED ball \/ Detect
<1>1. CASE \E p \in Packet : Receive(p)
  BY <1>1 DEF Receive, ballVars
<1>2. CASE Survey
  BY <1>2 DEF Survey, ballVars
<1>3. CASE \E c \in Camera : DisableCamera(c) \/ EnableCamera(c)
  BY <1>3 DEF DisableCamera, EnableCamera, ballVars
<1>4. CASE Configure
  BY <1>4 DEF Configure, SetBallMatrix, SetFilter, ClearFilter, Write, Release
<1>5. CASE UNCHANGED vars
  BY <1>5 DEF vars, ballVars
<1> QED BY <1>1, <1>2, <1>3, <1>4, <1>5 DEF Next

\* A packet's outcome, and what it leaves stored.
LEMMA DetectOutcome ==
    ASSUME IInv, Detect
    PROVE  /\ packet.camera \in Camera
           /\ ball' \in Outcomes(balls', packet.camera)
           /\ UNCHANGED <<filter, ballAffine>>
BY DEF Detect, UpdateBall, IInv, TypeOK, Packet

\* The camera that alone is the most confident is chosen.
LEMMA ForemostIsReliable ==
    ASSUME IInv, NEW c \in Camera, Foremost(c)
    PROVE  Reliable(balls) = {c}
<1>1. \A k \in Seen(balls) : balls[k] \in Detection /\ balls[k].confidence \in Nat
  BY DEF IInv, TypeOK, BallTypeOK, Seen, Detection
<1>2. c \in Reliable(balls)
  BY <1>1 DEF Reliable, Foremost
<1>3. ASSUME NEW k \in Reliable(balls) PROVE k = c
  BY <1>1, <1>3 DEF Reliable, Foremost
<1> QED BY <1>2, <1>3

\* A frame after which the camera c alone is the most confident is adopted if it is
\* the camera's own, and moves nothing otherwise.
LEMMA ForemostOutcome ==
    ASSUME IInv, IInv', Detect, NEW c \in Camera, Foremost(c)'
    PROVE  ball' \in IF packet.camera = c THEN Adopt(balls'[c]) ELSE {ball}
<1>1. Reliable(balls') = {c} /\ Seen(balls') # {}
  <2>1. (Reliable(balls) = {c})'
    BY ForemostIsReliable, PTL
  <2> QED BY <2>1 DEF Foremost
<1>2. ball' \in Outcomes(balls', packet.camera)
  BY DetectOutcome
<1> QED BY <1>1, <1>2 DEF Outcomes

\* The ball is where the camera sees it that stays the most confident one: a frame
\* of this camera puts it there, and no other camera's frame moves it.
THEOREM Convergence == FairSpec => BallConverges
<1> SUFFICES ASSUME NEW c \in Camera, NEW p \in Pose, NEW m \in Affine
             PROVE  FairSpec =>
                      (<>[](SeenBy(c, p, m) /\ Foremost(c))
                         => <>[](ball = [at |-> [pose |-> p, affine |-> m], lost |-> FALSE]))
  BY DEF BallConverges
<1> DEFINE P == SeenBy(c, p, m) /\ Foremost(c)
           Q == ball = [at |-> [pose |-> p, affine |-> m], lost |-> FALSE]
<1>1. ASSUME IInv, IInv', P, P', Detect
      PROVE  Q' \/ (packet.camera # c /\ ball' = ball)
  <2>1. Adopt(balls'[c]) = {[at |-> [pose |-> p, affine |-> m], lost |-> FALSE]}
    BY <1>1 DEF Adopt, SeenBy
  <2> QED BY <1>1, <2>1, ForemostOutcome
<1>2. IInv /\ IInv' /\ P /\ P' /\ (Detect /\ packet.camera = c) => Q'
  BY <1>1
<1>3. IInv /\ IInv' /\ P /\ P' /\ Q /\ [Next]_vars => Q'
  BY <1>1, BallKept DEF SeenBy
<1>4. P => ~(c \in disabled)
  BY DEF SeenBy
<1>5. FairSpec => Spec /\ ([]<><<Detect /\ packet.camera = c>>_vars \/ []<>(c \in disabled))
  BY DEF FairSpec, Fairness, Sending
<1> QED BY <1>2, <1>3, <1>4, <1>5, Invariance, PTL DEF Spec

\* A packet of a disabled camera is not received; one that is due is handled once.
LEMMA PacketStep ==
    ASSUME [Next]_vars, NEW c \in disabled \cap Camera
    PROVE  /\ packet'.camera = c => packet.camera = c
           /\ Detect => packet'.camera # c
<1>1. CASE \E p \in Packet : Receive(p)
  BY <1>1, WorldAssumption DEF Receive, Detect, NoPacket
<1>2. CASE Detect
  BY <1>2, WorldAssumption DEF Detect, NoPacket
<1>3. CASE Survey
  BY <1>3, WorldAssumption DEF Survey, Detect, NoPacket
<1>4. CASE UNCHANGED packet
  BY <1>4, WorldAssumption DEF Detect, NoPacket
<1> QED
  BY <1>1, <1>2, <1>3, <1>4 DEF Next, DisableCamera, EnableCamera, Configure, vars

\* A disabled camera freezes the ball: its last packet may still be handled, but no
\* further one is received, and no packet of another camera moves the ball.
THEOREM DisabledFreezes == Spec => FrozenByDisabled
<1> SUFFICES ASSUME NEW c \in Camera
             PROVE  Spec => (<>[](c \in disabled /\ Foremost(c) /\ ~writers)
                                => <>[][ball' = ball]_ball)
  BY DEF FrozenByDisabled
<1> DEFINE P == c \in disabled /\ Foremost(c) /\ ~writers
           Own == packet.camera = c
           Kept == ball' = ball
<1>1. IInv /\ IInv' /\ P /\ P' /\ ~Own /\ [Next]_vars => Kept
  BY BallKept, ForemostOutcome
<1>2. IInv /\ P /\ ~Own /\ [Next]_vars => ~Own'
  BY PacketStep
<1>3. IInv /\ P /\ Own /\ Own' /\ [Next]_vars => Kept
  BY BallKept, PacketStep
<1> QED BY <1>1, <1>2, <1>3, Invariance, PTL DEF Spec

\* The ball is reported as lost after it: a frame without balls, of a camera
\* that goes on sending them, makes it so, and only a filter's owner, or a "same"
\* filter that answers a loss with an estimate, would find it again.
THEOREM LossIsReported ==
    ASSUME ~Observer
    PROVE  FairSpec => LossReported
<1> SUFFICES ASSUME NEW c \in Camera
             PROVE  FairSpec =>
                      (<>[](/\ Seen(balls) = {} /\ c \notin disabled
                            /\ filter # "manual" /\ ~writers)
                         => <>[]ball.lost)
  BY DEF LossReported
<1> DEFINE P == /\ Seen(balls) = {} /\ c \notin disabled
                /\ filter # "manual" /\ ~writers
           Q == ball.lost
<1>1. IInv /\ P /\ P' /\ Detect => Q'
  <2> SUFFICES ASSUME IInv, P, P', Detect PROVE Q'
    OBVIOUS
  <2>1. Seen(balls') = {}
    BY DEF Seen
  <2>2. ball' \in Lose
    BY <2>1, DetectOutcome DEF Outcomes
  <2>3. CASE filter = "same"
    BY <2>2, <2>3 DEF Lose, Answers, Answered, IInv, TypeOK, BallTypeOK
  <2>4. CASE filter # "same"
    BY <2>2, <2>4 DEF Lose, IInv, TypeOK, BallTypeOK
  <2> QED BY <2>3, <2>4
<1>2. IInv /\ P /\ P' /\ Q /\ [Next]_vars => Q'
  BY <1>1, BallKept
<1>3. IInv /\ P /\ P' /\ (Detect /\ packet.camera = c) => Q'
  BY <1>1
<1>4. P => ~(c \in disabled)
  OBVIOUS
<1>5. FairSpec => Spec /\ ([]<><<Detect /\ packet.camera = c>>_vars \/ []<>(c \in disabled))
  BY DEF FairSpec, Fairness, Sending
<1> QED BY <1>2, <1>3, <1>4, <1>5, Invariance, PTL DEF Spec

\* The ball observer answers every loss with an estimate, so it never loses the ball
\* that it has once been told of: LossReported fails for it as soon as the ball has
\* been seen.
THEOREM BallObserverNeverLoses ==
    ASSUME Observer
    PROVE  Spec => ObserverNeverLoses
<1>1. ASSUME IInv, [Next]_vars, filter = "same", ~writers, ~ball.lost
      PROVE  ~ball'.lost
  <2>1. CASE UNCHANGED ball
    BY <1>1, <2>1
  <2>2. CASE Detect
    <3>1. ball' \in Lose \cup Adopt(balls'[packet.camera]) \cup {ball}
      BY <1>1, <2>2, DetectOutcome DEF Outcomes
    <3>2. ball' \in {Answered(e) : e \in Estimate} \cup {ball}
      BY <1>1, <3>1 DEF Lose, Adopt, Answers
    <3> QED BY <1>1, <3>2 DEF Answered
  <2> QED BY <1>1, <2>1, <2>2, BallKept
<1>2. IInv /\ [Next]_vars
        => [filter = "same" /\ ~writers /\ ~ball.lost => ~ball'.lost]_vars
  BY <1>1
<1> QED BY <1>2, Invariance, PTL DEF Spec, ObserverNeverLoses
=============================================================================
