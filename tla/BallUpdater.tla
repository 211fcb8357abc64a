---------------------------- MODULE BallUpdater -----------------------------
(***************************************************************************)
(* model::updater::ball: the one ball that several cameras may see.        *)
(*                                                                         *)
(* Each camera's last best detection is stored. The ball follows a camera  *)
(* only when that camera's packet has the best of all stored detections,   *)
(* and it is lost only when nothing is stored for any camera. Member       *)
(* functions hold the updater's mutex: each is an action.                  *)
(***************************************************************************)
EXTENDS Naturals, FiniteSets

CONSTANTS
    Camera,      \* camera IDs
    Confidence,  \* detection confidences (numbers)
    Pose,        \* positions in camera coordinates
    Affine,      \* coordinate transformations
    Identity,    \* the transformation the constructor installs
    Estimate,    \* positions that come out of filters
    MaxBalls,    \* bound: balls reported in one frame
    Observer,    \* is the "same" filter a state_observer::ball?
    Nothing      \* no value

Detection == [confidence : Confidence, pose : Pose]

\* The balls of one camera's packet
Balls == {b \in SUBSET Detection : IsFiniteSet(b) /\ Cardinality(b) <= MaxBalls}

Transformed == [pose : Pose, affine : Affine]

ASSUME BallAssumption ==
    /\ Confidence \subseteq Nat
    /\ Identity \in Affine
    /\ MaxBalls \in Nat
    /\ Observer \in BOOLEAN
    /\ Nothing \notin Detection \cup Transformed \cup Estimate

VARIABLES
    ball,        \* ball_: where it is, and is_lost
    balls,       \* raw_balls_
    filter,      \* which of filter_same_ and filter_manual_ is set
    ballAffine,  \* affine_
    writers,     \* does some thread hold a manual filter?
    bare         \* history: no filter was ever set

ballVars == <<ball, balls, filter, ballAffine, writers, bare>>

BallTypeOK ==
    /\ ball \in [at : Transformed \cup Estimate \cup {Nothing}, lost : BOOLEAN]
    /\ balls \in [Camera -> Detection \cup {Nothing}]
    /\ filter \in {"none", "same", "manual"}
    /\ ballAffine \in Affine
    /\ writers \in BOOLEAN
    /\ bare \in BOOLEAN

BallInit ==
    /\ ball = [at |-> Nothing, lost |-> TRUE]
    /\ balls = [c \in Camera |-> Nothing]
    /\ filter = "none"
    /\ ballAffine = Identity
    /\ writers = FALSE
    /\ bare = TRUE

-----------------------------------------------------------------------------
(* update                                                                  *)

\* The most confident of the detections b. std::max_element takes the first
\* in the packet's order, which is not modelled: any of the maxima.
MostConfident(b) == {d \in b : \A e \in b : e.confidence <= d.confidence}

\* What is stored for a camera that reports b
Candidates(b) == IF b = {} THEN {Nothing} ELSE MostConfident(b)

Seen(r) == {c \in Camera : r[c] # Nothing}

\* Mutant for BallConverges: the comparison is the wrong way round.
Unreliable(r) ==
    {c \in Seen(r) : \A k \in Seen(r) : r[c].confidence <= r[k].confidence}

\* The cameras that may be chosen when r is stored: hash order decides.
Reliable(r) ==
    {c \in Seen(r) : \A k \in Seen(r) : r[k].confidence <= r[c].confidence}

\* What a "same" filter answers. One that tracks the ball gives it up when told
\* that it is lost, and may distrust an observation. state_observer::ball
\* answers always, a loss with an estimate from its last answer.
Answers(lost) ==
    IF Observer THEN Estimate
    ELSE IF lost THEN {Nothing} ELSE Estimate \cup {Nothing}

\* The ball after a "same" filter's answer
Answered(e) ==
    IF e = Nothing THEN [ball EXCEPT !.lost = TRUE] ELSE [at |-> e, lost |-> FALSE]

\* The chosen camera is the packet's: its detection d goes to the filter or,
\* without one, to the ball. A manual filter's owner writes later.
Adopt(d) ==
    IF filter = "same" THEN {Answered(e) : e \in Answers(FALSE)}
    ELSE IF filter = "manual" THEN {ball}
    ELSE {[at |-> [pose |-> d.pose, affine |-> ballAffine], lost |-> FALSE]}

\* Mutant for UnseenIsLost: only a filter is told of the loss.
LoseFiltered ==
    IF filter = "same" THEN {Answered(e) : e \in Answers(TRUE)} ELSE {ball}

\* Mutant for LossReported: the filter's nullopt is taken for no news.
LoseUnfiltered ==
    IF filter = "none" THEN {[ball EXCEPT !.lost = TRUE]} ELSE {ball}

\* No camera sees the ball.
Lose ==
    IF filter = "same" THEN {Answered(e) : e \in Answers(TRUE)}
    ELSE IF filter = "manual" THEN {ball}
    ELSE {[ball EXCEPT !.lost = TRUE]}

Outcomes(r, c) ==
    IF Seen(r) = {} THEN Lose
    ELSE UNION {IF k = c THEN Adopt(r[c]) ELSE {ball} : k \in Reliable(r)}

UpdateBall(c, b) ==
    /\ \E d \in Candidates(b) :
          LET r == [balls EXCEPT ![c] = d]
          IN  /\ balls' = r
              /\ ball' \in Outcomes(r, c)
    /\ UNCHANGED <<filter, ballAffine, writers, bare>>

-----------------------------------------------------------------------------
(* The setters, and the owner of a manual filter                           *)

SetBallMatrix(m) ==
    /\ ballAffine' = m
    /\ UNCHANGED <<ball, balls, filter, writers, bare>>

\* set_filter<Filter> with a timing::same or a timing::manual Filter, of which
\* the caller gets a weak_ptr
SetFilter(kind) ==
    /\ filter' = kind
    /\ writers' = (writers \/ kind = "manual")
    /\ bare' = FALSE
    /\ UNCHANGED <<ball, balls, ballAffine>>

ClearFilter ==
    /\ filter' = "none"
    /\ UNCHANGED <<ball, balls, ballAffine, writers, bare>>

\* A manual filter's owner writes, even after the updater dropped the filter.
Write(v) ==
    /\ writers
    /\ ball' = Answered(v)
    /\ UNCHANGED <<balls, filter, ballAffine, writers, bare>>

\* The owner lets go of a dropped filter.
Release ==
    /\ writers
    /\ filter # "manual"
    /\ writers' = FALSE
    /\ UNCHANGED <<ball, balls, filter, ballAffine, bare>>
=============================================================================
