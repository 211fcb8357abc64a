------------------------ MODULE RobotUpdaterProofs --------------------------
(***************************************************************************)
(* The properties of RobotUpdater, for any number of robots and cameras    *)
(* and any frames.                                                         *)
(***************************************************************************)
EXTENDS RobotUpdater, Maxima

\* What update() stores for one ID, in each of its branches: well-typed
\* entries, a reliable value exactly if some camera sees the robot, and at
\* most one filter.
LEMMA OutcomeFacts ==
    ASSUME IInv, NEW r \in [Camera -> SUBSET Detection], NEW c \in Camera,
           NEW id \in Id, NEW o \in Outcomes(r, c, id)
    PROVE  /\ o.robot \in Robot \cup {NoRobot}
           /\ o.reliable \in Transformed \cup {NoRobot}
           /\ o.same \in FilterState
           /\ o.manual \in FilterState
           /\ o.reliable # NoRobot <=> id \in Detected(r)
           /\ o.same = "absent" \/ o.manual = "absent"
           /\ o.manual = "absent" <=> manual[id] = "absent"
           /\ id \in unfiltered /\ o.same = "absent" => o.robot = o.reliable
           /\ o.same = "tracking" /\ ~DropsValues
                => \/ o.robot # NoRobot /\ o.reliable # NoRobot
                   \/ id \in erased /\ o.robot = NoRobot
<1> USE UpdaterAssumption
<1>1. CASE id \notin Detected(r)
  BY <1>1 DEF Outcomes, Lose, Answers, IInv, TypeOK, OneFilter,
     UnfilteredIsReliable, FilterState, Robot
<1>2. CASE id \in Detected(r)
  <2>1. PICK x \in MostReliable(r, id) :
           o \in IF x.camera = c THEN Adopt(id, Transform(affine, x.detection))
                 ELSE Inherit(id)
    BY <1>2 DEF Outcomes
  <2>2. CASE x.camera = c
    <3>1. x.detection \in Detection
      BY DEF MostReliable, Candidates
    <3> DEFINE v == Transform(affine, x.detection)
    <3>2. v \in Transformed /\ v # NoRobot
      BY <3>1 DEF Transform, Transformed, Detection, Robot, IInv, TypeOK
    <3>3. o \in Adopt(id, v)
      BY <2>1, <2>2
    <3> HIDE DEF v
    <3> QED
      BY <1>2, <3>2, <3>3 DEF Adopt, Answers, MakesDefault, IInv, TypeOK,
         OneFilter, UnfilteredIsReliable, FilterState, Robot
  <2>3. CASE x.camera # c
    BY <1>2, <2>1, <2>3 DEF Inherit, IInv, TypeOK, OneFilter,
       UnfilteredIsReliable, FilterState, Robot
  <2> QED BY <2>2, <2>3
<1> QED BY <1>1, <1>2

LEMMA InitInv == Init => IInv
<1> SUFFICES ASSUME Init PROVE IInv
  OBVIOUS
<1>1. Detected(raw) = {}
  BY DEF Init, Detected, Candidates
<1> QED
  BY <1>1, UpdaterAssumption DEF Init, IInv, TypeOK, ReliableIsDetected,
     OneFilter, UnfilteredIsReliable, FilterState

LEMMA UpdateInv ==
    ASSUME IInv, NEW c \in Camera, NEW f \in Frame, Update(c, f)
    PROVE  IInv'
<1> DEFINE r == [raw EXCEPT ![c] = f]
<1>1. r \in [Camera -> SUBSET Detection] /\ raw' = r
  BY DEF IInv, TypeOK, Frame, Update
<1>2. PICK out \in Results(r, c, Id) :
         /\ robots' = [id \in Id |-> out[id].robot]
         /\ reliable' = [id \in Id |-> out[id].reliable]
         /\ same' = [id \in Id |-> out[id].same]
         /\ manual' = [id \in Id |-> out[id].manual]
         /\ unfiltered' = {id \in unfiltered : out[id].same = "absent"}
         /\ erased' = {id \in erased : /\ out[id].same = "tracking"
                                       /\ out[id].robot = NoRobot}
  BY DEF Update
<1>3. UNCHANGED <<initializer, affine, held>>
  BY DEF Update
<1> HIDE DEF r
<1>4. \A id \in Id : out[id] \in Outcomes(r, c, id)
  BY DEF Results
<1>5. \A id \in Id :
         LET o == out[id]
         IN  /\ o.robot \in Robot \cup {NoRobot}
             /\ o.reliable \in Transformed \cup {NoRobot}
             /\ o.same \in FilterState
             /\ o.manual \in FilterState
             /\ o.reliable # NoRobot <=> id \in Detected(r)
             /\ o.same = "absent" \/ o.manual = "absent"
             /\ o.manual = "absent" <=> manual[id] = "absent"
             /\ id \in unfiltered /\ o.same = "absent" => o.robot = o.reliable
             /\ o.same = "tracking" /\ ~DropsValues
                  => \/ o.robot # NoRobot /\ o.reliable # NoRobot
                     \/ id \in erased /\ o.robot = NoRobot
  BY <1>1, <1>4, OutcomeFacts
<1>6. TypeOK'
  BY <1>1, <1>2, <1>3, <1>5 DEF IInv, TypeOK
<1>7. Detected(raw)' = Detected(r)
  BY <1>1 DEF Detected, Candidates
<1>8. ReliableIsDetected' /\ OneFilter' /\ UnfilteredIsReliable'
  BY <1>2, <1>5, <1>7 DEF ReliableIsDetected, OneFilter, UnfilteredIsReliable,
     IInv, TypeOK
<1> QED
  BY <1>2, <1>3, <1>5, <1>6, <1>8 DEF IInv, TypeOK

LEMMA SetterInv ==
    ASSUME IInv,
           \/ \E m \in Affine : SetTransformationMatrix(m)
           \/ \E id \in Id : SetFilterSame(id) \/ SetFilterManual(id) \/ ClearFilter(id)
           \/ SetDefaultFilter \/ ClearDefaultFilter \/ ClearAllFilters
    PROVE  IInv'
<1>1. Detected(raw)' = Detected(raw)
  BY DEF Detected, Candidates, SetTransformationMatrix, SetFilterSame,
     SetFilterManual, ClearFilter, SetDefaultFilter, ClearDefaultFilter,
     ClearAllFilters, ClearFilters
<1> USE <1>1 DEF IInv, TypeOK, ReliableIsDetected, OneFilter,
        UnfilteredIsReliable, FilterState
<1>2. ASSUME NEW m \in Affine, SetTransformationMatrix(m) PROVE IInv'
  BY <1>2 DEF SetTransformationMatrix, filters
<1>3. ASSUME NEW id \in Id, SetFilterSame(id) PROVE IInv'
  BY <1>3 DEF SetFilterSame
<1>4. ASSUME NEW id \in Id, SetFilterManual(id) PROVE IInv'
  BY <1>4 DEF SetFilterManual
<1>5. ASSUME NEW ids \in SUBSET Id, ClearFilters(ids) PROVE IInv'
  BY <1>5 DEF ClearFilters
<1>6. CASE SetDefaultFilter
  BY <1>6 DEF SetDefaultFilter
<1>7. CASE ClearDefaultFilter
  BY <1>7 DEF ClearDefaultFilter
<1> QED
  BY <1>2, <1>3, <1>4, <1>5, <1>6, <1>7 DEF ClearFilter, ClearAllFilters

LEMMA OwnerInv ==
    ASSUME IInv, NEW id \in Id, NEW v \in Estimate \cup {NoRobot},
           Hold(id) \/ Write(id, v)
    PROVE  IInv'
<1>1. Detected(raw)' = Detected(raw)
  BY DEF Detected, Candidates, Hold, Write
<1> USE DEF filters, IInv, TypeOK, ReliableIsDetected, OneFilter,
        UnfilteredIsReliable, FilterState
<1>2. CASE Hold(id)
  BY <1>1, <1>2 DEF Hold
<1>3. CASE Write(id, v)
  <2>1. TypeOK'
    BY <1>3 DEF Write, Robot
  <2>2. robots' = [robots EXCEPT ![id] = v]
        /\ UNCHANGED <<same, manual, raw, reliable, unfiltered>> /\ held' \subseteq held
    BY <1>3 DEF Write
  <2>3. ASSUME ~DropsValues, NEW i \in Id, i \notin erased', same'[i] = "tracking"
        PROVE  robots'[i] # NoRobot /\ reliable'[i] # NoRobot
    <3>1. i \notin erased /\ (i = id => v # NoRobot)
      BY <1>3, <2>3, <2>2 DEF Write
    <3> QED BY <3>1, <2>2, <2>3
  <2>4. ReliableIsDetected' /\ OneFilter'
    BY <1>1, <2>2
  <2>5. id \in held
    BY <1>3 DEF Write
  <2> QED BY <2>1, <2>2, <2>3, <2>4, <2>5
<1> QED BY <1>2, <1>3

LEMMA StutterInv == IInv /\ UNCHANGED vars => IInv'
<1> SUFFICES ASSUME IInv, UNCHANGED vars PROVE IInv'
  OBVIOUS
<1>1. Detected(raw)' = Detected(raw)
  BY DEF Detected, Candidates, vars
<1> QED
  BY <1>1 DEF vars, IInv, TypeOK, ReliableIsDetected, OneFilter,
     UnfilteredIsReliable

\* The invariant holds in every reachable state.
THEOREM Invariance == Spec => []IInv
<1>1. IInv /\ [Next]_vars => IInv'
  BY UpdateInv, SetterInv, OwnerInv, StutterInv DEF Next
<1> QED BY <1>1, InitInv, PTL DEF Spec

\* Type correctness of the updater's tables.
THEOREM TypeCorrect == Spec => []TypeOK
<1>1. IInv => TypeOK
  BY DEF IInv
<1> QED BY <1>1, Invariance, PTL

\* The reliable list has an entry for exactly the detected robots.
THEOREM ReliableDetected == Spec => []ReliableIsDetected
<1>1. IInv => ReliableIsDetected
  BY DEF IInv
<1> QED BY <1>1, Invariance, PTL

\* reliable_robots_.at() finds its entry whatever packet comes next.
THEOREM AtNeverThrows == Spec => []NeverThrows
<1>1. ASSUME IInv, NEW c \in Camera, NEW f \in Frame
      PROVE  Missing([raw EXCEPT ![c] = f], c) = {}
  <2> DEFINE r == [raw EXCEPT ![c] = f]
  <2>1. \A d \in Camera : d # c => r[d] = raw[d]
    BY <1>1 DEF IInv, TypeOK
  <2> HIDE DEF r
  <2>2. ASSUME NEW id \in Id, NEW x \in MostReliable(r, id), x.camera # c
        PROVE  reliable[id] # NoRobot
    <3>1. x \in Candidates(r, id)
      BY DEF MostReliable
    <3>2. x \in Candidates(raw, id)
      BY <2>1, <2>2, <3>1 DEF Candidates
    <3> QED
      BY <1>1, <3>2 DEF IInv, ReliableIsDetected, Detected
  <2>3. Missing(r, c) = {}
    BY <2>2 DEF Missing, Detected
  <2> QED BY <2>3 DEF r
<1>2. IInv => NeverThrows
  BY <1>1 DEF NeverThrows
<1> QED BY <1>2, Invariance, PTL

\* The stored frames are finite, as received ones are.
FiniteFrames == \A c \in Camera : IsFiniteSet(raw[c])

LEMMA FramesStayFinite == Spec => []FiniteFrames
<1>1. Init => FiniteFrames
  BY FS_EmptySet DEF Init, FiniteFrames
<1>2. IInv /\ FiniteFrames /\ [Next]_vars => FiniteFrames'
  <2> SUFFICES ASSUME IInv, FiniteFrames, [Next]_vars PROVE FiniteFrames'
    OBVIOUS
  <2>1. ASSUME NEW c \in Camera, NEW f \in Frame, Update(c, f) PROVE FiniteFrames'
    BY <2>1 DEF Update, Frame, FiniteFrames, IInv, TypeOK
  <2>2. CASE UNCHANGED raw
    BY <2>2 DEF FiniteFrames
  <2> QED
    BY <2>1, <2>2 DEF Next, vars, SetTransformationMatrix, SetFilterSame,
       SetFilterManual, ClearFilter, SetDefaultFilter, ClearDefaultFilter,
       ClearAllFilters, ClearFilters, Hold, Write
<1> QED BY <1>1, <1>2, Invariance, PTL DEF Spec

\* What the candidates are.
LEMMA CandidatesAre ==
    ASSUME NEW r, NEW id
    PROVE  \A x : x \in Candidates(r, id) <=>
              \E k \in Camera : \E e \in r[k] :
                 e.id = id /\ x = [camera |-> k, detection |-> e]
BY DEF Candidates

\* A robot that finitely many cameras see in finite frames has a most reliable detection.
LEMMA MostReliableExists ==
    ASSUME IsFiniteSet(Camera), NEW r \in [Camera -> SUBSET Detection],
           \A k \in Camera : IsFiniteSet(r[k]), NEW id \in Detected(r)
    PROVE  MostReliable(r, id) # {}
<1> DEFINE Seeing == {k \in Camera : \E d \in r[k] : d.id = id}
           Best(k) == CHOOSE d \in r[k] :
                         d.id = id /\ \A e \in r[k] : e.id = id => e.confidence <= d.confidence
           best == [k \in Seeing |-> Best(k).confidence]
<1>1. \A d \in Detection : d.confidence \in Nat
  BY UpdaterAssumption DEF Detection
<1>2. ASSUME NEW k \in Seeing
      PROVE  /\ Best(k) \in r[k] /\ Best(k).id = id
             /\ \A e \in r[k] : e.id = id => e.confidence <= Best(k).confidence
             /\ Best(k).confidence \in Nat
  <2> DEFINE own == {d \in r[k] : d.id = id}
             of == [d \in own |-> d.confidence]
  <2>1. IsFiniteSet(own) /\ own # {}
    BY FS_Subset
  <2>2. of \in [own -> Nat]
    BY <1>1
  <2>3. PICK d \in own : \A e \in own : of[e] <= of[d]
    BY <2>1, <2>2, GreatestExists
  <2>4. d \in r[k] /\ d.id = id /\ \A e \in r[k] : e.id = id => e.confidence <= d.confidence
    BY <2>3
  <2>5. /\ Best(k) \in r[k] /\ Best(k).id = id
        /\ \A e \in r[k] : e.id = id => e.confidence <= Best(k).confidence
    BY <2>4
  <2> HIDE DEF Best
  <2> QED BY <1>1, <2>5
<1> HIDE DEF Best
<1>3. IsFiniteSet(Seeing) /\ Seeing # {}
  <2>1. Seeing # {}
    BY DEF Detected, Candidates
  <2> QED BY <2>1, FS_Subset
<1>4. best \in [Seeing -> Nat]
  BY <1>2
<1>5. PICK c \in Seeing : \A k \in Seeing : best[k] <= best[c]
  BY <1>3, <1>4, GreatestExists
<1> DEFINE x == [camera |-> c, detection |-> Best(c)]
<1>6. x \in Candidates(r, id)
  <2>1. c \in Camera /\ Best(c) \in r[c] /\ Best(c).id = id
    BY <1>2
  <2> QED BY <2>1, CandidatesAre
<1>7. ASSUME NEW y \in Candidates(r, id)
      PROVE  y.detection.confidence <= x.detection.confidence
  <2>0. PICK k \in Camera : \E e \in r[k] : e.id = id /\ y = [camera |-> k, detection |-> e]
    BY CandidatesAre
  <2>1. PICK e \in r[k] : e.id = id /\ y = [camera |-> k, detection |-> e]
    BY <2>0
  <2>2. k \in Seeing /\ e.confidence <= Best(k).confidence
    BY <2>1, <1>2
  <2>3. Best(k).confidence <= Best(c).confidence
    BY <2>2, <1>5
  <2>4. e.confidence \in Nat /\ Best(k).confidence \in Nat /\ Best(c).confidence \in Nat
    BY <1>1, <1>2, <2>2
  <2> QED BY <2>1, <2>2, <2>3, <2>4
<1> QED BY <1>6, <1>7 DEF MostReliable

\* update() handles whatever packet comes next: it chooses a most reliable detection
\* for every robot that is seen, and throws for none. So where fairness has a packet
\* handled there is a step that does it.
THEOREM EveryPacketHandled ==
    ASSUME IsFiniteSet(Camera), Estimate # {}
    PROVE  Spec => []AlwaysHandled
<1>1. ASSUME IInv, FiniteFrames, NEW c \in Camera, NEW f \in Frame
      PROVE  Results([raw EXCEPT ![c] = f], c, Id) # {}
  <2> DEFINE r == [raw EXCEPT ![c] = f]
  <2>1. r \in [Camera -> SUBSET Detection] /\ \A k \in Camera : IsFiniteSet(r[k])
    BY <1>1 DEF IInv, TypeOK, Frame, FiniteFrames
  <2>2. \A k \in Camera : k # c => r[k] = raw[k]
    BY <1>1 DEF IInv, TypeOK
  <2> HIDE DEF r
  <2>3. ASSUME NEW id \in Id PROVE Outcomes(r, c, id) # {}
    <3>1. CASE id \notin Detected(r)
      BY <3>1 DEF Outcomes, Lose, Answers
    <3>2. CASE id \in Detected(r)
      <4>1. PICK x \in MostReliable(r, id) : TRUE
        BY <2>1, <3>2, MostReliableExists
      <4>2. CASE x.camera = c
        <5>1. Adopt(id, Transform(affine, x.detection)) # {}
          BY DEF Adopt, Answers
        <5> QED BY <3>2, <4>1, <4>2, <5>1 DEF Outcomes
      <4>3. CASE x.camera # c
        <5>1. x \in Candidates(raw, id)
          BY <2>2, <4>1, <4>3 DEF MostReliable, Candidates
        <5>2. reliable[id] # NoRobot
          BY <1>1, <5>1 DEF IInv, ReliableIsDetected, Detected
        <5>3. Inherit(id) # {}
          BY <5>2 DEF Inherit
        <5> QED BY <3>2, <4>1, <4>3, <5>3 DEF Outcomes
      <4> QED BY <4>2, <4>3
    <3> QED BY <3>1, <3>2
  <2>4. [id \in Id |-> CHOOSE o \in Outcomes(r, c, id) : TRUE] \in Results(r, c, Id)
    BY <2>3 DEF Results
  <2> QED BY <2>4 DEF r
<1>2. IInv /\ FiniteFrames => AlwaysHandled
  BY <1>1 DEF AlwaysHandled
<1> QED BY <1>2, Invariance, FramesStayFinite, PTL

\* No robot has two filters.
THEOREM AtMostOneFilter == Spec => []OneFilter
<1>1. IInv => OneFilter
  BY DEF IInv
<1> QED BY <1>1, Invariance, PTL

\* Robots without filters are published as observed.
THEOREM UnfilteredPublished == Spec => []UnfilteredIsReliable
<1>1. IInv => UnfilteredIsReliable
  BY DEF IInv
<1> QED BY <1>1, Invariance, PTL

\* If no filter answers an observation with nullopt, every "same" filter
\* hears of the loss of its robot, but one whose robot the late write of a
\* manual filter before it has taken off the list.
THEOREM FiltersHearOfLoss ==
    ASSUME ~DropsValues
    PROVE  Spec => []LossNotified
<1>1. IInv => LossNotified
  BY DEF IInv, LossNotified, ReliableIsDetected
<1> QED BY <1>1, Invariance, PTL

-----------------------------------------------------------------------------
(* Convergence.  Fairness is stated without ENABLED, so propositional       *)
(* temporal logic gets from steps to behaviours.                            *)

\* Only the best camera's detections are candidates for the most reliable one.
LEMMA BestIsMostReliable ==
    ASSUME NEW r \in [Camera -> SUBSET Detection], NEW id \in Id, NEW c \in Camera,
           NEW p, BestIn(r, id, c, p)
    PROVE  /\ id \in Detected(r)
           /\ MostReliable(r, id) # {}
           /\ \A x \in MostReliable(r, id) : x.camera = c /\ x.detection.pose = p
<1>1. PICK d \in r[c] :
         /\ d.id = id /\ d.pose = p
         /\ \A k \in Camera : \A e \in r[k] :
               e.id = id => \/ e.confidence < d.confidence
                            \/ k = c /\ e.confidence = d.confidence /\ e.pose = p
  BY DEF BestIn
<1> DEFINE best == [camera |-> c, detection |-> d]
<1>2. \A k \in Camera : \A e \in r[k] : e \in Detection /\ e.confidence \in Nat
  <2>1. \A k \in Camera : \A e \in r[k] : e \in Detection
    OBVIOUS
  <2>2. \A e \in Detection : e.confidence \in Nat
    BY UpdaterAssumption DEF Detection
  <2> QED BY <2>1, <2>2
<1>3. best \in Candidates(r, id)
  BY <1>1, CandidatesAre
<1>4. best \in MostReliable(r, id)
  <2>1. ASSUME NEW y \in Candidates(r, id)
        PROVE  y.detection.confidence <= d.confidence
    BY <2>1, <1>1, <1>2, CandidatesAre
  <2> QED BY <2>1, <1>3 DEF MostReliable
<1>5. ASSUME NEW x \in MostReliable(r, id)
      PROVE  x.camera = c /\ x.detection.pose = p
  <2>1. x \in Candidates(r, id) /\ d.confidence <= x.detection.confidence
    BY <1>3 DEF MostReliable
  <2>2. PICK k \in Camera : \E e \in r[k] :
           e.id = id /\ x = [camera |-> k, detection |-> e]
    BY <2>1, CandidatesAre
  <2>3. PICK e \in r[k] : e.id = id /\ x = [camera |-> k, detection |-> e]
    BY <2>2
  <2>4. ~(e.confidence < d.confidence)
    BY <2>1, <2>3, <1>1, <1>2
  <2> QED BY <2>3, <2>4, <1>1
<1> QED BY <1>3, <1>4, <1>5 DEF Detected

\* An ID that no filter touches gets the best camera's value from its packets,
\* and keeps it through the packets of others.
LEMMA BareOutcome ==
    ASSUME IInv, NEW r \in [Camera -> SUBSET Detection], NEW id \in Id,
           NEW c \in Camera, NEW k \in Camera, NEW p, Bare(id), BestIn(r, id, c, p),
           NEW o \in Outcomes(r, k, id)
    PROVE  o.robot = IF k = c THEN [pose |-> p, affine |-> affine] ELSE robots[id]
<1>1. id \in Detected(r) /\ \A x \in MostReliable(r, id) : x.camera = c /\ x.detection.pose = p
  BY BestIsMostReliable
<1>2. PICK x \in MostReliable(r, id) :
         o \in IF x.camera = k THEN Adopt(id, Transform(affine, x.detection))
               ELSE Inherit(id)
  BY <1>1 DEF Outcomes
<1>3. CASE k = c
  BY <1>1, <1>2, <1>3 DEF Adopt, Bare, MakesDefault, Transform
<1>4. CASE k # c
  BY <1>1, <1>2, <1>4 DEF Inherit
<1> QED BY <1>3, <1>4

\* One that nobody sees is not published after any packet.
LEMMA UnseenOutcome ==
    ASSUME IInv, NEW r, NEW id \in Id, NEW k, Bare(id), id \notin Detected(r),
           NEW o \in Outcomes(r, k, id)
    PROVE  o.robot = NoRobot
BY DEF Outcomes, Lose, Bare

\* What any packet makes of one robot is one of its outcomes.
LEMMA UpdateOutcome ==
    ASSUME IInv, NEW c \in Camera, NEW f, Update(c, f), raw' \in [Camera -> SUBSET Detection],
           NEW id \in Id
    PROVE  \E o \in Outcomes(raw', c, id) : robots'[id] = o.robot
<1>1. PICK out \in Results(raw', c, Id) : robots' = [i \in Id |-> out[i].robot]
  BY DEF Update
<1> QED BY <1>1 DEF Results

\* Between packets, nothing moves a robot without filters.
LEMMA BareKept ==
    ASSUME IInv, NEW id \in Id, Bare(id), [Next]_vars
    PROVE  \/ UNCHANGED robots[id]
           \/ \E k \in Camera, f \in Frame : Update(k, f)
<1>1. CASE UNCHANGED vars
  BY <1>1 DEF vars
<1>2. ASSUME NEW i \in Id, NEW v, Write(i, v) PROVE UNCHANGED robots[id]
  BY <1>2 DEF Write, Bare, IInv, TypeOK
<1>3. ASSUME NEW i \in Id, \/ SetFilterSame(i) \/ SetFilterManual(i)
                           \/ ClearFilter(i) \/ Hold(i)
      PROVE  UNCHANGED robots
  BY <1>3 DEF SetFilterSame, SetFilterManual, ClearFilter, ClearFilters, Hold
<1>4. ASSUME \/ SetDefaultFilter \/ ClearDefaultFilter \/ ClearAllFilters
             \/ \E m \in Affine : SetTransformationMatrix(m)
      PROVE  UNCHANGED robots
  BY <1>4 DEF SetDefaultFilter, ClearDefaultFilter, ClearAllFilters, ClearFilters,
     SetTransformationMatrix
<1> QED BY <1>1, <1>2, <1>3, <1>4 DEF Next

\* A stable best camera's robot is where that camera sees it: a packet of the
\* camera moves it there, or would change nothing; no other packet moves it.
THEOREM Convergence == FairSpec => Converges
<1> SUFFICES ASSUME NEW id \in Id, NEW c \in Camera, NEW p \in Pose, NEW m \in Affine
             PROVE  FairSpec =>
                      (<>[](Bare(id) /\ BestFrom(id, c, p) /\ affine = m)
                         => <>[](robots[id] = [pose |-> p, affine |-> m]))
  BY DEF Converges
<1> DEFINE P == Bare(id) /\ BestFrom(id, c, p) /\ affine = m
           Q == robots[id] = [pose |-> p, affine |-> m]
<1>1. IInv /\ IInv' /\ P /\ P' /\ Update(c, raw'[c]) => Q'
  <2> SUFFICES ASSUME IInv, IInv', P, P', Update(c, raw'[c]) PROVE Q'
    OBVIOUS
  <2>1. raw' \in [Camera -> SUBSET Detection] /\ BestIn(raw', id, c, p)
    BY DEF IInv, TypeOK, BestFrom
  <2>2. PICK o \in Outcomes(raw', c, id) : robots'[id] = o.robot
    BY <2>1, UpdateOutcome
  <2>3. o.robot = [pose |-> p, affine |-> affine]
    BY <2>1, <2>2, BareOutcome
  <2> QED BY <2>2, <2>3
<1>2. IInv /\ P /\ Settled(c) => Q
  <2> SUFFICES ASSUME IInv, P, Settled(c) PROVE Q
    OBVIOUS
  <2>1. raw \in [Camera -> SUBSET Detection] /\ BestIn(raw, id, c, p)
    BY DEF IInv, TypeOK, BestFrom
  <2>2. id \in Detected(raw) /\ MostReliable(raw, id) # {}
        /\ \A x \in MostReliable(raw, id) : x.camera = c
    BY <2>1, BestIsMostReliable
  <2>3. Outcomes(raw, c, id) # {}
    <3>1. PICK x \in MostReliable(raw, id) : x.camera = c
      BY <2>2
    <3>2. Adopt(id, Transform(affine, x.detection)) # {}
      BY DEF Adopt, Bare, MakesDefault
    <3> QED BY <2>2, <3>1, <3>2 DEF Outcomes
  <2>4. PICK o \in Outcomes(raw, c, id) : robots[id] = o.robot
    BY <2>3 DEF Settled
  <2> QED BY <2>1, <2>4, BareOutcome
<1>3. IInv /\ IInv' /\ P /\ P' /\ Q /\ [Next]_vars => Q'
  <2> SUFFICES ASSUME IInv, IInv', P, P', Q, [Next]_vars,
                      NEW k \in Camera, NEW f \in Frame, Update(k, f)
               PROVE  Q'
    BY BareKept
  <2>1. raw' \in [Camera -> SUBSET Detection] /\ BestIn(raw', id, c, p)
    BY DEF IInv, TypeOK, BestFrom
  <2>2. PICK o \in Outcomes(raw', k, id) : robots'[id] = o.robot
    BY <2>1, UpdateOutcome
  <2>3. o.robot = IF k = c THEN [pose |-> p, affine |-> affine] ELSE robots[id]
    BY <2>1, <2>2, BareOutcome
  <2> QED BY <2>2, <2>3
<1>4. FairSpec => Spec /\ ([]<><<Update(c, raw'[c])>>_vars \/ []<>Settled(c))
  BY DEF FairSpec, Fairness
<1> QED BY <1>1, <1>2, <1>3, <1>4, Invariance, PTL DEF Spec

\* A robot that no camera sees and no filter touches disappears: a packet of any
\* camera removes it, or would change nothing as it is gone; and no packet, and no
\* late write, brings it back. Without a camera there would be no packet, and
\* what a dropped filter published would stay.
THEOREM LossDisappears ==
    ASSUME NEW c \in Camera
    PROVE  FairSpec => LostDisappears
<1> SUFFICES ASSUME NEW id \in Id
             PROVE  FairSpec => (<>[](Bare(id) /\ id \notin Detected(raw))
                                   => <>[](robots[id] = NoRobot))
  BY DEF LostDisappears
<1> DEFINE P == Bare(id) /\ id \notin Detected(raw)
           Q == robots[id] = NoRobot
<1>1. IInv /\ IInv' /\ P /\ P' /\ (\E k \in Camera : \E f : Update(k, f)) => Q'
  <2> SUFFICES ASSUME IInv, IInv', P, P', NEW k \in Camera, NEW f, Update(k, f)
               PROVE  Q'
    OBVIOUS
  <2>1. raw' \in [Camera -> SUBSET Detection]
    BY DEF IInv, TypeOK
  <2>2. id \notin Detected(raw')
    BY DEF Detected, Candidates
  <2>3. PICK o \in Outcomes(raw', k, id) : robots'[id] = o.robot
    BY <2>1, UpdateOutcome
  <2> QED BY <2>2, <2>3, UnseenOutcome
<1>2. IInv /\ P /\ Settled(c) => Q
  <2> SUFFICES ASSUME IInv, P, Settled(c) PROVE Q
    OBVIOUS
  <2>1. Outcomes(raw, c, id) # {}
    BY DEF Outcomes, Lose, Bare
  <2> QED BY <2>1, UnseenOutcome DEF Settled
<1>3. IInv /\ IInv' /\ P /\ P' /\ Q /\ [Next]_vars => Q'
  BY <1>1, BareKept
<1>4. IInv /\ IInv' /\ P /\ P' /\ Update(c, raw'[c]) => Q'
  BY <1>1
<1>5. FairSpec => Spec /\ ([]<><<Update(c, raw'[c])>>_vars \/ []<>Settled(c))
  BY DEF FairSpec, Fairness
<1> QED BY <1>2, <1>3, <1>4, <1>5, Invariance, PTL DEF Spec
=============================================================================
