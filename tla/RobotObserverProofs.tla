------------------------ MODULE RobotObserverProofs -------------------------
(***************************************************************************)
(* A tracked robot is published, and updater and observers together do     *)
(* what RobotUpdater says of an updater with manual filters.               *)
(***************************************************************************)
EXTENDS RobotObserver, TLAPS

\* The abstract values are told from each other.
LEMMA DistinctValues ==
    /\ NoRobot \notin U!Transformed \cup {Default, Estimated} \cup Id
    /\ Default \notin U!Transformed \cup {Estimated}
    /\ NoRobot \notin Observer
BY ObserverAssumption, ObserverIsSomething DEF U!Transformed

Outcome ==
    [robot : U!Transformed \cup {Default, Estimated, NoRobot},
     reliable : U!Transformed \cup {NoRobot},
     observer : Observer \cup {NoRobot}]

\* What keeps the invariant, of the new entries for one robot.
Sound(o) ==
    /\ o \in Outcome
    /\ o.observer # NoRobot /\ o.observer.capture # Unset =>
          /\ o.robot \notin {NoRobot, Default}
          /\ ~o.observer.news => o.observer.state = Estimated

\* The observer after set_raw_value() is one.
LEMMA SetRawType ==
    ASSUME NEW o \in Observer, NEW v \in U!Transformed \cup {NoRobot}, NEW age \in 0 .. MaxDelay
    PROVE  /\ SetRaw(o, v, age) \in Observer
           /\ SetRaw(o, v, age).raw = v
           /\ SetRaw(o, v, age).news
           /\ SetRaw(o, v, age).capture = IF v = NoRobot THEN o.capture ELSE age
<1>1. age \in Age \cup {Unset}
  BY ObserverAssumption DEF Age
<1> QED BY <1>1 DEF SetRaw, Observer

\* A detection that wins, of another camera than the packet's, has been stored
\* before, so there is a reliable value.
LEMMA Remembered ==
    ASSUME IInv, NEW c \in Camera, NEW f \in SUBSET U!Detection, NEW id \in Id,
           NEW x \in U!MostReliable([raw EXCEPT ![c] = f], id)
    PROVE  /\ x.detection \in U!Detection
           /\ x.camera # c => reliable[id] # NoRobot
<1> DEFINE r == [raw EXCEPT ![c] = f]
<1>1. raw \in [Camera -> SUBSET U!Detection]
  BY DEF IInv, TypeOK
<1>2. x \in U!Candidates(r, id)
  BY DEF U!MostReliable
<1>3. PICK k \in Camera : x \in {[camera |-> k, detection |-> d] : d \in {e \in r[k] : e.id = id}}
  BY <1>2 DEF U!Candidates
<1>4. x.camera = k /\ x.detection \in r[k] /\ x.detection.id = id
  BY <1>3
<1>5. r[k] \in SUBSET U!Detection
  BY <1>1
<1>6. ASSUME k # c PROVE reliable[id] # NoRobot
  <2>1. r[k] = raw[k]
    BY <1>1, <1>6
  <2>2. x \in U!Candidates(raw, id)
    BY <1>3, <2>1 DEF U!Candidates
  <2> QED BY <2>2 DEF IInv, ReliableIsDetected, U!Detected
<1> QED BY <1>4, <1>5, <1>6

\* What update() does to one robot keeps the invariant.
LEMMA OutcomeSound ==
    ASSUME IInv, NEW c \in Camera, NEW f \in SUBSET U!Detection, NEW age \in 0 .. MaxDelay,
           NEW id \in Id, NEW o \in Outcomes([raw EXCEPT ![c] = f], c, age, id)
    PROVE  /\ Sound(o)
           /\ o.reliable # NoRobot <=> id \in U!Detected([raw EXCEPT ![c] = f])
           /\ o.observer = NoRobot <=> observer[id] = NoRobot
<1> DEFINE r == [raw EXCEPT ![c] = f]
<1>1. /\ robots[id] \in U!Transformed \cup {Default, Estimated, NoRobot}
      /\ reliable[id] \in U!Transformed \cup {NoRobot}
      /\ observer[id] \in Observer \cup {NoRobot}
  BY DEF IInv, TypeOK
<1>2. observer[id] # NoRobot /\ observer[id].capture # Unset =>
         /\ robots[id] \notin {NoRobot, Default}
         /\ ~observer[id].news => observer[id].state = Estimated
  BY DEF IInv, TrackedIsPublished, EstimateMade, Tracked
<1>3. CASE id \notin U!Detected(r)
  <2>1. o = Lose(id, age)
    BY <1>3 DEF Outcomes
  <2>2. CASE robots[id] = NoRobot \/ observer[id] = NoRobot
    BY <1>1, <1>2, <1>3, <2>1, <2>2, DistinctValues DEF Lose, Sound, Outcome
  <2>3. CASE ~(robots[id] = NoRobot \/ observer[id] = NoRobot)
    <3>1. observer[id] \in Observer
      BY <1>1, <2>3
    <3> DEFINE n == SetRaw(observer[id], NoRobot, age)
    <3>2. n \in Observer /\ n.capture = observer[id].capture /\ n.news
      BY <3>1, SetRawType
    <3>3. o = [robot |-> robots[id], reliable |-> NoRobot, observer |-> n]
      BY <2>1, <2>3 DEF Lose
    <3> HIDE DEF n
    <3> QED BY <1>1, <1>2, <1>3, <2>3, <3>2, <3>3, DistinctValues DEF Sound, Outcome
  <2> QED BY <2>2, <2>3
<1>4. CASE id \in U!Detected(r)
  <2>1. PICK x \in U!MostReliable(r, id) :
           o = IF x.camera = c THEN Adopt(id, U!Transform(Matrix, x.detection), age)
               ELSE Inherit(id)
    BY <1>4 DEF Outcomes
  <2>2. x.detection \in U!Detection /\ (x.camera # c => reliable[id] # NoRobot)
    BY <2>1, Remembered
  <2>3. CASE x.camera # c
    BY <1>1, <1>2, <1>4, <2>1, <2>2, <2>3 DEF Inherit, Sound, Outcome
  <2>4. CASE x.camera = c
    <3> DEFINE v == U!Transform(Matrix, x.detection)
    <3>1. v \in U!Transformed
      BY <2>2 DEF U!Transform, U!Transformed, U!Detection
    <3>2. v \notin {NoRobot, Default}
      BY <3>1, DistinctValues
    <3>3. o = Adopt(id, v, age)
      BY <2>1, <2>4
    <3> HIDE DEF v
    <3>4. CASE observer[id] = NoRobot
      BY <1>4, <3>1, <3>2, <3>3, <3>4 DEF Adopt, Sound, Outcome
    <3>5. CASE observer[id] # NoRobot
      <4> DEFINE n == SetRaw(observer[id], v, age)
      <4>1. n \in Observer /\ n.news
        BY <1>1, <3>1, <3>5, SetRawType
      <4>2. Restart(id, v) \in U!Transformed \cup {Default, Estimated, NoRobot}
        BY <1>1, <3>1 DEF Restart
      <4>3. Restart(id, v) \notin {NoRobot, Default}
        BY <1>2, <3>2, <3>5 DEF Restart
      <4>4. o = [robot |-> Restart(id, v), reliable |-> v, observer |-> n]
        BY <3>3, <3>5 DEF Adopt
      <4> HIDE DEF n
      <4> QED
        BY <1>4, <3>1, <3>2, <3>5, <4>1, <4>2, <4>3, <4>4, DistinctValues DEF Sound, Outcome
    <3> QED BY <3>4, <3>5
  <2> QED BY <2>3, <2>4
<1> QED BY <1>3, <1>4

LEMMA InitInv == Init => IInv
<1> SUFFICES ASSUME Init PROVE IInv
  OBVIOUS
<1>1. U!Detected(raw) = {}
  BY DEF Init, U!Detected, U!Candidates
<1> QED
  BY <1>1 DEF Init, IInv, TypeOK, ReliableIsDetected, TrackedIsPublished,
     EstimateMade, LockedExists, Tracked

LEMMA UpdateInv ==
    ASSUME IInv, NEW c \in Camera, NEW f \in U!Frame, NEW age \in 0 .. MaxDelay,
           Update(c, f, age)
    PROVE  IInv'
<1> DEFINE r == [raw EXCEPT ![c] = f]
<1>1. f \in SUBSET U!Detection
  BY DEF U!Frame
<1>2. PICK out \in [Id -> UNION {Outcomes(r, c, age, id) : id \in Id}] :
         /\ \A id \in Id : out[id] \in Outcomes(r, c, age, id)
         /\ robots' = [id \in Id |-> out[id].robot]
         /\ reliable' = [id \in Id |-> out[id].reliable]
         /\ observer' = [id \in Id |-> out[id].observer]
  BY DEF Update
<1>3. raw' = r /\ UNCHANGED <<observing, unfiltered>>
  BY DEF Update
<1>4. r \in [Camera -> SUBSET U!Detection]
  BY <1>1 DEF IInv, TypeOK
<1>5. \A id \in Id : /\ Sound(out[id])
                     /\ out[id].reliable # NoRobot <=> id \in U!Detected(r)
                     /\ out[id].observer = NoRobot <=> observer[id] = NoRobot
  <2> TAKE id \in Id
  <2>1. out[id] \in Outcomes(r, c, age, id)
    BY <1>2
  <2>2. \A o \in Outcomes(r, c, age, id) :
           /\ Sound(o)
           /\ o.reliable # NoRobot <=> id \in U!Detected(r)
           /\ o.observer = NoRobot <=> observer[id] = NoRobot
    BY <1>1, OutcomeSound
  <2> QED BY <2>1, <2>2
<1> HIDE DEF r
<1>6. U!Detected(raw)' = U!Detected(r)
  BY <1>3 DEF U!Detected, U!Candidates
<1>7. TypeOK'
  BY <1>2, <1>3, <1>4, <1>5 DEF Sound, Outcome, IInv, TypeOK
<1>8. ReliableIsDetected'
  BY <1>2, <1>5, <1>6 DEF ReliableIsDetected
<1>9. TrackedIsPublished' /\ EstimateMade'
  BY <1>2, <1>5 DEF Sound, Tracked, TrackedIsPublished, EstimateMade
<1>10. LockedExists'
  BY <1>2, <1>3, <1>5 DEF LockedExists, IInv, TypeOK
<1> QED BY <1>7, <1>8, <1>9, <1>10 DEF IInv

LEMMA NewObserverType == NewObserver \in Observer /\ NewObserver.capture = Unset
BY DEF NewObserver, Observer

LEMMA GuiInv ==
    ASSUME IInv, NEW id \in Id, SetObserver(id) \/ ClearObserver(id)
    PROVE  IInv'
<1>1. U!Detected(raw)' = U!Detected(raw)
  BY DEF U!Detected, U!Candidates, SetObserver, ClearObserver
<1>2. CASE SetObserver(id)
  BY <1>1, <1>2, NewObserverType, DistinctValues DEF SetObserver, IInv, TypeOK, ReliableIsDetected,
     TrackedIsPublished, EstimateMade, LockedExists, Tracked
<1>3. CASE ClearObserver(id)
  BY <1>1, <1>3 DEF ClearObserver, IInv, TypeOK, ReliableIsDetected,
     TrackedIsPublished, EstimateMade, LockedExists, Tracked
<1> QED BY <1>2, <1>3

\* What observe() writes, and the observer afterwards.
LEMMA ObservedFacts ==
    ASSUME NEW o \in Observer, o.capture # Unset /\ ~o.news => o.state = Estimated
    PROVE  /\ Observed(o).written \in {Default, Estimated, NoRobot}
           /\ Observed(o).observer \in Observer
           /\ Observed(o).observer.raw = o.raw
           /\ Observed(o).observer.capture # Unset =>
                 /\ Observed(o).written \notin {NoRobot, Default}
                 /\ ~Observed(o).observer.news => Observed(o).observer.state = Estimated
<1>1. CASE TimedOut(o)
  BY <1>1 DEF Observed, Observer
<1>2. CASE ~TimedOut(o) /\ ~o.news
  BY <1>2, DistinctValues DEF Observed, Observer
<1>3. CASE ~TimedOut(o) /\ o.news
  BY <1>3, DistinctValues DEF Observed, Observer
<1> QED BY <1>1, <1>2, <1>3

LEMMA OwnerInv ==
    ASSUME IInv, NEW id \in Id, LockObserver(id) \/ Observe(id)
    PROVE  IInv'
<1>1. U!Detected(raw)' = U!Detected(raw)
  BY DEF U!Detected, U!Candidates, LockObserver, Observe
<1>2. CASE LockObserver(id)
  BY <1>1, <1>2 DEF LockObserver, IInv, TypeOK, ReliableIsDetected,
     TrackedIsPublished, EstimateMade, LockedExists, Tracked
<1>3. CASE Observe(id)
  <2> DEFINE o == Observed(observer[id])
  <2>1. /\ robots' = [robots EXCEPT ![id] = o.written]
        /\ observer' = [observer EXCEPT ![id] = o.observer]
        /\ observing' = NoRobot
        /\ UNCHANGED <<raw, reliable, unfiltered>>
    BY <1>3 DEF Observe, IInv, TypeOK
  <2>2. CASE observer[id] = NoRobot
    <3>1. observing = id
      BY <1>3 DEF Observe
    <3> QED BY <2>2, <3>1, DistinctValues DEF IInv, LockedExists, TypeOK
  <2>3. CASE observer[id] # NoRobot
    <3>1. observer[id] \in Observer
      BY <2>3 DEF IInv, TypeOK
    <3>2. observer[id].capture # Unset /\ ~observer[id].news => observer[id].state = Estimated
      BY <2>3 DEF IInv, EstimateMade, LockedExists, Tracked
    <3>3. /\ o.written \in {Default, Estimated, NoRobot}
          /\ o.observer \in Observer
          /\ o.observer.capture # Unset =>
                /\ o.written \notin {NoRobot, Default}
                /\ ~o.observer.news => o.observer.state = Estimated
      BY <3>1, <3>2, ObservedFacts
    <3> HIDE DEF o
    <3> QED
      BY <1>1, <2>1, <3>3 DEF IInv, TypeOK, ReliableIsDetected,
         TrackedIsPublished, EstimateMade, LockedExists, Tracked
  <2> QED BY <2>2, <2>3
<1> QED BY <1>2, <1>3

LEMMA TickInv == ASSUME IInv, Tick PROVE IInv'
<1>1. U!Detected(raw)' = U!Detected(raw)
  BY DEF U!Detected, U!Candidates, Tick
<1>2. \A age \in Age \cup {Unset} :
         /\ Older(age) \in Age \cup {Unset}
         /\ Older(age) = Unset <=> age = Unset
  BY ObserverAssumption DEF Older, Age, Unset
<1> DEFINE Next1(id) == [observer[id] EXCEPT !.capture = Older(@)]
<1>3. ASSUME NEW id \in Id, observer[id] # NoRobot
      PROVE  /\ Next1(id) \in Observer
             /\ Next1(id) # NoRobot
             /\ Next1(id).capture # Unset <=> observer[id].capture # Unset
             /\ Next1(id).news = observer[id].news
             /\ Next1(id).state = observer[id].state
  <2>1. observer[id] \in Observer
    BY <1>3 DEF IInv, TypeOK
  <2>2. Older(observer[id].capture) \in Age \cup {Unset}
    BY <2>1, <1>2 DEF Observer
  <2>3. Next1(id) \in Observer
    BY <2>1, <2>2 DEF Observer
  <2>4. Next1(id).capture = Older(observer[id].capture)
    BY <2>1 DEF Observer
  <2>5. observer[id].capture \in Age \cup {Unset}
    BY <2>1 DEF Observer
  <2> QED BY <2>1, <2>3, <2>4, <2>5, <1>2, DistinctValues DEF Observer
<1>4. observer' = [id \in Id |-> IF observer[id] = NoRobot THEN NoRobot ELSE Next1(id)]
  BY DEF Tick
<1>5. UNCHANGED <<robots, raw, reliable, observing, unfiltered>>
  BY DEF Tick
<1> HIDE DEF Next1
<1> QED
  BY <1>1, <1>3, <1>4, <1>5 DEF IInv, TypeOK, ReliableIsDetected,
     TrackedIsPublished, EstimateMade, LockedExists, Tracked

LEMMA StutterInv == ASSUME IInv, UNCHANGED vars PROVE IInv'
<1>1. U!Detected(raw)' = U!Detected(raw)
  BY DEF U!Detected, U!Candidates, vars
<1> QED
  BY <1>1 DEF vars, IInv, TypeOK, ReliableIsDetected,
     TrackedIsPublished, EstimateMade, LockedExists, Tracked

\* The invariant holds in every state of every run of updater and observers.
THEOREM Invariance == Spec => []IInv
<1>1. Init => IInv
  BY InitInv
<1>2. IInv /\ [Next]_vars => IInv'
  BY UpdateInv, GuiInv, OwnerInv, TickInv, StutterInv DEF Next
<1> QED BY <1>1, <1>2, PTL DEF Spec

\* Every state of updater and observers is of its type.
THEOREM TypeCorrect == Spec => []TypeOK
BY Invariance, PTL DEF IInv

\* A robot that its observer tracks is published, and not as the default robot.
THEOREM TrackedPublished == Spec => []TrackedIsPublished
BY Invariance, PTL DEF IInv

-----------------------------------------------------------------------------
(* The refinement *)

\* What the updater knows of one observer.
ManualOf(o) ==
    IF o = NoRobot THEN "absent" ELSE IF o.raw = NoRobot THEN "idle" ELSE "tracking"

LEMMA ManualIs ==
    /\ Manual = [id \in Id |-> ManualOf(observer[id])]
    /\ Manual' = [id \in Id |-> ManualOf(observer'[id])]
BY DEF Manual, ManualOf

\* What becomes of one robot, as the updater sees it.
AsManual(o) ==
    [robot |-> o.robot, reliable |-> o.reliable, same |-> "absent",
     manual |-> ManualOf(o.observer)]

\* A detection is adopted as the updater adopts it with a manual filter.
LEMMA AdoptImplements ==
    ASSUME IInv, NEW id \in Id, NEW v \in U!Transformed, NEW age \in 0 .. MaxDelay
    PROVE  AsManual(Adopt(id, v, age)) \in U!Adopt(id, v)
<1>1. observer[id] \in Observer \cup {NoRobot}
  BY DEF IInv, TypeOK
<1>2. Manual[id] = ManualOf(observer[id])
  BY ManualIs
<1>3. v # NoRobot
  BY DistinctValues
<1>4. CASE observer[id] = NoRobot
  BY <1>2, <1>4 DEF Adopt, AsManual, ManualOf, U!Adopt, U!MakesDefault
<1>5. CASE observer[id] # NoRobot
  <2> DEFINE n == SetRaw(observer[id], v, age)
  <2>1. n \in Observer /\ n.raw = v
    BY <1>1, <1>5, SetRawType
  <2>2. n # NoRobot
    BY <2>1, DistinctValues
  <2>3. Adopt(id, v, age) = [robot |-> Restart(id, v), reliable |-> v, observer |-> n]
    BY <1>5 DEF Adopt
  <2>4. Restart(id, v) \in {robots[id], v}
    BY DEF Restart
  <2>5. Manual[id] # "absent"
    BY <1>2, <1>5 DEF ManualOf
  <2>6. U!Adopt(id, v) = {[robot |-> e, reliable |-> v, same |-> "absent",
                           manual |-> "tracking"] : e \in {robots[id], v}}
    BY <2>5 DEF U!Adopt, U!MakesDefault
  <2> HIDE DEF n
  <2> QED BY <1>3, <2>1, <2>2, <2>3, <2>4, <2>6 DEF AsManual, ManualOf
<1> QED BY <1>4, <1>5

\* So is a loss.
LEMMA LoseImplements ==
    ASSUME IInv, NEW id \in Id, NEW age \in 0 .. MaxDelay
    PROVE  AsManual(Lose(id, age)) \in U!Lose(id)
<1>1. observer[id] \in Observer \cup {NoRobot}
  BY DEF IInv, TypeOK
<1>2. Manual[id] = ManualOf(observer[id])
  BY ManualIs
<1>3. CASE robots[id] = NoRobot \/ observer[id] = NoRobot
  BY <1>2, <1>3 DEF Lose, AsManual, ManualOf, U!Lose
<1>4. CASE ~(robots[id] = NoRobot \/ observer[id] = NoRobot)
  <2> DEFINE n == SetRaw(observer[id], NoRobot, age)
  <2>1. n \in Observer /\ n.raw = NoRobot
    BY <1>1, <1>4, SetRawType
  <2>2. n # NoRobot
    BY <2>1, DistinctValues
  <2>3. Lose(id, age) = [robot |-> robots[id], reliable |-> NoRobot, observer |-> n]
    BY <1>4 DEF Lose
  <2>4. Manual[id] # "absent"
    BY <1>2, <1>4 DEF ManualOf
  <2>5. U!Lose(id) = {[robot |-> robots[id], reliable |-> NoRobot, same |-> "absent",
                       manual |-> "idle"]}
    BY <1>4, <2>4 DEF U!Lose
  <2> HIDE DEF n
  <2> QED BY <2>1, <2>2, <2>3, <2>5 DEF AsManual, ManualOf
<1> QED BY <1>3, <1>4

\* So is everything else that a frame does to a robot.
LEMMA OutcomeImplements ==
    ASSUME IInv, NEW c \in Camera, NEW f \in SUBSET U!Detection, NEW age \in 0 .. MaxDelay,
           NEW id \in Id, NEW o \in Outcomes([raw EXCEPT ![c] = f], c, age, id)
    PROVE  AsManual(o) \in U!Outcomes([raw EXCEPT ![c] = f], c, id)
<1> DEFINE r == [raw EXCEPT ![c] = f]
<1>1. CASE id \notin U!Detected(r)
  BY <1>1, LoseImplements DEF Outcomes, U!Outcomes
<1>2. CASE id \in U!Detected(r)
  <2> DEFINE v(x) == U!Transform(Matrix, x.detection)
  <2>1. PICK x \in U!MostReliable(r, id) :
           o = IF x.camera = c THEN Adopt(id, v(x), age) ELSE Inherit(id)
    BY <1>2 DEF Outcomes
  <2>2. x.detection \in U!Detection /\ (x.camera # c => reliable[id] # NoRobot)
    BY <2>1, Remembered
  <2>3. v(x) \in U!Transformed
    BY <2>2 DEF U!Transform, U!Transformed, U!Detection
  <2>4. AsManual(o) \in IF x.camera = c THEN U!Adopt(id, v(x)) ELSE U!Inherit(id)
    <3>1. CASE x.camera = c
      BY <2>1, <2>3, <3>1, AdoptImplements
    <3>2. CASE x.camera # c
      BY <2>1, <2>2, <3>2, ManualIs DEF Inherit, AsManual, U!Inherit
    <3> QED BY <3>1, <3>2
  <2> QED BY <1>2, <2>1, <2>4 DEF U!Outcomes
<1> QED BY <1>1, <1>2

\* A packet is handled as the updater handles it.
LEMMA UpdateImplements ==
    ASSUME IInv, NEW c \in Camera, NEW f \in U!Frame, NEW age \in 0 .. MaxDelay,
           Update(c, f, age)
    PROVE  U!Update(c, f)
<1> DEFINE r == [raw EXCEPT ![c] = f]
<1>1. f \in SUBSET U!Detection
  BY DEF U!Frame
<1>2. PICK out \in [Id -> UNION {Outcomes(r, c, age, id) : id \in Id}] :
         /\ \A id \in Id : out[id] \in Outcomes(r, c, age, id)
         /\ robots' = [id \in Id |-> out[id].robot]
         /\ reliable' = [id \in Id |-> out[id].reliable]
         /\ observer' = [id \in Id |-> out[id].observer]
  BY DEF Update
<1>3. raw' = r /\ UNCHANGED <<observing, unfiltered>>
  BY DEF Update
<1> DEFINE res == [id \in Id |-> AsManual(out[id])]
<1>4. \A id \in Id : res[id] \in U!Outcomes(r, c, id)
  <2> TAKE id \in Id
  <2>1. out[id] \in Outcomes(r, c, age, id)
    BY <1>2
  <2> QED BY <1>1, <2>1, OutcomeImplements
<1>5. res \in U!Results(r, c, Id)
  <2> HIDE DEF r
  <2>1. \A id \in Id : res[id] \in UNION {U!Outcomes(r, c, i) : i \in Id}
    BY <1>4
  <2> QED BY <1>4, <2>1 DEF U!Results
<1>6. /\ robots' = [id \in Id |-> res[id].robot]
      /\ reliable' = [id \in Id |-> res[id].reliable]
      /\ [id \in Id |-> "absent"] = [id \in Id |-> res[id].same]
      /\ Manual' = [id \in Id |-> res[id].manual]
      /\ unfiltered' = {id \in unfiltered : res[id].same = "absent"}
  <2>1. unfiltered \subseteq Id
    BY DEF IInv, TypeOK
  <2>2. \A id \in Id : /\ res[id].robot = out[id].robot
                       /\ res[id].reliable = out[id].reliable
                       /\ res[id].same = "absent"
                       /\ res[id].manual = ManualOf(out[id].observer)
    BY DEF AsManual
  <2> HIDE DEF res
  <2> QED BY <1>2, <1>3, <2>1, <2>2, ManualIs
<1> HIDE DEF res
<1> QED BY <1>3, <1>5, <1>6 DEF U!Update

\* What the threads of the GUI and the driver do is what the updater expects of
\* them.
LEMMA GuiImplements ==
    ASSUME IInv, NEW id \in Id, SetObserver(id) \/ ClearObserver(id)
    PROVE  U!SetFilterManual(id) \/ U!ClearFilter(id)
<1>1. observer \in [Id -> Observer \cup {NoRobot}]
  BY DEF IInv, TypeOK
<1>2. CASE SetObserver(id)
  <2>1. ManualOf(NewObserver) = "idle"
    BY NewObserverType, DistinctValues DEF NewObserver, ManualOf
  <2>2. Manual' = [Manual EXCEPT ![id] = "idle"]
    BY <1>1, <1>2, <2>1, ManualIs DEF SetObserver
  <2> QED BY <1>2, <2>2 DEF SetObserver, U!SetFilterManual
<1>3. CASE ClearObserver(id)
  <2>1. ManualOf(NoRobot) = "absent"
    BY DEF ManualOf
  <2>2. Manual' = [i \in Id |-> IF i \in {id} THEN "absent" ELSE Manual[i]]
    BY <1>1, <1>3, <2>1, ManualIs DEF ClearObserver
  <2> QED BY <1>3, <2>2 DEF ClearObserver, U!ClearFilter, U!ClearFilters
<1> QED BY <1>2, <1>3

LEMMA LockImplements ==
    ASSUME IInv, NEW id \in Id, LockObserver(id)
    PROVE  U!Hold(id)
<1>1. Manual[id] # "absent"
  BY ManualIs DEF LockObserver, ManualOf
<1>2. Manual' = Manual
  BY ManualIs DEF LockObserver
<1>3. {observing'} \ {NoRobot} = ({observing} \ {NoRobot}) \cup {id}
  BY DistinctValues DEF LockObserver
<1> QED BY <1>1, <1>2, <1>3 DEF LockObserver, U!Hold, U!filters

LEMMA ObserveImplements ==
    ASSUME IInv, NEW id \in Id, Observe(id)
    PROVE  \E v \in {Default, Estimated} \cup {NoRobot} : U!Write(id, v)
<1> DEFINE o == Observed(observer[id])
<1>1. observer \in [Id -> Observer \cup {NoRobot}]
  BY DEF IInv, TypeOK
<1>2. observer[id] \in Observer
  BY <1>1, DistinctValues DEF IInv, LockedExists, Observe
<1>3. observer[id].capture # Unset /\ ~observer[id].news => observer[id].state = Estimated
  BY <1>2, DistinctValues DEF IInv, EstimateMade, Tracked
<1>4. /\ o.written \in {Default, Estimated} \cup {NoRobot}
      /\ o.observer \in Observer
      /\ o.observer.raw = observer[id].raw
  BY <1>2, <1>3, ObservedFacts
<1>5. /\ robots' = [robots EXCEPT ![id] = o.written]
      /\ observer' = [observer EXCEPT ![id] = o.observer]
  BY <1>1 DEF Observe
<1> HIDE DEF o
<1>6. ManualOf(o.observer) = ManualOf(observer[id])
  BY <1>2, <1>4, DistinctValues DEF ManualOf
<1>7. Manual' = Manual
  BY <1>1, <1>5, <1>6, ManualIs
<1>8. /\ id \in {observing} \ {NoRobot}
      /\ {observing'} \ {NoRobot} = ({observing} \ {NoRobot}) \ {id}
  BY DistinctValues DEF Observe
<1>9. U!Write(id, o.written)
  BY <1>5, <1>7, <1>8 DEF Observe, U!Write, U!filters
<1> QED BY <1>4, <1>9

\* Time passes for the observers only.
LEMMA TickImplements == ASSUME IInv, Tick PROVE UNCHANGED U!vars
<1>1. observer \in [Id -> Observer \cup {NoRobot}]
  BY DEF IInv, TypeOK
<1>2. \A id \in Id : ManualOf(observer'[id]) = ManualOf(observer[id])
  <2> TAKE id \in Id
  <2>1. CASE observer[id] = NoRobot
    BY <2>1 DEF Tick
  <2>2. CASE observer[id] # NoRobot
    <3>1. observer[id] \in Observer
      BY <1>1, <2>2
    <3>2. observer'[id] = [observer[id] EXCEPT !.capture = Older(@)]
      BY <2>2 DEF Tick
    <3>3. Older(observer[id].capture) \in Age \cup {Unset}
      BY <3>1, ObserverAssumption DEF Older, Age, Unset, Observer
    <3>4. observer'[id] \in Observer /\ observer'[id].raw = observer[id].raw
      BY <3>1, <3>2, <3>3 DEF Observer
    <3> QED BY <2>2, <3>4, DistinctValues DEF ManualOf
  <2> QED BY <2>1, <2>2
<1>3. Manual' = Manual
  BY <1>2, ManualIs
<1> QED BY <1>3 DEF Tick, U!vars

LEMMA StutterImplements == UNCHANGED vars => UNCHANGED U!vars
BY ManualIs DEF vars, U!vars

LEMMA InitImplements == Init => U!Init
<1> SUFFICES ASSUME Init PROVE U!Init
  OBVIOUS
<1>1. Manual = [id \in Id |-> "absent"]
  BY ManualIs DEF Init, ManualOf
<1> QED BY <1>1 DEF Init, U!Init

LEMMA StepImplements ==
    ASSUME IInv, [Next]_vars
    PROVE  [U!Next]_U!vars
<1>1. ASSUME NEW c \in Camera, NEW f \in U!Frame, NEW age \in 0 .. MaxDelay,
             Update(c, f, age)
      PROVE  U!Next
  BY <1>1, UpdateImplements DEF U!Next
<1>2. ASSUME NEW id \in Id, SetObserver(id) \/ ClearObserver(id)
      PROVE  U!Next
  BY <1>2, GuiImplements DEF U!Next
<1>3. ASSUME NEW id \in Id, LockObserver(id)
      PROVE  U!Next
  BY <1>3, LockImplements DEF U!Next
<1>4. ASSUME NEW id \in Id, Observe(id)
      PROVE  U!Next
  BY <1>4, ObserveImplements DEF U!Next
<1> QED BY <1>1, <1>2, <1>3, <1>4, TickImplements, StutterImplements DEF Next

\* Updater and observers together are an updater with manual filters.
THEOREM Refinement == Spec => ImplementsUpdater
<1>1. Init => U!Init
  BY InitImplements
<1>2. IInv /\ [Next]_vars => [U!Next]_U!vars
  BY StepImplements
<1> QED BY <1>1, <1>2, Invariance, PTL DEF Spec, ImplementsUpdater, U!Spec

-----------------------------------------------------------------------------
(* Tracked again                                                            *)

\* Only detections of the camera that sees the robot best can be chosen.
LEMMA BestIsChosen ==
    ASSUME NEW r \in [Camera -> SUBSET U!Detection], NEW id \in Id, NEW c \in Camera,
           NEW p, U!BestIn(r, id, c, p)
    PROVE  /\ id \in U!Detected(r)
           /\ U!MostReliable(r, id) # {}
           /\ \A x \in U!MostReliable(r, id) : x.camera = c /\ x.detection.pose = p
<1>1. PICK d \in r[c] :
         /\ d.id = id /\ d.pose = p
         /\ \A k \in Camera : \A e \in r[k] :
               e.id = id => \/ e.confidence < d.confidence
                            \/ k = c /\ e.confidence = d.confidence /\ e.pose = p
  BY DEF U!BestIn
<1> DEFINE best == [camera |-> c, detection |-> d]
<1>2. \A k \in Camera : \A e \in r[k] : e \in U!Detection /\ e.confidence \in Nat
  <2>1. \A k \in Camera : \A e \in r[k] : e \in U!Detection
    OBVIOUS
  <2>2. \A e \in U!Detection : e.confidence \in Nat
    BY ObserverAssumption DEF U!Detection
  <2> QED BY <2>1, <2>2
<1>3. \A x : x \in U!Candidates(r, id) <=>
         \E k \in Camera : \E e \in r[k] :
            e.id = id /\ x = [camera |-> k, detection |-> e]
  BY DEF U!Candidates
<1>4. best \in U!Candidates(r, id)
  BY <1>1, <1>3
<1>5. best \in U!MostReliable(r, id)
  <2>1. ASSUME NEW y \in U!Candidates(r, id)
        PROVE  y.detection.confidence <= d.confidence
    BY <2>1, <1>1, <1>2, <1>3
  <2> QED BY <2>1, <1>4 DEF U!MostReliable
<1>6. ASSUME NEW x \in U!MostReliable(r, id)
      PROVE  x.camera = c /\ x.detection.pose = p
  <2>1. x \in U!Candidates(r, id) /\ d.confidence <= x.detection.confidence
    BY <1>4 DEF U!MostReliable
  <2>2. PICK k \in Camera : \E e \in r[k] :
           e.id = id /\ x = [camera |-> k, detection |-> e]
    BY <2>1, <1>3
  <2>3. PICK e \in r[k] : e.id = id /\ x = [camera |-> k, detection |-> e]
    BY <2>2
  <2>4. ~(e.confidence < d.confidence)
    BY <2>1, <2>3, <1>1, <1>2
  <2> QED BY <2>3, <2>4, <1>1
<1> QED BY <1>4, <1>5, <1>6 DEF U!Detected

\* The frames of the camera that sees the robot best have an outcome, and every
\* outcome makes the observer track the robot.
LEMMA BestIsTracked ==
    ASSUME IInv, NEW r \in [Camera -> SUBSET U!Detection], NEW id \in Id, NEW c \in Camera,
           NEW p, NEW age \in 0 .. MaxDelay, U!BestIn(r, id, c, p), observer[id] # NoRobot
    PROVE  /\ Outcomes(r, c, age, id) # {}
           /\ \A o \in Outcomes(r, c, age, id) :
                 o.observer # NoRobot /\ o.observer.capture # Unset
<1>1. /\ id \in U!Detected(r)
      /\ U!MostReliable(r, id) # {}
      /\ \A x \in U!MostReliable(r, id) : x.camera = c /\ x.detection \in U!Detection
  <2>1. \A x \in U!MostReliable(r, id) : x.detection \in U!Detection
    BY DEF U!MostReliable, U!Candidates
  <2> QED BY <2>1, BestIsChosen
<1>2. ASSUME NEW x \in U!MostReliable(r, id)
      PROVE  LET o == Adopt(id, U!Transform(Matrix, x.detection), age)
             IN  o.observer # NoRobot /\ o.observer.capture # Unset
  <2> DEFINE v == U!Transform(Matrix, x.detection)
  <2>1. v \in U!Transformed
    BY <1>1 DEF U!Transform, U!Transformed, U!Detection
  <2>2. v # NoRobot /\ observer[id] \in Observer
    BY <2>1, DistinctValues DEF IInv, TypeOK
  <2> HIDE DEF v
  <2>3. SetRaw(observer[id], v, age) \in Observer /\ SetRaw(observer[id], v, age).capture = age
    BY <2>1, <2>2, SetRawType
  <2>4. Adopt(id, v, age).observer = SetRaw(observer[id], v, age)
    BY DEF Adopt
  <2>5. age # Unset
    BY ObserverAssumption DEF Unset
  <2> QED BY <2>3, <2>4, <2>5, DistinctValues DEF v
<1> QED BY <1>1, <1>2 DEF Outcomes

\* A robot that one camera keeps seeing best is tracked again and again: a frame
\* of this camera starts or renews the tracking, or would change nothing as the
\* robot is tracked.
THEOREM TrackedAgain == FairSpec => FollowsAgain
<1> SUFFICES ASSUME NEW id \in Id, NEW c \in Camera, NEW p \in Pose
             PROVE  FairSpec => (<>[](observer[id] # NoRobot /\ U!BestFrom(id, c, p))
                                   => []<>Tracked(id))
  BY DEF FollowsAgain
<1> DEFINE P == observer[id] # NoRobot /\ U!BestFrom(id, c, p)
           Frames == \E age \in 0 .. MaxDelay : Update(c, raw'[c], age)
<1>1. IInv /\ IInv' /\ P /\ P' /\ Frames => Tracked(id)'
  <2> SUFFICES ASSUME IInv, IInv', P, P', NEW age \in 0 .. MaxDelay, Update(c, raw'[c], age)
               PROVE  Tracked(id)'
    OBVIOUS
  <2>1. raw' \in [Camera -> SUBSET U!Detection] /\ U!BestIn(raw', id, c, p)
    BY DEF IInv, TypeOK, U!BestFrom
  <2>2. \E o \in Outcomes(raw', c, age, id) : observer'[id] = o.observer
    BY DEF Update
  <2> QED BY <2>1, <2>2, BestIsTracked DEF Tracked
<1>2. IInv /\ P /\ Settled(c) => Tracked(id)
  <2> SUFFICES ASSUME IInv, P, Settled(c) PROVE Tracked(id)
    OBVIOUS
  <2>1. raw \in [Camera -> SUBSET U!Detection] /\ U!BestIn(raw, id, c, p)
    BY DEF IInv, TypeOK, U!BestFrom
  <2>2. 0 \in 0 .. MaxDelay
    BY ObserverAssumption
  <2>3. PICK o \in Outcomes(raw, c, 0, id) : o.observer # NoRobot /\ o.observer.capture # Unset
    BY <2>1, <2>2, BestIsTracked
  <2>4. o.observer = observer[id]
    BY <2>2, <2>3 DEF Settled
  <2> QED BY <2>3, <2>4 DEF Tracked
<1>3. FairSpec => Spec /\ ([]<><<Frames>>_vars \/ []<>Settled(c))
  BY DEF FairSpec, Fairness, Sending
<1> QED BY <1>1, <1>2, <1>3, Invariance, PTL DEF Spec

-----------------------------------------------------------------------------
(* Robots without observers, among those that have one                      *)

\* What a packet makes of a robot that has no observer: where the best camera sees
\* it after a packet of that camera, as before after others'.
LEMMA BareOutcome ==
    ASSUME IInv, NEW r \in [Camera -> SUBSET U!Detection], NEW id \in Id, NEW c \in Camera,
           NEW k \in Camera, NEW p, NEW age \in 0 .. MaxDelay,
           U!BestIn(r, id, c, p), observer[id] = NoRobot
    PROVE  /\ Outcomes(r, k, age, id) # {}
           /\ \A o \in Outcomes(r, k, age, id) :
                 o.robot = IF k = c THEN [pose |-> p, affine |-> Matrix] ELSE robots[id]
<1>1. /\ id \in U!Detected(r)
      /\ U!MostReliable(r, id) # {}
      /\ \A x \in U!MostReliable(r, id) : x.camera = c /\ x.detection.pose = p
  BY BestIsChosen
<1> DEFINE After(x) == IF x.camera = k THEN Adopt(id, U!Transform(Matrix, x.detection), age)
                       ELSE Inherit(id)
<1>2. Outcomes(r, k, age, id) = {After(x) : x \in U!MostReliable(r, id)}
  BY <1>1 DEF Outcomes
<1>3. \A x \in U!MostReliable(r, id) :
         After(x).robot = IF k = c THEN [pose |-> p, affine |-> Matrix] ELSE robots[id]
  BY <1>1 DEF Adopt, Inherit, U!Transform
<1> HIDE DEF After
<1> QED BY <1>1, <1>2, <1>3

\* Only packets move a robot that has no observer, or whose last one has been
\* destroyed and is not held by the driver thread any more.
LEMMA BareKept ==
    ASSUME IInv, NEW id \in Id, U!Bare(id), [Next]_vars
    PROVE  \/ UNCHANGED robots[id]
           \/ \E k \in Camera, f \in U!Frame, age \in 0 .. MaxDelay : Update(k, f, age)
<1>1. ASSUME NEW i \in Id, Observe(i) PROVE UNCHANGED robots[id]
  <2>1. i # id
    BY <1>1, DistinctValues DEF Observe, U!Bare
  <2> QED BY <1>1, <2>1 DEF Observe, IInv, TypeOK
<1>2. ASSUME NEW i \in Id, SetObserver(i) \/ ClearObserver(i) \/ LockObserver(i)
      PROVE  UNCHANGED robots
  BY <1>2 DEF SetObserver, ClearObserver, LockObserver
<1>3. CASE Tick \/ UNCHANGED vars
  BY <1>3 DEF Tick, vars
<1> QED BY <1>1, <1>2, <1>3 DEF Next

LEMMA BareHasNoObserver ==
    ASSUME NEW id \in Id, U!Bare(id)
    PROVE  observer[id] = NoRobot
BY ManualIs DEF U!Bare, ManualOf

\* A robot whose observer has been cleared, or that never had one, ends up where the
\* camera sees it that keeps seeing it best, whatever the driver thread still wrote.
THEOREM BareConverges == FairSpec => U!Converges
<1> SUFFICES ASSUME NEW id \in Id, NEW c \in Camera, NEW p \in Pose, NEW m \in {Matrix}
             PROVE  FairSpec =>
                      (<>[](U!Bare(id) /\ U!BestFrom(id, c, p) /\ Matrix = m)
                         => <>[](robots[id] = [pose |-> p, affine |-> m]))
  BY DEF U!Converges
<1> DEFINE P == U!Bare(id) /\ U!BestFrom(id, c, p) /\ Matrix = m
           Q == robots[id] = [pose |-> p, affine |-> m]
           Frames == \E age \in 0 .. MaxDelay : Update(c, raw'[c], age)
<1>1. ASSUME IInv, IInv', P, P', NEW k \in Camera, NEW f, NEW age \in 0 .. MaxDelay,
             Update(k, f, age)
      PROVE  robots'[id] = IF k = c THEN [pose |-> p, affine |-> m] ELSE robots[id]
  <2>1. raw' \in [Camera -> SUBSET U!Detection] /\ U!BestIn(raw', id, c, p)
    BY <1>1 DEF IInv, TypeOK, U!BestFrom
  <2>2. \E o \in Outcomes(raw', k, age, id) : robots'[id] = o.robot
    BY <1>1 DEF Update
  <2> QED BY <1>1, <2>1, <2>2, BareOutcome, BareHasNoObserver
<1>2. IInv /\ IInv' /\ P /\ P' /\ Frames => Q'
  BY <1>1
<1>3. IInv /\ P /\ Settled(c) => Q
  <2> SUFFICES ASSUME IInv, P, Settled(c) PROVE Q
    OBVIOUS
  <2>1. raw \in [Camera -> SUBSET U!Detection] /\ U!BestIn(raw, id, c, p)
    BY DEF IInv, TypeOK, U!BestFrom
  <2>2. 0 \in 0 .. MaxDelay
    BY ObserverAssumption
  <2>3. PICK o \in Outcomes(raw, c, 0, id) : o.robot = [pose |-> p, affine |-> m]
    BY <2>1, <2>2, BareOutcome, BareHasNoObserver
  <2>4. o.robot = robots[id]
    BY <2>2, <2>3 DEF Settled
  <2> QED BY <2>3, <2>4
<1>4. IInv /\ IInv' /\ P /\ P' /\ Q /\ [Next]_vars => Q'
  BY <1>1, BareKept
<1>5. FairSpec => Spec /\ ([]<><<Frames>>_vars \/ []<>Settled(c))
  BY DEF FairSpec, Fairness, Sending
<1> QED BY <1>2, <1>3, <1>4, <1>5, Invariance, PTL DEF Spec

-----------------------------------------------------------------------------
(* What the updater's theorems say of updater and observers                 *)

UP == INSTANCE RobotUpdaterProofs WITH
        Affine <- {Matrix}, Identity <- Matrix, Estimate <- {Default, Estimated},
        ManualIds <- Id, DropsValues <- FALSE,
        same <- [id \in Id |-> "absent"], manual <- Manual, initializer <- FALSE,
        affine <- Matrix, held <- {observing} \ {NoRobot},
        erased <- {}

LEMMA UpdaterAssumed == UP!UpdaterAssumption
BY ObserverAssumption DEF UP!UpdaterAssumption, UP!Robot, UP!Transformed

\* U and UP are two instances of one module: what they define is the same.
LEMMA SameFrames ==
    /\ U!Frame = UP!Frame
    /\ \A r : U!Detected(r) = UP!Detected(r)
    /\ \A r, id : U!MostReliable(r, id) = UP!MostReliable(r, id)
<1>1. U!Detection = UP!Detection
  BY DEF U!Detection, UP!Detection
<1>2. U!Frame = UP!Frame
  BY <1>1 DEF U!Frame, UP!Frame, U!Cardinality, UP!Cardinality,
     U!IsFiniteSet, UP!IsFiniteSet
<1> QED BY <1>2 DEF U!Detected, UP!Detected, U!Candidates, UP!Candidates,
           U!MostReliable, UP!MostReliable

LEMMA SameOutcomes ==
    ASSUME NEW r, NEW c, NEW id
    PROVE  U!Outcomes(r, c, id) = UP!Outcomes(r, c, id)
<1>1. \A v : U!Adopt(id, v) = UP!Adopt(id, v)
  BY DEF U!Adopt, UP!Adopt, U!Answers, UP!Answers, U!MakesDefault, UP!MakesDefault
<1>2. U!Inherit(id) = UP!Inherit(id) /\ U!Lose(id) = UP!Lose(id)
  BY DEF U!Inherit, UP!Inherit, U!Lose, UP!Lose, U!Answers, UP!Answers
<1>3. \A x : U!Transform(Matrix, x) = UP!Transform(Matrix, x)
  BY DEF U!Transform, UP!Transform
<1> QED BY <1>1, <1>2, <1>3, SameFrames DEF U!Outcomes, UP!Outcomes

LEMMA SameUpdate ==
    ASSUME NEW c, NEW f
    PROVE  U!Update(c, f) => UP!Update(c, f)
<1>1. \A r : U!Results(r, c, Id) = UP!Results(r, c, Id)
  BY SameOutcomes DEF U!Results, UP!Results
<1> QED BY <1>1 DEF U!Update, UP!Update

LEMMA SameNext == U!Next => UP!Next
BY SameFrames, SameUpdate DEF U!Next, UP!Next, U!filters, UP!filters,
   U!SetTransformationMatrix, UP!SetTransformationMatrix,
   U!SetFilterSame, UP!SetFilterSame, U!SetFilterManual, UP!SetFilterManual,
   U!ClearFilter, UP!ClearFilter, U!ClearFilters, UP!ClearFilters,
   U!ClearAllFilters, UP!ClearAllFilters, U!SetDefaultFilter, UP!SetDefaultFilter,
   U!ClearDefaultFilter, UP!ClearDefaultFilter, U!Hold, UP!Hold, U!Write, UP!Write

LEMMA SameSpec == U!Spec => UP!Spec
<1>1. U!Init => UP!Init
  BY DEF U!Init, UP!Init
<1>2. UNCHANGED U!vars => UNCHANGED UP!vars
  BY DEF U!vars, UP!vars
<1> QED BY <1>1, <1>2, SameNext, PTL DEF U!Spec, UP!Spec

\* With observers written by the driver thread between the packets, update() still
\* finds its entry in reliable_robots_ whatever packet comes next.
THEOREM NeverThrowsWithObservers == Spec => []U!NeverThrows
<1>1. UP!NeverThrows => U!NeverThrows
  BY SameFrames DEF UP!NeverThrows, U!NeverThrows, UP!Missing, U!Missing
<1> QED BY <1>1, Refinement, SameSpec, UP!AtNeverThrows, UpdaterAssumed, PTL
        DEF ImplementsUpdater

\* A robot that never had an observer is published as it is seen, whatever happens
\* to those that have one.
THEOREM UnfilteredWithObservers == Spec => []U!UnfilteredIsReliable
<1>1. UP!UnfilteredIsReliable => U!UnfilteredIsReliable
  BY DEF UP!UnfilteredIsReliable, U!UnfilteredIsReliable
<1> QED BY <1>1, Refinement, SameSpec, UP!UnfilteredPublished, UpdaterAssumed, PTL
        DEF ImplementsUpdater
=============================================================================
