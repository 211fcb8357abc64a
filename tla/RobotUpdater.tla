---------------------------- MODULE RobotUpdater ----------------------------
(***************************************************************************)
(* model::updater::robot<Color>: fuses the robots that several cameras     *)
(* report into one list, optionally through a filter per robot.            *)
(*                                                                         *)
(* Every member function locks the updater's recursive mutex for its whole *)
(* body, so each is one action here.  The receiver thread calls update,    *)
(* the GUI thread sets matrices and filters, and whoever has locked the    *)
(* weak_ptr returned by set_filter may write through a manual filter at    *)
(* any time, even after the updater has dropped that filter.               *)
(*                                                                         *)
(* Filters are known by their interface (filter/base.h): a "same" filter   *)
(* answers every observation, a "manual" one writes when its owner says.   *)
(***************************************************************************)
EXTENDS Naturals, FiniteSets

CONSTANTS
    Id,             \* robot IDs of one team
    Camera,         \* camera IDs
    Confidence,     \* detection confidences (numbers)
    Pose,           \* positions in camera coordinates
    Affine,         \* coordinate transformations
    Identity,       \* the transformation the constructor installs
    Estimate,       \* values that come out of filters
    MaxDetections,  \* bound: robots reported in one frame
    ManualIds,      \* the robots that may be given a manual filter
    DropsValues,    \* may a "same" filter answer an observation with nullopt?
    NoRobot         \* std::nullopt, or no entry in a table

Detection == [id : Id, confidence : Confidence, pose : Pose]

\* What one camera's packet can hold; an ID may be reported twice.
Frame == {f \in SUBSET Detection : IsFiniteSet(f) /\ Cardinality(f) <= MaxDetections}

Transformed == [pose : Pose, affine : Affine]

Robot == Transformed \cup Estimate

ASSUME UpdaterAssumption ==
    /\ Confidence \subseteq Nat
    /\ Identity \in Affine
    /\ MaxDetections \in Nat
    /\ ManualIds \subseteq Id
    /\ DropsValues \in BOOLEAN
    /\ NoRobot \notin Robot

VARIABLES
    robots,      \* robots_: the published list
    raw,         \* raw_robots_: the last frame of every camera
    reliable,    \* reliable_robots_: the most reliable observation per ID
    same,        \* filters_same_, with what each filter was last told
    manual,      \* filters_manual_, likewise
    initializer, \* whether filter_initializer_ holds a function
    affine,      \* affine_
    held,        \* IDs whose manual filter some thread holds by shared_ptr
    unfiltered,  \* history: IDs that never had a filter
    erased       \* history: IDs whose "same" filter is tracking, but which a late
                 \* write of nullopt took off the list and no update put back

vars == <<robots, raw, reliable, same, manual, initializer, affine, held,
          unfiltered, erased>>

filters == <<same, manual, initializer, unfiltered>>

\* "idle": new, or last told that its robot is lost.
\* "tracking": last told an observation.
FilterState == {"absent", "idle", "tracking"}

TypeOK ==
    /\ robots \in [Id -> Robot \cup {NoRobot}]
    /\ raw \in [Camera -> SUBSET Detection]
    /\ reliable \in [Id -> Transformed \cup {NoRobot}]
    /\ same \in [Id -> FilterState]
    /\ manual \in [Id -> FilterState]
    /\ initializer \in BOOLEAN
    /\ affine \in Affine
    /\ held \subseteq Id
    /\ unfiltered \subseteq Id
    /\ erased \subseteq Id

Init ==
    /\ robots = [id \in Id |-> NoRobot]
    /\ raw = [c \in Camera |-> {}]
    /\ reliable = [id \in Id |-> NoRobot]
    /\ same = [id \in Id |-> "absent"]
    /\ manual = [id \in Id |-> "absent"]
    /\ initializer = FALSE
    /\ affine = Identity
    /\ held = {}
    /\ unfiltered = Id
    /\ erased = {}

-----------------------------------------------------------------------------
(* update: choosing the most reliable detection of every ID.               *)

\* The detections of id in the frames r holds, with the camera they are from.
Candidates(r, id) ==
    UNION {{[camera |-> c, detection |-> d] : d \in {e \in r[c] : e.id = id}} :
              c \in Camera}

Detected(r) == {id \in Id : Candidates(r, id) # {}}

\* The maximum of an unordered_multimap's range: any of the maxima.
MostReliable(r, id) ==
    {x \in Candidates(r, id) : \A y \in Candidates(r, id) :
        y.detection.confidence <= x.detection.confidence}

Transform(m, d) == [pose |-> d.pose, affine |-> m]

-----------------------------------------------------------------------------
(* update: what becomes of one ID.  An outcome gives the new entries of    *)
(* the tables at that ID.                                                  *)

\* What a "same" filter may answer to an observation or to a loss.
Answers(observed) ==
    IF observed /\ ~DropsValues THEN Estimate ELSE Estimate \cup {NoRobot}

\* The filter an ID is updated through; the default one is made on demand.
MakesDefault(id) ==
    initializer /\ same[id] = "absent" /\ manual[id] = "absent"

\* Mutant for NeverThrows: a manual filter gets the value, the table does not.
AdoptUnlessManual(id, v) ==
    {[robot |-> v, same |-> same[id], manual |-> manual[id],
      reliable |-> IF manual[id] = "absent" THEN v ELSE reliable[id]]}

\* Mutant for Converges: a robot that has not moved is not transformed anew.
AdoptIfMoved(id, v) ==
    {[robot |-> w, reliable |-> w, same |-> same[id], manual |-> manual[id]] :
        w \in {IF reliable[id] # NoRobot /\ reliable[id].pose = v.pose
              THEN reliable[id] ELSE v}}

\* The packet's camera has the most reliable detection: take its value v.
Adopt(id, v) ==
    LET s == IF MakesDefault(id) THEN "idle" ELSE same[id]
    IN  IF s # "absent"
        THEN {[robot |-> e, reliable |-> v, same |-> "tracking",
               manual |-> manual[id]] : e \in Answers(TRUE)}
        ELSE IF manual[id] # "absent"
        \* The filter may write at once (state_observer does on a first value).
        THEN {[robot |-> e, reliable |-> v, same |-> s,
               manual |-> "tracking"] : e \in {robots[id], v}}
        ELSE {[robot |-> v, reliable |-> v, same |-> s, manual |-> manual[id]]}

\* Mutant for TypeOK: the published value is kept, whatever it comes from.
InheritPublished(id) ==
    {[robot |-> robots[id], reliable |-> robots[id],
      same |-> same[id], manual |-> manual[id]]}

\* Another camera has it: the previous value is kept. Without one, at(id)
\* throws, so there is no outcome.
Inherit(id) ==
    IF reliable[id] = NoRobot THEN {}
    ELSE {[robot |-> robots[id], reliable |-> reliable[id],
           same |-> same[id], manual |-> manual[id]]}

\* Mutant for ReliableIsDetected: reliable_robots_ is updated, not rebuilt.
LoseKeepsReliable(id) ==
    {[robot |-> NoRobot, reliable |-> reliable[id], same |-> same[id],
      manual |-> manual[id]]}

\* Mutant for UnfilteredIsReliable: the published value is never erased.
LosePublishes(id) ==
    {[robot |-> robots[id], reliable |-> NoRobot, same |-> same[id],
      manual |-> manual[id]]}

\* Mutant for LossNotified: the robot is erased behind its filter's back.
LoseSilently(id) ==
    {[robot |-> NoRobot, reliable |-> NoRobot, same |-> same[id],
      manual |-> manual[id]]}

\* Mutant for LostDisappears: only what was seen before can be lost.
LoseReliable(id) ==
    {[robot |-> IF reliable[id] = NoRobot THEN robots[id] ELSE NoRobot,
      reliable |-> NoRobot, same |-> same[id], manual |-> manual[id]]}

\* No camera sees the robot. Only a published robot's filter is told so.
Lose(id) ==
    IF robots[id] = NoRobot
    THEN {[robot |-> NoRobot, reliable |-> NoRobot, same |-> same[id],
           manual |-> manual[id]]}
    ELSE IF same[id] # "absent"
    THEN {[robot |-> e, reliable |-> NoRobot, same |-> "idle",
           manual |-> manual[id]] : e \in Answers(FALSE)}
    ELSE IF manual[id] # "absent"
    THEN {[robot |-> robots[id], reliable |-> NoRobot, same |-> same[id],
           manual |-> "idle"]}
    ELSE {[robot |-> NoRobot, reliable |-> NoRobot, same |-> same[id],
           manual |-> manual[id]]}

\* Everything that a packet of camera c, after which the frames are r, may
\* do to one ID.
Outcomes(r, c, id) ==
    IF id \notin Detected(r) THEN Lose(id)
    ELSE UNION {IF x.camera = c
                THEN Adopt(id, Transform(affine, x.detection))
                ELSE Inherit(id) : x \in MostReliable(r, id)}

\* One outcome per ID: the loops visit the IDs independently of each other.
Results(r, c, ids) ==
    {out \in [ids -> UNION {Outcomes(r, c, id) : id \in ids}] :
        \A id \in ids : out[id] \in Outcomes(r, c, id)}

Update(c, f) ==
    LET r == [raw EXCEPT ![c] = f]
    IN  /\ raw' = r
        /\ \E out \in Results(r, c, Id) :
              /\ robots' = [id \in Id |-> out[id].robot]
              /\ reliable' = [id \in Id |-> out[id].reliable]
              /\ same' = [id \in Id |-> out[id].same]
              /\ manual' = [id \in Id |-> out[id].manual]
              /\ unfiltered' = {id \in unfiltered : out[id].same = "absent"}
              /\ erased' = {id \in erased : /\ out[id].same = "tracking"
                                            /\ out[id].robot = NoRobot}
        /\ UNCHANGED <<initializer, affine, held>>

-----------------------------------------------------------------------------
(* The setters, called from the GUI thread.                                *)

SetTransformationMatrix(m) ==
    /\ affine' = m
    /\ UNCHANGED <<robots, raw, reliable, held, erased>>
    /\ UNCHANGED filters

\* set_filter<Filter>(id) with a timing::same Filter
SetFilterSame(id) ==
    /\ manual' = [manual EXCEPT ![id] = "absent"]
    /\ same' = [same EXCEPT ![id] = "idle"]
    /\ unfiltered' = unfiltered \ {id}
    /\ erased' = erased \ {id}
    /\ UNCHANGED <<robots, raw, reliable, initializer, affine, held>>

\* set_filter<Filter>(id) with a timing::manual Filter
SetFilterManual(id) ==
    /\ id \in ManualIds
    /\ same' = [same EXCEPT ![id] = "absent"]
    /\ manual' = [manual EXCEPT ![id] = "idle"]
    /\ unfiltered' = unfiltered \ {id}
    /\ erased' = erased \ {id}
    /\ UNCHANGED <<robots, raw, reliable, initializer, affine, held>>

SetDefaultFilter ==
    /\ initializer' = TRUE
    /\ UNCHANGED <<robots, raw, reliable, same, manual, affine, held,
                   unfiltered, erased>>

ClearDefaultFilter ==
    /\ initializer' = FALSE
    /\ UNCHANGED <<robots, raw, reliable, same, manual, affine, held,
                   unfiltered, erased>>

\* clear_filter(id) for one ID, clear_all_filters() for all of them
ClearFilters(ids) ==
    /\ same' = [id \in Id |-> IF id \in ids THEN "absent" ELSE same[id]]
    /\ manual' = [id \in Id |-> IF id \in ids THEN "absent" ELSE manual[id]]
    /\ erased' = erased \ ids
    /\ UNCHANGED <<robots, raw, reliable, initializer, affine, held,
                   unfiltered>>

ClearFilter(id) == ClearFilters({id})

ClearAllFilters == ClearFilters(Id)

-----------------------------------------------------------------------------
(* A manual filter's owner: weak_ptr::lock(), then a call that writes.     *)
(* Nothing orders the write with set_filter or clear_filter.               *)

Hold(id) ==
    /\ manual[id] # "absent"
    /\ held' = held \cup {id}
    /\ UNCHANGED <<robots, raw, reliable, affine, erased>>
    /\ UNCHANGED filters

\* base::write() through the function object that set_filter made
Write(id, v) ==
    /\ id \in held
    /\ robots' = [robots EXCEPT ![id] = v]
    /\ held' = held \ {id}
    /\ erased' = IF v = NoRobot /\ same[id] = "tracking" THEN erased \cup {id}
                 ELSE erased
    /\ UNCHANGED <<raw, reliable, affine>>
    /\ UNCHANGED filters

Next ==
    \/ \E c \in Camera, f \in Frame : Update(c, f)
    \/ \E m \in Affine : SetTransformationMatrix(m)
    \/ \E id \in Id : SetFilterSame(id) \/ SetFilterManual(id) \/ ClearFilter(id)
    \/ SetDefaultFilter \/ ClearDefaultFilter \/ ClearAllFilters
    \/ \E id \in Id : Hold(id)
    \/ \E id \in Id, v \in Estimate \cup {NoRobot} : Write(id, v)

Spec == Init /\ [][Next]_vars

\* The last frame of camera c, sent once more, would change nothing.
Settled(c) ==
    \A id \in Id : \A out \in Outcomes(raw, c, id) :
        out = [robot |-> robots[id], reliable |-> reliable[id],
               same |-> same[id], manual |-> manual[id]]

\* SSL-Vision sends the frames of every camera periodically, and the receiver
\* thread handles each of them. A camera that sees nothing new repeats its last
\* frame, so what such a repetition would change does not stay as it is. (Weak
\* fairness of Update would call for a new frame, as one that changes nothing
\* does not count as a step. A step of Update, with any frame, is one with
\* the frame that it leaves in raw.)
Fairness ==
    \A c \in Camera : []<><<Update(c, raw'[c])>>_vars \/ []<>Settled(c)

FairSpec == Spec /\ Fairness

-----------------------------------------------------------------------------
(* Properties                                                              *)

\* reliable_robots_ has an entry for exactly the IDs that the stored frames
\* hold, whichever order the cameras' packets come in.
ReliableIsDetected == \A id \in Id : reliable[id] # NoRobot <=> id \in Detected(raw)

\* The IDs for which update() would call reliable_robots_.at(id) without an
\* entry, when a packet of camera c makes the stored frames r.
Missing(r, c) ==
    {id \in Detected(r) : /\ \E x \in MostReliable(r, id) : x.camera # c
                          /\ reliable[id] = NoRobot}

\* Whatever the next packet is, update() does not throw std::out_of_range
\* (which would end the receiver thread and freeze the world model).
NeverThrows ==
    \A c \in Camera, f \in Frame : Missing([raw EXCEPT ![c] = f], c) = {}

\* Whatever the next packet is, update() has an outcome for every ID.
AlwaysHandled ==
    \A c \in Camera, f \in Frame : Results([raw EXCEPT ![c] = f], c, Id) # {}

\* A robot never has two filters: set_filter() and the default filter leave
\* at most one of the two tables with an entry.
OneFilter == \A id \in Id : same[id] = "absent" \/ manual[id] = "absent"

\* A robot that never had a filter is published exactly as the most reliable
\* observation of it, and not at all while no camera sees it.
UnfilteredIsReliable == \A id \in unfiltered : robots[id] = reliable[id]

\* A "same" filter whose robot no camera sees any more has been told so, as its
\* interface says, and will not take the robot's next observation for a
\* continuation, whatever filters the ID had before: unless the filter's robot was
\* taken off the list behind its back, by the write of a manual filter that was
\* dropped before (or, with DropsValues, by the filter itself); update() looks only
\* at the published robots for losses.
LossNotified ==
    \A id \in Id \ erased : same[id] = "tracking" => id \in Detected(raw)

\* The inductive invariant behind the safety properties.
IInv ==
    /\ TypeOK
    /\ ReliableIsDetected
    /\ OneFilter
    /\ UnfilteredIsReliable
    /\ \A id \in unfiltered : same[id] = "absent" /\ manual[id] = "absent"
    /\ held \subseteq ManualIds \ unfiltered
    /\ \A id \in Id : manual[id] # "absent" => id \in ManualIds
    /\ ~DropsValues =>
          \A id \in Id \ erased :
             same[id] = "tracking" => robots[id] # NoRobot /\ reliable[id] # NoRobot

\* No filter touches the robot.
Bare(id) == same[id] = "absent" /\ manual[id] = "absent" /\ id \notin held
            /\ ~initializer

\* In the frames r, camera c alone has the most confident detection of the robot,
\* or the most confident ones, all at pose p.
BestIn(r, id, c, p) ==
    \E d \in r[c] :
        /\ d.id = id /\ d.pose = p
        /\ \A k \in Camera : \A e \in r[k] :
              e.id = id => \/ e.confidence < d.confidence
                           \/ k = c /\ e.confidence = d.confidence /\ e.pose = p

BestFrom(id, c, p) == BestIn(raw, id, c, p)

\* A robot that one camera keeps seeing best at one pose ends up published
\* there, in the current coordinates, however stale the value was that
\* update() went on publishing while another camera was the best one.
Converges ==
    \A id \in Id, c \in Camera, p \in Pose, m \in Affine :
        <>[](Bare(id) /\ BestFrom(id, c, p) /\ affine = m)
            => <>[](robots[id] = [pose |-> p, affine |-> m])

\* A robot that no camera sees any more and that has no filter disappears,
\* also when a dropped filter published it after its last detection.
LostDisappears ==
    \A id \in Id :
        <>[](Bare(id) /\ id \notin Detected(raw)) => <>[](robots[id] = NoRobot)
=============================================================================
