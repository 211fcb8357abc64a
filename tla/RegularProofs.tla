---------------------------- MODULE RegularProofs ---------------------------
(***************************************************************************)
(* Proofs about agent::regular.                                            *)
(***************************************************************************)
EXTENDS Regular, TLAPS

\* What a missed cycle leaves: nobody has the ball.
MissedUnchased == missed # 0 => chasing = NoRobot

IInv == TypeOK /\ GetBallReady /\ OneRoleEach /\ ReceiversServed /\ SoonChased /\ MissedUnchased

USE RegularAssumption

-----------------------------------------------------------------------------
\* The markings only use followers, and each follower for one enemy.
LEMMA FirstMarking ==
    ASSUME IInv, NEW order, enemies' \in SUBSET Enemy, UpdateFirstMarking(order)
    PROVE  /\ marked' \in PartialFunctions(Enemy, Ids)
           /\ IsInjective(marked')
           /\ first' \in SUBSET Followers
<1> DEFINE kept == Kept(order)
           free == Followers \ {marked[e] : e \in kept}
           rest == enemies' \ kept
           new  == {e \in rest : Rank(e, rest, order) < Cardinality(free)}
<1>1. PICK nearest \in Injection(new, free) :
          /\ marked' = [e \in kept \cup new |-> IF e \in kept THEN marked[e] ELSE nearest[e]]
          /\ first' = {marked'[e] : e \in kept \cup new}
  BY DEF UpdateFirstMarking
<1>2. /\ kept \in SUBSET (enemies' \cap DOMAIN marked)
      /\ \A e \in kept : marked[e] \in Followers
  BY DEF Kept
<1>3. nearest \in [new -> free] /\ IsInjective(nearest)
  BY <1>1 DEF Injection
<1>4. new \in SUBSET enemies' /\ new \cap kept = {}
  OBVIOUS
<1>5. Followers \in SUBSET Ids
  BY DEF Followers
<1>6. \A e \in kept \cup new : marked'[e] \in Followers
  <2> HIDE DEF kept
  <2> QED BY <1>1, <1>2, <1>3, <1>4
<1>7. IsInjective(marked)
  BY DEF IInv, OneRoleEach
<1>8. IsInjective(marked')
  <2> HIDE DEF kept
  <2> SUFFICES ASSUME NEW a \in kept \cup new, NEW b \in kept \cup new, marked'[a] = marked'[b]
               PROVE  a = b
    BY <1>1 DEF IsInjective
  <2>1. CASE a \in kept /\ b \in kept
    BY <2>1, <1>1, <1>2, <1>7 DEF IsInjective
  <2>2. CASE a \in kept /\ b \notin kept
    BY <2>2, <1>1, <1>3
  <2>3. CASE a \notin kept /\ b \in kept
    BY <2>3, <1>1, <1>3
  <2>4. CASE a \notin kept /\ b \notin kept
    BY <2>4, <1>1, <1>3 DEF IsInjective
  <2> QED BY <2>1, <2>2, <2>3, <2>4
<1>9. kept \cup new \in SUBSET Enemy
  BY <1>2, <1>4
<1>10. marked' \in [kept \cup new -> Ids]
  <2> HIDE DEF kept, new
  <2> QED BY <1>1, <1>5, <1>6
<1>11. marked' \in PartialFunctions(Enemy, Ids)
  <2> HIDE DEF kept, new
  <2> QED BY <1>9, <1>10 DEF PartialFunctions
<1> QED BY <1>1, <1>6, <1>8, <1>11

LEMMA Markings ==
    ASSUME IInv, enemies' \in SUBSET Enemy, UpdateMarkings
    PROVE  /\ marked' \in PartialFunctions(Enemy, Ids)
           /\ IsInjective(marked')
           /\ first' \in SUBSET Followers
           /\ second' \in SUBSET (Followers \ first')
<1>1. CASE marks
  BY <1>1, FirstMarking DEF UpdateMarkings, UpdateSecondMarking
<1>2. CASE ~marks
  BY <1>2 DEF UpdateMarkings, IInv, TypeOK, OneRoleEach
<1> QED BY <1>1, <1>2

\* Those left over are receivers and movers.
LEMMA Receivers ==
    ASSUME UpdateReceivers, chaser' \in Robot
    PROVE  /\ receive' \in PartialFunctions(Ids, [passer : Robot, finished : BOOLEAN])
           /\ DOMAIN receive' \cap moving' = {}
           /\ DOMAIN receive' \cup moving' = Followers \ (first' \cup second')
           /\ \A r \in DOMAIN receive' : receive'[r].passer = chaser'
           /\ DOMAIN receive' # {} => hasChaser /\ canChase' /\ chaser' \in seen'
<1> DEFINE rest == Followers \ (first' \cup second')
<1>1. PICK waiting \in SUBSET rest : \E caught \in SUBSET waiting :
          /\ waiting = {} \/ (hasChaser /\ canChase' /\ chaser' \in seen')
          /\ receive' = [id \in waiting |->
                            [passer |-> chaser',
                             finished |-> \/ id \in DOMAIN receive /\ receive[id].finished
                                          \/ id \in caught]]
          /\ moving' = rest \ waiting
  BY DEF UpdateReceivers
<1>2. PICK caught \in SUBSET waiting :
          receive' = [id \in waiting |->
                         [passer |-> chaser',
                          finished |-> \/ id \in DOMAIN receive /\ receive[id].finished
                                       \/ id \in caught]]
  BY <1>1
<1>3. Followers \in SUBSET Ids
  BY DEF Followers
<1>4. receive' \in [waiting -> [passer : Robot, finished : BOOLEAN]]
  BY <1>2, Zenon
<1>5. waiting \in SUBSET Ids
  BY <1>3
<1>6. receive' \in PartialFunctions(Ids, [passer : Robot, finished : BOOLEAN])
  BY <1>4, <1>5 DEF PartialFunctions
<1>7. DOMAIN receive' = waiting
  BY <1>2
<1> QED BY <1>1, <1>2, <1>6, <1>7

-----------------------------------------------------------------------------
\* Who is told to get the ball is the chaser, and visible.
ChaserChosen ==
    /\ chaser' \in Robot /\ getBall' \in Robot \cup {NoRobot} /\ canChase' \in BOOLEAN
    /\ needReset' \in BOOLEAN /\ hasChaser' = hasChaser
    /\ GetBallReady'
    /\ chasing' = IF hasChaser /\ canChase' /\ chaser' \in seen' THEN chaser' ELSE NoRobot

LEMMA Chosen ==
    ASSUME IInv, seen' \in SUBSET Robot, chaser' \in Robot, hasChaser, canChase' = TRUE,
           hasChaser' = hasChaser, NEW renewed \in BOOLEAN, GetBall(renewed),
           renewed \/ (canChase /\ chaser' = chaser)
    PROVE  ChaserChosen
<1>1. /\ needReset \in BOOLEAN /\ getBall \in Robot \cup {NoRobot}
      /\ canChase /\ ~needReset => getBall = chaser
  BY DEF IInv, TypeOK, GetBallReady
<1>2. CASE chaser' \in seen'
  BY <1>1, <1>2 DEF GetBall, ChaserChosen, GetBallReady
<1>3. CASE chaser' \notin seen'
  <2>1. getBall' = getBall /\ chasing' = NoRobot /\ needReset' = (needReset \/ renewed)
    BY <1>1, <1>3 DEF GetBall
  <2> QED BY <1>1, <1>3, <2>1 DEF ChaserChosen, GetBallReady
<1> QED BY <1>2, <1>3

LEMMA ChaseChooses ==
    ASSUME IInv, NEW visible \in SUBSET Robot, seen' = visible,
           NEW near \in Nearest(visible), Chase(near)
    PROVE  /\ ChaserChosen
           /\ chasing = NoRobot /\ Ids \cap seen' # {} => chasing' # NoRobot
<1> DEFINE returned == ~canChase
           old      == IF returned THEN SelectChaser(near, chaser) ELSE chaser
           other    == SelectChaser(near, old)
           Passed   == {r \in DOMAIN receive : receive[r].finished}
<1>1. /\ hasChaser /\ hasChaser' = hasChaser /\ canChase' = TRUE
      /\ \/ chaser' \in Passed /\ GetBall(TRUE)
         \/ /\ Passed = {}
            /\ \/ old \notin seen' /\ chaser' = other /\ GetBall(TRUE)
               \/ old \in seen' /\ chaser' = old /\ GetBall(returned)
               \/ old \in seen' /\ other # old /\ chaser' = other /\ GetBall(TRUE)
  BY DEF Chase
<1>2. chaser \in Robot /\ DOMAIN receive \in SUBSET Robot /\ canChase \in BOOLEAN
  BY DEF IInv, TypeOK, PartialFunctions
<1>3. near \in Robot \/ near = NoRobot
  BY DEF Nearest
<1>4. old \in Robot /\ other \in Robot
  BY <1>2, <1>3 DEF SelectChaser
<1>5. chaser' \in Robot
  BY <1>1, <1>2, <1>4
<1>6. ChaserChosen
  <2>1. CASE GetBall(TRUE)
    BY <2>1, <1>1, <1>5, Chosen
  <2>2. CASE chaser' = old /\ GetBall(returned)
    <3>1. returned \/ (canChase /\ chaser' = chaser)
      BY <2>2
    <3> QED BY <2>2, <3>1, <1>1, <1>2, <1>5, Chosen
  <2> QED BY <2>1, <2>2, <1>1
<1>7. ASSUME chasing = NoRobot, Ids \cap seen' # {}
      PROVE  chasing' # NoRobot
  <2>1. DOMAIN receive = {} /\ Passed = {}
    BY <1>7 DEF IInv, ReceiversServed
  <2>2. near \in Ids \cap seen'
    BY <1>7 DEF Nearest
  <2>3. other = near
    BY <2>1, <2>2 DEF SelectChaser
  <2>4. chaser' \in seen'
    BY <1>1, <2>1, <2>2, <2>3
  <2> QED BY <1>1, <1>5, <1>6, <2>4 DEF ChaserChosen
<1> QED BY <1>6, <1>7

LEMMA CycleChooses ==
    ASSUME IInv, NEW visible \in SUBSET Robot, seen' = visible,
           WithoutChaser \/ LeaveBall \/ \E near \in Nearest(visible) : Chase(near)
    PROVE  /\ ChaserChosen
           /\ hasChaser /\ canChase' /\ chasing = NoRobot /\ Ids \cap seen' # {}
                  => chasing' # NoRobot
<1>1. CASE WithoutChaser
  BY <1>1 DEF WithoutChaser, chaserVars, ChaserChosen, GetBallReady, IInv, TypeOK
<1>2. CASE LeaveBall
  BY <1>2 DEF LeaveBall, ChaserChosen, GetBallReady, IInv, TypeOK
<1>3. ASSUME NEW near \in Nearest(visible), Chase(near)
      PROVE  /\ ChaserChosen
             /\ chasing = NoRobot /\ Ids \cap seen' # {} => chasing' # NoRobot
  BY <1>3, ChaseChooses
<1> QED BY <1>1, <1>2, <1>3

-----------------------------------------------------------------------------
LEMMA CycleStep == IInv /\ Cycle => IInv'
<1> SUFFICES ASSUME IInv, Cycle PROVE IInv'
  OBVIOUS
<1>1. PICK visible \in SUBSET Robot, listed \in SUBSET Enemy :
          /\ seen' = visible
          /\ enemies' = listed
          /\ WithoutChaser \/ LeaveBall \/ \E near \in Nearest(visible) : Chase(near)
  BY DEF Cycle
<1>2. UpdateMarkings /\ UpdateReceivers /\ CountMissed /\ marks' = marks
  BY DEF Cycle
<1>3. /\ ChaserChosen
      /\ hasChaser /\ canChase' /\ chasing = NoRobot /\ Ids \cap seen' # {} => chasing' # NoRobot
  BY <1>1, CycleChooses
<1>4. /\ marked' \in PartialFunctions(Enemy, Ids) /\ IsInjective(marked')
      /\ first' \in SUBSET Followers /\ second' \in SUBSET (Followers \ first')
  BY <1>1, <1>2, Markings
<1>5. /\ receive' \in PartialFunctions(Ids, [passer : Robot, finished : BOOLEAN])
      /\ DOMAIN receive' \cap moving' = {}
      /\ DOMAIN receive' \cup moving' = Followers \ (first' \cup second')
      /\ \A r \in DOMAIN receive' : receive'[r].passer = chaser'
      /\ DOMAIN receive' # {} => hasChaser /\ canChase' /\ chaser' \in seen'
  BY <1>2, <1>3, Receivers DEF ChaserChosen
<1>6. /\ Followers \in SUBSET (Ids \cap seen')
      /\ chasing' \notin Followers
      /\ Ids \cap seen' \subseteq Followers \cup {chasing'}
      /\ chasing' \in seen' \cup {NoRobot}
  BY <1>3 DEF Followers, ChaserChosen
<1>7. missed \in Nat /\ missed <= 1 /\ (missed # 0 => chasing = NoRobot) /\ hasChaser \in BOOLEAN
      /\ marks \in BOOLEAN
  BY DEF IInv, TypeOK, SoonChased, MissedUnchased
<1>8. missed' \in Nat /\ missed' <= 1 /\ (missed' # 0 => chasing' = NoRobot)
  BY <1>2, <1>3, <1>7 DEF CountMissed
<1>9. TypeOK'
  <2>1. moving' \in SUBSET Ids /\ first' \in SUBSET Ids /\ second' \in SUBSET Ids
    BY <1>4, <1>5, <1>6
  <2> QED BY <1>1, <1>2, <1>3, <1>4, <1>5, <1>6, <1>7, <1>8, <2>1 DEF TypeOK, ChaserChosen
<1>10. OneRoleEach'
  <2> DEFINE R == Roles'
  <2>1. Roles' = <<{chasing'} \ {NoRobot}, first', second', DOMAIN receive', moving'>>
    BY DEF Roles
  <2>2. /\ ({chasing'} \ {NoRobot}) \cap Followers = {}
        /\ first' \cap second' = {}
        /\ first' \cap (DOMAIN receive' \cup moving') = {}
        /\ second' \cap (DOMAIN receive' \cup moving') = {}
        /\ first' \cup second' \cup DOMAIN receive' \cup moving' = Followers
    BY <1>4, <1>5, <1>6
  <2>3. \A i, j \in 1 .. 5 : i # j => R[i] \cap R[j] = {}
    BY <1>5, <2>1, <2>2
  <2>4. UNION {R[i] : i \in 1 .. 5} = ({chasing'} \ {NoRobot}) \cup Followers
    <3>1. \A x : x \in UNION {R[i] : i \in 1 .. 5}
                 <=> x \in R[1] \/ x \in R[2] \/ x \in R[3] \/ x \in R[4] \/ x \in R[5]
      <4>1. 1 .. 5 = {1, 2, 3, 4, 5}
        OBVIOUS
      <4> QED BY <4>1, Zenon
    <3> QED BY <2>1, <2>2, <3>1
  <2>5. Ids \cap seen' \subseteq UNION {R[i] : i \in 1 .. 5}
    BY <1>6, <2>4
  <2>6. UNION {R[i] : i \in 1 .. 5} \subseteq seen'
    BY <1>6, <2>4
  <2> QED BY <1>4, <2>3, <2>5, <2>6 DEF OneRoleEach
<1>11. ReceiversServed'
  BY <1>3, <1>5 DEF ReceiversServed, ChaserChosen
<1> QED BY <1>3, <1>8, <1>9, <1>10, <1>11 DEF IInv, SoonChased, MissedUnchased, ChaserChosen

LEMMA RolesKept ==
    ASSUME IInv, UNCHANGED roleVars
    PROVE  OneRoleEach' /\ ReceiversServed' /\ SoonChased' /\ MissedUnchased'
BY DEF IInv, roleVars, OneRoleEach, Roles, ReceiversServed, SoonChased, MissedUnchased

LEMMA SettersStep == IInv /\ (UseChaser \/ UseNoChaser \/ CustomizeMarking) => IInv'
<1> SUFFICES ASSUME IInv, UseChaser \/ UseNoChaser \/ CustomizeMarking PROVE IInv'
  OBVIOUS
<1>1. UNCHANGED roleVars
  BY DEF UseChaser, UseNoChaser, CustomizeMarking
<1>2. chaser' \in Robot
  BY DEF UseChaser, UseNoChaser, CustomizeMarking, chaserVars, Nearest, SelectChaser, IInv, TypeOK
<1>3. marks' \in BOOLEAN
  BY DEF UseChaser, UseNoChaser, CustomizeMarking, IInv, TypeOK
<1>4. /\ hasChaser' \in BOOLEAN /\ canChase' \in BOOLEAN /\ needReset' \in BOOLEAN
      /\ getBall' \in Robot \cup {NoRobot}
      /\ GetBallReady'
  <2>1. CASE UseChaser
    BY <2>1 DEF UseChaser, IInv, TypeOK, GetBallReady
  <2>2. CASE UseNoChaser
    BY <2>2 DEF UseNoChaser, IInv, TypeOK, GetBallReady
  <2>3. CASE CustomizeMarking
    BY <2>3 DEF CustomizeMarking, chaserVars, IInv, TypeOK, GetBallReady
  <2> QED BY <2>1, <2>2, <2>3
<1>5. TypeOK'
  BY <1>1, <1>2, <1>3, <1>4 DEF roleVars, IInv, TypeOK
<1> QED BY <1>1, <1>4, <1>5, RolesKept DEF IInv

\* The invariant holds in every state.
THEOREM Invariance == Spec => []IInv
<1>1. Init => IInv
  <2> SUFFICES ASSUME Init PROVE IInv
    OBVIOUS
  <2>1. DOMAIN marked = {} /\ DOMAIN receive = {}
    BY DEF Init
  <2>2. /\ marked \in PartialFunctions(Enemy, Ids)
        /\ receive \in PartialFunctions(Ids, [passer : Robot, finished : BOOLEAN])
    <3>1. marked \in [{} -> Ids] /\ receive \in [{} -> [passer : Robot, finished : BOOLEAN]]
      BY DEF Init
    <3>2. {} \in SUBSET Enemy /\ {} \in SUBSET Ids
      OBVIOUS
    <3> QED BY <3>1, <3>2, Zenon DEF PartialFunctions
  <2>3. TypeOK
    BY <2>2 DEF Init, TypeOK
  <2>4. OneRoleEach
    <3>1. \A i \in 1 .. 5 : Roles[i] = {}
      BY <2>1 DEF Init, Roles
    <3> QED BY <2>1, <3>1 DEF Init, OneRoleEach, IsInjective
  <2> QED BY <2>1, <2>3, <2>4 DEF Init, IInv, GetBallReady, ReceiversServed, SoonChased, MissedUnchased
<1>2. IInv /\ [Next]_vars => IInv'
  <2>1. IInv /\ UNCHANGED vars => IInv'
    <3> SUFFICES ASSUME IInv, UNCHANGED vars PROVE IInv'
      OBVIOUS
    <3>1. TypeOK' /\ GetBallReady' /\ UNCHANGED roleVars
      BY DEF vars, chaserVars, roleVars, IInv, TypeOK, GetBallReady
    <3> QED BY <3>1, RolesKept DEF IInv
  <2> QED BY <2>1, CycleStep, SettersStep DEF Next
<1> QED BY <1>1, <1>2, PTL DEF Spec

\* All variables keep their types; in particular a chaser is always a robot.
THEOREM TypeCorrect == Spec => []TypeOK
BY Invariance, PTL DEF IInv

\* The action that is called is there, and of the chaser.
THEOREM GetsBall == Spec => []GetBallReady
BY Invariance, PTL DEF IInv

\* Each cycle gives each visible robot one role.
THEOREM RolesPartition == Spec => []OneRoleEach
BY Invariance, PTL DEF IInv

\* Whoever waits for a pass waits for the robot that has the ball.
THEOREM Served == Spec => []ReceiversServed
BY Invariance, PTL DEF IInv

\* No two cycles in a row go by without a chaser while there could be one.
THEOREM Chased == Spec => []SoonChased
BY Invariance, PTL DEF IInv

=============================================================================
