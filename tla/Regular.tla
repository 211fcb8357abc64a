------------------------------- MODULE Regular ------------------------------
(***************************************************************************)
(* agent::regular.  One of its robots chases the ball, others mark enemies *)
(* (first against shots, then against kicks), and those left over wait for *)
(* a pass or move to a free place.  Who does what is decided anew in each  *)
(* cycle, from positions and from what earlier cycles have left.           *)
(***************************************************************************)
EXTENDS Naturals, FiniteSets, Functions

CONSTANTS
    Robot,      \* IDs of our team
    Ids,        \* ids_, the robots of this agent
    Enemy,      \* IDs of the other team
    NoRobot

ASSUME RegularAssumption == Ids \subseteq Robot /\ NoRobot \notin Robot

VARIABLES
    hasChaser, canChase, needReset,     \* has_chaser_, can_chase_, need_reset_chaser_
    chaser,     \* chaser_id_
    getBall,    \* the robot of get_ball_, or NoRobot
    marks,      \* is mark_option_ normal?
    marked,     \* marked_list_: who marks an enemy
    first,      \* the robots of first_marking_
    second,     \* the robots of second_marking_
    receive,    \* receive_: passer and finished() of each
    moving,     \* the robots of move_
    seen,       \* whom of the team the last cycle has seen
    enemies,    \* enemy_list_
    chasing,    \* whom the last cycle has told to get the ball, or NoRobot
    missed      \* how many cycles have gone by without a chaser, though one could be

chaserVars == <<hasChaser, canChase, needReset, chaser, getBall>>
roleVars   == <<marked, first, second, receive, moving, seen, enemies, chasing, missed>>
vars       == <<chaserVars, marks, roleVars>>

PartialFunctions(S, T) == UNION {[D -> T] : D \in SUBSET S}

TypeOK ==
    /\ hasChaser \in BOOLEAN /\ canChase \in BOOLEAN /\ needReset \in BOOLEAN
    /\ chaser \in Robot /\ getBall \in Robot \cup {NoRobot}
    /\ marks \in BOOLEAN
    /\ marked \in PartialFunctions(Enemy, Ids)
    /\ first \in SUBSET Ids /\ second \in SUBSET Ids /\ moving \in SUBSET Ids
    /\ receive \in PartialFunctions(Ids, [passer : Robot, finished : BOOLEAN])
    /\ seen \in SUBSET Robot /\ enemies \in SUBSET Enemy
    /\ chasing \in Robot \cup {NoRobot} /\ missed \in Nat

-----------------------------------------------------------------------------
\* Any of the visible robots may be the nearest to the ball.
Nearest(visible) == IF visible \cap Ids = {} THEN {NoRobot} ELSE visible \cap Ids

\* Who waits for a pass is not made the chaser: the old one is kept.
SelectChaser(near, old) ==
    IF near # NoRobot /\ near \notin DOMAIN receive THEN near ELSE old

\* One constructor is given a chaser, the other takes the nearest robot.  If that one sees
\* none of Ids, select_chaser() returns chaser_id_, which nothing has set: any robot.
Init ==
    /\ hasChaser = TRUE /\ canChase = TRUE /\ needReset = TRUE /\ marks = TRUE
    /\ getBall = NoRobot /\ chasing = NoRobot /\ missed = 0
    /\ marked = <<>> /\ receive = <<>>
    /\ first = {} /\ second = {} /\ moving = {} /\ seen = {} /\ enemies = {}
    /\ chaser \in Ids \/ chaser \in Robot

\* Mutant for GetBallReady: the action is not made anew.
UseChaserAgain ==
    /\ \E visible \in SUBSET Robot : \E near \in Nearest(visible) :
           chaser' = SelectChaser(near, chaser)
    /\ hasChaser' = TRUE
    /\ UNCHANGED <<canChase, needReset, getBall, marks, roleVars>>

UseChaser ==
    /\ \E visible \in SUBSET Robot : \E near \in Nearest(visible) :
           chaser' = SelectChaser(near, chaser)
    /\ hasChaser' = TRUE
    /\ needReset' = TRUE
    /\ UNCHANGED <<canChase, getBall, marks, roleVars>>

UseNoChaser ==
    /\ hasChaser' = FALSE
    /\ getBall' = NoRobot
    /\ UNCHANGED <<canChase, needReset, chaser, marks, roleVars>>

CustomizeMarking ==
    /\ marks' = ~marks
    /\ UNCHANGED <<chaserVars, roleVars>>

-----------------------------------------------------------------------------
\* A chaser that is visible is told to get the ball, by the action there is or a new one.
GetBall(renewed) ==
    LET visible == chaser' \in seen'
        reset   == needReset \/ renewed
    IN  /\ needReset' = (reset /\ ~visible)
        /\ getBall' = IF reset /\ visible THEN chaser' ELSE getBall
        /\ chasing' = IF visible THEN getBall' ELSE NoRobot

WithoutChaser ==
    /\ ~hasChaser
    /\ chasing' = NoRobot
    /\ UNCHANGED chaserVars

\* The ball is before one of the goals.
LeaveBall ==
    /\ hasChaser
    /\ canChase' = FALSE
    /\ getBall' = NoRobot
    /\ chasing' = NoRobot
    /\ UNCHANGED <<hasChaser, needReset, chaser>>

\* Who has received the pass takes over; else a chaser that is not visible is replaced, and
\* one that is far from the ball may be, by the nearest robot.
Chase(near) ==
    LET returned == ~canChase
        old      == IF returned THEN SelectChaser(near, chaser) ELSE chaser
        other    == SelectChaser(near, old)
        Passed   == {r \in DOMAIN receive : receive[r].finished}
    IN  /\ hasChaser
        /\ canChase' = TRUE
        /\ \/ chaser' \in Passed /\ GetBall(TRUE)
           \/ /\ Passed = {}
              /\ \/ old \notin seen' /\ chaser' = other /\ GetBall(TRUE)
                 \/ old \in seen' /\ chaser' = old /\ GetBall(returned)
                 \/ old \in seen' /\ other # old /\ chaser' = other /\ GetBall(TRUE)
        /\ UNCHANGED hasChaser

-----------------------------------------------------------------------------
\* follower_ids_, before roles are taken from it.
Followers == {id \in Ids \cap seen' : ~(hasChaser /\ canChase' /\ id = chaser')}

Rank(e, S, order) == Cardinality({d \in S : order[d] < order[e]})

\* Mutant for OneRoleEach: is the robot visible, rather than free?
KeptBusy(order) ==
    LET Same == {e \in enemies' \cap DOMAIN marked : marked[e] \in seen'}
    IN  {e \in Same : 2 * Rank(e, Same, order) < Cardinality(Followers)}

\* Who marks an enemy goes on, for the most important ones; the loop ends when it has kept
\* as many as are still free.
Kept(order) ==
    LET Same == {e \in enemies' \cap DOMAIN marked : marked[e] \in Followers}
    IN  {e \in Same : 2 * Rank(e, Same, order) < Cardinality(Followers)}

\* Then the others are marked by whoever is nearest, as long as robots are left.
UpdateFirstMarking(order) ==
    LET kept == Kept(order)
        free == Followers \ {marked[e] : e \in kept}
        rest == enemies' \ kept
        new  == {e \in rest : Rank(e, rest, order) < Cardinality(free)}
    IN  \E nearest \in Injection(new, free) :
            /\ marked' = [e \in kept \cup new |-> IF e \in kept THEN marked[e] ELSE nearest[e]]
            /\ first' = {marked'[e] : e \in kept \cup new}

\* Those enemies for whom ball and goal are in different directions get one more.
UpdateSecondMarking ==
    second' \in {S \in SUBSET (Followers \ first') : Cardinality(S) <= Cardinality(enemies')}

UpdateMarkings ==
    \/ /\ marks
       /\ \E order \in Injection(Enemy, 1 .. Cardinality(Enemy)) : UpdateFirstMarking(order)
       /\ UpdateSecondMarking
    \/ /\ ~marks
       /\ first' = {} /\ second' = {}
       /\ UNCHANGED marked

\* Mutant for ReceiversServed: an action that is kept keeps its passer.
KeepReceivers ==
    LET rest == Followers \ (first' \cup second')
    IN  \E waiting \in SUBSET rest : \E caught \in SUBSET waiting :
            /\ waiting = {} \/ (hasChaser /\ canChase' /\ chaser' \in seen')
            /\ receive' = [id \in waiting |->
                              [passer |-> IF id \in DOMAIN receive THEN receive[id].passer ELSE chaser',
                               finished |-> \/ id \in DOMAIN receive /\ receive[id].finished
                                            \/ id \in caught]]
            /\ moving' = rest \ waiting

\* Mutant for SoonChased: they wait though the chaser is not visible.
WaitForNobody ==
    LET rest == Followers \ (first' \cup second')
    IN  \E waiting \in SUBSET rest : \E caught \in SUBSET waiting :
            /\ waiting = {} \/ (hasChaser /\ canChase')
            /\ receive' = [id \in waiting |->
                              [passer |-> chaser',
                               finished |-> \/ id \in DOMAIN receive /\ receive[id].finished
                                            \/ id \in caught]]
            /\ moving' = rest \ waiting

\* Those left over wait for the chaser's pass, if they are where it aims, or move.  An
\* action receive is kept while its robot waits; executing it may find the ball received.
UpdateReceivers ==
    LET rest == Followers \ (first' \cup second')
    IN  \E waiting \in SUBSET rest : \E caught \in SUBSET waiting :
            /\ waiting = {} \/ (hasChaser /\ canChase' /\ chaser' \in seen')
            /\ receive' = [id \in waiting |->
                              [passer |-> chaser',
                               finished |-> \/ id \in DOMAIN receive /\ receive[id].finished
                                            \/ id \in caught]]
            /\ moving' = rest \ waiting

CountMissed ==
    missed' = IF hasChaser /\ canChase' /\ chasing' = NoRobot /\ Ids \cap seen' # {}
              THEN missed + 1
              ELSE 0

Cycle ==
    /\ \E visible \in SUBSET Robot, listed \in SUBSET Enemy :
           /\ seen' = visible
           /\ enemies' = listed
           /\ \/ WithoutChaser
              \/ LeaveBall
              \/ \E near \in Nearest(visible) : Chase(near)
    /\ UpdateMarkings
    /\ UpdateReceivers
    /\ CountMissed
    /\ UNCHANGED marks

Next == Cycle \/ UseChaser \/ UseNoChaser \/ CustomizeMarking

Spec == Init /\ [][Next]_vars

-----------------------------------------------------------------------------
\* execute() calls get_ball_ without asking whether there is one (regular.cc:183), though
\* it is dropped in two places: it is there, and the chaser's, whenever it is called.
GetBallReady == hasChaser /\ canChase /\ ~needReset => getBall = chaser

\* Every robot of the agent that a cycle sees gets exactly one action, and no robot marks
\* two enemies: the roles are filled one after another from a shared list
\* (regular.cc:202-217), and lists of earlier cycles are looked at.
Roles == <<{chasing} \ {NoRobot}, first, second, DOMAIN receive, moving>>

OneRoleEach ==
    /\ \A i, j \in 1 .. 5 : i # j => Roles[i] \cap Roles[j] = {}
    /\ Ids \cap seen \subseteq UNION {Roles[i] : i \in 1 .. 5}
    /\ UNION {Roles[i] : i \in 1 .. 5} \subseteq seen
    /\ IsInjective(marked)

\* Whoever waits for a pass waits for the robot that has the ball, also when its action is
\* of an earlier cycle with another chaser (regular.cc:473-476).
ReceiversServed == \A r \in DOMAIN receive : chasing # NoRobot /\ receive[r].passer = chasing

\* When the chaser is lost, another one has the ball after one more cycle: a robot that
\* waits for a pass is not taken (regular.cc:289), but then it does not wait any longer.
SoonChased == missed <= 1
=============================================================================
