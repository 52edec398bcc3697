------------------------ MODULE CategoryTree_proofs ------------------------
(***************************************************************************)
(* The tree lists a category until it is deleted, for any number of        *)
(* categories and of moves that run at the same time, unless one move      *)
(* overtook another; with one move at a time it lists them all.            *)
(*                                                                         *)
(* The argument is about sets that are closed under parent: a category is  *)
(* listed exactly if it is in none of them.  The invariant says of a walk  *)
(* that no other move overtook: what it has visited holds no closed set,   *)
(* so that the one its write would close can only be one there was before. *)
(***************************************************************************)
EXTENDS CategoryTree, TLAPS

(* The visited rows lead to where the walk is. *)
Trail(r) ==
    \A v \in req[r].visited : parent[v] \in req[r].visited \cup {req[r].at, Root, Absent}

(* Unless the walk has come round, no visited rows are each other's ancestors. *)
Straight(r) ==
    Cyclic(r) \/ \A S \in SUBSET req[r].visited : Closed(S) => S = {}

WalkIsRight(r) ==
    req[r] # Idle =>
        /\ req[r].category \notin req[r].visited
        /\ req[r].category # req[r].target
        /\ req[r].target \in req[r].visited \cup {req[r].at}
        /\ ~req[r].overtaken => Trail(r) /\ Straight(r)

(* The inductive invariant. *)
IInv ==
    /\ TypeOK
    /\ ParentsExist
    /\ \A r \in Requests : WalkIsRight(r)

LEMMA IdleIsNoMove == Idle \notin Move
BY CategoryAssumption DEF Idle, Move

LEMMA InitIInv == Init => IInv
BY CategoryAssumption DEF Init, IInv, TypeOK, ParentsExist, Exists, WalkIsRight, Move, Idle

-----------------------------------------------------------------------------
(* A change of the table that closes no set of visited rows and breaks no  *)
(* trail leaves every walk right.                                          *)
LEMMA TableStep ==
    ASSUME IInv,
           UNCHANGED req,
           parent' \in [Categories -> Categories \cup {Root, Absent}],
           ParentsExist',
           \A r \in Requests : req[r] # Idle =>
               \A v \in req[r].visited : parent'[v] \in {parent[v], Root, Absent}
    PROVE  IInv'
<1>1. TypeOK'
  BY DEF IInv, TypeOK
<1>2. ASSUME NEW r \in Requests
      PROVE  WalkIsRight(r)'
  <2>1. SUFFICES ASSUME req[r] # Idle PROVE WalkIsRight(r)'
    BY DEF WalkIsRight
  <2>2. req[r] \in Move /\ WalkIsRight(r)
    BY <2>1 DEF IInv, TypeOK
  <2>3. \A v \in req[r].visited : parent'[v] \in {parent[v], Root, Absent}
    BY <2>1
  <2>4. req[r].visited \subseteq Categories
    BY <2>2 DEF Move
  <2>5. Trail(r) => Trail(r)'
    BY <2>3 DEF Trail
  <2>6. Straight(r) => Straight(r)'
    <3>1. ASSUME NEW S \in SUBSET req[r].visited, Closed(S)'
          PROVE  Closed(S)
      BY <2>3, <2>4, <3>1, CategoryAssumption DEF Closed
    <3>. QED  BY <3>1 DEF Straight, Cyclic
  <2>. QED  BY <2>1, <2>2, <2>5, <2>6 DEF WalkIsRight
<1>. QED  BY <1>1, <1>2 DEF IInv

LEMMA CreateKeeps ==
    ASSUME IInv, NEW k \in Categories, NEW p \in Categories \cup {Root}, Create(k, p)
    PROVE  IInv'
<1>1. parent' \in [Categories -> Categories \cup {Root, Absent}] /\ UNCHANGED req
  BY DEF IInv, TypeOK, Create
<1>2. ParentsExist'
  BY CategoryAssumption DEF IInv, TypeOK, Create, ParentsExist, Exists
<1>3. ASSUME NEW r \in Requests, req[r] # Idle, NEW v \in req[r].visited
      PROVE  parent'[v] = parent[v]
  <2>1. req[r] \in Move
    BY <1>3 DEF IInv, TypeOK
  <2>2. v \in Categories /\ v \in Mentions(r)
    BY <1>3, <2>1 DEF Move, Mentions
  <2>. QED  BY <2>2 DEF Create, IInv, TypeOK
<1>. QED  BY <1>1, <1>2, <1>3, TableStep

LEMMA RemoveKeeps ==
    ASSUME IInv, NEW k \in Categories, Remove(k)
    PROVE  IInv'
<1>1. parent' \in [Categories -> Categories \cup {Root, Absent}] /\ UNCHANGED req
  BY DEF IInv, TypeOK, Remove
<1>2. ParentsExist'
  BY CategoryAssumption DEF IInv, TypeOK, Remove, ParentsExist, Exists
<1>3. ASSUME NEW r \in Requests, req[r] # Idle, NEW v \in req[r].visited
      PROVE  parent'[v] \in {parent[v], Absent}
  <2>1. v \in Categories
    BY <1>3 DEF IInv, TypeOK, Move
  <2>. QED  BY <2>1 DEF Remove, IInv, TypeOK
<1>. QED  BY <1>1, <1>2, <1>3, TableStep

LEMMA MoveToRootKeeps ==
    ASSUME IInv, NEW k \in Categories, MoveToRoot(k)
    PROVE  IInv'
<1>1. parent' \in [Categories -> Categories \cup {Root, Absent}] /\ UNCHANGED req
  BY DEF IInv, TypeOK, MoveToRoot
<1>2. ParentsExist'
  BY CategoryAssumption DEF IInv, TypeOK, MoveToRoot, ParentsExist, Exists
<1>3. ASSUME NEW r \in Requests, req[r] # Idle, NEW v \in req[r].visited
      PROVE  parent'[v] \in {parent[v], Root}
  <2>1. v \in Categories
    BY <1>3 DEF IInv, TypeOK, Move
  <2>. QED  BY <2>1 DEF MoveToRoot, IInv, TypeOK
<1>. QED  BY <1>1, <1>2, <1>3, TableStep

-----------------------------------------------------------------------------
(* The steps of a walk change the request in one slot. *)
LEMMA SlotStep ==
    ASSUME IInv, NEW r \in Requests, NEW m \in Move \cup {Idle},
           req' = [req EXCEPT ![r] = m],
           UNCHANGED parent,
           WalkIsRight(r)'
    PROVE  IInv'
<1>1. TypeOK' /\ ParentsExist'
  BY DEF IInv, TypeOK, ParentsExist, Exists
<1>2. ASSUME NEW q \in Requests
      PROVE  WalkIsRight(q)'
  <2>1. CASE q = r
    BY <2>1
  <2>2. CASE q # r
    <3>1. req'[q] = req[q]
      BY <2>2 DEF IInv, TypeOK
    <3>. QED
      BY <3>1 DEF IInv, WalkIsRight, Trail, Straight, Cyclic, Closed
  <2>. QED  BY <2>1, <2>2
<1>. QED  BY <1>1, <1>2 DEF IInv

LEMMA EndKeeps ==
    ASSUME IInv, NEW r \in Requests, req' = [req EXCEPT ![r] = Idle], UNCHANGED parent
    PROVE  IInv'
<1>1. req'[r] = Idle
  BY DEF IInv, TypeOK
<1>. QED  BY <1>1, SlotStep DEF WalkIsRight

LEMMA BeginMoveKeeps ==
    ASSUME IInv, NEW r \in Requests, NEW k \in Categories, NEW p \in Categories,
           BeginMove(r, k, p)
    PROVE  IInv'
<1>. DEFINE m == [category |-> k, target |-> p, at |-> p, visited |-> {}, overtaken |-> FALSE]
<1>1. m \in Move
  BY DEF Move
<1>2. req' = [req EXCEPT ![r] = m] /\ req'[r] = m /\ k # p
  BY DEF BeginMove, IInv, TypeOK
<1>3. WalkIsRight(r)'
  BY <1>2 DEF WalkIsRight, Trail, Straight
<1>. QED  BY <1>1, <1>2, <1>3, SlotStep DEF BeginMove

LEMMA StepKeeps ==
    ASSUME IInv, NEW r \in Requests, Step(r)
    PROVE  IInv'
<1>. DEFINE here == req[r].at
            up == IF ReadParent(r) = Absent THEN Root ELSE ReadParent(r)
            m == [req[r] EXCEPT !.visited = @ \cup {here}, !.at = up]
<1>1. req[r] \in Move /\ here \in Categories /\ here # req[r].category
      /\ here \notin req[r].visited
  BY DEF Step, Walking, Descends, Cyclic, IInv, TypeOK, Idle, Move
<1>2. up \in Categories \cup {Root} /\ parent[here] \in {up, Absent}
  BY <1>1, CategoryAssumption DEF ReadParent, IInv, TypeOK
<1>3. m \in Move
  BY <1>1, <1>2 DEF Move
<1>4. /\ m.category = req[r].category /\ m.target = req[r].target
      /\ m.overtaken = req[r].overtaken
      /\ m.visited = req[r].visited \cup {here} /\ m.at = up
  BY <1>1 DEF Move
<1>5. req' = [req EXCEPT ![r] = m] /\ req'[r] = m /\ UNCHANGED parent
  BY DEF Step, IInv, TypeOK
<1>6. WalkIsRight(r) /\ req[r] # Idle
  BY <1>1, IdleIsNoMove DEF IInv
<1>. HIDE DEF m, up, here
<1>7. ASSUME ~req[r].overtaken
      PROVE  Trail(r)'
  <2>1. ASSUME NEW v \in m.visited
        PROVE  parent[v] \in m.visited \cup {m.at, Root, Absent}
    <3>1. CASE v = here
      BY <1>2, <1>4, <3>1
    <3>2. CASE v \in req[r].visited
      <4>1. parent[v] \in req[r].visited \cup {here, Root, Absent}
        BY <1>6, <1>7, <3>2 DEF WalkIsRight, Trail, here
      <4>. QED  BY <1>4, <4>1
    <3>. QED  BY <1>4, <2>1, <3>1, <3>2
  <2>. QED  BY <1>5, <2>1 DEF Trail
<1>8. ASSUME ~req[r].overtaken
      PROVE  Straight(r)'
  <2>1. SUFFICES ASSUME m.at \notin m.visited, NEW S \in SUBSET m.visited, Closed(S)
                 PROVE  S = {}
    BY <1>5 DEF Straight, Cyclic, Closed
  <2>2. here \notin S
    BY <1>1, <1>2, <1>4, <2>1, CategoryAssumption DEF Closed, IInv, TypeOK, Move
  <2>3. S \in SUBSET req[r].visited
    BY <1>4, <2>1, <2>2
  <2>. QED  BY <1>1, <1>6, <1>8, <2>1, <2>3 DEF WalkIsRight, Straight, Cyclic, here
<1>9. WalkIsRight(r)'
  BY <1>1, <1>4, <1>5, <1>6, <1>7, <1>8 DEF WalkIsRight, here
<1>. QED  BY <1>3, <1>5, <1>9, SlotStep

(* Every other walk is overtaken by the write, and nothing is claimed of it. *)
LEMMA WriteMoveKeeps ==
    ASSUME IInv, NEW r \in Requests, WriteMove(r)
    PROVE  IInv'
<1>1. req[r] \in Move
  BY DEF WriteMove, IInv, TypeOK
<1>2. req[r].category \in Categories /\ req[r].target \in Categories
  BY <1>1 DEF Move
<1>3. ASSUME NEW q \in Requests
      PROVE  req'[q] \in Move \cup {Idle} /\ WalkIsRight(q)'
  <2>1. req'[q] = Overtaken(r)[q]
    BY DEF WriteMove
  <2>2. CASE q = r \/ req[q] = Idle
    BY <2>1, <2>2 DEF Overtaken, WalkIsRight
  <2>3. CASE q # r /\ req[q] # Idle
    <3>1. req[q] \in Move /\ WalkIsRight(q)
      BY <2>3 DEF IInv, TypeOK
    <3>2. req'[q] = [req[q] EXCEPT !.overtaken = TRUE]
      BY <2>1, <2>3 DEF Overtaken
    <3>3. /\ req'[q] \in Move /\ req'[q].overtaken
          /\ req'[q].category = req[q].category /\ req'[q].target = req[q].target
          /\ req'[q].visited = req[q].visited /\ req'[q].at = req[q].at
      BY <3>1, <3>2 DEF Move
    <3>. QED  BY <2>3, <3>1, <3>3 DEF WalkIsRight
  <2>. QED  BY <2>2, <2>3
<1>4. TypeOK'
  BY <1>2, <1>3 DEF IInv, TypeOK, WriteMove, Overtaken
<1>5. ParentsExist'
  BY <1>2, CategoryAssumption DEF IInv, TypeOK, WriteMove, ParentsExist, Exists
<1>. QED  BY <1>3, <1>4, <1>5 DEF IInv

LEMMA NextIInv == IInv /\ [Next]_vars => IInv'
<1>. SUFFICES ASSUME IInv, [Next]_vars PROVE IInv'
  OBVIOUS
<1>1. ASSUME NEW k \in Categories, Remove(k) PROVE IInv'
  BY <1>1, RemoveKeeps
<1>2. ASSUME NEW k \in Categories, MoveToRoot(k) PROVE IInv'
  BY <1>2, MoveToRootKeeps
<1>3. ASSUME NEW k \in Categories, NEW p \in Categories \cup {Root}, Create(k, p) PROVE IInv'
  BY <1>3, CreateKeeps
<1>4. ASSUME NEW r \in Requests, NEW k \in Categories, NEW p \in Categories, BeginMove(r, k, p)
      PROVE  IInv'
  BY <1>4, BeginMoveKeeps
<1>5. ASSUME NEW r \in Requests, Refuse(r) PROVE IInv'
  BY <1>5, EndKeeps DEF Refuse
<1>6. ASSUME NEW r \in Requests, Step(r) PROVE IInv'
  BY <1>6, StepKeeps
<1>7. ASSUME NEW r \in Requests, WriteMove(r) PROVE IInv'
  BY <1>7, WriteMoveKeeps
<1>8. ASSUME NEW r \in Requests, Fails(r) PROVE IInv'
  BY <1>8, EndKeeps DEF Fails
<1>9. CASE UNCHANGED vars
  BY <1>9 DEF vars, IInv, TypeOK, ParentsExist, Exists, WalkIsRight, Trail, Straight, Cyclic, Closed
<1>. QED
  BY <1>1, <1>2, <1>3, <1>4, <1>5, <1>6, <1>7, <1>8, <1>9 DEF Next, Work

(* Parents and requests are always well typed, for any number of either. *)
THEOREM CategoryTypeCorrect == Spec => []TypeOK
<1>1. IInv => TypeOK
  BY DEF IInv
<1>. QED  BY InitIInv, NextIInv, <1>1, PTL DEF Spec

(* No parentId names a row that is not there, whatever creations,          *)
(* deletions and moves overlap.                                            *)
THEOREM ParentsAlwaysExist == Spec => []ParentsExist
<1>1. IInv => ParentsExist
  BY DEF IInv
<1>. QED  BY InitIInv, NextIInv, <1>1, PTL DEF Spec

-----------------------------------------------------------------------------
(* A set that creation, deletion or a move to the root leaves closed was   *)
(* closed before, but for a row that was not there.                        *)
LEMMA TableListed ==
    ASSUME IInv, NEW k \in Categories,
           Remove(k) \/ MoveToRoot(k) \/ \E p \in Categories \cup {Root} : Create(k, p),
           NEW S \in SUBSET Categories, Closed(S)'
    PROVE  Closed(S \ IF parent[k] = Absent THEN {k} ELSE {})
<1>1. CASE Remove(k) \/ MoveToRoot(k)
  <2>1. parent[k] # Absent /\ parent'[k] \notin Categories
        /\ \A c \in Categories : c # k => parent'[c] = parent[c]
    BY <1>1, CategoryAssumption DEF Remove, MoveToRoot, Exists, IInv, TypeOK
  <2>2. k \notin S
    BY <2>1 DEF Closed
  <2>. QED  BY <2>1, <2>2 DEF Closed
<1>2. CASE \E p \in Categories \cup {Root} : Create(k, p)
  <2>1. parent[k] = Absent /\ \A c \in Categories : c # k => parent'[c] = parent[c]
    BY <1>2 DEF Create, IInv, TypeOK
  <2>2. \A c \in Categories : parent[c] # k
    BY <2>1, CategoryAssumption DEF IInv, TypeOK, ParentsExist, Exists
  <2>. QED  BY <2>1, <2>2 DEF Closed
<1>. QED  BY <1>1, <1>2

(* What a move that was not overtaken leaves closed was closed before. *)
LEMMA WriteMoveListed ==
    ASSUME IInv, NEW r \in Requests, WriteMove(r), ~req[r].overtaken,
           NEW S \in SUBSET Categories, Closed(S)'
    PROVE  Closed(S)
<1>. DEFINE c == req[r].category
            p == req[r].target
<1>1. req[r] \in Move /\ req[r] # Idle /\ WalkIsRight(r) /\ req[r].at = Root
  BY DEF WriteMove, Walking, IInv, TypeOK
<1>2. c \in Categories /\ p \in Categories /\ req[r].visited \subseteq Categories
  BY <1>1 DEF Move
<1>3. parent'[c] = p /\ \A k \in Categories : k # c => parent'[k] = parent[k]
  BY <1>2 DEF WriteMove, IInv, TypeOK
<1>4. c \notin req[r].visited /\ p \in req[r].visited /\ Trail(r) /\ Straight(r)
  BY <1>1, <1>2, CategoryAssumption DEF WalkIsRight
<1>5. ~Cyclic(r)
  BY <1>1, <1>2, CategoryAssumption DEF Cyclic
<1>6. c \notin S
  <2>1. SUFFICES ASSUME c \in S PROVE FALSE
    OBVIOUS
  <2>2. p \in S \cap req[r].visited
    BY <1>3, <1>4, <2>1 DEF Closed
  <2>3. Closed(S \cap req[r].visited)
    <3>1. ASSUME NEW v \in S \cap req[r].visited
          PROVE  parent[v] \in S \cap req[r].visited
      <4>1. parent'[v] = parent[v] /\ parent[v] \in S
        BY <1>2, <1>3, <1>4 DEF Closed
      <4>. QED  BY <1>1, <1>4, <4>1, CategoryAssumption DEF Trail
    <3>. QED  BY <3>1 DEF Closed
  <2>. QED  BY <1>4, <1>5, <2>2, <2>3 DEF Straight
<1>. QED  BY <1>3, <1>6 DEF Closed

LEMMA NotListed ==
    ASSUME NEW k \in Listed, k \in Exists', k \notin Listed'
    PROVE  \E S \in SUBSET Categories : k \in S /\ Closed(S)'
BY DEF Listed

LEMMA ListedStep ==
    ASSUME IInv, Next, NEW k \in Listed, k \in Exists', k \notin Listed'
    PROVE  \E r \in Requests : req[r].overtaken /\ ~Walking(r) /\ req'[r] = Idle
<1>1. PICK S \in SUBSET Categories : k \in S /\ Closed(S)'
  BY NotListed
<1>2. \A T \in SUBSET Categories : k \in T => ~Closed(T)
  BY DEF Listed
<1>3. k \in Categories /\ parent[k] # Absent
  BY DEF Listed, Exists
<1>4. ASSUME NEW c \in Categories,
             Remove(c) \/ MoveToRoot(c) \/ \E p \in Categories \cup {Root} : Create(c, p)
      PROVE  FALSE
  <2>. DEFINE T == S \ IF parent[c] = Absent THEN {c} ELSE {}
  <2>1. Closed(T)
    BY <1>1, <1>4, TableListed
  <2>2. T \in SUBSET Categories /\ k \in T
    BY <1>1, <1>3
  <2>. QED  BY <1>2, <2>1, <2>2
<1>5. ASSUME UNCHANGED parent
      PROVE  FALSE
  BY <1>1, <1>2, <1>5 DEF Closed
<1>6. ASSUME NEW r \in Requests, WriteMove(r)
      PROVE  req[r].overtaken /\ ~Walking(r) /\ req'[r] = Idle
  <2>1. req[r].overtaken
    BY <1>1, <1>2, <1>6, WriteMoveListed
  <2>. QED  BY <1>6, <2>1 DEF WriteMove, Overtaken
<1>7. ASSUME NEW r \in Requests,
             (\E c, p \in Categories : BeginMove(r, c, p)) \/ Refuse(r) \/ Step(r) \/ Fails(r)
      PROVE  FALSE
  BY <1>5, <1>7 DEF BeginMove, Refuse, Step, Fails
<1>. QED  BY <1>4, <1>6, <1>7 DEF Next, Work

(* For any number of categories and of overlapping moves, whatever cycles  *)
(* there are already: the tree loses a category only when a move is        *)
(* written that another one overtook.                                      *)
THEOREM ListedUntilOvertaken == Spec => ListedUnlessOvertaken
<1>1. IInv /\ [Next]_vars =>
        [\A k \in Listed : k \in Exists' /\ k \notin Listed'
           => \E r \in Requests : req[r].overtaken /\ ~Walking(r) /\ req'[r] = Idle]_vars
  BY ListedStep
<1>. QED  BY InitIInv, NextIInv, <1>1, PTL DEF Spec, ListedUnlessOvertaken

-----------------------------------------------------------------------------
Unovertaken == \A r \in Requests : ~req[r].overtaken

LEMMA AloneStep ==
    ASSUME \A r, q \in Requests : r = q, IInv, Acyclic, Unovertaken, [Next]_vars
    PROVE  (Acyclic /\ Unovertaken)'
<1>1. Unovertaken'
  <2>1. ASSUME NEW r \in Requests, NEW k \in Categories, NEW p \in Categories, BeginMove(r, k, p)
        PROVE  Unovertaken'
    BY <2>1 DEF BeginMove, Unovertaken, IInv, TypeOK
  <2>2. ASSUME NEW r \in Requests, Refuse(r) \/ Fails(r)
        PROVE  Unovertaken'
    BY <2>2 DEF Refuse, Fails, Unovertaken, Idle, IInv, TypeOK
  <2>3. ASSUME NEW r \in Requests, Step(r)
        PROVE  Unovertaken'
    <3>1. req[r] \in Move
      BY <2>3 DEF Step, Walking, IInv, TypeOK, Idle
    <3>2. req'[r].overtaken = req[r].overtaken
      BY <2>3, <3>1 DEF Step, IInv, TypeOK, Move
    <3>. QED  BY <3>2 DEF Unovertaken
  <2>4. ASSUME NEW r \in Requests, WriteMove(r)
        PROVE  Unovertaken'
    BY <2>4 DEF WriteMove, Overtaken, Unovertaken, Idle
  <2>5. ASSUME UNCHANGED req
        PROVE  Unovertaken'
    BY <2>5 DEF Unovertaken
  <2>. QED
    BY <2>1, <2>2, <2>3, <2>4, <2>5 DEF Next, Work, vars, Create, Remove, MoveToRoot
<1>2. Acyclic'
  <2>1. SUFFICES ASSUME NEW k \in Exists', k \notin Listed' PROVE FALSE
    BY DEF Acyclic
  <2>2. CASE k \in Exists
    <3>1. k \in Listed
      BY <2>2 DEF Acyclic
    <3>2. CASE Next
      BY <2>1, <3>1, <3>2, ListedStep DEF Unovertaken
    <3>3. CASE UNCHANGED vars
      BY <2>1, <3>1, <3>3 DEF vars, Listed, Exists, Closed
    <3>. QED  BY <3>2, <3>3
  <2>3. CASE k \notin Exists
    <3>1. k \in Categories /\ parent[k] = Absent /\ parent'[k] # Absent
      BY <2>1, <2>3 DEF Exists
    <3>2. PICK p \in Categories \cup {Root} : Create(k, p)
      <4>1. ASSUME NEW c \in Categories, Remove(c) \/ MoveToRoot(c)
            PROVE  FALSE
        BY <3>1, <4>1 DEF Remove, MoveToRoot, Exists, IInv, TypeOK
      <4>2. ASSUME NEW c \in Categories, NEW p \in Categories \cup {Root}, Create(c, p)
            PROVE  c = k
        BY <3>1, <4>2 DEF Create, IInv, TypeOK
      <4>3. ASSUME NEW r \in Requests, WriteMove(r)
            PROVE  FALSE
        BY <3>1, <4>3 DEF WriteMove, Exists, IInv, TypeOK
      <4>. QED
        BY <3>1, <4>1, <4>2, <4>3 DEF Next, Work, vars, BeginMove, Refuse, Step, Fails
    <3>3. PICK S \in SUBSET Categories : k \in S /\ Closed(S)'
      BY <2>1, <3>1 DEF Listed
    <3>4. Closed(S \ {k})
      BY <3>1, <3>2, <3>3, TableListed
    <3>5. parent'[k] = p /\ p # k /\ p \in Exists \cup {Root}
      BY <3>1, <3>2, CategoryAssumption DEF Create, Exists, IInv, TypeOK
    <3>6. p \in S \ {k} /\ p \in Exists
      BY <3>3, <3>5, CategoryAssumption DEF Closed
    <3>. QED  BY <3>4, <3>6 DEF Acyclic, Listed
  <2>. QED  BY <2>2, <2>3
<1>. QED  BY <1>1, <1>2

(* With at most one move at a time the categories are a forest, and the    *)
(* tree lists them all: create and remove may overlap with the move.       *)
THEOREM AloneAcyclic ==
    ASSUME \A r, q \in Requests : r = q
    PROVE  Spec => []Acyclic
<1>1. Init => Acyclic /\ Unovertaken
  BY DEF Init, Acyclic, Exists, Unovertaken, Idle
<1>2. IInv /\ Acyclic /\ Unovertaken /\ [Next]_vars => (Acyclic /\ Unovertaken)'
  BY AloneStep
<1>. QED  BY InitIInv, NextIInv, <1>1, <1>2, PTL DEF Spec
=============================================================================
