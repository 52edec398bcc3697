------------------------- MODULE SearchReads_proofs -------------------------
(***************************************************************************)
(* What is proved of the popular searches: types, and that a list Redis    *)
(* holds is outdated only in the ways that `stale' records, for any number *)
(* of texts, limits, tasks and requests.                                   *)
(***************************************************************************)
EXTENDS SearchReads, FiniteSetTheorems, TLAPS

(* The queries are finitely many, so a place in the order is a number.     *)
LEMMA PlaceIsNumber == ASSUME NEW q PROVE Place(q) \in Nat
<1>1. IsFiniteSet(Queries)
  <2> DEFINE f == [t \in Texts |-> Norm[t]]
  <2>1. f \in Surjection(Texts, Queries)
    BY DEF Surjection, Queries
  <2> QED BY <2>1, FS_Surjection, TextsAssumption
<1>2. {p \in Known : Above(p, q)} \subseteq Queries
  BY DEF Known
<1>3. Cardinality({p \in Known : Above(p, q)}) \in Nat
  BY <1>1, <1>2, FS_Subset, FS_CardinalityType
<1> QED BY <1>3 DEF Place

(* What the database answers is a list of popular searches.                *)
LEMMA TopIsList == ASSUME TypeOK, NEW l PROVE IsList(Top(l))
<1>1. DOMAIN Top(l) \subseteq Queries
  BY DEF Top, Known
<1>2. ASSUME NEW q \in DOMAIN Top(l) PROVE Top(l)[q] \in Listed
  <2>1. q \in Known /\ Top(l)[q] =
           [place |-> Place(q), display |-> stat[q].display, count |-> stat[q].count]
    BY DEF Top
  <2>2. stat[q] \in Stat
    BY <2>1 DEF Known, TypeOK
  <2> HIDE DEF Place
  <2> QED BY <2>1, <2>2, PlaceIsNumber DEF Listed, Stat
<1> QED BY <1>1, <1>2 DEF IsList

(* A step of one task or request leaves the others well typed.             *)
LEMMA TurnTyped ==
    ASSUME TypeOK, NEW r \in Requests, NEW to, Turns(r, to),
           to = Idle \/ Tracking(to) \/ Filling(to)
    PROVE  /\ DOMAIN req' = Requests
           /\ \A s \in Requests : req'[s] = Idle \/ Tracking(req'[s]) \/ Filling(req'[s])
           /\ req'[r] = to
           /\ \A s \in Requests \ {r} : req'[s] = req[s]
BY DEF TypeOK, Turns

-----------------------------------------------------------------------------
LEMMA SearchTyped ==
    ASSUME TypeOK, NEW r \in Requests, NEW t \in Texts, Search(r, t) PROVE TypeOK'
<1>1. searches' \in Nat /\ searches + 1 \in Nat
  BY DEF TypeOK, Search
<1>2. Tracking([pc |-> "count", text |-> t, at |-> searches + 1])
  BY <1>1 DEF Tracking
<1>3. Turns(r, [pc |-> "count", text |-> t, at |-> searches + 1])
  BY DEF Search
<1>4. UNCHANGED <<stat, cache, stale>>
  BY DEF Search
<1> QED BY <1>1, <1>2, <1>3, <1>4, TurnTyped DEF TypeOK

LEMMA CountTyped == ASSUME TypeOK, NEW r \in Requests, Count(r) PROVE TypeOK'
<1>1. req[r].text \in Texts /\ req[r].at \in Nat
  BY DEF TypeOK, Count, Idle, Tracking, Filling
<1>2. DOMAIN stat' = Queries /\ \A q \in Queries : stat'[q] = None \/ stat'[q] \in Stat
  <2>1. CASE stat' = stat
    BY <2>1 DEF TypeOK
  <2>2. CASE stat' = Counted(req[r].text, req[r].at)
    <3>1. Norm[req[r].text] \in Queries
      BY <1>1 DEF Queries
    <3> QED BY <2>2, <3>1, <1>1 DEF TypeOK, Counted, Stat
  <2> QED BY <2>1, <2>2 DEF Count
<1>3. Tracking([pc |-> "keys"])
  BY DEF Tracking
<1>4. PICK to : Turns(r, to) /\ (to = Idle \/ Tracking(to) \/ Filling(to))
  BY <1>3 DEF Count
<1>5. UNCHANGED <<searches, cache, stale>>
  BY DEF Count
<1> QED BY <1>2, <1>4, <1>5, TurnTyped DEF TypeOK

LEMMA TrackTyped ==
    ASSUME TypeOK, NEW r \in Requests, Keys(r) \/ Del(r) \/ KeepsEntries(r)
    PROVE  TypeOK'
<1>1. ASSUME Keys(r) PROVE TypeOK'
  <2> DEFINE keys == {l \in Limits : cache[l] # None}
             to == IF keys = {} THEN Idle ELSE [pc |-> "del", keys |-> keys]
  <2>1. Turns(r, to) /\ UNCHANGED <<stat, searches, cache, stale>>
    BY <1>1 DEF Keys
  <2>2. to = Idle \/ Tracking(to)
    BY DEF Tracking
  <2> HIDE DEF to
  <2> QED BY <2>1, <2>2, TurnTyped DEF TypeOK
<1>2. ASSUME Del(r) PROVE TypeOK'
  <2>1. DOMAIN cache' = Limits /\ \A l \in Limits : cache'[l] = None \/ IsList(cache'[l])
    BY <1>2 DEF TypeOK, Del
  <2>2. Turns(r, Idle) /\ UNCHANGED <<stat, searches>> /\ stale' \subseteq Limits
    BY <1>2 DEF TypeOK, Del
  <2> QED BY <2>1, <2>2, TurnTyped DEF TypeOK
<1>3. ASSUME KeepsEntries(r) PROVE TypeOK'
  <2>1. Turns(r, Idle) /\ UNCHANGED <<stat, searches, cache>> /\ stale' \subseteq Limits
    BY <1>3 DEF TypeOK, KeepsEntries, Left
  <2> QED BY <2>1, TurnTyped DEF TypeOK
<1> QED BY <1>1, <1>2, <1>3

LEMMA FillTyped == ASSUME TypeOK, NEW r \in Requests, Fill(r) PROVE TypeOK'
<1>1. ASSUME Get(r) PROVE TypeOK'
  <2>1. req[r].limit \in Limits /\ req[r] = [pc |-> "get", limit |-> req[r].limit]
    BY <1>1 DEF TypeOK, Get, Idle, Tracking, Filling
  <2>2. Filling([req[r] EXCEPT !.pc = "rows"])
    BY <2>1 DEF Filling
  <2>3. PICK to : Turns(r, to) /\ (to = Idle \/ Filling(to))
    BY <1>1, <2>2 DEF Get
  <2>4. UNCHANGED <<stat, searches, cache, stale>>
    BY <1>1 DEF Get
  <2> QED BY <2>3, <2>4, TurnTyped DEF TypeOK
<1>2. ASSUME Rows(r) PROVE TypeOK'
  <2>1. req[r].limit \in Limits
    BY <1>2 DEF TypeOK, Rows, Idle, Tracking, Filling
  <2>2. IsList(Top(req[r].limit))
    BY TopIsList
  <2>3. Filling([pc |-> "set", limit |-> req[r].limit, seen |-> Top(req[r].limit)])
    BY <2>1, <2>2 DEF Filling
  <2>4. PICK to : Turns(r, to) /\ (to = Idle \/ Filling(to))
    BY <1>2, <2>3 DEF Rows
  <2>5. UNCHANGED <<stat, searches, cache, stale>>
    BY <1>2 DEF Rows
  <2> QED BY <2>4, <2>5, TurnTyped DEF TypeOK
<1>3. ASSUME Set(r) PROVE TypeOK'
  <2>1. req[r].limit \in Limits /\ IsList(req[r].seen)
    BY <1>3 DEF TypeOK, Set, Idle, Tracking, Filling
  <2>2. DOMAIN cache' = Limits /\ \A l \in Limits : cache'[l] = None \/ IsList(cache'[l])
    BY <1>3, <2>1 DEF TypeOK, Set
  <2>3. stale' \subseteq Limits
    BY <1>3, <2>1 DEF TypeOK, Set
  <2>4. Turns(r, Idle) /\ UNCHANGED <<stat, searches>>
    BY <1>3 DEF Set
  <2> QED BY <2>2, <2>3, <2>4, TurnTyped DEF TypeOK
<1>4. ASSUME SetFails(r) PROVE TypeOK'
  BY <1>4, TurnTyped DEF SetFails, TypeOK
<1> QED BY <1>1, <1>2, <1>3, <1>4 DEF Fill

(* Statistics, cached lists, tasks and requests are well typed.            *)
THEOREM ReadsTypeCorrect == Spec => []TypeOK
<1>1. Init => TypeOK
  BY DEF Init, TypeOK
<1>2. TypeOK /\ [Next]_vars => TypeOK'
  <2> SUFFICES ASSUME TypeOK, [Next]_vars PROVE TypeOK'
    OBVIOUS
  <2>1. ASSUME NEW r \in Requests, NEW t \in Texts, Search(r, t) PROVE TypeOK'
    BY <2>1, SearchTyped
  <2>2. ASSUME NEW r \in Requests, NEW l \in Limits, AskPopular(r, l) PROVE TypeOK'
    <3>1. Filling([pc |-> "get", limit |-> l])
      BY DEF Filling
    <3> QED BY <2>2, <3>1, TurnTyped DEF AskPopular, TypeOK
  <2>3. ASSUME NEW r \in Requests, Track(r) PROVE TypeOK'
    BY <2>3, CountTyped, TrackTyped DEF Track
  <2>4. ASSUME NEW r \in Requests, Fill(r) PROVE TypeOK'
    BY <2>4, FillTyped
  <2>5. ASSUME NEW l \in Limits, Expire(l) PROVE TypeOK'
    BY <2>5 DEF Expire, TypeOK
  <2>6. ASSUME Crash PROVE TypeOK'
    BY <2>6 DEF Crash, TypeOK, Left
  <2>7. ASSUME UNCHANGED vars PROVE TypeOK'
    BY <2>7 DEF vars, TypeOK, IsList
  <2> QED BY <2>1, <2>2, <2>3, <2>4, <2>5, <2>6, <2>7 DEF Next
<1> QED BY <1>1, <1>2, PTL DEF Spec

-----------------------------------------------------------------------------
(* A step that touches neither rows nor entries, by a task or request that *)
(* takes nothing back, keeps CachedIsCurrent.                              *)
LEMMA OthersTakeBack ==
    ASSUME TypeOK, CachedIsCurrent, NEW r \in Requests, NEW to, Turns(r, to),
           req[r].pc \notin {"keys", "del"},
           UNCHANGED <<stat, cache, stale>>
    PROVE  CachedIsCurrent'
<1>1. ASSUME NEW s \in Requests, NEW l, TakesBack(s, l) PROVE TakesBack(s, l)'
  BY <1>1 DEF TakesBack, Turns, TypeOK
<1>2. \A l \in Limits : Top(l)' = Top(l)
  BY DEF Top, Known, Place, Above
<1> QED BY <1>1, <1>2 DEF CachedIsCurrent

LEMMA TrackKeepsCurrent ==
    ASSUME TypeOK, CachedIsCurrent, NEW r \in Requests, Track(r) PROVE CachedIsCurrent'
<1>1. ASSUME Count(r) PROVE CachedIsCurrent'
  <2>1. CASE Turns(r, [pc |-> "keys"])
    <3>1. \A l \in Limits : TakesBack(r, l)'
      BY <2>1 DEF Turns, TypeOK, TakesBack
    <3> QED BY <3>1 DEF CachedIsCurrent
  <2>2. CASE Turns(r, Idle) /\ UNCHANGED stat
    BY <1>1, <2>2, OthersTakeBack DEF Count
  <2> QED BY <1>1, <2>1, <2>2 DEF Count
<1>2. ASSUME Keys(r) PROVE CachedIsCurrent'
  <2>1. UNCHANGED <<stat, cache, stale>>
    BY <1>2 DEF Keys
  <2>2. ASSUME NEW l \in Limits, cache[l] # None PROVE TakesBack(r, l)'
    <3>1. {k \in Limits : cache[k] # None} # {}
      BY <2>2
    <3>2. Turns(r, [pc |-> "del", keys |-> {k \in Limits : cache[k] # None}])
      BY <1>2, <3>1 DEF Keys
    <3>3. req'[r] = [pc |-> "del", keys |-> {k \in Limits : cache[k] # None}]
      BY <3>2 DEF Turns, TypeOK
    <3> QED BY <2>2, <3>3 DEF TakesBack
  <2> QED BY <2>1, <2>2 DEF CachedIsCurrent
<1>3. ASSUME Del(r) PROVE CachedIsCurrent'
  <2>1. \A l \in Limits : Top(l)' = Top(l)
    BY <1>3 DEF Del, Top, Known, Place, Above
  <2>2. ASSUME NEW l \in Limits \ stale'
        PROVE  cache'[l] \in {None, Top(l)'} \/ \E s \in Requests : TakesBack(s, l)'
    <3>1. CASE l \in req[r].keys
      BY <1>3, <3>1 DEF Del
    <3>2. CASE l \notin req[r].keys
      <4>1. l \notin stale /\ cache'[l] = cache[l]
        BY <1>3, <2>2, <3>2 DEF Del
      <4>2. ASSUME NEW s \in Requests, TakesBack(s, l) PROVE TakesBack(s, l)'
        BY <1>3, <3>2, <4>2 DEF Del, TakesBack, Turns, TypeOK
      <4> QED BY <2>1, <4>1, <4>2 DEF CachedIsCurrent
    <3> QED BY <3>1, <3>2
  <2> QED BY <2>2 DEF CachedIsCurrent
<1>4. ASSUME KeepsEntries(r) PROVE CachedIsCurrent'
  <2>1. \A l \in Limits : Top(l)' = Top(l)
    BY <1>4 DEF KeepsEntries, Top, Known, Place, Above
  <2> QED BY <1>4, <2>1 DEF KeepsEntries, Left, CachedIsCurrent
<1> QED BY <1>1, <1>2, <1>3, <1>4 DEF Track

LEMMA FillKeepsCurrent ==
    ASSUME TypeOK, CachedIsCurrent, NEW r \in Requests, Fill(r) PROVE CachedIsCurrent'
<1>1. ASSUME Get(r) \/ Rows(r) \/ SetFails(r) PROVE CachedIsCurrent'
  <2>1. PICK to : Turns(r, to)
    BY <1>1 DEF Get, Rows, SetFails
  <2> QED BY <1>1, <2>1, OthersTakeBack DEF Get, Rows, SetFails
<1>2. ASSUME Set(r) PROVE CachedIsCurrent'
  <2>1. \A l \in Limits : Top(l)' = Top(l)
    BY <1>2 DEF Set, Top, Known, Place, Above
  <2>2. ASSUME NEW l \in Limits, NEW s \in Requests, TakesBack(s, l) PROVE TakesBack(s, l)'
    BY <1>2, <2>2 DEF Set, TakesBack, Turns, TypeOK
  <2>3. ASSUME NEW l \in Limits \ stale'
        PROVE  cache'[l] \in {None, Top(l)'} \/ \E s \in Requests : TakesBack(s, l)'
    <3> HIDE DEF Top
    <3>1. CASE l = req[r].limit
      BY <1>2, <2>1, <2>3, <3>1 DEF Set, TypeOK
    <3>2. CASE l # req[r].limit
      <4>1. l \notin stale /\ cache'[l] = cache[l]
        BY <1>2, <2>3, <3>2 DEF Set, TypeOK
      <4> QED BY <2>1, <2>2, <4>1 DEF CachedIsCurrent
    <3> QED BY <3>1, <3>2
  <2> QED BY <2>3 DEF CachedIsCurrent
<1> QED BY <1>1, <1>2 DEF Fill

(* A list of popular searches that Redis holds is the one the rows give,   *)
(* unless a task will take it back, it was stored after a search had been  *)
(* counted, or its removal failed.                                         *)
THEOREM PopularCurrent == Spec => []CachedIsCurrent
<1>1. Init => CachedIsCurrent
  BY DEF Init, CachedIsCurrent
<1>2. TypeOK /\ CachedIsCurrent /\ [Next]_vars => CachedIsCurrent'
  <2> SUFFICES ASSUME TypeOK, CachedIsCurrent, [Next]_vars PROVE CachedIsCurrent'
    OBVIOUS
  <2>1. ASSUME NEW r \in Requests, NEW t \in Texts, Search(r, t) PROVE CachedIsCurrent'
    BY <2>1, OthersTakeBack DEF Search, Idle
  <2>2. ASSUME NEW r \in Requests, NEW l \in Limits, AskPopular(r, l)
        PROVE  CachedIsCurrent'
    BY <2>2, OthersTakeBack DEF AskPopular, Idle
  <2>3. ASSUME NEW r \in Requests, Track(r) PROVE CachedIsCurrent'
    BY <2>3, TrackKeepsCurrent
  <2>4. ASSUME NEW r \in Requests, Fill(r) PROVE CachedIsCurrent'
    BY <2>4, FillKeepsCurrent
  <2>5. ASSUME NEW l \in Limits, Expire(l) PROVE CachedIsCurrent'
    <3>1. \A k \in Limits : Top(k)' = Top(k)
      BY <2>5 DEF Expire, Top, Known, Place, Above
    <3>2. \A k \in Limits : \A s \in Requests : TakesBack(s, k)' = TakesBack(s, k)
      BY <2>5 DEF Expire, TakesBack
    <3> QED BY <2>5, <3>1, <3>2 DEF Expire, CachedIsCurrent, TypeOK
  <2>6. ASSUME Crash PROVE CachedIsCurrent'
    <3>1. \A k \in Limits : Top(k)' = Top(k)
      BY <2>6 DEF Crash, Top, Known, Place, Above
    <3> QED BY <2>6, <3>1 DEF Crash, Left, CachedIsCurrent
  <2>7. ASSUME UNCHANGED vars PROVE CachedIsCurrent'
    <3>1. \A k \in Limits : Top(k)' = Top(k)
      BY <2>7 DEF vars, Top, Known, Place, Above
    <3> QED BY <2>7, <3>1 DEF vars, CachedIsCurrent, TakesBack
  <2> QED BY <2>1, <2>2, <2>3, <2>4, <2>5, <2>6, <2>7 DEF Next
<1> QED BY <1>1, <1>2, ReadsTypeCorrect, PTL DEF Spec
=============================================================================
