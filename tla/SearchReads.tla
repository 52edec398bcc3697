---------------------------- MODULE SearchReads ----------------------------
(***************************************************************************)
(* Popular searches (search.service.ts): the statistics that a search      *)
(* leaves behind, and the lists of popular searches that Redis keeps, one  *)
(* for each limit a client asked for.                                      *)
(*                                                                         *)
(* A search answers as soon as the index has; what it leaves behind is     *)
(* tracked by a task nobody awaits:                                        *)
(*                                                                         *)
(*   track     count -> keys -> del                                        *)
(*   popular   get -> rows -> set                                          *)
(*                                                                         *)
(* Each arrow is one call, to the database or to Redis.  Redis failing is  *)
(* caught in every place and nothing is done about it.  What waits in the  *)
(* process is lost when it stops; Redis and the database keep their data.  *)
(***************************************************************************)
EXTENDS Integers, FiniteSets

CONSTANTS
    Requests,       \* tasks and requests under way (bound)
    Texts,          \* what is searched for, trimmed, of two characters or more
    Norm,           \* Norm[t]: t in lower case and with single spaces
    Limits,         \* the limits clients ask popular searches for
    MaxSearches,    \* searches of one behaviour (bound)
    None

ASSUME SearchesAssumption == MaxSearches \in Nat
ASSUME LimitsAssumption == Limits \subseteq Nat \ {0}
ASSUME TextsAssumption == IsFiniteSet(Texts)

Queries == {Norm[t] : t \in Texts}

(* A row of SearchQueryStat; new Date() is the number of searches so far.  *)
Stat == [count : Nat, display : Texts, lastAt : Nat]

(* A list of popular searches, each with the place it has in the list.     *)
Listed == [place : Nat, display : Texts, count : Nat]
IsList(f) == DOMAIN f \subseteq Queries /\ \A q \in DOMAIN f : f[q] \in Listed

VARIABLES
    stat,       \* stat[q]: the row of the normalized query q, or None
    searches,   \* how often something was searched for
    cache,      \* cache[l]: what Redis holds for the limit l, or None
    stale,      \* the limits whose entry was stale when stored or not taken back
    req         \* req[r]: a task or a request under way, or Idle

vars == <<stat, searches, cache, stale, req>>

Idle == [pc |-> "idle"]

Tracking(x) ==
    \/ x \in [pc : {"count"}, text : Texts, at : Nat]
    \/ x = [pc |-> "keys"]
    \/ x \in [pc : {"del"}, keys : (SUBSET Limits) \ {{}}]

Filling(x) ==
    \/ x \in [pc : {"get", "rows"}, limit : Limits]
    \/ /\ x = [pc |-> "set", limit |-> x.limit, seen |-> x.seen]
       /\ x.limit \in Limits
       /\ IsList(x.seen)

TypeOK ==
    /\ DOMAIN stat = Queries /\ \A q \in Queries : stat[q] = None \/ stat[q] \in Stat
    /\ DOMAIN cache = Limits /\ \A l \in Limits : cache[l] = None \/ IsList(cache[l])
    /\ DOMAIN req = Requests
    /\ \A r \in Requests : req[r] = Idle \/ Tracking(req[r]) \/ Filling(req[r])
    /\ searches \in Nat
    /\ stale \subseteq Limits

Init ==
    /\ stat = [q \in Queries |-> None]
    /\ searches = 0
    /\ cache = [l \in Limits |-> None]
    /\ stale = {}
    /\ req = [r \in Requests |-> Idle]

-----------------------------------------------------------------------------
Known == {q \in Queries : stat[q] # None}

(* orderBy count descending, then lastSearchedAt descending. *)
Above(p, q) ==
    \/ stat[p].count > stat[q].count
    \/ stat[p].count = stat[q].count /\ stat[p].lastAt > stat[q].lastAt

Place(q) == Cardinality({p \in Known : Above(p, q)}) + 1

(* What popular answers from the rows. *)
Top(l) ==
    [q \in {k \in Known : Place(k) <= l} |->
        [place |-> Place(q), display |-> stat[q].display, count |-> stat[q].count]]

Turns(r, to) == req' = [req EXCEPT ![r] = to]

(* Nothing will take back these entries any more, should they be stale.    *)
Left == stale \cup {l \in Limits : cache[l] \notin {None, Top(l)}}

-----------------------------------------------------------------------------
(* searchServices and searchByCategory: the index has answered. *)
Search(r, t) ==
    /\ req[r] = Idle
    /\ searches < MaxSearches
    /\ searches' = searches + 1
    /\ Turns(r, [pc |-> "count", text |-> t, at |-> searches + 1])
    /\ UNCHANGED <<stat, cache, stale>>

Counted(t, at) ==
    [stat EXCEPT ![Norm[t]] =
        [count |-> IF @ = None THEN 1 ELSE @.count + 1, display |-> t, lastAt |-> at]]

(* trackPopularSearch: the upsert; if it fails, the task ends with a warning. *)
Count(r) ==
    /\ req[r].pc = "count"
    /\ \/ /\ stat' = Counted(req[r].text, req[r].at)
          /\ Turns(r, [pc |-> "keys"])
       \/ Turns(r, Idle) /\ UNCHANGED stat
    /\ UNCHANGED <<searches, cache, stale>>

(* Mutant of Keys: only the list of the default limit is looked for. *)
KeysOfOne(r) ==
    /\ req[r].pc = "keys"
    /\ LET keys == {l \in Limits : cache[l] # None /\ \A m \in Limits : l <= m} IN
         Turns(r, IF keys = {} THEN Idle ELSE [pc |-> "del", keys |-> keys])
    /\ UNCHANGED <<stat, searches, cache, stale>>

Keys(r) ==
    /\ req[r].pc = "keys"
    /\ LET keys == {l \in Limits : cache[l] # None} IN
         Turns(r, IF keys = {} THEN Idle ELSE [pc |-> "del", keys |-> keys])
    /\ UNCHANGED <<stat, searches, cache, stale>>

Del(r) ==
    /\ req[r].pc = "del"
    /\ cache' = [l \in Limits |-> IF l \in req[r].keys THEN None ELSE cache[l]]
    /\ stale' = stale \ req[r].keys
    /\ Turns(r, Idle)
    /\ UNCHANGED <<stat, searches>>

(* Redis fails on keys or on del: the entries stay. *)
KeepsEntries(r) ==
    /\ req[r].pc \in {"keys", "del"}
    /\ stale' = Left
    /\ Turns(r, Idle)
    /\ UNCHANGED <<stat, searches, cache>>

-----------------------------------------------------------------------------
AskPopular(r, l) ==
    /\ req[r] = Idle
    /\ Turns(r, [pc |-> "get", limit |-> l])
    /\ UNCHANGED <<stat, searches, cache, stale>>

(* A hit is the answer; a miss, or Redis failing, asks the database. *)
Get(r) ==
    /\ req[r].pc = "get"
    /\ \/ cache[req[r].limit] # None /\ Turns(r, Idle)
       \/ Turns(r, [req[r] EXCEPT !.pc = "rows"])
    /\ UNCHANGED <<stat, searches, cache, stale>>

Rows(r) ==
    /\ req[r].pc = "rows"
    /\ \/ Turns(r, [pc |-> "set", limit |-> req[r].limit, seen |-> Top(req[r].limit)])
       \/ Turns(r, Idle)
    /\ UNCHANGED <<stat, searches, cache, stale>>

(* The list is stored for two minutes and answered. *)
Set(r) ==
    /\ req[r].pc = "set"
    /\ LET l == req[r].limit  seen == req[r].seen IN
         /\ cache' = [cache EXCEPT ![l] = seen]
         /\ stale' = IF seen = Top(l) THEN stale \ {l} ELSE stale \cup {l}
    /\ Turns(r, Idle)
    /\ UNCHANGED <<stat, searches>>

SetFails(r) ==
    /\ req[r].pc = "set"
    /\ Turns(r, Idle)
    /\ UNCHANGED <<stat, searches, cache, stale>>

Expire(l) ==
    /\ cache[l] # None
    /\ cache' = [cache EXCEPT ![l] = None]
    /\ stale' = stale \ {l}
    /\ UNCHANGED <<stat, searches, req>>

Crash ==
    /\ \E r \in Requests : req[r] # Idle
    /\ stale' = Left
    /\ req' = [r \in Requests |-> Idle]
    /\ UNCHANGED <<stat, searches, cache>>

Track(r) == Count(r) \/ Keys(r) \/ Del(r) \/ KeepsEntries(r)
Fill(r) == Get(r) \/ Rows(r) \/ Set(r) \/ SetFails(r)

Next ==
    \/ \E r \in Requests :
         \/ \E t \in Texts : Search(r, t)
         \/ \E l \in Limits : AskPopular(r, l)
         \/ Track(r) \/ Fill(r)
    \/ \E l \in Limits : Expire(l)
    \/ Crash

Spec == Init /\ [][Next]_vars

-----------------------------------------------------------------------------
(* A task that has counted a search will still take this entry back. *)
TakesBack(r, l) ==
    \/ req[r].pc = "keys"
    \/ req[r].pc = "del" /\ l \in req[r].keys

(* A list that Redis holds is the one the rows give, unless a task will    *)
(* take it back ("redis.getClient().del(...keys)"), or it was read before  *)
(* and stored after a search was counted, or its removal failed: nothing   *)
(* else answers an outdated list.                                          *)
CachedIsCurrent ==
    \A l \in Limits \ stale :
        cache[l] \in {None, Top(l)} \/ \E r \in Requests : TakesBack(r, l)
=============================================================================
