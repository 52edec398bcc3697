-------------------------- MODULE ProviderProfile --------------------------
(***************************************************************************)
(* ProviderService, ProviderVerificationService and                        *)
(* ProviderAvailabilityService over the rows of providers.                 *)
(*                                                                         *)
(* Every handler of a provider begins with getOrCreateMe and goes on:      *)
(*                                                                         *)
(*   idle --read--> [create] --> lock --> replace --> delete --> commit --> audit  updateById *)
(*                           --> file --> audit                            submitMine *)
(*                           --> insert --> audit                          createMine *)
(*                           --> slot --> writeSlot | dropSlot --> audit   updateMine, deleteMine *)
(*   idle --read--> decide --> audit                                       review     *)
(*                                                                         *)
(* updateById is a transaction.  If a column of the profile is given, its  *)
(* first statement updates the provider row, which PostgreSQL keeps locked *)
(* until the commit: every other update of the row waits.  If only lists   *)
(* are given, the data of that statement is empty, Prisma reads the row    *)
(* and writes nothing, and nothing is locked.  The event that follows the  *)
(* audit row is modelled in ServiceCatalog.                                *)
(***************************************************************************)
EXTENDS Naturals, Sequences, FiniteSets

CONSTANTS
    Requests,   \* request slots (bound)
    Owners,     \* pairs of a user and a tenant it acts in
    Ids,        \* ids of provider rows (bound)
    Kinds,      \* the lists of a profile: qualifications, certifications, languages
    Batches,    \* names for what one update inserts (bound)
    Slots,      \* ids of availability slots (bound)
    Times,      \* times of day (bound)
    MaxFiled,   \* requests for verification per provider (bound)
    Ops,        \* the operations clients call (bound)
    None

VARIABLES
    profile,    \* profile[i]: the provider row i, or None
    lists,      \* lists[i][k]: the rows of kind k that belong to provider i, by update
    filed,      \* filed[i]: statuses of the requests for verification, oldest first
    slot,       \* slot[a]: the availability slot a, or None
    lock,       \* lock[i]: the transaction that has updated row i and not committed
    req,        \* req[r]: what the handler in slot r remembers
    overtaken,  \* history: requests whose read another write has made stale
    raced,      \* history: providers whose last decision was taken on such a read
    crossed     \* history: slots whose last update was decided on such a read

rows == <<profile, lists, filed, slot>>
history == <<overtaken, raced, crossed>>
vars == <<profile, lists, filed, slot, lock, req, overtaken, raced, crossed>>

OwnOps == {"me", "update", "submit", "addSlot", "changeSlot", "dropSlot"}

Decided == {"VERIFIED", "REJECTED", "SUSPENDED"}
Status == {"PENDING", "UNDER_REVIEW"} \cup Decided

Profile == [owner : Owners, status : Status, active : BOOLEAN]
Interval == [of : Ids, from : Times, to : Times]

ASSUME ProviderAssumption ==
    /\ Ops \subseteq OwnOps \cup {"review"}
    /\ Times \subseteq Nat
    /\ MaxFiled \in Nat
    /\ None \notin Requests \cup Owners \cup Ids \cup Slots \cup Times \cup Profile \cup Interval

(* What an update gives: columns of the profile or none, and of each list  *)
(* nothing, the empty list, or rows.                                       *)
Form == [columns : BOOLEAN, lists : [Kinds -> {"keep", "clear", "replace"}]]

(* The rows that one update has inserted into a list. *)
Inserted == [batch : Batches, columns : BOOLEAN]

Idle == [pc |-> "idle", op |-> None, owner |-> None, of |-> None, in |-> None, seen |-> None]

(* in: what the client sent; seen: what the handler has read and uses later. *)
First == [pc : {"create"}, op : OwnOps, owner : Owners, of : {None}, in : {None}, seen : {None}]
Later == [pc : {"lock", "file", "insert", "slot", "audit"}, op : OwnOps, owner : Owners,
          of : Ids, in : {None}, seen : {None}]
Locked == [pc : {"replace"}, op : OwnOps, owner : Owners, of : Ids, in : Form, seen : {None}]
Replacing == [pc : {"delete", "commit"}, op : OwnOps, owner : Owners, of : Ids, in : Form,
              seen : [Kinds -> SUBSET Inserted]]
AtSlot == [pc : {"writeSlot", "removeSlot"}, op : OwnOps, owner : Owners, of : Ids,
           in : [from : Times \cup {None}, to : Times \cup {None}], seen : Slots]
Review == [pc : {"decide", "audit"}, op : {"review"}, owner : {None}, of : Ids,
           in : {None}, seen : 0 .. MaxFiled]

Request == {Idle} \cup First \cup Later \cup Locked \cup Replacing \cup AtSlot \cup Review

TypeOK ==
    /\ profile \in [Ids -> Profile \cup {None}]
    /\ lists \in [Ids -> [Kinds -> SUBSET Inserted]]
    /\ filed \in [Ids -> Seq(Status)]
    /\ \A i \in Ids : Len(filed[i]) <= MaxFiled
    /\ slot \in [Slots -> Interval \cup {None}]
    /\ lock \in [Ids -> Requests \cup {None}]
    /\ req \in [Requests -> Request]
    /\ overtaken \subseteq Requests
    /\ raced \subseteq Ids
    /\ crossed \subseteq Slots

Init ==
    /\ profile = [i \in Ids |-> None]
    /\ lists = [i \in Ids |-> [k \in Kinds |-> {}]]
    /\ filed = [i \in Ids |-> <<>>]
    /\ slot = [a \in Slots |-> None]
    /\ lock = [i \in Ids |-> None]
    /\ req = [r \in Requests |-> Idle]
    /\ overtaken = {}
    /\ raced = {}
    /\ crossed = {}

-----------------------------------------------------------------------------
(***************************************************************************)
(* getOrCreateMe: findUnique by (userId, tenantId), then create.           *)
(***************************************************************************)
Own(u) == {i \in Ids : profile[i] # None /\ profile[i].owner = u}

(* The call a handler makes once it has the profile. *)
After(op) ==
    CASE op = "update" -> "lock"
      [] op = "submit" -> "file"
      [] op = "addSlot" -> "insert"
      [] op \in {"changeSlot", "dropSlot"} -> "slot"
      [] OTHER -> "audit"

Goto(r, pc) == req' = [req EXCEPT ![r].pc = pc]

(* The caller's own profile, or one it may manage: an administrator of the *)
(* tenant or of the platform updates profiles of others (PATCH :id).       *)
Target(op, u) == IF op = "update" THEN {i \in Ids : profile[i] # None} ELSE Own(u)

(* submitMine goes on unless the profile is under review or verified. *)
ReadProfile(r, op, u) ==
    /\ op \in Ops
    /\ req[r] = Idle
    /\ \E i \in Target(op, u) :
         /\ op = "submit" => profile[i].status \notin {"UNDER_REVIEW", "VERIFIED"}
         /\ req' = [req EXCEPT ![r] = [pc |-> After(op), op |-> op, owner |-> u, of |-> i,
                                       in |-> None, seen |-> None]]
    /\ overtaken' = overtaken \ {r}
    /\ UNCHANGED <<rows, lock, raced, crossed>>

ReadNone(r, op, u) ==
    /\ op \in Ops
    /\ req[r] = Idle
    /\ Own(u) = {}
    /\ req' = [req EXCEPT ![r] = [pc |-> "create", op |-> op, owner |-> u, of |-> None,
                                  in |-> None, seen |-> None]]
    /\ overtaken' = overtaken \ {r}
    /\ UNCHANGED <<rows, lock, raced, crossed>>

(* Mutant of CreateProfile: the table without its unique key. *)
CreateProfileAnyway(r) ==
    /\ req[r].pc = "create"
    /\ \E i \in Ids :
         /\ profile[i] = None
         /\ profile' = [profile EXCEPT
                ![i] = [owner |-> req[r].owner, status |-> "PENDING", active |-> TRUE]]
         /\ req' = [req EXCEPT ![r].pc = After(req[r].op), ![r].of = i]
    /\ UNCHANGED <<lists, filed, slot, lock, history>>

(* The insert fails if the other of two first calls has been faster. *)
CreateProfile(r) ==
    /\ req[r].pc = "create"
    /\ Own(req[r].owner) = {}
    /\ \E i \in Ids :
         /\ profile[i] = None
         /\ profile' = [profile EXCEPT
                ![i] = [owner |-> req[r].owner, status |-> "PENDING", active |-> TRUE]]
         /\ req' = [req EXCEPT ![r].pc = After(req[r].op), ![r].of = i]
    /\ UNCHANGED <<lists, filed, slot, lock, history>>

-----------------------------------------------------------------------------
(***************************************************************************)
(* updateById: the update of the row, then for each list that is given     *)
(* deleteMany and createMany, then the commit.  Nothing is visible before. *)
(* (Each list is replaced by itself; here they are in one step.)           *)
(***************************************************************************)
Free(r) == lock[req[r].of] = None

(* Mutant of LockRow: the lists are replaced before the row is updated. *)
LockRowLate(r) ==
    /\ req[r].pc = "lock"
    /\ \E form \in Form : req' = [req EXCEPT ![r].pc = "replace", ![r].in = form]
    /\ UNCHANGED <<rows, lock, history>>

(* The update of the row locks it, if there is a column to write. *)
LockRow(r) ==
    /\ req[r].pc = "lock"
    /\ \E form \in Form :
         /\ req' = [req EXCEPT ![r].pc = "replace", ![r].in = form]
         /\ \/ form.columns /\ Free(r) /\ lock' = [lock EXCEPT ![req[r].of] = r]
            \/ ~form.columns /\ UNCHANGED lock
    /\ UNCHANGED <<rows, history>>

(* deleteMany finds the rows that are committed when it begins. *)
FindLists(r) ==
    /\ req[r].pc = "replace"
    /\ req' = [req EXCEPT ![r].pc = "delete", ![r].seen = [k \in Kinds |->
                 IF req[r].in.lists[k] = "keep" THEN {} ELSE lists[req[r].of][k]]]
    /\ UNCHANGED <<rows, lock, history>>

(* It waits for a transaction that has deleted one of them and is open,    *)
(* and does not look for others after that.                                *)
DeleteLists(r) ==
    /\ req[r].pc = "delete"
    /\ \A q \in Requests : req[q].pc = "commit" /\ req[q].of = req[r].of =>
         \A k \in Kinds : req[q].seen[k] \cap req[r].seen[k] \cap lists[req[r].of][k] = {}
    /\ Goto(r, "commit")
    /\ UNCHANGED <<rows, lock, history>>

(* A new name: no row has it and no request remembers it. *)
Named(b) == {[batch |-> b, columns |-> c] : c \in BOOLEAN}
Unused(b) ==
    /\ \A i \in Ids, k \in Kinds : lists[i][k] \cap Named(b) = {}
    /\ \A q \in Requests : req[q].pc \in {"delete", "commit"} =>
         \A k \in Kinds : req[q].seen[k] \cap Named(b) = {}

(* isActive is one of the columns. *)
Commit(r) ==
    /\ req[r].pc = "commit"
    /\ LET i == req[r].of  in == req[r].in IN
         /\ \E b \in Batches :
              /\ Unused(b)
              /\ lists' = [lists EXCEPT ![i] = [k \in Kinds |->
                     (lists[i][k] \ req[r].seen[k])
                     \cup IF in.lists[k] = "replace"
                          THEN {[batch |-> b, columns |-> in.columns]} ELSE {}]]
         /\ IF in.columns
            THEN \E b \in BOOLEAN : profile' = [profile EXCEPT ![i].active = b]
            ELSE UNCHANGED profile
         /\ lock' = [lock EXCEPT ![i] = IF @ = r THEN None ELSE @]
    /\ req' = [req EXCEPT ![r].pc = "audit", ![r].in = None, ![r].seen = None]
    /\ UNCHANGED <<filed, slot, history>>

-----------------------------------------------------------------------------
(***************************************************************************)
(* submitMine files a request, review decides the newest open one.  Each   *)
(* is one transaction; both end with an update of the provider row.        *)
(***************************************************************************)
Open(i) == {n \in 1 .. Len(filed[i]) : filed[i][n] \in {"UNDER_REVIEW", "PENDING"}}

(* The others that have read the verification of provider i. *)
Readers(r, i) ==
    {q \in Requests \ {r} : req[q].of = i /\ req[q].pc \in {"file", "decide"}}

(* A decision taken on a stale read marks the provider; a sound one clears *)
(* it again if it leaves no other request open.                            *)
Settle(r, i, others) ==
    /\ overtaken' = overtaken \cup Readers(r, i)
    /\ raced' = CASE r \in overtaken -> raced \cup {i}
                  [] r \notin overtaken /\ others = {} -> raced \ {i}
                  [] OTHER -> raced

(* Mutant of File: the request is filed and the provider's row forgotten. *)
FileOnly(r) ==
    /\ req[r].pc = "file"
    /\ Free(r)
    /\ Len(filed[req[r].of]) < MaxFiled
    /\ filed' = [filed EXCEPT ![req[r].of] = Append(@, "UNDER_REVIEW")]
    /\ Settle(r, req[r].of, Open(req[r].of))
    /\ Goto(r, "audit")
    /\ UNCHANGED <<profile, lists, slot, lock, crossed>>

File(r) ==
    /\ req[r].pc = "file"
    /\ Free(r)
    /\ Len(filed[req[r].of]) < MaxFiled
    /\ LET i == req[r].of IN
         /\ filed' = [filed EXCEPT ![i] = Append(@, "UNDER_REVIEW")]
         /\ profile' = [profile EXCEPT ![i].status = "UNDER_REVIEW"]
         /\ Settle(r, i, Open(i))
    /\ Goto(r, "audit")
    /\ UNCHANGED <<lists, slot, lock, crossed>>

(* verifications.find over the rows, newest first; 0 if none is open. *)
Latest(i, n) ==
    \/ Open(i) = {} /\ n = 0
    \/ n \in Open(i) /\ \A m \in Open(i) : m <= n

ReadForReview(r, i) ==
    /\ "review" \in Ops
    /\ req[r] = Idle
    /\ profile[i] # None
    /\ \E n \in 0 .. MaxFiled :
         /\ Latest(i, n)
         /\ req' = [req EXCEPT ![r] = [pc |-> "decide", op |-> "review", owner |-> None,
                                       of |-> i, in |-> None, seen |-> n]]
    /\ overtaken' = overtaken \ {r}
    /\ UNCHANGED <<rows, lock, raced, crossed>>

Decide(r) ==
    /\ req[r].pc = "decide"
    /\ Free(r)
    /\ req[r].seen = 0 => Len(filed[req[r].of]) < MaxFiled
    /\ \E v \in Decided :
         LET i == req[r].of IN
         /\ filed' = [filed EXCEPT
                ![i] = IF req[r].seen = 0 THEN Append(@, v) ELSE [@ EXCEPT ![req[r].seen] = v]]
         /\ profile' = [profile EXCEPT ![i].status = v, ![i].active = v # "SUSPENDED"]
         /\ Settle(r, i, Open(i) \ {req[r].seen})
    /\ Goto(r, "audit")
    /\ UNCHANGED <<lists, slot, lock, crossed>>

-----------------------------------------------------------------------------
(***************************************************************************)
(* Availability.  A slot keeps its two ends as strings HH:mm, which sort   *)
(* like the times they stand for.                                          *)
(***************************************************************************)
Forward(from, to) == from < to

InsertSlot(r) ==
    /\ req[r].pc = "insert"
    /\ \E a \in Slots, from, to \in Times :
         /\ slot[a] = None
         /\ \A q \in Requests : req[q].seen # a
         /\ Forward(from, to)
         /\ slot' = [slot EXCEPT ![a] = [of |-> req[r].of, from |-> from, to |-> to]]
    /\ Goto(r, "audit")
    /\ UNCHANGED <<profile, lists, filed, lock, history>>

Given(new, old) == IF new = None THEN old ELSE new

(* Mutant of ReadSlot: only the ends the client sent are compared. *)
ReadSlotGivenOnly(r) ==
    /\ req[r].pc = "slot"
    /\ \E a \in Slots, from, to \in Times \cup {None} :
         /\ slot[a] # None
         /\ slot[a].of = req[r].of
         /\ from # None /\ to # None => Forward(from, to)
         /\ req' = [req EXCEPT
                ![r].pc = IF req[r].op = "changeSlot" THEN "writeSlot" ELSE "removeSlot",
                ![r].in = [from |-> from, to |-> to], ![r].seen = a]
    /\ overtaken' = overtaken \ {r}
    /\ UNCHANGED <<rows, lock, raced, crossed>>

(* updateMine merges what the client sent with what it reads and compares. *)
ReadSlot(r) ==
    /\ req[r].pc = "slot"
    /\ \E a \in Slots, from, to \in Times \cup {None} :
         /\ slot[a] # None
         /\ slot[a].of = req[r].of
         /\ IF req[r].op = "changeSlot"
            THEN Forward(Given(from, slot[a].from), Given(to, slot[a].to))
            ELSE from = None /\ to = None
         /\ req' = [req EXCEPT
                ![r].pc = IF req[r].op = "changeSlot" THEN "writeSlot" ELSE "removeSlot",
                ![r].in = [from |-> from, to |-> to], ![r].seen = a]
    /\ overtaken' = overtaken \ {r}
    /\ UNCHANGED <<rows, lock, raced, crossed>>

SlotReaders(r, a) == {q \in Requests \ {r} : req[q].pc = "writeSlot" /\ req[q].seen = a}

(* Only the ends that were sent are written. *)
WriteSlot(r) ==
    /\ req[r].pc = "writeSlot"
    /\ LET a == req[r].seen IN
         /\ slot[a] # None
         /\ slot' = [slot EXCEPT ![a].from = Given(req[r].in.from, @),
                                 ![a].to = Given(req[r].in.to, @)]
         /\ overtaken' = overtaken \cup SlotReaders(r, a)
         /\ crossed' = IF r \in overtaken /\ None \in {req[r].in.from, req[r].in.to}
                       THEN crossed \cup {a} ELSE crossed \ {a}
    /\ req' = [req EXCEPT ![r].pc = "audit", ![r].in = None, ![r].seen = None]
    /\ UNCHANGED <<profile, lists, filed, lock, raced>>

RemoveSlot(r) ==
    /\ req[r].pc = "removeSlot"
    /\ slot[req[r].seen] # None
    /\ slot' = [slot EXCEPT ![req[r].seen] = None]
    /\ crossed' = crossed \ {req[r].seen}
    /\ req' = [req EXCEPT ![r].pc = "audit", ![r].in = None, ![r].seen = None]
    /\ UNCHANGED <<profile, lists, filed, lock, overtaken, raced>>

-----------------------------------------------------------------------------
(* The audit row is written and the answer sent. *)
Finish(r) ==
    /\ req[r].pc = "audit"
    /\ req' = [req EXCEPT ![r] = Idle]
    /\ UNCHANGED <<rows, lock, history>>

(* A call throws: the request ends where it is and its transaction, if one *)
(* is open, is rolled back.  The unique key, a slot that is gone, a failed *)
(* audit row and a check that refuses are such ends too.                   *)
Fail(r) ==
    /\ req[r].pc # "idle"
    /\ req' = [req EXCEPT ![r] = Idle]
    /\ lock' = [i \in Ids |-> IF lock[i] = r THEN None ELSE lock[i]]
    /\ UNCHANGED <<rows, history>>

Step(r) ==
    \/ \E op \in OwnOps, u \in Owners : ReadProfile(r, op, u) \/ ReadNone(r, op, u)
    \/ CreateProfile(r)
    \/ LockRow(r) \/ FindLists(r) \/ DeleteLists(r) \/ Commit(r)
    \/ File(r)
    \/ \E i \in Ids : ReadForReview(r, i)
    \/ Decide(r)
    \/ InsertSlot(r) \/ ReadSlot(r) \/ WriteSlot(r) \/ RemoveSlot(r)
    \/ Finish(r) \/ Fail(r)

Next == \E r \in Requests : Step(r)

Spec == Init /\ [][Next]_vars

-----------------------------------------------------------------------------
(* However many first calls of one user overlap (getOrCreateMe, line 61),  *)
(* its tenant has one profile of it.                                       *)
OneProfileEach ==
    \A i, j \in Ids :
        profile[i] # None /\ profile[j] # None /\ profile[i].owner = profile[j].owner => i = j

(* A list is made of the rows of one update, however many updates overlap: *)
(* it replaces the rows it finds (lines 171 to 216), and while it holds the *)
(* row no other does.  The exception: updates that give lists only hold    *)
(* nothing (line 158), so rows of theirs may stay beside those of another. *)
ListsReplacedWhole ==
    \A i \in Ids, k \in Kinds : \A x, y \in lists[i][k] :
        x.columns /\ y.columns => x = y

(* Whoever is under review has an open request, the newest one, so that a  *)
(* review finds what it is about (line 107); and unless a submission or a  *)
(* decision rested on a stale read, only who is under review has one.      *)
OpenWhileUnderReview ==
    \A i \in Ids : profile[i] # None =>
        /\ profile[i].status = "UNDER_REVIEW" => Len(filed[i]) \in Open(i)
        /\ i \notin raced => Open(i) = IF profile[i].status = "UNDER_REVIEW"
                                       THEN {Len(filed[i])} ELSE {}

(* "startTime must be before endTime" (provider.service.ts:249) holds of   *)
(* every stored slot, except one whose last update sent one end only and   *)
(* had read the other before a second update replaced it.                  *)
ForwardUnlessOvertaken ==
    \A a \in Slots : slot[a] # None /\ a \notin crossed => Forward(slot[a].from, slot[a].to)
=============================================================================
