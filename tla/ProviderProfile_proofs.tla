----------------------- MODULE ProviderProfile_proofs -----------------------
(***************************************************************************)
(* Theorems about ProviderProfile, for any owners, ids, lists, slots and   *)
(* any number of requests at the same time.                                *)
(***************************************************************************)
EXTENDS ProviderProfile, TLAPS

(* Profiles are never deleted: whoever has found or created one may rely on it. *)
HasProfile ==
    \A r \in Requests : req[r].pc \notin {"idle", "create"} => profile[req[r].of] # None

(* What a request is at each of its calls. *)
LEMMA Shapes ==
    ASSUME TypeOK, NEW r \in Requests
    PROVE  /\ req[r].pc = "create" => req[r] \in First
           /\ req[r].pc \in {"lock", "file", "insert", "slot"} => req[r] \in Later
           /\ req[r].pc = "replace" => req[r] \in Locked
           /\ req[r].pc \in {"delete", "commit"} => req[r] \in Replacing
           /\ req[r].pc \in {"writeSlot", "removeSlot"} => req[r] \in AtSlot
           /\ req[r].pc = "decide" => req[r] \in Review
           /\ req[r].pc = "audit" => req[r] \in Later \cup Review
           /\ req[r].pc = "idle" => req[r] = Idle
           /\ req[r].pc \in {"idle", "create", "lock", "file", "insert", "slot", "replace",
                             "delete", "commit", "writeSlot", "removeSlot", "decide", "audit"}
           /\ req[r].pc \notin {"idle", "create"} => req[r].of \in Ids
<1>1. req[r] \in Request
  BY DEF TypeOK
<1>. QED  BY <1>1 DEF Request, Idle, First, Later, Locked, Replacing, AtSlot, Review

LEMMA InitType == Init => TypeOK
<1>1. ASSUME Init PROVE \A i \in Ids : filed[i] = <<>>
  BY <1>1 DEF Init
<1>2. Idle \in Request
  BY DEF Request
<1>. QED  BY <1>1, <1>2, ProviderAssumption DEF Init, TypeOK

LEMMA AfterTyped ==
    ASSUME NEW op \in OwnOps
    PROVE  After(op) \in {"lock", "file", "insert", "slot", "audit"}
BY DEF After, OwnOps

(* Types are kept request by request. *)
LEMMA RequestTyped ==
    ASSUME TypeOK, NEW r \in Requests, NEW x \in Request, req' = [req EXCEPT ![r] = x]
    PROVE  req' \in [Requests -> Request]
BY DEF TypeOK

LEMMA ReadTypes ==
    ASSUME TypeOK, NEW r \in Requests,
           \/ \E op \in OwnOps, u \in Owners : ReadProfile(r, op, u) \/ ReadNone(r, op, u)
           \/ \E i \in Ids : ReadForReview(r, i)
    PROVE  TypeOK'
<1>1. ASSUME NEW op \in OwnOps, NEW u \in Owners, ReadProfile(r, op, u)
      PROVE  TypeOK'
  <2>1. PICK i \in Ids :
          req' = [req EXCEPT ![r] = [pc |-> After(op), op |-> op, owner |-> u, of |-> i,
                                     in |-> None, seen |-> None]]
    BY <1>1 DEF ReadProfile, Target, Own
  <2>2. [pc |-> After(op), op |-> op, owner |-> u, of |-> i, in |-> None, seen |-> None] \in Request
    BY AfterTyped DEF Request, Later
  <2>3. req' \in [Requests -> Request]
    BY <2>1, <2>2, RequestTyped
  <2>. QED  BY <1>1, <2>3 DEF TypeOK, ReadProfile, rows
<1>2. ASSUME NEW op \in OwnOps, NEW u \in Owners, ReadNone(r, op, u)
      PROVE  TypeOK'
  <2>1. [pc |-> "create", op |-> op, owner |-> u, of |-> None, in |-> None, seen |-> None] \in Request
    BY DEF Request, First
  <2>2. req' \in [Requests -> Request]
    BY <1>2, <2>1, RequestTyped DEF ReadNone
  <2>. QED  BY <1>2, <2>2 DEF TypeOK, ReadNone, rows
<1>3. ASSUME NEW i \in Ids, ReadForReview(r, i)
      PROVE  TypeOK'
  <2>1. PICK n \in 0 .. MaxFiled :
          req' = [req EXCEPT ![r] = [pc |-> "decide", op |-> "review", owner |-> None,
                                     of |-> i, in |-> None, seen |-> n]]
    BY <1>3 DEF ReadForReview
  <2>2. [pc |-> "decide", op |-> "review", owner |-> None, of |-> i, in |-> None,
         seen |-> n] \in Request
    BY DEF Request, Review
  <2>3. req' \in [Requests -> Request]
    BY <2>1, <2>2, RequestTyped
  <2>. QED  BY <1>3, <2>3 DEF TypeOK, ReadForReview, rows
<1>. QED  BY <1>1, <1>2, <1>3

LEMMA CreateTypes ==
    ASSUME TypeOK, NEW r \in Requests, CreateProfile(r)
    PROVE  TypeOK'
<1>1. req[r] \in First
  BY Shapes DEF CreateProfile
<1>2. PICK i \in Ids :
        /\ profile' = [profile EXCEPT
              ![i] = [owner |-> req[r].owner, status |-> "PENDING", active |-> TRUE]]
        /\ req' = [req EXCEPT ![r].pc = After(req[r].op), ![r].of = i]
  BY DEF CreateProfile
<1>3. [owner |-> req[r].owner, status |-> "PENDING", active |-> TRUE] \in Profile
  BY <1>1 DEF First, Profile, Status
<1>4. [req[r] EXCEPT !.pc = After(req[r].op), !.of = i] \in Later
  BY <1>1, AfterTyped DEF First, Later
<1>5. req' = [req EXCEPT ![r] = [req[r] EXCEPT !.pc = After(req[r].op), !.of = i]]
  BY <1>2 DEF TypeOK
<1>6. req' \in [Requests -> Request]
  BY <1>4, <1>5, RequestTyped DEF Request
<1>7. profile' \in [Ids -> Profile \cup {None}]
  BY <1>2, <1>3 DEF TypeOK
<1>. QED  BY <1>6, <1>7 DEF TypeOK, CreateProfile, history

(* What a commit makes of the lists: x stands for the rows it inserts. *)
CommitsLists(r, x) ==
    /\ x.columns = req[r].in.columns
    /\ lists' = [lists EXCEPT ![req[r].of] = [k \in Kinds |->
           (lists[req[r].of][k] \ req[r].seen[k])
           \cup IF req[r].in.lists[k] = "replace" THEN {x} ELSE {}]]

LEMMA CommitLists ==
    ASSUME TypeOK, NEW r \in Requests, Commit(r)
    PROVE  \E x \in Inserted : CommitsLists(r, x)
<1>1. req[r] \in Replacing
  BY Shapes DEF Commit
<1>2. PICK b \in Batches :
        lists' = [lists EXCEPT ![req[r].of] = [k \in Kinds |->
           (lists[req[r].of][k] \ req[r].seen[k])
           \cup IF req[r].in.lists[k] = "replace"
                THEN {[batch |-> b, columns |-> req[r].in.columns]} ELSE {}]]
  BY DEF Commit
<1>3. [batch |-> b, columns |-> req[r].in.columns] \in Inserted
  BY <1>1 DEF Replacing, Form, Inserted
<1>4. CommitsLists(r, [batch |-> b, columns |-> req[r].in.columns])
  BY <1>2 DEF CommitsLists
<1>. QED  BY <1>3, <1>4

(* A commit writes no column of the profile but isActive. *)
LEMMA CommitProfile ==
    ASSUME TypeOK, HasProfile, NEW r \in Requests, Commit(r)
    PROVE  /\ profile' \in [Ids -> Profile \cup {None}]
           /\ \A j \in Ids \ {req[r].of} : profile'[j] = profile[j]
           /\ profile'[req[r].of] \in Profile
           /\ profile'[req[r].of].owner = profile[req[r].of].owner
           /\ profile'[req[r].of].status = profile[req[r].of].status
<1>1. req[r].of \in Ids /\ profile[req[r].of] \in Profile
  BY Shapes DEF Commit, Replacing, HasProfile, TypeOK
<1>2. CASE profile' = profile
  BY <1>1, <1>2 DEF TypeOK
<1>3. CASE profile' # profile
  <2>1. PICK b \in BOOLEAN : profile' = [profile EXCEPT ![req[r].of].active = b]
    BY <1>3 DEF Commit
  <2>. QED  BY <1>1, <2>1 DEF TypeOK, Profile
<1>. QED  BY <1>2, <1>3

LEMMA UpdateTypes ==
    ASSUME TypeOK, HasProfile, NEW r \in Requests,
           LockRow(r) \/ FindLists(r) \/ DeleteLists(r) \/ Commit(r)
    PROVE  TypeOK'
<1>1. CASE LockRow(r)
  <2>1. req[r] \in Later
    BY <1>1, Shapes DEF LockRow
  <2>2. PICK form \in Form :
          /\ req' = [req EXCEPT ![r].pc = "replace", ![r].in = form]
          /\ \/ lock' = [lock EXCEPT ![req[r].of] = r]
             \/ lock' = lock
    BY <1>1 DEF LockRow
  <2>3. [req[r] EXCEPT !.pc = "replace", !.in = form] \in Locked
    BY <2>1 DEF Later, Locked
  <2>4. req' = [req EXCEPT ![r] = [req[r] EXCEPT !.pc = "replace", !.in = form]]
    BY <2>2 DEF TypeOK
  <2>5. req' \in [Requests -> Request]
    BY <2>3, <2>4, RequestTyped DEF Request
  <2>6. lock' \in [Ids -> Requests \cup {None}]
    BY <2>2 DEF TypeOK
  <2>. QED  BY <1>1, <2>5, <2>6 DEF TypeOK, LockRow, rows, history
<1>2. CASE FindLists(r)
  <2>1. req[r] \in Locked
    BY <1>2, Shapes DEF FindLists
  <2> DEFINE gone == [k \in Kinds |-> IF req[r].in.lists[k] = "keep" THEN {}
                                      ELSE lists[req[r].of][k]]
  <2>2. gone \in [Kinds -> SUBSET Inserted]
    BY <2>1 DEF Locked, TypeOK
  <2>3. [req[r] EXCEPT !.pc = "delete", !.seen = gone] \in Replacing
    BY <2>1, <2>2 DEF Locked, Replacing
  <2>4. req' = [req EXCEPT ![r] = [req[r] EXCEPT !.pc = "delete", !.seen = gone]]
    BY <1>2 DEF TypeOK, FindLists
  <2>5. req' \in [Requests -> Request]
    BY <2>3, <2>4, RequestTyped DEF Request
  <2>. QED  BY <1>2, <2>5 DEF TypeOK, FindLists, rows, history
<1>4. CASE DeleteLists(r)
  <2>1. req[r] \in Replacing
    BY <1>4, Shapes DEF DeleteLists
  <2>2. [req[r] EXCEPT !.pc = "commit"] \in Replacing
    BY <2>1 DEF Replacing
  <2>3. req' = [req EXCEPT ![r] = [req[r] EXCEPT !.pc = "commit"]]
    BY <1>4 DEF TypeOK, DeleteLists, Goto
  <2>4. req' \in [Requests -> Request]
    BY <2>2, <2>3, RequestTyped DEF Request
  <2>. QED  BY <1>4, <2>4 DEF TypeOK, DeleteLists, rows, history
<1>3. CASE Commit(r)
  <2>1. req[r] \in Replacing
    BY <1>3, Shapes DEF Commit
  <2>2. [req[r] EXCEPT !.pc = "audit", !.in = None, !.seen = None] \in Later
    BY <2>1 DEF Replacing, Later
  <2>3. req' = [req EXCEPT ![r] = [req[r] EXCEPT !.pc = "audit", !.in = None, !.seen = None]]
    BY <1>3 DEF TypeOK, Commit
  <2>4. req' \in [Requests -> Request]
    BY <2>2, <2>3, RequestTyped DEF Request
  <2>5. lists' \in [Ids -> [Kinds -> SUBSET Inserted]]
    <3>1. PICK x \in Inserted : CommitsLists(r, x)
      BY <1>3, CommitLists
    <3> DEFINE new == [k \in Kinds |-> (lists[req[r].of][k] \ req[r].seen[k])
                          \cup IF req[r].in.lists[k] = "replace" THEN {x} ELSE {}]
    <3>2. new \in [Kinds -> SUBSET Inserted]
      BY <2>1 DEF TypeOK, Replacing
    <3>3. lists' = [lists EXCEPT ![req[r].of] = new]
      BY <3>1 DEF CommitsLists
    <3> HIDE DEF new
    <3>. QED  BY <3>2, <3>3 DEF TypeOK
  <2>7. profile' \in [Ids -> Profile \cup {None}]
    BY <1>3, CommitProfile
  <2>8. lock' \in [Ids -> Requests \cup {None}]
    BY <1>3 DEF TypeOK, Commit
  <2>. QED  BY <1>3, <2>4, <2>5, <2>7, <2>8 DEF TypeOK, Commit, history
<1>. QED  BY <1>1, <1>2, <1>3, <1>4

(* A sequence with one element replaced is a sequence of the same length. *)
LEMMA ExceptSeq ==
    ASSUME NEW s \in Seq(Status), NEW n, NEW v \in Status
    PROVE  /\ [s EXCEPT ![n] = v] \in Seq(Status)
           /\ Len([s EXCEPT ![n] = v]) = Len(s)
           /\ \A m \in 1 .. Len(s) : [s EXCEPT ![n] = v][m] = IF m = n THEN v ELSE s[m]
<1> DEFINE t == [s EXCEPT ![n] = v]
<1>1. s \in [1 .. Len(s) -> Status] /\ Len(s) \in Nat
  OBVIOUS
<1>2. t \in [1 .. Len(s) -> Status] /\ \A m \in 1 .. Len(s) : t[m] = IF m = n THEN v ELSE s[m]
  BY <1>1
<1> HIDE DEF t
<1>3. t \in Seq(Status) /\ Len(t) = Len(s)
  BY <1>1, <1>2
<1>. QED  BY <1>2, <1>3 DEF t

LEMMA VerificationTypes ==
    ASSUME TypeOK, HasProfile, NEW r \in Requests, File(r) \/ Decide(r)
    PROVE  TypeOK'
<1>1. CASE File(r)
  <2> DEFINE i == req[r].of
  <2>1. req[r] \in Later /\ i \in Ids /\ profile[i] # None
    BY <1>1, Shapes DEF File, Later, HasProfile
  <2>2. [req[r] EXCEPT !.pc = "audit"] \in Later
    BY <2>1 DEF Later
  <2>3. req' = [req EXCEPT ![r] = [req[r] EXCEPT !.pc = "audit"]]
    BY <1>1 DEF TypeOK, File, Goto
  <2>4. req' \in [Requests -> Request]
    BY <2>2, <2>3, RequestTyped DEF Request
  <2>5. profile' \in [Ids -> Profile \cup {None}]
    BY <1>1, <2>1 DEF TypeOK, File, Profile, Status
  <2>6. filed[i] \in Seq(Status) /\ Len(filed[i]) < MaxFiled
    BY <1>1, <2>1 DEF TypeOK, File
  <2>7. Append(filed[i], "UNDER_REVIEW") \in Seq(Status)
        /\ Len(Append(filed[i], "UNDER_REVIEW")) <= MaxFiled
    BY <2>6, ProviderAssumption DEF Status
  <2>8. filed' = [filed EXCEPT ![i] = Append(filed[i], "UNDER_REVIEW")]
    BY <1>1 DEF File
  <2>9. filed' \in [Ids -> Seq(Status)] /\ \A j \in Ids : Len(filed'[j]) <= MaxFiled
    BY <2>1, <2>7, <2>8 DEF TypeOK
  <2>10. overtaken' \subseteq Requests /\ raced' \subseteq Ids
    BY <1>1, <2>1 DEF TypeOK, File, Settle, Readers
  <2>. QED  BY <1>1, <2>4, <2>5, <2>9, <2>10 DEF TypeOK, File
<1>2. CASE Decide(r)
  <2> DEFINE i == req[r].of
             n == req[r].seen
  <2>1. req[r] \in Review /\ i \in Ids /\ profile[i] # None /\ n \in 0 .. MaxFiled
    BY <1>2, Shapes DEF Decide, Review, HasProfile
  <2>2. [req[r] EXCEPT !.pc = "audit"] \in Review
    BY <2>1 DEF Review
  <2>3. req' = [req EXCEPT ![r] = [req[r] EXCEPT !.pc = "audit"]]
    BY <1>2 DEF TypeOK, Decide, Goto
  <2>4. req' \in [Requests -> Request]
    BY <2>2, <2>3, RequestTyped DEF Request
  <2>5. PICK v \in Decided :
          /\ filed' = [filed EXCEPT
                ![i] = IF n = 0 THEN Append(@, v) ELSE [@ EXCEPT ![n] = v]]
          /\ profile' = [profile EXCEPT ![i].status = v, ![i].active = v # "SUSPENDED"]
          /\ Settle(r, i, Open(i) \ {n})
    BY <1>2 DEF Decide
  <2>6. profile' \in [Ids -> Profile \cup {None}]
    <3>1. \E b \in BOOLEAN : profile' = [profile EXCEPT ![i].status = v, ![i].active = b]
      BY <2>5
    <3>2. v \in Status
      BY DEF Status
    <3>. QED  BY <2>1, <3>1, <3>2 DEF TypeOK, Profile
  <2>7. filed[i] \in Seq(Status) /\ Len(filed[i]) <= MaxFiled /\ v \in Status
    BY <2>1 DEF TypeOK, Status
  <2>8. ASSUME n = 0
        PROVE  /\ Append(filed[i], v) \in Seq(Status)
               /\ Len(Append(filed[i], v)) <= MaxFiled
    <3>1. Len(filed[i]) < MaxFiled
      BY <1>2, <2>8 DEF Decide
    <3>2. Len(Append(filed[i], v)) = Len(filed[i]) + 1 /\ Len(filed[i]) \in Nat
      BY <2>7
    <3>. QED  BY <2>7, <3>1, <3>2, ProviderAssumption
  <2>9. [filed[i] EXCEPT ![n] = v] \in Seq(Status)
        /\ Len([filed[i] EXCEPT ![n] = v]) = Len(filed[i])
    BY <2>7, ExceptSeq
  <2> DEFINE new == IF n = 0 THEN Append(filed[i], v) ELSE [filed[i] EXCEPT ![n] = v]
  <2>10. filed' \in [Ids -> Seq(Status)] /\ \A j \in Ids : Len(filed'[j]) <= MaxFiled
    <3>1. new \in Seq(Status) /\ Len(new) <= MaxFiled
      BY <2>7, <2>8, <2>9
    <3>2. filed' = [filed EXCEPT ![i] = new]
      BY <2>5
    <3> HIDE DEF new, i
    <3>3. i \in Ids /\ \A j \in Ids : filed'[j] = IF j = i THEN new ELSE filed[j]
      BY <2>1, <3>2 DEF TypeOK
    <3>. QED  BY <3>1, <3>2, <3>3 DEF TypeOK
  <2>11. overtaken' \subseteq Requests /\ raced' \subseteq Ids
    BY <2>1, <2>5 DEF TypeOK, Settle, Readers
  <2>. QED  BY <1>2, <2>4, <2>6, <2>10, <2>11 DEF TypeOK, Decide
<1>. QED  BY <1>1, <1>2

LEMMA SlotTypes ==
    ASSUME TypeOK, NEW r \in Requests,
           InsertSlot(r) \/ ReadSlot(r) \/ WriteSlot(r) \/ RemoveSlot(r)
    PROVE  TypeOK'
<1>1. CASE InsertSlot(r)
  <2>1. req[r] \in Later
    BY <1>1, Shapes DEF InsertSlot
  <2>2. [req[r] EXCEPT !.pc = "audit"] \in Later
    BY <2>1 DEF Later
  <2>3. req' = [req EXCEPT ![r] = [req[r] EXCEPT !.pc = "audit"]]
    BY <1>1 DEF TypeOK, InsertSlot, Goto
  <2>4. req' \in [Requests -> Request]
    BY <2>2, <2>3, RequestTyped DEF Request
  <2>5. slot' \in [Slots -> Interval \cup {None}]
    BY <1>1, <2>1 DEF TypeOK, InsertSlot, Interval, Later
  <2>. QED  BY <1>1, <2>4, <2>5 DEF TypeOK, InsertSlot, history
<1>2. CASE ReadSlot(r)
  <2>1. req[r] \in Later
    BY <1>2, Shapes DEF ReadSlot
  <2> DEFINE pc == IF req[r].op = "changeSlot" THEN "writeSlot" ELSE "removeSlot"
  <2>2. PICK a \in Slots, from \in Times \cup {None}, to \in Times \cup {None} :
          req' = [req EXCEPT ![r].pc = pc, ![r].in = [from |-> from, to |-> to], ![r].seen = a]
    BY <1>2 DEF ReadSlot
  <2>3. [req[r] EXCEPT !.pc = pc, !.in = [from |-> from, to |-> to], !.seen = a] \in AtSlot
    BY <2>1 DEF Later, AtSlot
  <2>4. req' = [req EXCEPT ![r] =
                  [req[r] EXCEPT !.pc = pc, !.in = [from |-> from, to |-> to], !.seen = a]]
    BY <2>2 DEF TypeOK
  <2>5. req' \in [Requests -> Request]
    BY <2>3, <2>4, RequestTyped DEF Request
  <2>. QED  BY <1>2, <2>5 DEF TypeOK, ReadSlot, rows
<1>3. ASSUME WriteSlot(r) \/ RemoveSlot(r)
      PROVE  TypeOK'
  <2>1. req[r] \in AtSlot /\ slot[req[r].seen] # None
    BY <1>3, Shapes DEF WriteSlot, RemoveSlot
  <2>2. [req[r] EXCEPT !.pc = "audit", !.in = None, !.seen = None] \in Later
    BY <2>1 DEF AtSlot, Later
  <2>3. req' = [req EXCEPT ![r] = [req[r] EXCEPT !.pc = "audit", !.in = None, !.seen = None]]
    BY <1>3 DEF TypeOK, WriteSlot, RemoveSlot
  <2>4. req' \in [Requests -> Request]
    BY <2>2, <2>3, RequestTyped DEF Request
  <2>5. slot' \in [Slots -> Interval \cup {None}]
    <3>1. CASE WriteSlot(r)
      <4>1. slot[req[r].seen] \in Interval
        BY <2>1 DEF TypeOK, AtSlot
      <4>. QED  BY <2>1, <3>1, <4>1 DEF TypeOK, WriteSlot, Given, AtSlot, Interval
    <3>2. CASE RemoveSlot(r)
      BY <2>1, <3>2 DEF TypeOK, RemoveSlot
    <3>. QED  BY <1>3, <3>1, <3>2
  <2>6. overtaken' \subseteq Requests /\ crossed' \subseteq Slots
    BY <1>3, <2>1 DEF TypeOK, WriteSlot, RemoveSlot, SlotReaders, AtSlot
  <2>. QED  BY <1>3, <2>4, <2>5, <2>6 DEF TypeOK, WriteSlot, RemoveSlot
<1>. QED  BY <1>1, <1>2, <1>3

LEMMA EndTypes ==
    ASSUME TypeOK, NEW r \in Requests, Finish(r) \/ Fail(r)
    PROVE  TypeOK'
<1>1. req' \in [Requests -> Request]
  BY RequestTyped DEF Finish, Fail, Request
<1>2. lock' \in [Ids -> Requests \cup {None}]
  BY DEF TypeOK, Finish, Fail
<1>. QED  BY <1>1, <1>2 DEF TypeOK, Finish, Fail, rows, history

(* A step changes the request in one slot. *)
LEMMA Others ==
    ASSUME TypeOK, NEW r \in Requests, Step(r), NEW q \in Requests \ {r}
    PROVE  req'[q] = req[q]
BY DEF TypeOK, Step, ReadProfile, ReadNone, CreateProfile, LockRow, FindLists, DeleteLists, Commit, File,
   ReadForReview, Decide, InsertSlot, ReadSlot, WriteSlot, RemoveSlot, Finish, Fail, Goto

(* The call a request has before it is determined by the one it has made. *)
LEMMA Flow ==
    ASSUME TypeOK, NEW r \in Requests, Step(r)
    PROVE  /\ req'[r].pc = "replace" => LockRow(r)
           /\ req'[r].pc = "delete" => FindLists(r)
           /\ req'[r].pc = "commit" => DeleteLists(r)
           /\ req'[r].pc = "file" =>
                CreateProfile(r) \/ \E op \in OwnOps, u \in Owners : ReadProfile(r, op, u)
           /\ req'[r].pc = "decide" => \E i \in Ids : ReadForReview(r, i)
           /\ req'[r].pc = "writeSlot" => ReadSlot(r)
<1>1. ASSUME NEW op \in OwnOps, NEW u \in Owners, ReadProfile(r, op, u)
      PROVE  req'[r].pc \in {"lock", "file", "insert", "slot", "audit"}
  BY <1>1, AfterTyped DEF TypeOK, ReadProfile
<1>2. ASSUME NEW op \in OwnOps, NEW u \in Owners, ReadNone(r, op, u)
      PROVE  req'[r].pc = "create"
  BY <1>2 DEF TypeOK, ReadNone
<1>3. ASSUME NEW i \in Ids, ReadForReview(r, i)
      PROVE  req'[r].pc = "decide"
  BY <1>3 DEF TypeOK, ReadForReview
<1>4. CASE CreateProfile(r)
  <2>1. req[r] \in First
    BY <1>4, Shapes DEF CreateProfile
  <2>2. PICK i \in Ids : req' = [req EXCEPT ![r].pc = After(req[r].op), ![r].of = i]
    BY <1>4 DEF CreateProfile
  <2>3. req'[r].pc = After(req[r].op)
    BY <2>1, <2>2 DEF TypeOK, First
  <2>4. After(req[r].op) \in {"lock", "file", "insert", "slot", "audit"}
    BY <2>1, AfterTyped DEF First
  <2>. QED  BY <1>4, <2>3, <2>4
<1>5. CASE LockRow(r)
  <2>1. req[r] \in Later
    BY <1>5, Shapes DEF LockRow
  <2>2. req'[r].pc = "replace"
    BY <1>5, <2>1 DEF TypeOK, LockRow, Later
  <2>. QED  BY <1>5, <2>2
<1>6. CASE FindLists(r)
  <2>1. req[r] \in Locked
    BY <1>6, Shapes DEF FindLists
  <2>2. req'[r].pc = "delete"
    BY <1>6, <2>1 DEF TypeOK, FindLists, Locked
  <2>. QED  BY <1>6, <2>2
<1>13. CASE DeleteLists(r)
  <2>1. req[r] \in Replacing
    BY <1>13, Shapes DEF DeleteLists
  <2>2. req'[r].pc = "commit"
    BY <1>13, <2>1 DEF TypeOK, DeleteLists, Goto, Replacing
  <2>. QED  BY <1>13, <2>2
<1>7. CASE Commit(r)
  <2>1. req[r] \in Replacing
    BY <1>7, Shapes DEF Commit
  <2>2. req'[r].pc = "audit"
    BY <1>7, <2>1 DEF TypeOK, Commit, Replacing
  <2>. QED  BY <2>2
<1>8. CASE File(r) \/ InsertSlot(r)
  <2>1. req[r] \in Later
    BY <1>8, Shapes DEF File, InsertSlot
  <2>2. req'[r].pc = "audit"
    BY <1>8, <2>1 DEF TypeOK, File, InsertSlot, Goto, Later
  <2>. QED  BY <2>2
<1>9. CASE Decide(r)
  <2>1. req[r] \in Review
    BY <1>9, Shapes DEF Decide
  <2>2. req'[r].pc = "audit"
    BY <1>9, <2>1 DEF TypeOK, Decide, Goto, Review
  <2>. QED  BY <2>2
<1>10. CASE ReadSlot(r)
  <2>1. req[r] \in Later
    BY <1>10, Shapes DEF ReadSlot
  <2>2. PICK a \in Slots, from \in Times \cup {None}, to \in Times \cup {None} :
          req' = [req EXCEPT
              ![r].pc = IF req[r].op = "changeSlot" THEN "writeSlot" ELSE "removeSlot",
              ![r].in = [from |-> from, to |-> to], ![r].seen = a]
    BY <1>10 DEF ReadSlot
  <2>3. req'[r].pc \in {"writeSlot", "removeSlot"}
    BY <2>1, <2>2 DEF TypeOK, Later
  <2>. QED  BY <1>10, <2>3
<1>11. CASE WriteSlot(r) \/ RemoveSlot(r)
  <2>1. req[r] \in AtSlot
    BY <1>11, Shapes DEF WriteSlot, RemoveSlot
  <2>2. req'[r].pc = "audit"
    BY <1>11, <2>1 DEF TypeOK, WriteSlot, RemoveSlot, AtSlot
  <2>. QED  BY <2>2
<1>12. CASE Finish(r) \/ Fail(r)
  <2>1. req'[r].pc = "idle"
    BY <1>12 DEF TypeOK, Finish, Fail, Idle
  <2>. QED  BY <2>1
<1>. QED  BY <1>1, <1>2, <1>3, <1>4, <1>5, <1>6, <1>7, <1>8, <1>9, <1>10, <1>11,
          <1>12, <1>13 DEF Step

LEMMA OfStays ==
    ASSUME TypeOK, NEW r \in Requests,
           \/ LockRow(r) \/ FindLists(r) \/ DeleteLists(r) \/ Commit(r)
           \/ File(r) \/ Decide(r)
           \/ InsertSlot(r) \/ ReadSlot(r) \/ WriteSlot(r) \/ RemoveSlot(r)
    PROVE  req[r].pc \notin {"idle", "create"} /\ req'[r].of = req[r].of
<1>1. CASE LockRow(r) \/ File(r) \/ InsertSlot(r) \/ ReadSlot(r)
  <2>1. req[r].pc \in {"lock", "file", "insert", "slot"} /\ req[r] \in Later
    BY <1>1, Shapes DEF LockRow, File, InsertSlot, ReadSlot
  <2>2. CASE ReadSlot(r)
    <3>1. PICK a \in Slots, from \in Times \cup {None}, to \in Times \cup {None} :
            req' = [req EXCEPT
                ![r].pc = IF req[r].op = "changeSlot" THEN "writeSlot" ELSE "removeSlot",
                ![r].in = [from |-> from, to |-> to], ![r].seen = a]
      BY <2>2 DEF ReadSlot
    <3>. QED  BY <2>1, <3>1 DEF TypeOK, Later
  <2>. QED  BY <1>1, <2>1, <2>2 DEF TypeOK, LockRow, File, InsertSlot, Goto, Later
<1>2. CASE FindLists(r)
  <2>1. req[r].pc = "replace" /\ req[r] \in Locked
    BY <1>2, Shapes DEF FindLists
  <2>. QED  BY <1>2, <2>1 DEF TypeOK, FindLists, Locked
<1>6. CASE DeleteLists(r)
  <2>1. req[r].pc = "delete" /\ req[r] \in Replacing
    BY <1>6, Shapes DEF DeleteLists
  <2>. QED  BY <1>6, <2>1 DEF TypeOK, DeleteLists, Goto, Replacing
<1>3. CASE Commit(r)
  <2>1. req[r].pc = "commit" /\ req[r] \in Replacing
    BY <1>3, Shapes DEF Commit
  <2>. QED  BY <1>3, <2>1 DEF TypeOK, Commit, Replacing
<1>4. CASE WriteSlot(r) \/ RemoveSlot(r)
  <2>1. req[r].pc \in {"writeSlot", "removeSlot"} /\ req[r] \in AtSlot
    BY <1>4, Shapes DEF WriteSlot, RemoveSlot
  <2>. QED  BY <1>4, <2>1 DEF TypeOK, WriteSlot, RemoveSlot, AtSlot
<1>5. CASE Decide(r)
  <2>1. req[r].pc = "decide" /\ req[r] \in Review
    BY <1>5, Shapes DEF Decide
  <2>. QED  BY <1>5, <2>1 DEF TypeOK, Decide, Goto, Review
<1>. QED  BY <1>1, <1>2, <1>3, <1>4, <1>5, <1>6

(* No profile is ever deleted. *)
LEMMA ProfileStays ==
    ASSUME TypeOK, HasProfile, NEW r \in Requests, Step(r), NEW i \in Ids, profile[i] # None
    PROVE  profile'[i] # None
<1>1. CASE CreateProfile(r)
  <2>1. PICK j \in Ids :
          profile' = [profile EXCEPT
              ![j] = [owner |-> req[r].owner, status |-> "PENDING", active |-> TRUE]]
    BY <1>1 DEF CreateProfile
  <2>2. [owner |-> req[r].owner, status |-> "PENDING", active |-> TRUE] \in Profile
    BY <1>1, Shapes DEF CreateProfile, First, Profile, Status
  <2>. QED  BY <2>1, <2>2, ProviderAssumption DEF TypeOK
<1>2. CASE Commit(r) \/ File(r) \/ Decide(r)
  <2>1. req[r].of \in Ids /\ req[r].pc \notin {"idle", "create"}
    BY <1>2, Shapes DEF Commit, File, Decide, Replacing, Later, Review
  <2>2. profile[req[r].of] \in Profile
    BY <2>1 DEF TypeOK, HasProfile
  <2>3. /\ \A j \in Ids \ {req[r].of} : profile'[j] = profile[j]
        /\ profile'[req[r].of] \in [owner : Owners, status : Status, active : BOOLEAN]
    <3>1. CASE Commit(r)
      BY <2>1, <2>2, <3>1, CommitProfile DEF Profile
    <3>2. CASE File(r)
      BY <2>1, <2>2, <3>2 DEF TypeOK, File, Profile, Status
    <3>3. CASE Decide(r)
      <4>1. PICK v \in Status, b \in BOOLEAN :
              profile' = [profile EXCEPT ![req[r].of].status = v, ![req[r].of].active = b]
        BY <3>3 DEF Decide, Status
      <4>. QED  BY <2>1, <2>2, <4>1 DEF TypeOK, Profile
    <3>. QED  BY <1>2, <3>1, <3>2, <3>3
  <2>. QED  BY <2>3, ProviderAssumption DEF Profile
<1>. QED  BY <1>1, <1>2 DEF Step, ReadProfile, ReadNone, LockRow, FindLists, DeleteLists,
     ReadForReview, InsertSlot, ReadSlot, WriteSlot, RemoveSlot, Finish, Fail, rows

LEMMA BaseStep ==
    ASSUME TypeOK, HasProfile, NEW r \in Requests, Step(r)
    PROVE  TypeOK' /\ HasProfile'
<1>1. TypeOK'
  BY ReadTypes, CreateTypes, UpdateTypes, VerificationTypes, SlotTypes, EndTypes DEF Step
<1>2. \A i \in Ids : profile[i] # None => profile'[i] # None
  BY ProfileStays
<1>3. ASSUME NEW q \in Requests, req'[q].pc \notin {"idle", "create"}
      PROVE  profile'[req'[q].of] # None
  <2>1. CASE q # r
    BY <1>2, <1>3, <2>1, Others, Shapes DEF HasProfile
  <2>2. CASE q = r
    <3>1. ASSUME NEW op \in OwnOps, NEW u \in Owners, ReadProfile(r, op, u)
          PROVE  profile'[req'[r].of] # None
      BY <3>1 DEF TypeOK, ReadProfile, Target, Own, rows
    <3>2. ASSUME NEW op \in OwnOps, NEW u \in Owners, ReadNone(r, op, u)
          PROVE  req'[r].pc = "create"
      BY <3>2 DEF TypeOK, ReadNone
    <3>3. ASSUME NEW i \in Ids, ReadForReview(r, i)
          PROVE  profile'[req'[r].of] # None
      BY <3>3 DEF TypeOK, ReadForReview, rows
    <3>4. CASE CreateProfile(r)
      <4>1. PICK i \in Ids :
              /\ profile' = [profile EXCEPT
                    ![i] = [owner |-> req[r].owner, status |-> "PENDING", active |-> TRUE]]
              /\ req' = [req EXCEPT ![r].pc = After(req[r].op), ![r].of = i]
        BY <3>4 DEF CreateProfile
      <4>2. [owner |-> req[r].owner, status |-> "PENDING", active |-> TRUE] \in Profile
        BY <3>4, Shapes DEF CreateProfile, First, Profile, Status
      <4>3. req[r] \in First
        BY <3>4, Shapes DEF CreateProfile
      <4>4. req'[r].of = i
        BY <4>1, <4>3 DEF TypeOK, First
      <4>5. profile'[i] \in Profile
        BY <4>1, <4>2 DEF TypeOK
      <4>. QED  BY <2>2, <4>4, <4>5, ProviderAssumption
    <3>5. CASE \/ LockRow(r) \/ FindLists(r) \/ DeleteLists(r) \/ Commit(r)
               \/ File(r) \/ Decide(r)
               \/ InsertSlot(r) \/ ReadSlot(r) \/ WriteSlot(r) \/ RemoveSlot(r)
      <4>1. req[r].pc \notin {"idle", "create"} /\ req'[r].of = req[r].of
        BY <3>5, OfStays
      <4>2. req[r].of \in Ids /\ profile[req[r].of] # None
        BY <4>1, Shapes DEF HasProfile
      <4>. QED  BY <1>2, <2>2, <4>1, <4>2
    <3>6. CASE Finish(r) \/ Fail(r)
      BY <1>3, <2>2, <3>6 DEF TypeOK, Finish, Fail, Idle
    <3>. QED  BY <1>3, <2>2, <3>1, <3>2, <3>3, <3>4, <3>5, <3>6 DEF Step
  <2>. QED  BY <2>1, <2>2
<1>. QED  BY <1>1, <1>3 DEF HasProfile

-----------------------------------------------------------------------------
(***************************************************************************)
(* The lists.  A transaction that has updated a column of the row holds    *)
(* the row until its commit, so no other such transaction has inserted     *)
(* rows since it found those it deletes.                                   *)
(***************************************************************************)
Holds(r) ==
    req[r].pc \in {"replace", "delete", "commit"} /\ req[r].in.columns =>
        /\ lock[req[r].of] = r
        /\ req[r].pc # "replace" =>
             \A k \in Kinds : req[r].in.lists[k] # "keep" =>
                \A x \in lists[req[r].of][k] : x.columns => x \in req[r].seen[k]

Holding == \A r \in Requests : Holds(r)

LEMMA HoldingOthers ==
    ASSUME TypeOK, Holding, NEW r \in Requests, Step(r), NEW q \in Requests \ {r}
    PROVE  Holds(q)'
<1> SUFFICES ASSUME req'[q].pc \in {"replace", "delete", "commit"}, req'[q].in.columns
             PROVE  Holds(q)'
  BY DEF Holds
<1>1. req'[q] = req[q] /\ req[q].of \in Ids /\ lock[req[q].of] = q /\ Holds(q)
  BY Others, Shapes DEF Holding, Holds
<1>2. lock'[req[q].of] = q
  <2>1. CASE LockRow(r)
    BY <1>1, <2>1, ProviderAssumption DEF TypeOK, LockRow, Free
  <2>2. CASE Commit(r)
    BY <1>1, <2>2 DEF TypeOK, Commit
  <2>3. CASE Fail(r)
    BY <1>1, <2>3 DEF TypeOK, Fail
  <2>. QED  BY <1>1, <2>1, <2>2, <2>3 DEF Step, ReadProfile, ReadNone, CreateProfile, FindLists,
       DeleteLists, File, ReadForReview, Decide, InsertSlot, ReadSlot, WriteSlot, RemoveSlot,
       Finish
<1>3. ASSUME NEW k \in Kinds, NEW x \in lists'[req[q].of][k], x.columns
      PROVE  x \in lists[req[q].of][k]
  <2>1. CASE Commit(r)
    <3>1. req[r] \in Replacing /\ req[r].pc = "commit"
      BY <2>1, Shapes DEF Commit
    <3>2. PICK y \in Inserted : CommitsLists(r, y)
      BY <2>1, CommitLists
    <3>3. CASE req[r].of = req[q].of
      <4>1. ~y.columns
        BY <1>1, <3>1, <3>2, <3>3 DEF Holding, Holds, CommitsLists
      <4>2. lists'[req[q].of][k] \subseteq lists[req[q].of][k] \cup {y}
        BY <1>1, <3>2, <3>3 DEF TypeOK, CommitsLists
      <4>. QED  BY <1>3, <4>1, <4>2
    <3>4. CASE req[r].of # req[q].of
      BY <1>3, <3>2, <3>4 DEF TypeOK, CommitsLists
    <3>. QED  BY <3>3, <3>4
  <2>2. CASE ~Commit(r)
    <3>1. lists' = lists
      BY <2>2 DEF Step, ReadProfile, ReadNone, CreateProfile, LockRow, FindLists, DeleteLists, File,
         ReadForReview, Decide, InsertSlot, ReadSlot, WriteSlot, RemoveSlot, Finish, Fail, rows
    <3>. QED  BY <1>3, <3>1
  <2>. QED  BY <2>1, <2>2
<1>. QED  BY <1>1, <1>2, <1>3 DEF Holds

LEMMA HoldingOwn ==
    ASSUME TypeOK, Holding, NEW r \in Requests, Step(r)
    PROVE  Holds(r)'
<1> SUFFICES ASSUME req'[r].pc \in {"replace", "delete", "commit"}, req'[r].in.columns
             PROVE  Holds(r)'
  BY DEF Holds
<1>1. CASE LockRow(r)
  <2>1. req[r] \in Later
    BY <1>1, Shapes DEF LockRow
  <2>2. PICK form \in Form :
          /\ req' = [req EXCEPT ![r].pc = "replace", ![r].in = form]
          /\ form.columns => lock' = [lock EXCEPT ![req[r].of] = r]
    BY <1>1 DEF LockRow
  <2>3. req'[r].pc = "replace" /\ req'[r].in = form /\ req'[r].of = req[r].of
    BY <2>1, <2>2 DEF TypeOK, Later
  <2>. QED  BY <2>1, <2>2, <2>3 DEF TypeOK, Later, Holds
<1>2. CASE FindLists(r)
  <2>1. req[r] \in Locked /\ req[r].pc = "replace" /\ Holds(r)
    BY <1>2, Shapes DEF FindLists, Holding
  <2> DEFINE gone == [k \in Kinds |-> IF req[r].in.lists[k] = "keep" THEN {}
                                      ELSE lists[req[r].of][k]]
  <2>2. req' = [req EXCEPT ![r].pc = "delete", ![r].seen = gone] /\ lists' = lists /\ lock' = lock
    BY <1>2 DEF FindLists, rows
  <2>3. \A k \in Kinds : req[r].in.lists[k] # "keep" => gone[k] = lists[req[r].of][k]
    OBVIOUS
  <2> HIDE DEF gone
  <2>4. /\ req'[r].seen = gone /\ req'[r].in = req[r].in /\ req'[r].of = req[r].of
    BY <2>1, <2>2 DEF TypeOK, Locked
  <2>. QED  BY <2>1, <2>2, <2>3, <2>4 DEF Holds
<1>3. CASE DeleteLists(r)
  <2>1. req[r] \in Replacing /\ req[r].pc = "delete" /\ Holds(r)
    BY <1>3, Shapes DEF DeleteLists, Holding
  <2>2. req'[r].seen = req[r].seen /\ req'[r].in = req[r].in /\ req'[r].of = req[r].of
        /\ lists' = lists /\ lock' = lock
    BY <1>3, <2>1 DEF TypeOK, DeleteLists, Goto, Replacing, rows
  <2>. QED  BY <2>1, <2>2 DEF Holds
<1>. QED  BY <1>1, <1>2, <1>3, Flow

LEMMA HoldingStep ==
    ASSUME TypeOK, Holding, NEW r \in Requests, Step(r)
    PROVE  Holding'
BY HoldingOthers, HoldingOwn DEF Holding

-----------------------------------------------------------------------------
(***************************************************************************)
(* The theorems on profiles and lists.                                     *)
(***************************************************************************)
(* What a step can do to a provider row. *)
LEMMA RowSteps ==
    ASSUME TypeOK, HasProfile, NEW r \in Requests, Step(r), ~CreateProfile(r), NEW i \in Ids
    PROVE  /\ profile[i] = None => profile'[i] = None
           /\ profile[i] # None => profile'[i].owner = profile[i].owner
           /\ profile'[i].status # profile[i].status => File(r) \/ Decide(r)
<1>1. CASE Commit(r) \/ File(r) \/ Decide(r)
  <2>1. req[r].of \in Ids /\ req[r].pc \notin {"idle", "create"}
    BY <1>1, Shapes DEF Commit, File, Decide
  <2>2. profile[req[r].of] \in Profile
    BY <2>1 DEF TypeOK, HasProfile
  <2>3. CASE Commit(r)
    BY <2>1, <2>2, <2>3, CommitProfile, ProviderAssumption
  <2>4. CASE File(r)
    BY <2>1, <2>2, <2>4, ProviderAssumption DEF TypeOK, Profile, File
  <2>5. CASE Decide(r)
    <3>1. PICK v \in Decided, b \in BOOLEAN :
            profile' = [profile EXCEPT ![req[r].of].status = v, ![req[r].of].active = b]
      BY <2>5 DEF Decide
    <3>. QED  BY <2>1, <2>2, <2>5, <3>1, ProviderAssumption DEF TypeOK, Profile
  <2>. QED  BY <1>1, <2>3, <2>4, <2>5
<1>2. CASE ~(Commit(r) \/ File(r) \/ Decide(r))
  <2>1. profile' = profile
    BY <1>2 DEF Step, ReadProfile, ReadNone, LockRow, FindLists, DeleteLists, ReadForReview, InsertSlot,
       ReadSlot, WriteSlot, RemoveSlot, Finish, Fail, rows
  <2>. QED  BY <2>1
<1>. QED  BY <1>1, <1>2

LEMMA OneProfileStep ==
    ASSUME TypeOK, HasProfile, OneProfileEach, NEW r \in Requests, Step(r)
    PROVE  OneProfileEach'
<1>1. CASE CreateProfile(r)
  <2>1. PICK i \in Ids :
          profile' = [profile EXCEPT
              ![i] = [owner |-> req[r].owner, status |-> "PENDING", active |-> TRUE]]
    BY <1>1 DEF CreateProfile
  <2>2. Own(req[r].owner) = {}
    BY <1>1 DEF CreateProfile
  <2>. QED  BY <2>1, <2>2 DEF TypeOK, OneProfileEach, Own
<1>2. CASE ~CreateProfile(r)
  <2>1. ASSUME NEW i \in Ids, profile'[i] # None
        PROVE  profile[i] # None /\ profile'[i].owner = profile[i].owner
    BY <1>2, <2>1, RowSteps
  <2>. QED  BY <2>1 DEF OneProfileEach
<1>. QED  BY <1>1, <1>2

(* A commit of an update that holds the row leaves of such updates only    *)
(* its own rows; one that does not inserts no such rows.                   *)
LEMMA ListsStep ==
    ASSUME TypeOK, Holding, ListsReplacedWhole, NEW r \in Requests, Step(r)
    PROVE  ListsReplacedWhole'
<1> SUFFICES ASSUME NEW i \in Ids, NEW k \in Kinds,
                    NEW x \in lists'[i][k], NEW y \in lists'[i][k], x.columns, y.columns
             PROVE  x = y
  BY DEF ListsReplacedWhole
<1>1. CASE Commit(r) /\ req[r].of = i
  <2>1. req[r] \in Replacing /\ req[r].pc = "commit"
    BY <1>1, Shapes DEF Commit
  <2>2. PICK z \in Inserted : CommitsLists(r, z)
    BY <1>1, CommitLists
  <2>3. lists'[i][k] = (lists[i][k] \ req[r].seen[k])
                       \cup IF req[r].in.lists[k] = "replace" THEN {z} ELSE {}
    BY <1>1, <2>2 DEF TypeOK, CommitsLists
  <2>4. CASE req[r].in.columns /\ req[r].in.lists[k] # "keep"
    <3>1. \A w \in lists[i][k] : w.columns => w \in req[r].seen[k]
      BY <1>1, <2>1, <2>4 DEF Holding, Holds
    <3>. QED  BY <2>3, <3>1
  <2>5. CASE ~req[r].in.columns \/ req[r].in.lists[k] = "keep"
    <3>1. x \in lists[i][k] /\ y \in lists[i][k]
      BY <2>2, <2>3, <2>5 DEF CommitsLists
    <3>. QED  BY <3>1 DEF ListsReplacedWhole
  <2>. QED  BY <2>4, <2>5
<1>2. CASE Commit(r) /\ req[r].of # i
  <2>1. PICK z \in Inserted : CommitsLists(r, z)
    BY <1>2, CommitLists
  <2>2. lists'[i] = lists[i]
    BY <1>2, <2>1 DEF TypeOK, CommitsLists
  <2>. QED  BY <2>2 DEF ListsReplacedWhole
<1>3. CASE ~Commit(r)
  <2>1. lists' = lists
    BY <1>3 DEF Step, ReadProfile, ReadNone, CreateProfile, LockRow, FindLists, DeleteLists, File,
       ReadForReview, Decide, InsertSlot, ReadSlot, WriteSlot, RemoveSlot, Finish, Fail, rows
  <2>. QED  BY <2>1 DEF ListsReplacedWhole
<1>. QED  BY <1>1, <1>2, <1>3

-----------------------------------------------------------------------------
(***************************************************************************)
(* Verification.  What a submission or a review has read is still so,      *)
(* unless another one has overtaken it.                                    *)
(***************************************************************************)
Sound(r) ==
    r \notin overtaken =>
        /\ req[r].pc = "file" => profile[req[r].of].status \notin {"UNDER_REVIEW", "VERIFIED"}
        /\ req[r].pc = "decide" => Latest(req[r].of, req[r].seen)

Reviewed ==
    /\ \A i \in Ids : profile[i] = None => filed[i] = <<>>
    /\ \A r \in Requests : Sound(r)
    /\ OpenWhileUnderReview

(* Steps that leave the requests for verification and the statuses alone. *)
LEMMA ReviewedUntouched ==
    ASSUME TypeOK, HasProfile, Reviewed, NEW r \in Requests, Step(r), ~CreateProfile(r), filed' = filed,
           raced' = raced, \A q \in Requests \ {r} : q \notin overtaken' => q \notin overtaken,
           \A i \in Ids : profile'[i].status = profile[i].status
    PROVE  Reviewed'
<1>1. \A i \in Ids : profile'[i] = None <=> profile[i] = None
  BY ProfileStays, RowSteps
<1>2. \A i \in Ids : Open(i)' = Open(i)
  BY DEF Open
<1>3. OpenWhileUnderReview'
  BY <1>1, <1>2 DEF Reviewed, OpenWhileUnderReview
<1>4. ASSUME NEW q \in Requests \ {r} PROVE Sound(q)'
  <2>1. req'[q] = req[q] /\ Sound(q) /\ (q \notin overtaken' => q \notin overtaken)
    BY Others DEF Reviewed
  <2>2. req[q].pc \in {"file", "decide"} => req[q].of \in Ids
    BY Shapes
  <2>. QED  BY <1>2, <2>1, <2>2 DEF Sound, Latest
<1>5. Sound(r)'
  <2>1. CASE req'[r].pc = "file"
    <3>1. PICK op \in OwnOps, u \in Owners : ReadProfile(r, op, u)
      BY <2>1, Flow
    <3>2. PICK i \in Target(op, u) :
            /\ op = "submit" => profile[i].status \notin {"UNDER_REVIEW", "VERIFIED"}
            /\ req' = [req EXCEPT ![r] = [pc |-> After(op), op |-> op, owner |-> u, of |-> i,
                                         in |-> None, seen |-> None]]
      BY <3>1 DEF ReadProfile
    <3>3. req'[r].of = i /\ After(op) = "file"
      BY <2>1, <3>2 DEF TypeOK
    <3>4. op = "submit"
      BY <3>3 DEF After, OwnOps
    <3>. QED  BY <2>1, <3>2, <3>3, <3>4 DEF Sound, Target, Own
  <2>2. CASE req'[r].pc = "decide"
    <3>1. PICK i \in Ids : ReadForReview(r, i)
      BY <2>2, Flow
    <3>2. PICK n \in 0 .. MaxFiled :
            /\ Latest(i, n)
            /\ req' = [req EXCEPT ![r] = [pc |-> "decide", op |-> "review", owner |-> None,
                                         of |-> i, in |-> None, seen |-> n]]
      BY <3>1 DEF ReadForReview
    <3>3. req'[r].of = i /\ req'[r].seen = n
      BY <3>2 DEF TypeOK
    <3>4. Latest(i, n)'
      BY <1>2, <3>2 DEF Latest
    <3>. QED  BY <2>2, <3>3, <3>4 DEF Sound, Latest
  <2>. QED  BY <2>1, <2>2 DEF Sound
<1>. QED  BY <1>1, <1>3, <1>4, <1>5 DEF Reviewed

LEMMA ReviewedCreate ==
    ASSUME TypeOK, HasProfile, Reviewed, NEW r \in Requests, CreateProfile(r)
    PROVE  Reviewed'
<1>1. PICK i \in Ids :
        /\ profile[i] = None
        /\ profile' = [profile EXCEPT
              ![i] = [owner |-> req[r].owner, status |-> "PENDING", active |-> TRUE]]
        /\ req' = [req EXCEPT ![r].pc = After(req[r].op), ![r].of = i]
  BY DEF CreateProfile
<1>2. req[r] \in First /\ [owner |-> req[r].owner, status |-> "PENDING", active |-> TRUE] \in Profile
  BY Shapes DEF CreateProfile, First, Profile, Status
<1>3. filed' = filed /\ filed[i] = <<>> /\ overtaken' = overtaken /\ raced' = raced
  BY <1>1 DEF CreateProfile, Reviewed, history
<1>4. \A j \in Ids : Open(j)' = Open(j)
  BY <1>3 DEF Open
<1>5. Open(i) = {}
  BY <1>3 DEF Open
<1>6. profile'[i] # None /\ profile'[i].status = "PENDING"
      /\ \A j \in Ids \ {i} : profile'[j] = profile[j]
  BY <1>1, <1>2, ProviderAssumption DEF TypeOK
<1>7. OpenWhileUnderReview'
  BY <1>3, <1>4, <1>5, <1>6 DEF Reviewed, OpenWhileUnderReview
<1>8. ASSUME NEW q \in Requests \ {r} PROVE Sound(q)'
  <2>1. req'[q] = req[q] /\ Sound(q)
    BY Others DEF Reviewed, Step
  <2>2. req[q].pc \in {"file", "decide"} => req[q].of \in Ids \ {i}
    BY <1>1, Shapes DEF HasProfile
  <2>. QED  BY <1>3, <1>4, <1>6, <2>1, <2>2 DEF Sound, Latest
<1>9. Sound(r)'
  <2>1. req'[r].of = i
    BY <1>1, <1>2 DEF TypeOK, First
  <2>2. req'[r].pc # "decide"
    <3>1. req'[r].pc = After(req[r].op)
      BY <1>1, <1>2 DEF TypeOK, First
    <3>. QED  BY <1>2, <3>1, AfterTyped DEF First
  <2>. QED  BY <1>6, <2>1, <2>2 DEF Sound
<1>. QED  BY <1>3, <1>6, <1>7, <1>8, <1>9 DEF Reviewed

(* The open requests after one has been filed or decided. *)
LEMMA OpenAfter ==
    ASSUME TypeOK, HasProfile, NEW r \in Requests, File(r) \/ Decide(r),
           NEW i \in Ids, i = req[r].of
    PROVE  /\ profile[i] \in Profile
           /\ profile'[i] \in Profile /\ profile'[i] # None
           /\ \A j \in Ids \ {i} : /\ profile'[j] = profile[j] /\ filed'[j] = filed[j]
                                  /\ Open(j)' = Open(j)
           /\ File(r) => /\ profile'[i].status = "UNDER_REVIEW"
                         /\ Len(filed'[i]) = Len(filed[i]) + 1
                         /\ Open(i)' = Open(i) \cup {Len(filed'[i])}
           /\ Decide(r) => /\ profile'[i].status \in Decided
                           /\ Open(i)' = Open(i) \ {req[r].seen}
<1>1. profile[i] \in Profile
  <2>1. req[r].of \in Ids /\ req[r].pc \notin {"idle", "create"}
    BY Shapes DEF File, Decide
  <2>. QED  BY <2>1 DEF TypeOK, HasProfile
<1>2. CASE File(r)
  <2>1. /\ filed' = [filed EXCEPT ![i] = Append(filed[i], "UNDER_REVIEW")]
        /\ profile' = [profile EXCEPT ![i].status = "UNDER_REVIEW"]
    BY <1>2 DEF File
  <2>2. filed[i] \in Seq(Status) /\ "UNDER_REVIEW" \in Status
    BY <1>1 DEF TypeOK, Status
  <2>3. filed'[i] = Append(filed[i], "UNDER_REVIEW") /\ Len(filed'[i]) = Len(filed[i]) + 1
    BY <1>1, <2>1, <2>2 DEF TypeOK
  <2>4. \A n \in 1 .. Len(filed'[i]) :
          filed'[i][n] = IF n = Len(filed'[i]) THEN "UNDER_REVIEW" ELSE filed[i][n]
    BY <2>2, <2>3
  <2>5. Len(filed[i]) \in Nat
    BY <2>2
  <2>6. Open(i)' = Open(i) \cup {Len(filed'[i])}
    BY <2>3, <2>4, <2>5 DEF Open
  <2>7. profile'[i] \in Profile /\ profile'[i].status = "UNDER_REVIEW"
    BY <1>1, <2>1 DEF TypeOK, Profile, Status
  <2>8. \A j \in Ids \ {i} : profile'[j] = profile[j] /\ filed'[j] = filed[j]
    BY <1>1, <2>1 DEF TypeOK
  <2>9. ~Decide(r)
    BY <1>2 DEF File, Decide
  <2>. QED  BY <1>1, <2>3, <2>6, <2>7, <2>8, <2>9, ProviderAssumption DEF Open
<1>3. CASE Decide(r)
  <2> DEFINE n == req[r].seen
  <2>1. PICK v \in Decided :
          /\ filed' = [filed EXCEPT
                ![i] = IF n = 0 THEN Append(@, v) ELSE [@ EXCEPT ![n] = v]]
          /\ profile' = [profile EXCEPT ![i].status = v, ![i].active = v # "SUSPENDED"]
    BY <1>3 DEF Decide
  <2>2. filed[i] \in Seq(Status) /\ v \in Status /\ Len(filed[i]) \in Nat
    BY <1>1 DEF TypeOK, Status
  <2>3. v \notin {"UNDER_REVIEW", "PENDING"}
    BY DEF Decided
  <2>6. Open(i)' = Open(i) \ {n}
    <3>1. CASE n = 0
      <4>1. filed'[i] = Append(filed[i], v)
        BY <1>1, <2>1, <3>1 DEF TypeOK
      <4>2. /\ Len(filed'[i]) = Len(filed[i]) + 1
            /\ \A m \in 1 .. Len(filed'[i]) :
                 filed'[i][m] = IF m = Len(filed'[i]) THEN v ELSE filed[i][m]
        BY <2>2, <4>1
      <4>3. Open(i)' = Open(i)
        <5>1. ASSUME NEW m
              PROVE  m \in Open(i)' <=> m \in Open(i)
          <6>1. m \in 1 .. Len(filed'[i]) <=> m \in 1 .. Len(filed[i]) \/ m = Len(filed'[i])
            BY <2>2, <4>2
          <6>2. CASE m = Len(filed'[i])
            <7>1. m \in 1 .. Len(filed'[i]) /\ m \notin 1 .. Len(filed[i])
              BY <2>2, <4>2, <6>2
            <7>2. filed'[i][m] = v
              BY <4>2, <6>2, <7>1
            <7>. QED  BY <2>3, <7>1, <7>2 DEF Open
          <6>3. CASE m # Len(filed'[i])
            <7>1. m \in 1 .. Len(filed'[i]) => filed'[i][m] = filed[i][m]
              BY <4>2, <6>3
            <7>. QED  BY <6>1, <6>3, <7>1 DEF Open
          <6>. QED  BY <6>2, <6>3
        <5>2. Open(i)' \subseteq Open(i) /\ Open(i) \subseteq Open(i)'
          BY <5>1
        <5>. QED  BY <5>2
      <4>. QED  BY <2>2, <3>1, <4>3 DEF Open
    <3>2. CASE n # 0
      <4>1. filed'[i] = [filed[i] EXCEPT ![n] = v]
        BY <1>1, <2>1, <3>2 DEF TypeOK
      <4>2. /\ Len(filed'[i]) = Len(filed[i])
            /\ \A m \in 1 .. Len(filed[i]) : filed'[i][m] = IF m = n THEN v ELSE filed[i][m]
        BY <2>2, <4>1, ExceptSeq
      <4>. QED  BY <2>2, <2>3, <3>2, <4>2 DEF Open
    <3>. QED  BY <3>1, <3>2
  <2>7. PICK b \in BOOLEAN : profile' = [profile EXCEPT ![i].status = v, ![i].active = b]
    BY <2>1
  <2>8. profile'[i] \in Profile /\ profile'[i].status = v
    BY <1>1, <2>2, <2>7 DEF TypeOK, Profile
  <2>9. \A j \in Ids \ {i} : profile'[j] = profile[j] /\ filed'[j] = filed[j]
    BY <1>1, <2>1 DEF TypeOK
  <2>10. ~File(r)
    BY <1>3 DEF File, Decide
  <2>11. \A j \in Ids \ {i} : Open(j)' = Open(j)
    BY <2>9 DEF Open
  <2>12. profile'[i] # None /\ profile'[i].status \in Decided
    BY <2>8, ProviderAssumption
  <2> HIDE DEF n
  <2>. QED  BY <1>1, <1>3, <2>6, <2>8, <2>9, <2>10, <2>11, <2>12 DEF n
<1>. QED  BY <1>2, <1>3

LEMMA ReviewedDecision ==
    ASSUME TypeOK, TypeOK', HasProfile, Reviewed, NEW r \in Requests, File(r) \/ Decide(r)
    PROVE  Reviewed'
<1>0. PICK i \in Ids : i = req[r].of
  BY Shapes DEF File, Decide
<1> DEFINE others == IF File(r) THEN Open(i) ELSE Open(i) \ {req[r].seen}
<1>1. /\ profile[i] \in Profile /\ profile'[i] # None
      /\ \A j \in Ids \ {i} : /\ profile'[j] = profile[j] /\ filed'[j] = filed[j]
                             /\ Open(j)' = Open(j)
      /\ File(r) => /\ profile'[i].status = "UNDER_REVIEW"
                    /\ Len(filed'[i]) = Len(filed[i]) + 1
                    /\ Open(i)' = Open(i) \cup {Len(filed'[i])}
      /\ Decide(r) => /\ profile'[i].status \in Decided
                      /\ Open(i)' = Open(i) \ {req[r].seen}
  BY <1>0, OpenAfter
<1>2. profile[i] # None /\ ~(File(r) /\ Decide(r))
  BY <1>1, ProviderAssumption DEF File, Decide
<1>3. Settle(r, i, others)
  BY <1>0, <1>2 DEF File, Decide
<1>4. Step(r)
  BY DEF Step
<1>5. ASSUME NEW q \in Requests \ {r} PROVE Sound(q)'
  <2>1. req'[q] = req[q] /\ Sound(q)
    BY <1>4, Others DEF Reviewed
  <2>2. req[q].pc \in {"file", "decide"} => req[q].of \in Ids
    BY Shapes
  <2>3. req[q].pc \in {"file", "decide"} /\ req[q].of = i => q \in overtaken'
    BY <1>3 DEF Settle, Readers
  <2>4. q \in overtaken => q \in overtaken'
    BY <1>3 DEF Settle
  <2>. QED  BY <1>0, <1>1, <2>1, <2>2, <2>3, <2>4 DEF Sound, Latest
<1>6. Sound(r)'
  <2>1. req'[r].pc \notin {"file", "decide"}
    <3>1. ~CreateProfile(r)
          /\ (\A op \in OwnOps, u \in Owners : ~ReadProfile(r, op, u))
          /\ (\A j \in Ids : ~ReadForReview(r, j))
      BY DEF File, Decide, CreateProfile, ReadProfile, ReadForReview, Idle
    <3>. QED  BY <1>4, <3>1, Flow
  <2>. QED  BY <2>1 DEF Sound
<1>7. OpenWhileUnderReview'
  <2>1. ASSUME NEW j \in Ids \ {i}
        PROVE  raced' \cap {j} = raced \cap {j}
    BY <1>3, <2>1 DEF Settle
  <2>2. filed'[i] \in Seq(Status)
    BY <1>1 DEF TypeOK
  <2>3. CASE File(r)
    <3>1. profile'[i].status = "UNDER_REVIEW" => Len(filed'[i]) \in Open(i)'
      BY <1>1, <2>3
    <3>2. ASSUME i \notin raced'
          PROVE  Open(i) = {}
      <4>1. r \notin overtaken
        BY <1>3, <3>2 DEF Settle
      <4>2. profile[i].status # "UNDER_REVIEW"
        BY <1>0, <2>3, <4>1 DEF Reviewed, Sound, File
      <4>3. i \notin raced => Open(i) = {}
        BY <1>1, <1>2, <4>2 DEF Reviewed, OpenWhileUnderReview
      <4>4. i \in raced => others = {}
        BY <1>3, <3>2, <4>1 DEF Settle
      <4>. QED  BY <2>3, <4>3, <4>4
    <3>. QED  BY <1>1, <2>1, <2>3, <3>1, <3>2 DEF Reviewed, OpenWhileUnderReview
  <2>4. CASE Decide(r)
    <3>1. profile'[i].status # "UNDER_REVIEW"
      BY <1>1, <2>4 DEF Decided
    <3>2. ASSUME i \notin raced'
          PROVE  Open(i) \ {req[r].seen} = {}
      <4>1. r \notin overtaken
        BY <1>3, <3>2 DEF Settle
      <4>2. Latest(i, req[r].seen)
        BY <1>0, <2>4, <4>1 DEF Reviewed, Sound, Decide
      <4>3. i \notin raced => Open(i) = {} \/ Open(i) = {Len(filed[i])}
        BY <1>1, <1>2 DEF Reviewed, OpenWhileUnderReview
      <4>4. i \in raced => others = {}
        BY <1>3, <3>2, <4>1 DEF Settle
      <4>. QED  BY <1>2, <2>4, <4>2, <4>3, <4>4 DEF Latest
    <3>. QED  BY <1>1, <2>1, <2>4, <3>1, <3>2 DEF Reviewed, OpenWhileUnderReview
  <2>. QED  BY <2>3, <2>4
<1>. QED  BY <1>1, <1>5, <1>6, <1>7 DEF Reviewed

-----------------------------------------------------------------------------
(***************************************************************************)
(* Availability.  What an update has compared still holds of the slot as   *)
(* it is, unless another update has overtaken it; two ends it was sent     *)
(* were compared with each other.                                          *)
(***************************************************************************)
Compared(r) ==
    req[r].pc = "writeSlot" =>
        LET in == req[r].in  a == req[r].seen IN
        /\ None \notin {in.from, in.to} => Forward(in.from, in.to)
        /\ r \notin overtaken /\ slot[a] # None =>
             Forward(Given(in.from, slot[a].from), Given(in.to, slot[a].to))

SlotsSound ==
    /\ \A r \in Requests : Compared(r)
    /\ ForwardUnlessOvertaken

LEMMA ComparedOthers ==
    ASSUME TypeOK, SlotsSound, NEW r \in Requests, Step(r), NEW q \in Requests \ {r}
    PROVE  Compared(q)'
<1>1. req'[q] = req[q] /\ Compared(q)
  BY Others DEF SlotsSound
<1> SUFFICES ASSUME req[q].pc = "writeSlot"
             PROVE  Compared(q)'
  BY <1>1 DEF Compared
<1>2. PICK a \in Slots : req[q].seen = a
  BY Shapes DEF AtSlot
<1>3. \/ slot'[a] = slot[a] /\ (q \notin overtaken' => q \notin overtaken)
      \/ slot'[a] = None
      \/ q \in overtaken'
  <2>1. CASE InsertSlot(r)
    <3>1. PICK b \in Slots, from, to \in Times :
            /\ \A p \in Requests : req[p].seen # b
            /\ slot' = [slot EXCEPT ![b] = [of |-> req[r].of, from |-> from, to |-> to]]
      BY <2>1 DEF InsertSlot
    <3>2. b # a /\ overtaken' = overtaken
      BY <1>2, <2>1, <3>1 DEF InsertSlot, history
    <3>. QED  BY <3>1, <3>2 DEF TypeOK
  <2>2. CASE WriteSlot(r)
    <3>1. req[r].seen = a => q \in overtaken'
      BY <1>2, <2>2 DEF WriteSlot, SlotReaders
    <3>2. req[r].seen # a => slot'[a] = slot[a]
      BY <2>2 DEF WriteSlot, TypeOK
    <3>3. q \notin overtaken' => q \notin overtaken
      BY <2>2 DEF WriteSlot
    <3>. QED  BY <3>1, <3>2, <3>3
  <2>3. CASE RemoveSlot(r)
    BY <2>3 DEF RemoveSlot, TypeOK
  <2>4. CASE ~InsertSlot(r) /\ ~WriteSlot(r) /\ ~RemoveSlot(r)
    BY <2>4 DEF Step, ReadProfile, ReadNone, CreateProfile, LockRow, FindLists, DeleteLists, Commit, File,
       ReadForReview, Decide, Settle, ReadSlot, Finish, Fail, rows, history
  <2>. QED  BY <2>1, <2>2, <2>3, <2>4
<1>. QED  BY <1>1, <1>2, <1>3 DEF Compared

LEMMA ComparedOwn ==
    ASSUME TypeOK, NEW r \in Requests, Step(r)
    PROVE  Compared(r)'
<1> SUFFICES ASSUME req'[r].pc = "writeSlot"
             PROVE  Compared(r)'
  BY DEF Compared
<1>1. ReadSlot(r)
  BY Flow
<1>2. PICK a \in Slots, from, to \in Times \cup {None} :
        /\ slot[a] # None
        /\ slot[a].of = req[r].of
        /\ IF req[r].op = "changeSlot"
           THEN Forward(Given(from, slot[a].from), Given(to, slot[a].to))
           ELSE from = None /\ to = None
        /\ req' = [req EXCEPT
                ![r].pc = IF req[r].op = "changeSlot" THEN "writeSlot" ELSE "removeSlot",
                ![r].in = [from |-> from, to |-> to], ![r].seen = a]
  BY <1>1 DEF ReadSlot
<1>3. req[r] \in Later
  BY <1>1, Shapes DEF ReadSlot
<1>4. /\ req'[r].in = [from |-> from, to |-> to] /\ req'[r].seen = a
      /\ req[r].op = "changeSlot"
  <2> DEFINE in == [from |-> from, to |-> to]
             pc == IF req[r].op = "changeSlot" THEN "writeSlot" ELSE "removeSlot"
  <2>1. req' = [req EXCEPT ![r].pc = pc, ![r].in = in, ![r].seen = a]
    BY <1>2
  <2> HIDE DEF in, pc
  <2>2. req'[r].in = in /\ req'[r].seen = a /\ req'[r].pc = pc
    BY <1>3, <2>1 DEF TypeOK, Later
  <2>. QED  BY <2>2 DEF in, pc
<1>5. slot' = slot /\ Forward(Given(from, slot[a].from), Given(to, slot[a].to))
  BY <1>1, <1>2, <1>4 DEF ReadSlot, rows
<1>. QED  BY <1>4, <1>5 DEF Compared, Given

LEMMA ForwardStep ==
    ASSUME TypeOK, SlotsSound, NEW r \in Requests, Step(r)
    PROVE  ForwardUnlessOvertaken'
<1> SUFFICES ASSUME NEW a \in Slots, slot'[a] # None, a \notin crossed'
             PROVE  Forward(slot'[a].from, slot'[a].to)
  BY DEF ForwardUnlessOvertaken, Forward
<1>1. CASE InsertSlot(r)
  <2>1. PICK b \in Slots, from, to \in Times :
          /\ Forward(from, to)
          /\ slot' = [slot EXCEPT ![b] = [of |-> req[r].of, from |-> from, to |-> to]]
    BY <1>1 DEF InsertSlot
  <2>2. crossed' = crossed
    BY <1>1 DEF InsertSlot, history
  <2>3. CASE a = b
    BY <2>1, <2>3 DEF TypeOK
  <2>4. CASE a # b
    BY <2>1, <2>2, <2>4 DEF TypeOK, SlotsSound, ForwardUnlessOvertaken
  <2>. QED  BY <2>3, <2>4
<1>2. CASE WriteSlot(r)
  <2>1. CASE a = req[r].seen
    <3> DEFINE in == req[r].in
    <3>1. slot[a] \in Interval /\ Compared(r)
      BY <1>2, <2>1 DEF TypeOK, WriteSlot, SlotsSound
    <3>2. /\ slot'[a].from = Given(in.from, slot[a].from)
          /\ slot'[a].to = Given(in.to, slot[a].to)
      BY <1>2, <2>1, <3>1 DEF TypeOK, WriteSlot, Interval
    <3>3. r \notin overtaken \/ None \notin {in.from, in.to}
      BY <1>2, <2>1 DEF WriteSlot
    <3>4. slot[a] # None /\ req[r].pc = "writeSlot"
      BY <1>2, <2>1 DEF WriteSlot
    <3>. QED  BY <2>1, <3>1, <3>2, <3>3, <3>4 DEF Compared, Given
  <2>2. CASE a # req[r].seen
    <3>1. slot'[a] = slot[a] /\ a \notin crossed
      BY <1>2, <2>2 DEF TypeOK, WriteSlot
    <3>. QED  BY <3>1 DEF SlotsSound, ForwardUnlessOvertaken
  <2>. QED  BY <2>1, <2>2
<1>3. CASE RemoveSlot(r)
  <2>1. slot'[a] = slot[a] /\ a \notin crossed
    BY <1>3 DEF TypeOK, RemoveSlot
  <2>. QED  BY <2>1 DEF SlotsSound, ForwardUnlessOvertaken
<1>4. CASE ~InsertSlot(r) /\ ~WriteSlot(r) /\ ~RemoveSlot(r)
  <2>1. slot' = slot /\ crossed' = crossed
    BY <1>4 DEF Step, ReadProfile, ReadNone, CreateProfile, LockRow, FindLists, DeleteLists, Commit, File,
       ReadForReview, Decide, ReadSlot, Finish, Fail, rows, history
  <2>. QED  BY <2>1 DEF SlotsSound, ForwardUnlessOvertaken
<1>. QED  BY <1>1, <1>2, <1>3, <1>4

-----------------------------------------------------------------------------
(***************************************************************************)
(* The inductive invariant and the theorems.                               *)
(***************************************************************************)
Inv ==
    /\ TypeOK
    /\ HasProfile
    /\ Holding
    /\ ListsReplacedWhole
    /\ OneProfileEach
    /\ Reviewed
    /\ SlotsSound

LEMMA InvInit == Init => Inv
<1> SUFFICES ASSUME Init PROVE Inv
  OBVIOUS
<1>1. TypeOK
  BY InitType
<1>2. \A r \in Requests : req[r].pc = "idle"
  BY DEF Init, Idle
<1>. QED  BY <1>1, <1>2 DEF Init, Inv, HasProfile, Holding, Holds, ListsReplacedWhole,
     OneProfileEach, Reviewed, Sound,
     OpenWhileUnderReview, SlotsSound, Compared, ForwardUnlessOvertaken

LEMMA InvStep == Inv /\ [Next]_vars => Inv'
<1> SUFFICES ASSUME Inv, [Next]_vars PROVE Inv'
  OBVIOUS
<1>1. CASE Next
  <2>1. PICK r \in Requests : Step(r)
    BY <1>1 DEF Next
  <2>2. TypeOK' /\ HasProfile'
    BY <2>1, BaseStep DEF Inv
  <2>3. Holding' /\ ListsReplacedWhole' /\ OneProfileEach'
    BY <2>1, HoldingStep, ListsStep, OneProfileStep DEF Inv
  <2>4. Reviewed'
    <3>1. CASE CreateProfile(r)
      BY <3>1, ReviewedCreate DEF Inv
    <3>2. CASE File(r) \/ Decide(r)
      BY <2>2, <3>2, ReviewedDecision DEF Inv
    <3>3. CASE ~(CreateProfile(r) \/ File(r) \/ Decide(r))
      <4>1. filed' = filed /\ raced' = raced
        BY <2>1, <3>3 DEF Step, ReadProfile, ReadNone, LockRow, FindLists, DeleteLists, Commit, ReadForReview,
           InsertSlot, ReadSlot, WriteSlot, RemoveSlot, Finish, Fail, rows, history
      <4>2. \A q \in Requests \ {r} : q \notin overtaken' => q \notin overtaken
        BY <2>1, <3>3 DEF Step, ReadProfile, ReadNone, LockRow, FindLists, DeleteLists, Commit, ReadForReview,
           InsertSlot, ReadSlot, WriteSlot, RemoveSlot, Finish, Fail, rows, history
      <4>3. \A i \in Ids : profile'[i].status = profile[i].status
        BY <2>1, <3>3, RowSteps DEF Inv
      <4>. QED  BY <2>1, <3>3, <4>1, <4>2, <4>3, ReviewedUntouched DEF Inv
    <3>. QED  BY <3>1, <3>2, <3>3
  <2>5. SlotsSound'
    BY <2>1, ComparedOthers, ComparedOwn, ForwardStep DEF Inv, SlotsSound
  <2>. QED  BY <2>2, <2>3, <2>4, <2>5 DEF Inv
<1>2. CASE UNCHANGED vars
  <2>1. \A i \in Ids : Open(i)' = Open(i)
    BY <1>2 DEF vars, rows, Open
  <2>2. TypeOK' /\ HasProfile' /\ Holding' /\ ListsReplacedWhole' /\ OneProfileEach'
    BY <1>2 DEF Inv, vars, rows, TypeOK, HasProfile, Holding, Holds, ListsReplacedWhole,
       OneProfileEach
  <2>3. \A r \in Requests : Sound(r)'
    <3>1. ASSUME NEW r \in Requests PROVE Sound(r)'
      <4>1. req[r].pc = "decide" => req[r].of \in Ids
        BY Shapes DEF Inv
      <4>. QED  BY <1>2, <2>1, <4>1 DEF Inv, vars, rows, Reviewed, Sound, Latest
    <3>. QED  BY <3>1
  <2>4. Reviewed'
    BY <1>2, <2>1, <2>3 DEF Inv, vars, rows, Reviewed, OpenWhileUnderReview
  <2>5. SlotsSound'
    BY <1>2 DEF Inv, vars, rows, SlotsSound, Compared, ForwardUnlessOvertaken, Forward, Given
  <2>. QED  BY <2>2, <2>4, <2>5 DEF Inv
<1>. QED  BY <1>1, <1>2

LEMMA InvAlways == Spec => []Inv
  BY InvInit, InvStep, PTL DEF Spec

(* Every reachable state has the types of the Prisma rows.                 *)
THEOREM ProfileTypeCorrect == Spec => []TypeOK
<1>1. Inv => TypeOK
  BY DEF Inv
<1>. QED  BY <1>1, InvAlways, PTL

(* However many first calls overlap, a user has one profile in a tenant.   *)
THEOREM OneProfile == Spec => []OneProfileEach
<1>1. Inv => OneProfileEach
  BY DEF Inv
<1>. QED  BY <1>1, InvAlways, PTL

(* However many updates of a profile overlap, a list never has the rows of *)
(* two of them, except of updates that gave no column and held no lock.    *)
THEOREM ListsWhole == Spec => []ListsReplacedWhole
<1>1. Inv => ListsReplacedWhole
  BY DEF Inv
<1>. QED  BY <1>1, InvAlways, PTL

(* A provider under review has an open request, the newest one, and unless *)
(* a stale read decided about it, only such a provider has one.            *)
THEOREM UnderReviewOpen == Spec => []OpenWhileUnderReview
<1>1. Inv => OpenWhileUnderReview
  BY DEF Inv, Reviewed
<1>. QED  BY <1>1, InvAlways, PTL

(* Slots end after they start, except after two overlapping updates.       *)
THEOREM SlotsForward == Spec => []ForwardUnlessOvertaken
<1>1. Inv => ForwardUnlessOvertaken
  BY DEF Inv, SlotsSound
<1>. QED  BY <1>1, InvAlways, PTL
=============================================================================
