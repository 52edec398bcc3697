-------------------------- MODULE WebPages_proofs --------------------------
(***************************************************************************)
(* Proofs about one tab of the web application (WebPages): what the search *)
(* pages show and ask for, for any texts, categories, offers and documents *)
(* and whatever the workspace under the same router does.                  *)
(***************************************************************************)
EXTENDS PagesApart, SequenceTheorems, FiniteSetTheorems, TLAPS

-----------------------------------------------------------------------------
(* Sequences of calls. *)
Asked(S) == [what : S, passed : BOOLEAN]

LEMMA LastIndex ==
    \A m \in Nat \ {0} : m # 1 => m - 1 \in 1 .. m - 1 /\ (m - 1) + 1 = m
  OBVIOUS

LEMMA OnlyIndex == \A m \in Nat : \A i \in 1 .. m : m <= 1 => m = 1 /\ i = 1
  OBVIOUS

LEMMA OneElement ==
    ASSUME NEW S, NEW e \in S
    PROVE  <<e>> \in Seq(S) /\ Len(<<e>>) = 1 /\ <<e>>[1] = e
  OBVIOUS

LEMMA OvertakenFacts ==
    ASSUME NEW S, NEW s \in Seq(Asked(S))
    PROVE  /\ Overtaken(s) \in Seq(Asked(S))
           /\ Len(Overtaken(s)) = Len(s)
           /\ \A i \in 1 .. Len(s) :
                Overtaken(s)[i].what = s[i].what /\ Overtaken(s)[i].passed = TRUE
<1> DEFINE T == Asked(S)
<1>1. Len(s) \in Nat /\ DOMAIN s = 1 .. Len(s) /\ \A i \in 1 .. Len(s) : s[i] \in T
  BY LenProperties
<1>2. \A i \in 1 .. Len(s) : [s[i] EXCEPT !.passed = TRUE] \in T
  BY <1>1 DEF Asked
<1>3. Overtaken(s) \in [1 .. Len(s) -> T]
  BY <1>1, <1>2 DEF Overtaken
<1>4. Overtaken(s) \in Seq(T)
  BY <1>1, <1>3, SeqDef
<1>5. Len(Overtaken(s)) = Len(s)
  BY <1>1, <1>3, <1>4, LenProperties
<1>6. \A i \in 1 .. Len(s) : Overtaken(s)[i] = [s[i] EXCEPT !.passed = TRUE]
  BY <1>1 DEF Overtaken
<1>7. \A i \in 1 .. Len(s) :
        Overtaken(s)[i].what = s[i].what /\ Overtaken(s)[i].passed = TRUE
  BY <1>1, <1>6 DEF Asked
<1> QED
  BY <1>4, <1>5, <1>7

LEMMA AnsweredFacts ==
    ASSUME NEW S, NEW s \in Seq(Asked(S)), NEW n \in 1 .. Len(s)
    PROVE  /\ Answered(s, n) \in Seq(Asked(S))
           /\ Len(Answered(s, n)) = Len(s) - 1
           /\ \A i \in 1 .. Len(s) - 1 :
                /\ i < n => /\ Answered(s, n)[i].what = s[i].what
                            /\ Answered(s, n)[i].passed = TRUE
                /\ i >= n => Answered(s, n)[i] = s[i + 1]
<1> DEFINE T == Asked(S)
           before == SubSeq(s, 1, n - 1)
           after == SubSeq(s, n + 1, Len(s))
<1>1. Len(s) \in Nat /\ \A i \in 1 .. Len(s) : s[i] \in T
  BY LenProperties
<1>2. /\ before \in Seq(T)
      /\ Len(before) = n - 1
      /\ \A i \in 1 .. n - 1 : before[i] = s[i]
  <2>1. \A i \in 1 .. n - 1 : s[i] \in T
    BY <1>1
  <2> HIDE DEF T
  <2> QED
    BY <1>1, <2>1, SubSeqProperties, Z3
<1>3. /\ after \in Seq(T)
      /\ Len(after) = Len(s) - n
      /\ \A i \in 1 .. Len(s) - n : after[i] = s[n + i]
  <2>1. \A i \in n + 1 .. Len(s) : s[i] \in T
    BY <1>1
  <2> HIDE DEF T
  <2>2. n + 1 \in Int /\ Len(s) \in Int
    BY <1>1
  <2>3. /\ after \in Seq(T)
        /\ Len(after) = IF n + 1 <= Len(s) THEN Len(s) - (n + 1) + 1 ELSE 0
        /\ \A i \in 1 .. Len(s) - (n + 1) + 1 : after[i] = s[(n + 1) + i - 1]
    BY <2>1, <2>2, SubSeqProperties, Z3
  <2>4. /\ Len(s) - (n + 1) + 1 = Len(s) - n
        /\ ~(n + 1 <= Len(s)) => Len(s) - n = 0
        /\ \A i \in 1 .. Len(s) - n : (n + 1) + i - 1 = n + i
    BY <1>1
  <2> QED
    BY <2>3, <2>4
<1>4. /\ Overtaken(before) \in Seq(T)
      /\ Len(Overtaken(before)) = n - 1
      /\ \A i \in 1 .. n - 1 :
           Overtaken(before)[i].what = s[i].what /\ Overtaken(before)[i].passed = TRUE
  <2> HIDE DEF before
  <2>1. /\ Overtaken(before) \in Seq(T)
        /\ Len(Overtaken(before)) = Len(before)
        /\ \A i \in 1 .. Len(before) :
             /\ Overtaken(before)[i].what = before[i].what
             /\ Overtaken(before)[i].passed = TRUE
    BY <1>2, OvertakenFacts
  <2> QED
    BY <1>2, <2>1
<1> HIDE DEF T, before, after
<1>5. /\ Overtaken(before) \o after \in Seq(T)
      /\ Len(Overtaken(before) \o after) = Len(s) - 1
      /\ \A i \in 1 .. Len(s) - 1 :
           (Overtaken(before) \o after)[i] =
              IF i <= n - 1 THEN Overtaken(before)[i] ELSE after[i - (n - 1)]
  <2> DEFINE t == Overtaken(before)
  <2>1. t \in Seq(T) /\ Len(t) = n - 1
    BY <1>4
  <2> HIDE DEF t
  <2>2. /\ t \o after \in Seq(T)
        /\ Len(t \o after) = Len(t) + Len(after)
        /\ \A i \in 1 .. Len(t) + Len(after) :
             (t \o after)[i] = IF i <= Len(t) THEN t[i] ELSE after[i - Len(t)]
    BY <1>3, <2>1, ConcatProperties
  <2>3. Len(t) + Len(after) = Len(s) - 1
    BY <1>1, <1>3, <2>1
  <2> QED
    BY <2>1, <2>2, <2>3 DEF t
<1>6. Answered(s, n) = Overtaken(before) \o after
  BY DEF Answered, before, after
<1>7. \A i \in 1 .. Len(s) - 1 :
        /\ i < n => (Overtaken(before) \o after)[i].what = s[i].what
        /\ i < n => (Overtaken(before) \o after)[i].passed = TRUE
        /\ i >= n => (Overtaken(before) \o after)[i] = s[i + 1]
  BY <1>1, <1>3, <1>4, <1>5
<1> QED
  BY <1>5, <1>6, <1>7 DEF T

-----------------------------------------------------------------------------
(* Queries: what a URL can say. *)
Query ==
    {f \in UNION {[D -> Values] : D \in SUBSET Parameters} :
        \A k \in DOMAIN f : f[k] \in ValuesOf(k) /\ Truthy(k, f[k])}

LEMMA ValuesOfAreValues == \A k \in Parameters : ValuesOf(k) \subseteq Values
  BY DEF ValuesOf, Values

LEMMA QueryFacts ==
    ASSUME NEW f \in Query
    PROVE  /\ DOMAIN f \subseteq Parameters
           /\ f = [k \in DOMAIN f |-> f[k]]
           /\ \A k \in DOMAIN f : f[k] \in ValuesOf(k) /\ Truthy(k, f[k])
           /\ f # None
<1>1. PICK D \in SUBSET Parameters : f \in [D -> Values]
  BY DEF Query
<1>2. f # None
  BY <1>1, NoneAssumption
<1>3. \A k \in DOMAIN f : f[k] \in ValuesOf(k) /\ Truthy(k, f[k])
  BY DEF Query
<1> QED
  BY <1>1, <1>2, <1>3

LEMMA IsAQuery ==
    ASSUME NEW D \in SUBSET Parameters, NEW f, f = [k \in D |-> f[k]],
           \A k \in D : f[k] \in ValuesOf(k) /\ Truthy(k, f[k])
    PROVE  f \in Query
<1>1. DOMAIN f = D
  OBVIOUS
<1>2. f \in [D -> Values]
  <2>1. \A k \in D : f[k] \in Values
    BY ValuesOfAreValues
  <2> QED
    BY <2>1
<1> QED
  BY <1>1, <1>2 DEF Query

LEMMA WithQuery ==
    ASSUME NEW f \in Query, NEW k \in Parameters, NEW v \in ValuesOf(k), Truthy(k, v)
    PROVE  With(f, k, v) \in Query
<1> DEFINE g == With(f, k, v)
<1>1. g = [j \in DOMAIN f \cup {k} |-> g[j]] /\ DOMAIN f \cup {k} \in SUBSET Parameters
  BY QueryFacts DEF With
<1>2. \A j \in DOMAIN f \cup {k} : g[j] = IF j = k THEN v ELSE f[j]
  BY DEF With
<1>3. \A j \in DOMAIN f \cup {k} : g[j] \in ValuesOf(j) /\ Truthy(j, g[j])
  BY <1>2, QueryFacts
<1> HIDE DEF g
<1>4. g \in Query
  BY <1>1, <1>3, IsAQuery
<1> QED
  BY <1>4 DEF g

LEMMA WithoutQuery ==
    ASSUME NEW f \in Query, NEW k
    PROVE  Without(f, k) \in Query
<1> DEFINE g == Without(f, k)
<1>1. g = [j \in DOMAIN f \ {k} |-> g[j]] /\ DOMAIN f \ {k} \in SUBSET Parameters
  BY QueryFacts DEF Without
<1>2. \A j \in DOMAIN f \ {k} : g[j] \in ValuesOf(j) /\ Truthy(j, g[j])
  BY QueryFacts DEF Without
<1> HIDE DEF g
<1>3. g \in Query
  BY <1>1, <1>2, IsAQuery
<1> QED
  BY <1>3 DEF g

LEMMA TruthyIsNotNone ==
    ASSUME NEW k \in Parameters, NEW v \in ValuesOf(k) \cup {None}, Truthy(k, v)
    PROVE  v \in ValuesOf(k)
<1>1. CASE k \in Switches
  BY <1>1 DEF ValuesOf, Truthy, Switches
<1>2. CASE k \in Numbers
  BY <1>2 DEF Truthy, Switches, Numbers
<1>3. CASE k \notin Switches /\ k \notin Numbers
  BY <1>3 DEF Truthy
<1> QED
  BY <1>1, <1>2, <1>3

(* What a control computes, whatever it offers, is a query in the URL. *)
LEMMA SerializeQuery ==
    ASSUME NEW D \in SUBSET Parameters, NEW f, f = [k \in D |-> f[k]],
           \A k \in D : f[k] \in ValuesOf(k) \cup {None}
    PROVE  Serialize(f) \in Query
<1> DEFINE E == {j \in DOMAIN f : Truthy(j, f[j])}
           g == Serialize(f)
<1>1. g = [j \in E |-> g[j]] /\ E \in SUBSET Parameters
  BY DEF Serialize
<1>2. \A j \in E : g[j] \in ValuesOf(j) /\ Truthy(j, g[j])
  BY TruthyIsNotNone DEF Serialize
<1> HIDE DEF g, E
<1>3. g \in Query
  BY <1>1, <1>2, IsAQuery
<1> QED
  BY <1>3 DEF g

(* A query comes back from the URL as it went there. *)
LEMMA SerializeIsIdentity ==
    ASSUME NEW f \in Query
    PROVE  Serialize(f) = f
<1>1. {j \in DOMAIN f : Truthy(j, f[j])} = DOMAIN f
  BY QueryFacts
<1>2. Serialize(f) = [k \in DOMAIN f |-> f[k]]
  BY <1>1 DEF Serialize
<1> QED
  BY <1>2, QueryFacts

LEMMA PageNumbers ==
    /\ "page" \in Parameters
    /\ \A p \in Nat \ {0} : p \in ValuesOf("page") /\ Truthy("page", p)
<1>1. "page" \in Parameters
  BY DEF Parameters
<1>2. "page" \notin Switches /\ "page" \in Numbers
  BY DEF Switches, Numbers
<1>3. ASSUME NEW p \in Nat \ {0} PROVE Truthy("page", p)
  <2>1. p \notin {None, 0}
    BY NoneAssumption
  <2> QED
    BY <1>2, <2>1 DEF Truthy
<1>4. ValuesOf("page") = Nat
  BY DEF ValuesOf, Switches
<1> QED
  BY <1>1, <1>3, <1>4

LEMMA NothingQuery == Nothing \in Query
<1>1. Nothing = [k \in {} |-> Nothing[k]]
  BY DEF Nothing
<1> QED
  BY <1>1, IsAQuery

LEMMA SearchQueries == \A t \in Texts : Search(t) \in Query
<1> TAKE t \in Texts
<1>1. Search(t) = [k \in {"q"} |-> Search(t)[k]] /\ {"q"} \in SUBSET Parameters
  BY DEF Search, Parameters
<1>2. t \in ValuesOf("q") /\ Truthy("q", t) /\ Search(t)["q"] = t
  BY TextAssumption DEF ValuesOf, Truthy, Switches, Numbers, Search
<1> QED
  BY <1>1, <1>2, IsAQuery

LEMMA CategoryQueries == \A c \in Categories : InCategory(c) \in Query
<1> TAKE c \in Categories
<1>1. /\ InCategory(c) = [k \in {"category"} |-> InCategory(c)[k]]
      /\ {"category"} \in SUBSET Parameters
  BY DEF InCategory, Parameters, Filters
<1>2. c \in ValuesOf("category") /\ Truthy("category", c) /\ InCategory(c)["category"] = c
  BY TextAssumption DEF ValuesOf, Truthy, Switches, Numbers, InCategory
<1> QED
  BY <1>1, <1>2, IsAQuery

-----------------------------------------------------------------------------
(* Types. *)
Page == [place : Places, url : Query]

PagesTypeOK ==
    /\ tab \in Page
    /\ nav \in Page \cup {None}
    /\ list \in [filters : Query, loading : BOOLEAN, error : {"none", "refused", "failed"},
                 shown : Query \cup {None}, pages : Nat, late : BOOLEAN, crowded : BOOLEAN]
    /\ calls \in Seq(Asked(Query))
    /\ bar \in [text : Texts \cup {None}, due : BOOLEAN, listed : Texts \cup {None},
                open : BOOLEAN, late : BOOLEAN]
    /\ asks \in Seq(Asked(Texts \cup {None}))
    /\ chosen \in [filters : Query, waited : BOOLEAN]

LEMMA PageIsNotNone == None \notin Page
<1> SUFFICES ASSUME None \in Page PROVE FALSE
  OBVIOUS
<1>1. PICK place \in Places, f \in Query : None = [place |-> place, url |-> f]
  BY DEF Page
<1>2. PICK D \in SUBSET Parameters : f \in [D -> Values]
  BY DEF Query
<1>3. [place |-> place, url |-> f] \in [place : Places, url : [D -> Values]]
  BY <1>2
<1> QED
  BY <1>1, <1>3, NoneAssumption

(* What the workspace under the same router does to the search pages: it   *)
(* takes back a navigation, or takes the place of the page.                *)
Interrupted ==
    /\ nav' = None
    /\ chosen' = [chosen EXCEPT !.waited = @ /\ nav = None]
    /\ UNCHANGED <<tab, list, calls, bar, asks>>

Displaced ==
    /\ nav = None /\ nav' = None
    /\ tab' = [place |-> "other", url |-> Nothing]
    /\ list' = Blank(Nothing) /\ calls' = <<>>
    /\ bar' = Bar(None) /\ asks' = <<>>
    /\ chosen' = [filters |-> Nothing, waited |-> TRUE]

PageStep == Next \/ Interrupted \/ Displaced \/ UNCHANGED vars

(* The one router: only one page can have been asked for. *)
OneNavigation == nav = None \/ next = None

LEMMA RouterInit == WebInit => OneNavigation
  BY DEF WebInit, Init, OneNavigation

LEMMA Router == OneNavigation /\ [WebNext]_allVars => OneNavigation' /\ PageStep
<1> SUFFICES ASSUME OneNavigation, [WebNext]_allVars PROVE OneNavigation' /\ PageStep
  OBVIOUS
<1>1. CASE SearchUse
  BY <1>1 DEF SearchUse, LastAskedIsSearch, OneNavigation, PageStep, Next
<1>2. CASE SearchMachine
  <2>1. UNCHANGED nav
    BY <1>2 DEF SearchMachine, MachineStep, TimerFires, Answer, Suggest
  <2> QED
    BY <1>2, <2>1 DEF SearchMachine, workspaceVars, OneNavigation, PageStep, Next
<1>3. CASE SearchArrive
  BY <1>3 DEF SearchArrive, LastAskedIsSearch, OneNavigation, PageStep, Next
<1>4. CASE WorkspaceUse \/ WorkspaceMachine
  <2>1. LastAskedIsWorkspace
    BY <1>4 DEF WorkspaceUse, WorkspaceMachine
  <2> QED
    BY <2>1 DEF LastAskedIsWorkspace, OneNavigation, PageStep, Interrupted, vars
<1>5. CASE Others
  <2>1. UNCHANGED next /\ UNCHANGED vars
    BY <1>5 DEF Others, Workspace!Others
  <2> QED
    BY <2>1 DEF OneNavigation, PageStep, vars
<1>6. CASE WorkspaceArrive
  <2>1. next # None /\ next' = None
    BY <1>6 DEF WorkspaceArrive, Workspace!Arrive
  <2>2. nav = None
    BY <2>1 DEF OneNavigation
  <2>3. CASE tab.place = "other"
    BY <1>6, <2>1, <2>3 DEF WorkspaceArrive, OneNavigation, PageStep
  <2>4. CASE tab.place # "other"
    BY <1>6, <2>1, <2>2, <2>4 DEF WorkspaceArrive, OneNavigation, PageStep, Displaced
  <2> QED
    BY <2>3, <2>4
<1>7. CASE UNCHANGED allVars
  BY <1>7 DEF allVars, vars, workspaceVars, OneNavigation, PageStep
<1> QED
  BY <1>1, <1>2, <1>3, <1>4, <1>5, <1>6, <1>7 DEF WebNext, User, Machine

-----------------------------------------------------------------------------
LEMMA FirstTypes ==
    ASSUME NEW place, NEW url \in Query
    PROVE  /\ Blank(url) \in [filters : Query, loading : BOOLEAN,
                              error : {"none", "refused", "failed"},
                              shown : Query \cup {None}, pages : Nat, late : BOOLEAN, crowded : BOOLEAN]
           /\ FirstCalls(place, url) \in Seq(Asked(Query))
           /\ FirstText(place, url) \in Texts \cup {None}
<1>1. Sent(url) \in Asked(Query)
  BY DEF Sent, Asked
<1>2. FirstCalls(place, url) \in Seq(Asked(Query))
  <2>1. <<Sent(url)>> \in Seq(Asked(Query))
    BY <1>1, OneElement
  <2> QED
    BY <2>1, EmptySeq DEF FirstCalls
<1>3. "q" \in DOMAIN url => url["q"] \in Texts
  <2>1. "q" \in DOMAIN url => url["q"] \in ValuesOf("q")
    BY QueryFacts
  <2>2. ValuesOf("q") = Texts
    BY DEF ValuesOf, Switches
  <2> QED
    BY <2>1, <2>2
<1> QED
  BY <1>2, <1>3 DEF Blank, FirstText, Value, Sets

LEMMA BarType ==
    ASSUME NEW t \in Texts \cup {None}
    PROVE  /\ Bar(t) \in [text : Texts \cup {None}, due : BOOLEAN, listed : Texts \cup {None},
                          open : BOOLEAN, late : BOOLEAN]
           /\ <<>> \in Seq(Asked(Texts \cup {None}))
  BY DEF Bar, Long

LEMMA TypeInit == Init => PagesTypeOK
<1> SUFFICES ASSUME Init PROVE PagesTypeOK
  OBVIOUS
<1>1. tab \in Page
  BY NothingQuery, SearchQueries DEF Init, Page, Places
<1>2. tab.url \in Query
  BY <1>1 DEF Page
<1>3. list \in [filters : Query, loading : BOOLEAN, error : {"none", "refused", "failed"},
                shown : Query \cup {None}, pages : Nat, late : BOOLEAN, crowded : BOOLEAN]
  BY <1>2, FirstTypes DEF Init
<1>4. calls \in Seq(Asked(Query))
  BY <1>2, FirstTypes DEF Init
<1>5. /\ bar \in [text : Texts \cup {None}, due : BOOLEAN, listed : Texts \cup {None},
                  open : BOOLEAN, late : BOOLEAN]
      /\ asks \in Seq(Asked(Texts \cup {None}))
  BY <1>2, FirstTypes, BarType DEF Init
<1>6. chosen \in [filters : Query, waited : BOOLEAN] /\ nav = None
  BY <1>2 DEF Init
<1> QED
  BY <1>1, <1>3, <1>4, <1>5, <1>6 DEF PagesTypeOK

(* What the controls and links ask the router for. *)
LEMMA ChoiceTypes ==
    ASSUME PagesTypeOK, NEW place \in Places, NEW url \in Query, NEW f \in Query,
           Goes(place, url), Wants(f) \/ Chooses(f)
    PROVE  nav' \in Page /\ chosen' \in [filters : Query, waited : BOOLEAN]
<1>1. nav' \in Page
  BY DEF Goes, Page
<1>2. PICK b \in BOOLEAN : chosen' = [filters |-> f, waited |-> b]
  <2>1. (chosen.waited /\ nav = None) \in BOOLEAN
    OBVIOUS
  <2> QED
    BY <2>1 DEF Wants, Chooses
<1> QED
  BY <1>1, <1>2

LEMMA ChangeQueries ==
    ASSUME PagesTypeOK, NEW k \in DOMAIN Offers, NEW v \in Offers[k]
    PROVE  /\ Serialize(Updated(list.filters, k, v)) \in Query
           /\ Serialize(With(With(chosen.filters, "page", 1), k, v)) \in Query
<1>1. k \in Parameters /\ k # "page" /\ v \in ValuesOf(k) \cup {None}
  BY OffersAssumption DEF Parameters, Filters
<1>2. list.filters \in Query /\ chosen.filters \in Query
  BY DEF PagesTypeOK
<1>3. ASSUME NEW f \in Query
      PROVE  /\ Serialize(With(With(f, k, v), "page", 1)) \in Query
             /\ Serialize(With(With(f, "page", 1), k, v)) \in Query
  <2> DEFINE D == DOMAIN f \cup {k, "page"}
             g == With(With(f, k, v), "page", 1)
             h == With(With(f, "page", 1), k, v)
  <2>1. D \in SUBSET Parameters
    BY <1>1, QueryFacts, PageNumbers
  <2>2. g = [j \in D |-> g[j]] /\ \A j \in D : g[j] \in ValuesOf(j) \cup {None}
    BY <1>1, QueryFacts, PageNumbers DEF With
  <2>3. h = [j \in D |-> h[j]] /\ \A j \in D : h[j] \in ValuesOf(j) \cup {None}
    BY <1>1, QueryFacts, PageNumbers DEF With
  <2> HIDE DEF D, g, h
  <2>4. Serialize(g) \in Query /\ Serialize(h) \in Query
    BY <2>1, <2>2, <2>3, SerializeQuery
  <2> QED
    BY <2>4 DEF g, h
<1> QED
  BY <1>1, <1>2, <1>3 DEF Updated

LEMMA RemoveQueries ==
    ASSUME NEW f \in Query, NEW k
    PROVE  /\ With(Without(f, k), "page", 1) \in Query
           /\ Serialize(With(Without(f, k), "page", 1)) = With(Without(f, k), "page", 1)
<1>1. Without(f, k) \in Query
  BY WithoutQuery
<1>2. With(Without(f, k), "page", 1) \in Query
  BY <1>1, PageNumbers, WithQuery
<1> QED
  BY <1>2, SerializeIsIdentity

LEMMA PageQueries ==
    ASSUME NEW f \in Query, NEW p \in Nat \ {0}
    PROVE  /\ With(f, "page", p) \in Query
           /\ Serialize(Updated(f, "page", p)) = With(f, "page", p)
<1>1. With(f, "page", p) \in Query
  BY PageNumbers, WithQuery
<1>2. Updated(f, "page", p) = With(f, "page", p)
  BY DEF Updated
<1> QED
  BY <1>1, <1>2, SerializeIsIdentity

LEMMA ClearQueries ==
    ASSUME NEW f \in Query
    PROVE  Serialize(With(Nothing, "q", Value(f, "q", None))) \in Query
<1> DEFINE g == With(Nothing, "q", Value(f, "q", None))
<1>1. g = [j \in {"q"} |-> g[j]] /\ {"q"} \in SUBSET Parameters
  BY DEF With, Nothing, Parameters
<1>2. "q" \in DOMAIN f => f["q"] \in ValuesOf("q")
  BY QueryFacts
<1>3. \A j \in {"q"} : g[j] \in ValuesOf(j) \cup {None}
  BY <1>2 DEF With, Nothing, Value, Sets
<1> HIDE DEF g
<1>4. Serialize(g) \in Query
  BY <1>1, <1>3, SerializeQuery
<1> QED
  BY <1>4 DEF g

(* One entry of the pagination is a page number. *)
LEMMA PageChosen == \A p \in 1 .. MaxPages : p \in Nat \ {0}
  BY MaxPagesAssumption

LEMMA AnnouncedNumber == \A f \in Query : Announced(f) \subseteq Nat
<1> TAKE f \in Query
<1>1. "page" \in DOMAIN f => f["page"] \in Nat
  <2>1. ValuesOf("page") = Nat
    BY DEF ValuesOf, Switches
  <2> QED
    BY <2>1, QueryFacts
<1>2. OnPage(f) \in Nat
  BY <1>1 DEF OnPage, Value, Sets
<1> QED
  BY <1>2, MaxPagesAssumption DEF Announced

LEMMA FetchTypes ==
    ASSUME PagesTypeOK, NEW f \in Query, Fetch(f)
    PROVE  /\ list' \in [filters : Query, loading : BOOLEAN, error : {"none", "refused", "failed"},
                         shown : Query \cup {None}, pages : Nat, late : BOOLEAN, crowded : BOOLEAN]
           /\ calls' \in Seq(Asked(Query))
<1>1. Sent(f) \in Asked(Query)
  BY DEF Sent, Asked
<1>2. calls' \in Seq(Asked(Query))
  BY <1>1, AppendProperties DEF PagesTypeOK, Fetch
<1>3. (calls # <<>>) \in BOOLEAN
  OBVIOUS
<1> QED
  BY <1>2, <1>3 DEF PagesTypeOK, Fetch

LEMMA ArriveTypes == PagesTypeOK /\ Arrive => PagesTypeOK'
<1> SUFFICES ASSUME PagesTypeOK, Arrive PROVE PagesTypeOK'
  OBVIOUS
<1>1. nav \in Page /\ nav.url \in Query /\ tab' \in Page
  BY DEF PagesTypeOK, Arrive, Page
<1>2. UNCHANGED chosen
  BY DEF Arrive
<1>3. CASE Follow
  BY <1>1, <1>2, <1>3, FetchTypes DEF Follow, PagesTypeOK
<1>4. CASE StayPut
  BY <1>1, <1>2, <1>4 DEF StayPut, PagesTypeOK
<1>5. CASE Mount
  <2>1. nav' \in Page \cup {None}
    BY <1>1, <1>5 DEF Mount, Page, Places
  <2>2. FirstText(nav.place, nav.url) \in Texts \cup {None}
    BY <1>1, FirstTypes
  <2> QED
    BY <1>1, <1>2, <1>5, <2>1, <2>2, FirstTypes, BarType DEF Mount, PagesTypeOK
<1> QED
  BY <1>3, <1>4, <1>5 DEF Arrive

LEMMA AnswerTypes ==
    ASSUME PagesTypeOK, NEW i, Answer(i)
    PROVE  PagesTypeOK'
<1>1. i \in 1 .. Len(calls) /\ calls[i] \in Asked(Query)
  <2>1. calls \in Seq(Asked(Query)) /\ i \in DOMAIN calls
    BY DEF PagesTypeOK, Answer
  <2> QED
    BY <2>1, LenProperties
<1>2. calls' \in Seq(Asked(Query))
  BY <1>1, AnsweredFacts DEF PagesTypeOK, Answer
<1>3. PICK error \in {"none", "refused", "failed"}, n \in Announced(calls[i].what) :
        list' = [list EXCEPT
                !.loading = FALSE,
                !.error = IF error = "none" THEN @ ELSE error,
                !.shown = IF error = "none" THEN calls[i].what ELSE None,
                !.pages = IF error = "none" THEN n ELSE 0,
                !.late = calls[i].passed]
  BY DEF Answer
<1>4. list' \in [filters : Query, loading : BOOLEAN, error : {"none", "refused", "failed"},
                 shown : Query \cup {None}, pages : Nat, late : BOOLEAN, crowded : BOOLEAN]
  <2>1. calls[i].what \in Query
    BY <1>1 DEF Asked
  <2>2. n \in Nat
    BY <2>1, AnnouncedNumber
  <2>3. list \in [filters : Query, loading : BOOLEAN, error : {"none", "refused", "failed"},
                  shown : Query \cup {None}, pages : Nat, late : BOOLEAN, crowded : BOOLEAN]
    BY DEF PagesTypeOK
  <2>4. calls[i].passed \in BOOLEAN
    BY <1>1 DEF Asked
  <2>5. CASE error = "none"
    BY <1>3, <2>1, <2>2, <2>3, <2>4, <2>5
  <2>6. CASE error # "none"
    BY <1>3, <2>3, <2>4, <2>6
  <2> QED
    BY <2>5, <2>6
<1> QED
  BY <1>2, <1>4 DEF PagesTypeOK, Answer

LEMMA SuggestTypes ==
    ASSUME PagesTypeOK, NEW i, Suggest(i)
    PROVE  PagesTypeOK'
<1>1. i \in 1 .. Len(asks) /\ asks[i] \in Asked(Texts \cup {None})
  <2>1. asks \in Seq(Asked(Texts \cup {None})) /\ i \in DOMAIN asks
    BY DEF PagesTypeOK, Suggest
  <2> QED
    BY <2>1, LenProperties
<1>2. asks' \in Seq(Asked(Texts \cup {None}))
  BY <1>1, AnsweredFacts DEF PagesTypeOK, Suggest
<1>3. bar' \in [text : Texts \cup {None}, due : BOOLEAN, listed : Texts \cup {None},
                open : BOOLEAN, late : BOOLEAN]
  BY <1>1 DEF PagesTypeOK, Suggest, Asked
<1> QED
  BY <1>2, <1>3 DEF PagesTypeOK, Suggest

(* What is done in the search bar, its links apart. *)
LEMMA WriteTypes ==
    ASSUME PagesTypeOK, NEW t \in Texts \cup {None}, Write(t)
    PROVE  /\ bar' \in [text : Texts \cup {None}, due : BOOLEAN, listed : Texts \cup {None},
                        open : BOOLEAN, late : BOOLEAN]
           /\ asks' \in Seq(Asked(Texts \cup {None}))
<1>1. Overtaken(asks) \in Seq(Asked(Texts \cup {None}))
  BY OvertakenFacts DEF PagesTypeOK
<1> QED
  BY <1>1 DEF PagesTypeOK, Write

LEMMA SelectTagTypes ==
    ASSUME PagesTypeOK, NEW t \in Texts, SelectTag(t)
    PROVE  /\ bar' \in [text : Texts \cup {None}, due : BOOLEAN, listed : Texts \cup {None},
                        open : BOOLEAN, late : BOOLEAN]
           /\ asks' \in Seq(Asked(Texts \cup {None}))
<1>1. Overtaken(asks) \in Seq(Asked(Texts \cup {None}))
  BY OvertakenFacts DEF PagesTypeOK
<1>2. Long(t) \in BOOLEAN
  BY DEF Long
<1> QED
  BY <1>1, <1>2 DEF PagesTypeOK, SelectTag

LEMMA UserTypes ==
    PagesTypeOK /\ UserStep => PagesTypeOK' /\ (UNCHANGED nav \/ nav' \in Page)
<1> DEFINE NavGoes == PagesTypeOK' /\ (UNCHANGED nav \/ nav' \in Page)
<1> SUFFICES ASSUME PagesTypeOK, UserStep PROVE NavGoes
  OBVIOUS
<1>0. list.filters \in Query /\ chosen.filters \in Query /\ tab \in Page
  BY DEF PagesTypeOK
<1>a. ASSUME NEW place \in Places, NEW url \in Query, NEW f \in Query, Goes(place, url),
             Wants(f) \/ Chooses(f), UNCHANGED <<tab, list, calls, bar, asks>>
      PROVE  NavGoes
  BY <1>a, ChoiceTypes DEF PagesTypeOK, Goes, Page
<1>1. ASSUME NEW url \in {Nothing} \cup {Search(t) : t \in Texts}, Link(url) PROVE NavGoes
  BY <1>1, <1>a, NothingQuery, SearchQueries DEF Link, Places
<1>2. ASSUME NEW c \in Categories, Browse(c) PROVE NavGoes
  BY <1>2, <1>a, CategoryQueries DEF Browse, Places
<1>3. ASSUME NEW place \in {"home", "other"}, Leave(place) PROVE NavGoes
  BY <1>3, <1>a, NothingQuery DEF Leave, Places
<1>4. ASSUME NEW k \in DOMAIN Offers, NEW v \in Offers[k], Change(k, v) PROVE NavGoes
  BY <1>4, <1>a, ChangeQueries DEF Change, Places
<1>5. ASSUME NEW k \in DOMAIN Offers, Remove(k) PROVE NavGoes
  BY <1>5, <1>0, <1>a, RemoveQueries DEF Remove, Places
<1>6. ASSUME NEW p \in 1 .. MaxPages, GoToPage(p) PROVE NavGoes
  BY <1>6, <1>0, <1>a, PageChosen, PageQueries DEF GoToPage, Places
<1>7. CASE ClearAll
  BY <1>7, <1>0, <1>a, ClearQueries DEF ClearAll, Places
<1>8. CASE ToggleMap
  <2>1. CASE tab.place \in {"search", "map"}
    BY <1>8, <2>1, <1>0, <1>a DEF ToggleMap, Places, Page
  <2>2. CASE tab.place = "category"
    <3>1. nav' = [place |-> "map", url |-> Nothing] /\ Nothing \in Query /\ "map" \in Places
      BY <1>8, <2>2, NothingQuery DEF ToggleMap, Goes, Places
    <3>2. nav' \in Page
      BY <3>1 DEF Page
    <3>3. chosen' \in [filters : Query, waited : BOOLEAN]
      BY <1>8, <2>2 DEF ToggleMap, PagesTypeOK
    <3> QED
      BY <1>8, <3>2, <3>3 DEF ToggleMap, PagesTypeOK
  <2> QED
    BY <1>8, <2>1, <2>2 DEF ToggleMap
<1>9. CASE Retry
  BY <1>9, <1>0, FetchTypes DEF Retry, PagesTypeOK
<1>10. ASSUME NEW t \in Texts \cup {None}, Type(t) PROVE NavGoes
  BY <1>10, WriteTypes DEF Type, PagesTypeOK
<1>11. ASSUME NEW t \in Texts, SelectTag(t) PROVE NavGoes
  <2>1. Search(t) \in Query /\ "search" \in Places
    BY SearchQueries DEF Places
  <2>2. nav' \in Page /\ chosen' \in [filters : Query, waited : BOOLEAN]
    BY <1>11, <2>1, ChoiceTypes DEF SelectTag
  <2> QED
    BY <1>11, <2>2, SelectTagTypes DEF SelectTag, PagesTypeOK
<1>12. CASE Focus \/ Close
  BY <1>12 DEF Focus, Close, PagesTypeOK
<1>13. CASE Submit
  <2>1. Search(bar.text) \in Query /\ "search" \in Places
    BY <1>13, SearchQueries DEF Places, Submit, PagesTypeOK
  <2>2. nav' \in Page /\ chosen' \in [filters : Query, waited : BOOLEAN]
    BY <1>13, <2>1, ChoiceTypes DEF Submit
  <2> QED
    BY <1>13, <2>2 DEF Submit, PagesTypeOK
<1>14. CASE SelectPage
  <2>1. nav' \in Page /\ chosen' \in [filters : Query, waited : BOOLEAN]
    BY <1>14, ChoiceTypes, NothingQuery, CategoryQueries DEF SelectPage, Places
  <2> QED
    BY <1>14, <2>1 DEF SelectPage, PagesTypeOK
<1> QED
  BY <1>1, <1>2, <1>3, <1>4, <1>5, <1>6, <1>7, <1>8, <1>9, <1>10, <1>11, <1>12, <1>13, <1>14
     DEF UserStep

LEMMA TimerTypes == PagesTypeOK /\ TimerFires => PagesTypeOK'
<1> SUFFICES ASSUME PagesTypeOK, TimerFires PROVE PagesTypeOK'
  OBVIOUS
<1>1. Sent(bar.text) \in Asked(Texts \cup {None})
  BY DEF Sent, Asked, PagesTypeOK
<1>2. asks' \in Seq(Asked(Texts \cup {None}))
  BY <1>1, AppendProperties DEF TimerFires, PagesTypeOK
<1> QED
  BY <1>2 DEF TimerFires, PagesTypeOK

LEMMA TypeStep == PagesTypeOK /\ PageStep => PagesTypeOK'
<1> SUFFICES ASSUME PagesTypeOK, PageStep PROVE PagesTypeOK'
  OBVIOUS
<1>1. CASE Interrupted
  <2>1. chosen' \in [filters : Query, waited : BOOLEAN]
    BY <1>1 DEF Interrupted, PagesTypeOK
  <2> QED
    BY <1>1, <2>1 DEF Interrupted, PagesTypeOK
<1>2. CASE Displaced
  <2>1. None \in Texts \cup {None} /\ "other" \in Places
    BY DEF Places
  <2> QED
    BY <1>2, <2>1, NothingQuery, FirstTypes, BarType, EmptySeq DEF Displaced, PagesTypeOK, Page
<1>3. CASE UNCHANGED vars
  BY <1>3 DEF vars, PagesTypeOK
<1> QED
  BY <1>1, <1>2, <1>3, UserTypes, TimerTypes, AnswerTypes, SuggestTypes, ArriveTypes
     DEF PageStep, Next, MachineStep

-----------------------------------------------------------------------------
(* The API admits what it can answer: of what the pages can ask, all but a *)
(* filter or a sort by distance, a negative price and a text too long.     *)
LEMMA AdmittedIsAnswerable ==
    ASSUME NEW f \in Query
    PROVE  Admitted(f) <=> ~Unanswerable(f)
<1>1. \A k \in DOMAIN f : k \in Parameters /\ f[k] \in ValuesOf(k) /\ Truthy(k, f[k])
  BY QueryFacts
<1>2. /\ ~Sets(f, "limit") /\ ~Sets(f, "latitude") /\ ~Sets(f, "longitude")
  BY <1>1 DEF Sets, Parameters, Filters
<1>3. Sets(f, "page") => f["page"] \in Nat /\ f["page"] # 0
  <2>1. ValuesOf("page") = Nat
    BY DEF ValuesOf, Switches
  <2>2. ASSUME NEW v, Truthy("page", v) PROVE v # 0
    BY <2>2 DEF Truthy, Switches, Numbers
  <2> QED
    BY <1>1, <2>1, <2>2 DEF Sets
<1>4. /\ Sets(f, "minPrice") => f["minPrice"] \in Int
      /\ Sets(f, "maxPrice") => f["maxPrice"] \in Int
      /\ Sets(f, "minRating") => f["minRating"] \in 0 .. 5
  <2>1. ValuesOf("minPrice") = Int /\ ValuesOf("maxPrice") = Int /\ ValuesOf("minRating") = 0 .. 5
    BY DEF ValuesOf, Switches
  <2> QED
    BY <1>1, <2>1 DEF Sets
<1>5. ~Located(f)
  BY <1>2 DEF Located
<1>6. LocatedIfNeeded(f) <=> ~Sets(f, "radius") /\ Value(f, "sort", "relevance") # "distance"
  BY <1>2, <1>5 DEF LocatedIfNeeded
<1>7. ~Sets(f, "radius") =>
        (InRange(f) <=> /\ AtLeast(f, "minPrice", 0) /\ AtLeast(f, "maxPrice", 0)
                        /\ Fits(f, "q") /\ Fits(f, "category") /\ Fits(f, "city"))
  <2>1. AtLeast(f, "page", 1)
    BY <1>3 DEF AtLeast
  <2>2. /\ Between(f, "limit", 1, 50) /\ Between(f, "latitude", -90, 90)
        /\ Between(f, "longitude", -180, 180) /\ Between(f, "minRating", 0, 5)
        /\ ~Sets(f, "radius") => Between(f, "radius", 1, 500)
    BY <1>2, <1>4 DEF Between
  <2> QED
    BY <2>1, <2>2 DEF InRange
<1>8. /\ AtLeast(f, "minPrice", 0) <=> ~(Value(f, "minPrice", 0) < 0)
      /\ AtLeast(f, "maxPrice", 0) <=> ~(Value(f, "maxPrice", 0) < 0)
  BY <1>4 DEF AtLeast, Value
<1> QED
  BY <1>6, <1>7, <1>8 DEF Admitted, Unanswerable

-----------------------------------------------------------------------------
(***************************************************************************)
(* What the list shows.  The filters of the page are those of its URL; the *)
(* search that was sent last, if it has not been overtaken, asks for them; *)
(* and a search that was sent alone is the only one until it is answered.  *)
(***************************************************************************)
LastIsAsked ==
    calls # <<>> /\ ~calls[Len(calls)].passed => calls[Len(calls)].what = tab.url

LoneIsAsked ==
    ~list.crowded /\ calls # <<>> =>
        Len(calls) = 1 /\ calls[1].what = tab.url /\ list.error = "none"

AnsweredIsShown ==
    calls = <<>> /\ ~list.loading /\ ~list.late =>
        list.shown = tab.url \/ list.error # "none"

ErrorOrResults ==
    ~list.crowded /\ ~list.loading => (list.shown = None <=> list.error # "none")

RefusedIsAsked == list.error = "refused" /\ ~list.crowded => Unanswerable(tab.url)

ListInv ==
    /\ list.filters = tab.url
    /\ LastIsAsked
    /\ LoneIsAsked
    /\ AnsweredIsShown
    /\ ErrorOrResults
    /\ RefusedIsAsked
    /\ list.shown # None => ~Unanswerable(list.shown)
    /\ Results /\ calls = <<>> => ~list.loading

ListParts == <<tab, list, calls>>

LEMMA ListInit == Init => ListInv
<1> SUFFICES ASSUME Init PROVE ListInv
  OBVIOUS
<1>1. /\ list = Blank(tab.url)
      /\ calls = FirstCalls(tab.place, tab.url)
  BY DEF Init
<1>2. calls = <<>> \/ (calls = <<Sent(tab.url)>> /\ Len(calls) = 1 /\ calls[1] = Sent(tab.url))
  BY <1>1 DEF FirstCalls
<1>3. Results => calls # <<>>
  BY <1>1, <1>2 DEF FirstCalls, Results
<1> QED
  BY <1>1, <1>2, <1>3 DEF Blank, Sent, ListInv, LastIsAsked, LoneIsAsked, AnsweredIsShown,
     ErrorOrResults, RefusedIsAsked

LEMMA ListBlank ==
    ASSUME list' = Blank(tab'.url), calls' = FirstCalls(tab'.place, tab'.url)
    PROVE  ListInv'
<1>1. \/ calls' = <<>>
      \/ calls' = <<Sent(tab'.url)>> /\ Len(calls') = 1 /\ calls'[1] = Sent(tab'.url)
  BY DEF FirstCalls
<1>2. Results' => calls' # <<>>
  BY <1>1 DEF FirstCalls, Results
<1> QED
  BY <1>1, <1>2 DEF Blank, Sent, ListInv, LastIsAsked, LoneIsAsked, AnsweredIsShown,
     ErrorOrResults, RefusedIsAsked

LEMMA ListFetch ==
    ASSUME PagesTypeOK, ListInv, NEW f \in Query, Fetch(f), tab'.url = f
    PROVE  ListInv'
<1>1. Sent(f) \in Asked(Query)
  BY DEF Sent, Asked
<1>2. calls \in Seq(Asked(Query))
  BY DEF PagesTypeOK
<1>3. /\ calls' # <<>>
      /\ Len(calls') = Len(calls) + 1
      /\ calls'[Len(calls')] = Sent(f)
  BY <1>1, <1>2, AppendProperties, LenProperties DEF Fetch
<1>4. calls = <<>> => Len(calls') = 1
  BY <1>3
<1>5. /\ list'.filters = f /\ list'.loading = TRUE /\ list'.error = "none"
      /\ list'.shown = list.shown
      /\ ~list'.crowded => calls = <<>>
  BY DEF PagesTypeOK, Fetch
<1>6. LastIsAsked' /\ LoneIsAsked'
  <2>1. Sent(f).what = f
    BY DEF Sent
  <2>2. LastIsAsked'
    BY <1>3, <2>1 DEF LastIsAsked
  <2>3. ~list'.crowded => Len(calls') = 1 /\ calls'[1] = Sent(f)
    BY <1>3, <1>4, <1>5
  <2> QED
    BY <1>5, <2>1, <2>2, <2>3 DEF LoneIsAsked
<1> QED
  BY <1>3, <1>5, <1>6 DEF ListInv, AnsweredIsShown, ErrorOrResults, RefusedIsAsked

LEMMA ListAnswer ==
    ASSUME PagesTypeOK, ListInv, NEW i, Answer(i)
    PROVE  ListInv'
<1>1. i \in 1 .. Len(calls) /\ calls[i] \in Asked(Query)
  <2>1. calls \in Seq(Asked(Query)) /\ i \in DOMAIN calls
    BY DEF PagesTypeOK, Answer
  <2> QED
    BY <2>1, LenProperties
<1>2. calls \in Seq(Asked(Query)) /\ calls' = Answered(calls, i)
  BY DEF PagesTypeOK, Answer
<1>3. /\ calls' \in Seq(Asked(Query))
      /\ Len(calls') = Len(calls) - 1
      /\ \A j \in 1 .. Len(calls) - 1 :
           /\ j < i => calls'[j].passed = TRUE
           /\ j >= i => calls'[j] = calls[j + 1]
  <2>1. calls \in Seq(Asked(Query))
    BY <1>2
  <2>2. /\ Answered(calls, i) \in Seq(Asked(Query))
        /\ Len(Answered(calls, i)) = Len(calls) - 1
        /\ \A j \in 1 .. Len(calls) - 1 :
             /\ j < i => /\ Answered(calls, i)[j].what = calls[j].what
                         /\ Answered(calls, i)[j].passed = TRUE
             /\ j >= i => Answered(calls, i)[j] = calls[j + 1]
    BY <1>1, <2>1, AnsweredFacts
  <2> QED
    BY <1>2, <2>2
<1>4. Len(calls) \in Nat \ {0} /\ calls # <<>>
  BY <1>1, <1>2, LenProperties
<1>5. calls' = <<>> <=> Len(calls) = 1
  BY <1>3, <1>4, EmptySeq
<1>6. UNCHANGED tab
  BY DEF Answer
<1>7. PICK error \in {"none", "refused", "failed"}, n \in Announced(calls[i].what) :
        /\ error = "none" => Admitted(calls[i].what)
        /\ error = "refused" => ~Admitted(calls[i].what)
        /\ list' = [list EXCEPT
                !.loading = FALSE,
                !.error = IF error = "none" THEN @ ELSE error,
                !.shown = IF error = "none" THEN calls[i].what ELSE None,
                !.pages = IF error = "none" THEN n ELSE 0,
                !.late = calls[i].passed]
  BY DEF Answer
<1>8. /\ list'.loading = FALSE /\ list'.filters = list.filters /\ list'.crowded = list.crowded
      /\ list'.error = IF error = "none" THEN list.error ELSE error
      /\ list'.shown = IF error = "none" THEN calls[i].what ELSE None
      /\ list'.late = calls[i].passed
  BY <1>7 DEF PagesTypeOK
<1>9. calls[i].what \in Query /\ calls[i].what # None
      /\ (Admitted(calls[i].what) <=> ~Unanswerable(calls[i].what))
  BY <1>1, QueryFacts, AdmittedIsAnswerable DEF Asked
<1>10. LastIsAsked'
  <2> SUFFICES ASSUME calls' # <<>>, ~calls'[Len(calls')].passed
               PROVE  calls'[Len(calls')].what = tab.url
    BY <1>6 DEF LastIsAsked
  <2>0. Len(calls) # 1
    BY <1>5
  <2>1. Len(calls) - 1 \in 1 .. Len(calls) - 1 /\ (Len(calls) - 1) + 1 = Len(calls)
    BY <1>4, <2>0, LastIndex
  <2>2. Len(calls) - 1 >= i
    <3> SUFFICES ASSUME Len(calls) - 1 < i PROVE FALSE
      BY <1>1, <1>4
    <3>1. calls'[Len(calls) - 1].passed = TRUE
      BY <1>3, <2>1
    <3> QED
      BY <1>3, <3>1
  <2>3. calls'[Len(calls')] = calls[Len(calls)]
    BY <1>3, <2>1, <2>2
  <2> QED
    BY <1>4, <2>3 DEF ListInv, LastIsAsked
<1>11. ~list.crowded =>
         i = 1 /\ Len(calls) = 1 /\ calls[i].what = tab.url /\ list.error = "none"
  BY <1>1, <1>4 DEF ListInv, LoneIsAsked
<1>12. LoneIsAsked'
  BY <1>5, <1>8, <1>11 DEF LoneIsAsked
<1>13. AnsweredIsShown'
  <2>1. Len(calls) = 1 /\ ~calls[i].passed => calls[i].what = tab.url
    BY <1>1, <1>4 DEF ListInv, LastIsAsked
  <2> QED
    BY <1>5, <1>6, <1>8, <2>1 DEF AnsweredIsShown
<1>14. ErrorOrResults' /\ RefusedIsAsked'
  BY <1>6, <1>7, <1>8, <1>9, <1>11 DEF ErrorOrResults, RefusedIsAsked
<1>15. list'.shown # None => ~Unanswerable(list'.shown)
  BY <1>7, <1>8, <1>9
<1> QED
  BY <1>6, <1>8, <1>10, <1>12, <1>13, <1>14, <1>15 DEF ListInv

LEMMA ListSame == ListInv /\ UNCHANGED ListParts => ListInv'
  BY DEF ListParts, ListInv, LastIsAsked, LoneIsAsked, AnsweredIsShown, ErrorOrResults,
     RefusedIsAsked, Results

LEMMA ListStep == PagesTypeOK /\ ListInv /\ PageStep => ListInv'
<1> SUFFICES ASSUME PagesTypeOK, ListInv, PageStep PROVE ListInv'
  OBVIOUS
<1>1. CASE UserStep
  <2>1. CASE Retry
    <3>1. list.filters \in Query /\ list.filters = tab.url
      BY DEF PagesTypeOK, ListInv
    <3> QED
      BY <2>1, <3>1, ListFetch DEF Retry
  <2>2. CASE UNCHANGED ListParts
    BY <2>2, ListSame
  <2> QED
    BY <1>1, <2>1, <2>2 DEF UserStep, ListParts, Link, Browse, Leave, Change, Remove, GoToPage,
       ClearAll, ToggleMap, Type, SelectTag, Focus, Close, Submit, SelectPage
<1>2. CASE TimerFires \/ \E i \in 1 .. MaxCalls : Suggest(i)
  BY <1>2, ListSame DEF TimerFires, Suggest, ListParts
<1>3. ASSUME NEW i \in 1 .. MaxCalls, Answer(i) PROVE ListInv'
  BY <1>3, ListAnswer
<1>4. CASE Arrive
  <2>1. nav.url \in Query /\ tab' = nav
    BY <1>4 DEF Arrive, PagesTypeOK, Page
  <2>2. CASE Follow
    BY <2>1, <2>2, ListFetch DEF Follow
  <2>3. CASE StayPut
    BY <2>1, <2>3, ListSame DEF StayPut, ListParts
  <2>4. CASE Mount
    BY <2>1, <2>4, ListBlank DEF Mount
  <2> QED
    BY <1>4, <2>2, <2>3, <2>4 DEF Arrive
<1>5. CASE Displaced
  BY <1>5, ListBlank DEF Displaced, FirstCalls
<1>6. CASE Interrupted \/ UNCHANGED vars
  BY <1>6, ListSame DEF Interrupted, vars, ListParts
<1> QED
  BY <1>1, <1>2, <1>3, <1>4, <1>5, <1>6 DEF PageStep, Next, MachineStep

-----------------------------------------------------------------------------
(***************************************************************************)
(* What the bar suggests.  The request that was sent last, unless it has   *)
(* been overtaken or the timer runs again, asks for the text of the bar.   *)
(***************************************************************************)
AskedIsTyped ==
    asks # <<>> /\ ~asks[Len(asks)].passed /\ ~bar.due => asks[Len(asks)].what = bar.text

ListedIsTyped ==
    asks = <<>> /\ ~bar.due /\ bar.listed # None /\ ~bar.late => bar.listed = bar.text

BarInv == AskedIsTyped /\ ListedIsTyped

LEMMA BarInit == Init => BarInv
  BY DEF Init, Bar, BarInv, AskedIsTyped, ListedIsTyped

LEMMA BarMounted ==
    ASSUME NEW t, bar' = Bar(t), asks' = <<>>
    PROVE  BarInv'
  BY DEF Bar, BarInv, AskedIsTyped, ListedIsTyped

LEMMA BarSame ==
    ASSUME BarInv, bar' = bar \/ (\E b \in BOOLEAN : bar' = [bar EXCEPT !.open = b]),
           PagesTypeOK, UNCHANGED asks
    PROVE  BarInv'
<1>1. /\ bar'.text = bar.text /\ bar'.due = bar.due
      /\ bar'.listed = bar.listed /\ bar'.late = bar.late
  BY DEF PagesTypeOK
<1> QED
  BY <1>1 DEF BarInv, AskedIsTyped, ListedIsTyped

(* A text too short to be asked for: the suggestions are gone. *)
LEMMA BarShortened ==
    ASSUME PagesTypeOK, ~bar'.due, bar'.listed = None, asks' = Overtaken(asks)
    PROVE  BarInv'
<1>1. asks \in Seq(Asked(Texts \cup {None}))
  BY DEF PagesTypeOK
<1>2. /\ Overtaken(asks) \in Seq(Asked(Texts \cup {None}))
      /\ Len(Overtaken(asks)) = Len(asks)
      /\ \A i \in 1 .. Len(asks) :
           Overtaken(asks)[i].what = asks[i].what /\ Overtaken(asks)[i].passed = TRUE
  BY <1>1, OvertakenFacts
<1>3. asks' # <<>> => asks'[Len(asks')].passed
  <2> SUFFICES ASSUME asks' # <<>> PROVE asks'[Len(asks')].passed
    OBVIOUS
  <2>1. Len(asks) \in 1 .. Len(asks)
    BY <1>2, EmptySeq
  <2>2. Overtaken(asks)[Len(asks)].passed = TRUE
    BY <1>2, <2>1
  <2> QED
    BY <1>2, <2>2
<1> QED
  BY <1>3 DEF BarInv, AskedIsTyped, ListedIsTyped

LEMMA BarWrite ==
    ASSUME PagesTypeOK, BarInv, NEW t \in Texts \cup {None}, Write(t)
    PROVE  BarInv'
<1>1. CASE Long(t)
  <2>1. bar'.due = TRUE
    BY <1>1 DEF Write, PagesTypeOK
  <2> QED
    BY <2>1 DEF BarInv, AskedIsTyped, ListedIsTyped
<1>2. CASE ~Long(t)
  <2>1. bar'.due = FALSE /\ bar'.listed = None /\ asks' = Overtaken(asks)
    BY <1>2 DEF Write, PagesTypeOK
  <2> QED
    BY <2>1, BarShortened
<1> QED
  BY <1>1, <1>2

LEMMA BarTag ==
    ASSUME PagesTypeOK, BarInv, NEW t \in Texts, SelectTag(t)
    PROVE  BarInv'
<1>1. CASE t = bar.text
  <2>1. /\ bar'.text = bar.text /\ bar'.due = bar.due
        /\ bar'.listed = bar.listed /\ bar'.late = bar.late /\ asks' = asks
    BY <1>1 DEF SelectTag, PagesTypeOK
  <2> QED
    BY <2>1 DEF BarInv, AskedIsTyped, ListedIsTyped
<1>2. CASE t # bar.text /\ Long(t)
  <2>1. bar'.due
    BY <1>2 DEF SelectTag, PagesTypeOK
  <2> QED
    BY <2>1 DEF BarInv, AskedIsTyped, ListedIsTyped
<1>3. CASE t # bar.text /\ ~Long(t)
  <2>1. ~bar'.due /\ bar'.listed = None /\ asks' = Overtaken(asks)
    BY <1>3 DEF SelectTag, PagesTypeOK
  <2> QED
    BY <2>1, BarShortened
<1> QED
  BY <1>1, <1>2, <1>3

LEMMA BarTimer == PagesTypeOK /\ TimerFires => BarInv'
<1> SUFFICES ASSUME PagesTypeOK, TimerFires PROVE BarInv'
  OBVIOUS
<1>1. asks \in Seq(Asked(Texts \cup {None})) /\ Sent(bar.text) \in Asked(Texts \cup {None})
  BY DEF PagesTypeOK, Sent, Asked
<1>2. asks' # <<>> /\ asks'[Len(asks')] = Sent(bar.text)
  BY <1>1, AppendProperties, LenProperties DEF TimerFires
<1>3. bar'.text = bar.text /\ Sent(bar.text).what = bar.text
  BY DEF TimerFires, PagesTypeOK, Sent
<1> QED
  BY <1>2, <1>3 DEF BarInv, AskedIsTyped, ListedIsTyped

LEMMA BarSuggest ==
    ASSUME PagesTypeOK, BarInv, NEW i, Suggest(i)
    PROVE  BarInv'
<1>1. asks \in Seq(Asked(Texts \cup {None})) /\ i \in 1 .. Len(asks)
  <2>1. asks \in Seq(Asked(Texts \cup {None})) /\ i \in DOMAIN asks
    BY DEF PagesTypeOK, Suggest
  <2> QED
    BY <2>1, LenProperties
<1>2. asks' = Answered(asks, i)
  BY DEF Suggest
<1>3. /\ Answered(asks, i) \in Seq(Asked(Texts \cup {None}))
      /\ Len(Answered(asks, i)) = Len(asks) - 1
      /\ \A j \in 1 .. Len(asks) - 1 :
           /\ j < i => /\ Answered(asks, i)[j].what = asks[j].what
                       /\ Answered(asks, i)[j].passed = TRUE
           /\ j >= i => Answered(asks, i)[j] = asks[j + 1]
  BY <1>1, AnsweredFacts
<1>4. Len(asks) \in Nat \ {0} /\ asks # <<>>
  BY <1>1, LenProperties
<1>5. asks' = <<>> <=> Len(asks) = 1
  BY <1>2, <1>3, <1>4, EmptySeq
<1>6. bar'.text = bar.text /\ bar'.due = bar.due
  BY DEF Suggest, PagesTypeOK
<1>7. bar'.listed # None => bar'.listed = asks[i].what /\ bar'.late = asks[i].passed
  BY DEF Suggest, PagesTypeOK
<1>8. AskedIsTyped'
  <2> SUFFICES ASSUME asks' # <<>>, ~asks'[Len(asks')].passed, ~bar.due
               PROVE  asks'[Len(asks')].what = bar.text
    BY <1>6 DEF AskedIsTyped
  <2>1. Len(asks) # 1
    BY <1>5
  <2>2. Len(asks) - 1 \in 1 .. Len(asks) - 1 /\ (Len(asks) - 1) + 1 = Len(asks)
    BY <1>4, <2>1, LastIndex
  <2>3. Len(asks) - 1 >= i
    <3> SUFFICES ASSUME Len(asks) - 1 < i PROVE FALSE
      BY <1>1, <1>4
    <3>1. asks'[Len(asks) - 1].passed = TRUE
      BY <1>2, <1>3, <2>2
    <3> QED
      BY <1>2, <1>3, <3>1
  <2>4. asks'[Len(asks')] = asks[Len(asks)]
    BY <1>2, <1>3, <2>2, <2>3
  <2> QED
    BY <1>4, <2>4 DEF BarInv, AskedIsTyped
<1>9. ListedIsTyped'
  <2>1. Len(asks) = 1 /\ ~bar.due /\ ~asks[i].passed => asks[i].what = bar.text
    BY <1>1, <1>4 DEF BarInv, AskedIsTyped
  <2> QED
    BY <1>5, <1>6, <1>7, <2>1 DEF ListedIsTyped
<1> QED
  BY <1>8, <1>9 DEF BarInv

LEMMA BarStep == PagesTypeOK /\ BarInv /\ PageStep => BarInv'
<1> SUFFICES ASSUME PagesTypeOK, BarInv, PageStep PROVE BarInv'
  OBVIOUS
<1>1. CASE UserStep
  <2>1. ASSUME NEW t \in Texts \cup {None}, Type(t) PROVE BarInv'
    BY <2>1, BarWrite DEF Type
  <2>2. ASSUME NEW t \in Texts, SelectTag(t) PROVE BarInv'
    BY <2>2, BarTag
  <2>3. CASE Focus \/ Close \/ Submit \/ SelectPage
    BY <2>3, BarSame DEF Focus, Close, Submit, SelectPage
  <2>4. CASE UNCHANGED <<bar, asks>>
    BY <2>4, BarSame
  <2> QED
    BY <1>1, <2>1, <2>2, <2>3, <2>4 DEF UserStep, Link, Browse, Leave, Change, Remove, GoToPage,
       ClearAll, ToggleMap, Retry
<1>2. CASE TimerFires
  BY <1>2, BarTimer
<1>3. ASSUME NEW i \in 1 .. MaxCalls, Answer(i) \/ Suggest(i) PROVE BarInv'
  BY <1>3, BarSuggest, BarSame DEF Answer
<1>4. CASE Arrive
  BY <1>4, BarMounted, BarSame DEF Arrive, Follow, StayPut, Mount
<1>5. CASE Displaced
  BY <1>5, BarMounted DEF Displaced
<1>6. CASE Interrupted \/ UNCHANGED vars
  BY <1>6, BarSame DEF Interrupted, vars
<1> QED
  BY <1>1, <1>2, <1>3, <1>4, <1>5, <1>6 DEF PageStep, Next, MachineStep

-----------------------------------------------------------------------------
(***************************************************************************)
(* What the user chose, as long as he waited: the URL says it, or the page *)
(* that has been asked for will.                                           *)
(***************************************************************************)
Destination == IF nav = None THEN tab.url ELSE nav.url

ChosenInv == chosen.waited => Destination = chosen.filters

LEMMA ChosenInit == Init => ChosenInv
  BY DEF Init, ChosenInv, Destination

LEMMA ChosenWants ==
    ASSUME NEW place \in Places, NEW url \in Query, Goes(place, url), Wants(url)
    PROVE  ChosenInv'
<1>1. nav' = [place |-> place, url |-> url] /\ nav' # None
  BY PageIsNotNone DEF Goes, Page
<1> QED
  BY <1>1 DEF Destination, Wants, ChosenInv

(* He waits: what he adds to the filters of the page, he adds to his own. *)
LEMMA ChosenChooses ==
    ASSUME PagesTypeOK, ChosenInv, NEW place \in Places, NEW url \in Query, NEW f,
           Goes(place, url), Chooses(f),
           chosen.filters = tab.url => url = f
    PROVE  ChosenInv'
<1>1. nav' = [place |-> place, url |-> url] /\ nav' # None
  BY PageIsNotNone DEF Goes, Page
<1>2. Destination' = url
  BY <1>1 DEF Destination
<1> SUFFICES ASSUME chosen'.waited PROVE url = chosen'.filters
  BY <1>2 DEF ChosenInv
<1>3. chosen'.filters = f /\ chosen.waited /\ nav = None
  BY DEF Chooses
<1>4. chosen.filters = tab.url
  BY <1>3 DEF ChosenInv, Destination
<1> QED
  BY <1>3, <1>4

LEMMA ChosenSame ==
    ASSUME ChosenInv, Destination' = Destination, UNCHANGED chosen
    PROVE  ChosenInv'
  BY DEF ChosenInv

(* The order of two parameters does not matter. *)
LEMMA WithCommutes ==
    ASSUME NEW f, NEW j, NEW k, NEW v, NEW w, j # k
    PROVE  With(With(f, j, v), k, w) = With(With(f, k, w), j, v)
<1>1. /\ DOMAIN With(With(f, j, v), k, w) = DOMAIN f \cup {j, k}
      /\ DOMAIN With(With(f, k, w), j, v) = DOMAIN f \cup {j, k}
  BY DEF With
<1>2. /\ With(With(f, j, v), k, w) =
           [i \in DOMAIN f \cup {j, k} |-> IF i = k THEN w ELSE IF i = j THEN v ELSE f[i]]
      /\ With(With(f, k, w), j, v) =
           [i \in DOMAIN f \cup {j, k} |-> IF i = k THEN w ELSE IF i = j THEN v ELSE f[i]]
  BY DEF With
<1> QED
  BY <1>2

LEMMA ChosenUser ==
    ASSUME PagesTypeOK, ListInv, ChosenInv, UserStep
    PROVE  ChosenInv'
<1>0. /\ list.filters \in Query /\ chosen.filters \in Query /\ tab \in Page
      /\ list.filters = tab.url
  BY DEF PagesTypeOK, ListInv
<1>1. ASSUME NEW url \in {Nothing} \cup {Search(t) : t \in Texts}, Link(url) PROVE ChosenInv'
  BY <1>1, ChosenWants, NothingQuery, SearchQueries DEF Link, Places
<1>2. ASSUME NEW c \in Categories, Browse(c) PROVE ChosenInv'
  BY <1>2, ChosenWants, CategoryQueries DEF Browse, Places
<1>3. ASSUME NEW place \in {"home", "other"}, Leave(place) PROVE ChosenInv'
  BY <1>3, ChosenWants, NothingQuery DEF Leave, Places
<1>4. ASSUME NEW k \in DOMAIN Offers, NEW v \in Offers[k], Change(k, v) PROVE ChosenInv'
  <2> DEFINE url == Serialize(Updated(list.filters, k, v))
             f == Serialize(With(With(chosen.filters, "page", 1), k, v))
  <2>1. k # "page"
    BY OffersAssumption DEF Filters
  <2>2. Updated(list.filters, k, v) = With(With(list.filters, "page", 1), k, v)
    BY <2>1, WithCommutes DEF Updated
  <2>3. url \in Query /\ "search" \in Places
    BY ChangeQueries DEF Places
  <2>4. chosen.filters = tab.url => url = f
    BY <1>0, <2>2
  <2>5. Goes("search", url) /\ Chooses(f)
    BY <1>4 DEF Change
  <2> HIDE DEF url, f
  <2> QED
    BY <2>3, <2>4, <2>5, ChosenChooses
<1>5. ASSUME NEW k \in DOMAIN Offers, Remove(k) PROVE ChosenInv'
  <2> DEFINE url == Serialize(With(Without(list.filters, k), "page", 1))
             f == With(Without(chosen.filters, k), "page", 1)
  <2>1. /\ url = With(Without(list.filters, k), "page", 1)
        /\ url \in Query /\ "search" \in Places
    BY <1>0, RemoveQueries DEF Places
  <2>2. chosen.filters = tab.url => url = f
    BY <1>0, <2>1
  <2>3. Goes("search", url) /\ Chooses(f)
    BY <1>5 DEF Remove
  <2> HIDE DEF url, f
  <2> QED
    BY <2>1, <2>2, <2>3, ChosenChooses
<1>6. ASSUME NEW p \in 1 .. MaxPages, GoToPage(p) PROVE ChosenInv'
  <2> DEFINE url == Serialize(Updated(list.filters, "page", p))
             f == With(chosen.filters, "page", p)
  <2>1. /\ url = With(list.filters, "page", p)
        /\ url \in Query /\ "search" \in Places
    BY <1>0, PageChosen, PageQueries DEF Places
  <2>2. chosen.filters = tab.url => url = f
    BY <1>0, <2>1
  <2>3. Goes("search", url) /\ Chooses(f)
    BY <1>6 DEF GoToPage
  <2> HIDE DEF url, f
  <2> QED
    BY <2>1, <2>2, <2>3, ChosenChooses
<1>7. CASE ClearAll
  <2>1. PICK url \in Query : Goes("search", url) /\ Chooses(url)
    BY <1>7, <1>0, ClearQueries DEF ClearAll
  <2> QED
    BY <2>1, ChosenChooses DEF Places
<1>8. CASE ToggleMap
  <2>1. CASE tab.place \in {"search", "map"}
    <3>1. PICK place \in Places : Goes(place, tab.url) /\ Chooses(chosen.filters)
      BY <1>8, <2>1 DEF ToggleMap, Places
    <3>2. tab.url \in Query
      BY <1>0 DEF Page
    <3> QED
      BY <3>1, <3>2, ChosenChooses
  <2>2. CASE tab.place = "category"
    BY <1>8, <2>2 DEF ToggleMap, ChosenInv, PagesTypeOK
  <2> QED
    BY <1>8, <2>1, <2>2 DEF ToggleMap
<1>9. ASSUME NEW t \in Texts, SelectTag(t) PROVE ChosenInv'
  BY <1>9, ChosenWants, SearchQueries DEF SelectTag, Places
<1>10. CASE Submit
  <2>1. Search(bar.text) \in Query
    BY <1>10, SearchQueries DEF Submit, PagesTypeOK
  <2> QED
    BY <1>10, <2>1, ChosenWants DEF Submit, Places
<1>11. CASE SelectPage
  BY <1>11, ChosenWants, NothingQuery, CategoryQueries DEF SelectPage, Places
<1>12. CASE UNCHANGED <<tab, nav, chosen>>
  BY <1>12, ChosenSame DEF Destination
<1> QED
  BY <1>1, <1>2, <1>3, <1>4, <1>5, <1>6, <1>7, <1>8, <1>9, <1>10, <1>11, <1>12
     DEF UserStep, Retry, Type, Focus, Close

LEMMA ChosenStep == PagesTypeOK /\ ListInv /\ ChosenInv /\ PageStep => ChosenInv'
<1> SUFFICES ASSUME PagesTypeOK, ListInv, ChosenInv, PageStep PROVE ChosenInv'
  OBVIOUS
<1>1. CASE MachineStep \/ UNCHANGED vars
  <2>1. UNCHANGED <<tab, nav, chosen>>
    BY <1>1 DEF MachineStep, TimerFires, Answer, Suggest, vars
  <2> QED
    BY <2>1, ChosenSame DEF Destination
<1>2. CASE Arrive
  <2>1. nav # None /\ tab' = nav /\ UNCHANGED chosen
    BY <1>2 DEF Arrive
  <2>2. nav' = None \/ nav' = [place |-> "search", url |-> nav.url]
    BY <1>2 DEF Arrive, Follow, StayPut, Mount
  <2>3. Destination' = Destination
    BY <2>1, <2>2 DEF Destination
  <2> QED
    BY <2>1, <2>3, ChosenSame
<1>3. CASE Interrupted
  <2>1. chosen'.filters = chosen.filters /\ (chosen'.waited => chosen.waited /\ nav = None)
    BY <1>3 DEF Interrupted, PagesTypeOK
  <2>2. nav = None => Destination' = Destination
    BY <1>3 DEF Interrupted, Destination
  <2> QED
    BY <2>1, <2>2 DEF ChosenInv
<1>4. CASE Displaced
  BY <1>4 DEF Displaced, ChosenInv, Destination
<1> QED
  BY <1>1, <1>2, <1>3, <1>4, ChosenUser DEF PageStep, Next

-----------------------------------------------------------------------------
PagesInv == PagesTypeOK /\ OneNavigation /\ ListInv /\ BarInv /\ ChosenInv

LEMMA PagesInvInit == WebInit => PagesInv
  BY TypeInit, RouterInit, ListInit, BarInit, ChosenInit DEF WebInit, PagesInv

LEMMA PagesInvNext == PagesInv /\ [WebNext]_allVars => PagesInv'
  BY Router, TypeStep, ListStep, BarStep, ChosenStep DEF PagesInv

LEMMA PagesInvariant == WebSpec => []PagesInv
  BY PagesInvInit, PagesInvNext, PTL DEF WebSpec

(* At all times the search pages hold queries the URL can say, whatever is *)
(* typed and chosen and whatever the workspace does to the router.         *)
THEOREM PagesTypeCorrect == WebSpec => []PagesTypeOK
<1>1. PagesInv => PagesTypeOK
  BY DEF PagesInv
<1> QED
  BY <1>1, PagesInvariant, PTL

(* The router that search pages and workspace share never has a page of    *)
(* each to go to (router.push replaces the navigation that is pending).    *)
THEOREM OneNavigationAtATime == WebSpec => []OneNavigation
<1>1. PagesInv => OneNavigation
  BY DEF PagesInv
<1> QED
  BY <1>1, PagesInvariant, PTL

(* With no search under way the list shows what its URL asks for or an     *)
(* error, never both, but for answers that were overtaken and searches     *)
(* that were under way together (fetchResults takes no call back).         *)
THEOREM ListShowsWhatIsAsked == WebSpec => []ShownIsAsked
<1>1. PagesInv => ShownIsAsked
  BY DEF PagesInv, ListInv, AnsweredIsShown, ErrorOrResults, ShownIsAsked
<1> QED
  BY <1>1, PagesInvariant, PTL

(* A search bar at rest suggests what fits its text (the timer of the      *)
(* effect is cleared, the call it has made is not).                        *)
THEOREM BarSuggestsWhatIsTyped == WebSpec => []SuggestedIsTyped
<1>1. PagesInv => SuggestedIsTyped
  BY DEF PagesInv, BarInv, ListedIsTyped, SuggestedIsTyped
<1> QED
  BY <1>1, PagesInvariant, PTL

(* A user who waits for each page finds everything he chose in the URL,    *)
(* though updateFilters computes it from the filters of the page shown.    *)
THEOREM WaitingKeepsChoices == WebSpec => []ChosenIsKept
<1>1. PagesInv => ChosenIsKept
  BY DEF PagesInv, ChosenInv, Destination, ChosenIsKept
<1> QED
  BY <1>1, PagesInvariant, PTL

(* Of all the pages can ask for, the API refuses exactly what depends on a *)
(* place, has a negative price or a text too long (assertGeoSort,          *)
(* SearchServicesQueryDto): an answer is never of that kind, a refusal is. *)
THEOREM SearchesRefusedForAReason == WebSpec => []SearchRefusedForAReason
<1>1. PagesInv => SearchRefusedForAReason
  BY DEF PagesInv, ListInv, RefusedIsAsked, SearchRefusedForAReason
<1> QED
  BY <1>1, PagesInvariant, PTL

-----------------------------------------------------------------------------
(***************************************************************************)
(* Until two searches have been under way together, what is shown is what  *)
(* the URL asks for, and so every page number that is asked for, will be   *)
(* or is in the URL has been announced for its question.                   *)
(***************************************************************************)
Heard(T, f) == OnPage(f) > 1 => <<Question(f), OnPage(f)>> \in T

ApartInv ==
    /\ Tells(list) \subseteq told
    /\ apart =>
        /\ Len(calls) <= 1
        /\ calls # <<>> => list.loading /\ ~calls[1].passed /\ Heard(told, calls[1].what)
        /\ ~list.late
        /\ Heard(told, tab.url)
        /\ nav # None => Heard(told, nav.url)

(* What is told stays told, and apart does not come back. *)
Recalls ==
    /\ told \subseteq told' /\ Tells(list') \subseteq told'
    /\ apart' => apart /\ Len(calls') <= 1

LEMMA HeardStays == \A T, U, f : T \subseteq U /\ Heard(T, f) => Heard(U, f)
  BY DEF Heard

LEMMA FirstPageHeard ==
    ASSUME NEW T, NEW f, "page" \in DOMAIN f => f["page"] = 1
    PROVE  Heard(T, f)
  BY DEF Heard, OnPage, Value, Sets

LEMMA PlainPagesHeard ==
    ASSUME NEW T
    PROVE  /\ Heard(T, Nothing)
           /\ \A t \in Texts : Heard(T, Search(t))
           /\ \A c \in Categories : Heard(T, InCategory(c))
  BY FirstPageHeard DEF Nothing, Search, InCategory

(* The number of the page is no part of the question. *)
LEMMA QuestionOfPage ==
    \A f \in Query, p \in Nat : Question(With(f, "page", p)) = Question(f)
<1> TAKE f \in Query, p \in Nat
<1>1. DOMAIN With(f, "page", p) \ {"page"} = DOMAIN f \ {"page"}
  BY DEF With
<1>2. \A k \in DOMAIN f \ {"page"} : With(f, "page", p)[k] = f[k]
  BY DEF With
<1> QED
  BY <1>1, <1>2 DEF Question, Without

LEMMA ApartSame ==
    ASSUME ApartInv, Recalls, list'.late = list.late, UNCHANGED calls,
           calls # <<>> => list'.loading = list.loading,
           apart => Heard(told, tab'.url) /\ (nav' # None => Heard(told, nav'.url))
    PROVE  ApartInv'
<1>1. \A f : Heard(told, f) => Heard(told', f)
  BY HeardStays DEF Recalls
<1> SUFFICES ASSUME apart'
             PROVE  /\ Len(calls') <= 1
                    /\ calls' # <<>> => list'.loading /\ ~calls'[1].passed
                                        /\ Heard(told', calls'[1].what)
                    /\ ~list'.late
                    /\ Heard(told', tab'.url)
                    /\ nav' # None => Heard(told', nav'.url)
  BY DEF ApartInv, Recalls
<1> QED
  BY <1>1 DEF ApartInv, Recalls

LEMMA ApartGoes ==
    ASSUME ApartInv, Recalls, NEW place, NEW url, Goes(place, url),
           apart => Heard(told, url), UNCHANGED <<tab, list, calls>>
    PROVE  ApartInv'
<1>1. nav'.url = url
  BY DEF Goes
<1> QED
  BY <1>1, ApartSame DEF ApartInv

LEMMA ApartFetch ==
    ASSUME PagesTypeOK, ApartInv, Recalls,
           NEW f \in Query, Fetch(f), tab'.url = f, apart => Heard(told, f),
           nav' = None \/ (nav' = nav /\ tab' = tab)
    PROVE  ApartInv'
<1>1. Sent(f) \in Asked(Query) /\ calls \in Seq(Asked(Query))
  BY DEF Sent, Asked, PagesTypeOK
<1>2. /\ Len(calls) \in Nat
      /\ Len(calls') = Len(calls) + 1
      /\ calls'[Len(calls')] = Sent(f)
  BY <1>1, AppendProperties, LenProperties DEF Fetch
<1>3. list'.loading = TRUE /\ list'.late = list.late
  BY DEF Fetch, PagesTypeOK
<1>4. Sent(f).what = f /\ Sent(f).passed = FALSE
  BY DEF Sent
<1>5. \A g : Heard(told, g) => Heard(told', g)
  BY HeardStays DEF Recalls
<1> SUFFICES ASSUME apart'
             PROVE  /\ Len(calls') <= 1
                    /\ calls' # <<>> => list'.loading /\ ~calls'[1].passed
                                        /\ Heard(told', calls'[1].what)
                    /\ ~list'.late
                    /\ Heard(told', tab'.url)
                    /\ nav' # None => Heard(told', nav'.url)
  BY DEF ApartInv, Recalls
<1>6. Len(calls') <= 1 /\ calls'[1] = Sent(f)
  BY <1>2 DEF Recalls
<1> QED
  BY <1>3, <1>4, <1>5, <1>6 DEF ApartInv, Recalls

LEMMA ApartBlank ==
    ASSUME list' = Blank(tab'.url), calls' = FirstCalls(tab'.place, tab'.url), Recalls,
           apart' => Heard(told', tab'.url) /\ (nav' # None => Heard(told', nav'.url))
    PROVE  ApartInv'
<1>1. calls' = <<>> \/ (Len(calls') = 1 /\ calls'[1] = Sent(tab'.url))
  BY DEF FirstCalls
<1>2. list'.loading /\ ~list'.late /\ Sent(tab'.url).what = tab'.url /\ ~Sent(tab'.url).passed
  BY DEF Blank, Sent
<1>3. calls' = <<>> => Len(calls') = 0
  BY EmptySeq
<1> SUFFICES ASSUME apart'
             PROVE  /\ Len(calls') <= 1
                    /\ calls' # <<>> => list'.loading /\ ~calls'[1].passed
                                        /\ Heard(told', calls'[1].what)
                    /\ ~list'.late
                    /\ Heard(told', tab'.url)
                    /\ nav' # None => Heard(told', nav'.url)
  BY DEF ApartInv, Recalls
<1>4. CASE calls' = <<>>
  BY <1>2, <1>3, <1>4
<1>5. CASE Len(calls') = 1 /\ calls'[1] = Sent(tab'.url)
  <2>1. Len(calls') <= 1
    BY <1>5
  <2> QED
    BY <1>2, <1>5, <2>1
<1> QED
  BY <1>1, <1>4, <1>5

LEMMA ApartInitial == ApartInit => ApartInv
<1> SUFFICES ASSUME ApartInit PROVE ApartInv
  OBVIOUS
<1>1. /\ list = Blank(tab.url) /\ calls = FirstCalls(tab.place, tab.url) /\ nav = None
      /\ Heard(told, tab.url)
  <2>1. /\ list = Blank(tab.url) /\ calls = FirstCalls(tab.place, tab.url) /\ nav = None
        /\ tab.url = Nothing \/ \E t \in Texts : tab.url = Search(t)
    BY DEF ApartInit, WebInit, Init
  <2>2. Heard(told, Nothing) /\ \A t \in Texts : Heard(told, Search(t))
    BY PlainPagesHeard
  <2> QED
    BY <2>1, <2>2
<1>2. calls = <<>> \/ (Len(calls) = 1 /\ calls[1] = Sent(tab.url))
  BY <1>1 DEF FirstCalls
<1>3. list.loading /\ ~list.late /\ Sent(tab.url).what = tab.url /\ ~Sent(tab.url).passed
  BY <1>1 DEF Blank, Sent
<1>4. calls = <<>> => Len(calls) = 0
  BY EmptySeq
<1>5. Len(calls) <= 1 /\ (calls # <<>> => calls[1].what = tab.url /\ ~calls[1].passed)
  BY <1>2, <1>3, <1>4
<1>6. Tells(list) = {}
  BY <1>1 DEF Blank, Tells
<1> QED
  BY <1>1, <1>3, <1>5, <1>6 DEF ApartInv

LEMMA ApartAnswer ==
    ASSUME PagesTypeOK, ApartInv, Recalls, NEW i, Answer(i)
    PROVE  ApartInv'
<1>1. calls \in Seq(Asked(Query)) /\ i \in 1 .. Len(calls)
  <2>1. calls \in Seq(Asked(Query)) /\ i \in DOMAIN calls
    BY DEF PagesTypeOK, Answer
  <2> QED
    BY <2>1, LenProperties
<1>2. /\ calls' \in Seq(Asked(Query))
      /\ Len(calls') = Len(calls) - 1
  BY <1>1, AnsweredFacts DEF Answer
<1>3. list'.late = calls[i].passed
  BY DEF PagesTypeOK, Answer
<1>4. UNCHANGED <<tab, nav>>
  BY DEF Answer
<1>5. \A g : Heard(told, g) => Heard(told', g)
  BY HeardStays DEF Recalls
<1> SUFFICES ASSUME apart'
             PROVE  /\ Len(calls') <= 1 /\ calls' = <<>>
                    /\ ~list'.late
                    /\ Heard(told', tab'.url)
                    /\ nav' # None => Heard(told', nav'.url)
  BY DEF ApartInv, Recalls
<1>6. Len(calls) = 1 /\ i = 1 /\ calls # <<>>
  <2>1. Len(calls) \in Nat /\ Len(calls) <= 1
    BY <1>1, LenProperties DEF ApartInv, Recalls
  <2>2. Len(calls) = 1 /\ i = 1
    BY <1>1, <2>1, OnlyIndex
  <2>3. calls = <<>> => Len(calls) = 0
    BY EmptySeq
  <2> QED
    BY <2>2, <2>3
<1>7. Len(calls') = 0 /\ calls' = <<>>
  BY <1>2, <1>6, EmptySeq
<1> QED
  BY <1>3, <1>4, <1>5, <1>6, <1>7 DEF ApartInv, Recalls

(* A page number of the list was announced for what the URL asks. *)
LEMMA PaginationHeard ==
    ASSUME PagesTypeOK, ListInv, ApartInv, apart, NEW p \in Nat \ {0}, GoToPage(p)
    PROVE  Heard(told, With(list.filters, "page", p))
<1>1. list.shown = list.filters /\ list.filters \in Query
  <2>1. ~list.loading /\ list.error = "none"
    BY DEF GoToPage, Lists
  <2>2. calls = <<>> /\ ~list.late
    BY <2>1 DEF ApartInv
  <2> QED
    BY <2>1, <2>2 DEF ListInv, AnsweredIsShown, PagesTypeOK
<1>2. p <= list.pages /\ list.shown # None
  BY DEF GoToPage, Lists
<1>3. OnPage(With(list.filters, "page", p)) = p
  BY DEF OnPage, Value, Sets, With
<1>4. Question(With(list.filters, "page", p)) = Question(list.shown)
  BY <1>1, QuestionOfPage
<1>5. ASSUME p > 1 PROVE <<Question(list.shown), p>> \in told
  <2>1. p \in 2 .. list.pages
    BY <1>2, <1>5 DEF PagesTypeOK
  <2>2. <<Question(list.shown), p>> \in Tells(list)
    BY <1>2, <2>1 DEF Tells
  <2> QED
    BY <2>2 DEF ApartInv
<1> QED
  BY <1>3, <1>4, <1>5 DEF Heard

LEMMA SerializedFirstPage ==
    ASSUME NEW T, NEW f, "page" \in DOMAIN f => f["page"] = 1
    PROVE  Heard(T, Serialize(f))
<1>1. "page" \in DOMAIN Serialize(f) => Serialize(f)["page"] = 1
  BY DEF Serialize
<1> QED
  BY <1>1, FirstPageHeard

LEMMA ApartUser ==
    ASSUME PagesTypeOK, ListInv, ApartInv, Recalls, UserStep
    PROVE  ApartInv'
<1>1. ASSUME NEW url \in {Nothing} \cup {Search(t) : t \in Texts}, Link(url) PROVE ApartInv'
  BY <1>1, ApartGoes, PlainPagesHeard DEF Link
<1>2. ASSUME NEW c \in Categories, Browse(c) PROVE ApartInv'
  BY <1>2, ApartGoes, PlainPagesHeard DEF Browse
<1>3. ASSUME NEW place \in {"home", "other"}, Leave(place) PROVE ApartInv'
  BY <1>3, ApartGoes, PlainPagesHeard DEF Leave
<1>4. ASSUME NEW k \in DOMAIN Offers, NEW v \in Offers[k], Change(k, v) PROVE ApartInv'
  <2> DEFINE f == Updated(list.filters, k, v)
  <2>1. k # "page"
    BY OffersAssumption DEF Filters
  <2>2. "page" \in DOMAIN f => f["page"] = 1
    BY <2>1 DEF Updated, With
  <2>3. Heard(told, Serialize(f))
    BY <2>2, SerializedFirstPage
  <2> QED
    BY <1>4, <2>3, ApartGoes DEF Change
<1>5. ASSUME NEW k \in DOMAIN Offers, Remove(k) PROVE ApartInv'
  <2> DEFINE f == With(Without(list.filters, k), "page", 1)
  <2>1. "page" \in DOMAIN f => f["page"] = 1
    BY DEF With
  <2>2. Heard(told, Serialize(f))
    BY <2>1, SerializedFirstPage
  <2> QED
    BY <1>5, <2>2, ApartGoes DEF Remove
<1>6. ASSUME NEW p \in 1 .. MaxPages, GoToPage(p) PROVE ApartInv'
  <2>1. list.filters \in Query /\ p \in Nat \ {0}
    BY PageChosen DEF PagesTypeOK
  <2>2. Serialize(Updated(list.filters, "page", p)) = With(list.filters, "page", p)
    BY <2>1, PageQueries
  <2>3. apart => Heard(told, With(list.filters, "page", p))
    BY <1>6, <2>1, PaginationHeard
  <2> QED
    BY <1>6, <2>2, <2>3, ApartGoes DEF GoToPage
<1>7. CASE ClearAll
  <2> DEFINE f == With(Nothing, "q", Value(list.filters, "q", None))
  <2>1. "page" \in DOMAIN f => f["page"] = 1
    BY DEF With, Nothing
  <2>2. Heard(told, Serialize(f))
    BY <2>1, SerializedFirstPage
  <2> QED
    BY <1>7, <2>2, ApartGoes DEF ClearAll
<1>8. CASE ToggleMap
  <2>1. (apart => Heard(told, tab.url)) /\ Heard(told, Nothing)
    BY PlainPagesHeard DEF ApartInv
  <2> QED
    BY <1>8, <2>1, ApartGoes DEF ToggleMap
<1>9. CASE Retry
  <2>1. list.filters \in Query /\ list.filters = tab.url /\ (apart => Heard(told, tab.url))
    BY DEF PagesTypeOK, ListInv, ApartInv
  <2> QED
    BY <1>9, <2>1, ApartFetch DEF Retry
<1>10. ASSUME NEW t \in Texts, SelectTag(t) PROVE ApartInv'
  BY <1>10, ApartGoes, PlainPagesHeard DEF SelectTag
<1>11. CASE Submit
  <2>1. bar.text \in Texts
    BY <1>11 DEF Submit, PagesTypeOK
  <2> QED
    BY <1>11, <2>1, ApartGoes, PlainPagesHeard DEF Submit
<1>12. CASE SelectPage
  BY <1>12, ApartGoes, PlainPagesHeard DEF SelectPage
<1>13. CASE UNCHANGED <<tab, nav, list, calls>>
  BY <1>13, ApartSame DEF ApartInv
<1> QED
  BY <1>1, <1>2, <1>3, <1>4, <1>5, <1>6, <1>7, <1>8, <1>9, <1>10, <1>11, <1>12, <1>13
     DEF UserStep, Type, Focus, Close

LEMMA ApartStep ==
    ASSUME PagesTypeOK, ListInv, ApartInv, Recalls, PageStep
    PROVE  ApartInv'
<1>1. CASE TimerFires \/ (\E i \in 1 .. MaxCalls : Suggest(i)) \/ UNCHANGED vars
  BY <1>1, ApartSame DEF TimerFires, Suggest, vars, ApartInv
<1>2. ASSUME NEW i \in 1 .. MaxCalls, Answer(i) PROVE ApartInv'
  BY <1>2, ApartAnswer
<1>3. CASE Arrive
  <2>1. /\ nav.url \in Query /\ nav # None /\ tab' = nav
        /\ apart => Heard(told, nav.url)
    BY <1>3 DEF Arrive, PagesTypeOK, Page, ApartInv
  <2>2. CASE Follow
    BY <2>1, <2>2, ApartFetch DEF Follow
  <2>3. CASE StayPut
    BY <2>1, <2>3, ApartSame DEF StayPut
  <2>4. CASE Mount
    <3>1. nav' = None \/ nav'.url = nav.url
      BY <2>4 DEF Mount
    <3>2. apart' => Heard(told', nav.url)
      BY <2>1, HeardStays DEF Recalls
    <3> QED
      BY <2>1, <2>4, <3>1, <3>2, ApartBlank DEF Mount
  <2> QED
    BY <1>3, <2>2, <2>3, <2>4 DEF Arrive
<1>4. CASE Interrupted
  BY <1>4, ApartSame DEF Interrupted, ApartInv
<1>5. CASE Displaced
  BY <1>5, ApartBlank, PlainPagesHeard DEF Displaced, FirstCalls
<1> QED
  BY <1>1, <1>2, <1>3, <1>4, <1>5, ApartUser DEF PageStep, Next, MachineStep

LEMMA ApartInvariant == ApartSpec => [](PagesInv /\ ApartInv)
<1>1. ApartInit => PagesInv /\ ApartInv
  BY PagesInvInit, ApartInitial DEF ApartInit
<1>2. PagesInv /\ ApartInv /\ [WebNext /\ Remembers]_apartVars => (PagesInv /\ ApartInv)'
  <2> SUFFICES ASSUME PagesInv, ApartInv, [WebNext /\ Remembers]_apartVars
               PROVE  PagesInv' /\ ApartInv'
    OBVIOUS
  <2>1. CASE WebNext /\ Remembers
    <3>1. PagesInv' /\ PageStep
      BY <2>1, PagesInvNext, Router DEF PagesInv
    <3>2. Recalls
      BY <2>1 DEF Remembers, Recalls
    <3>3. ApartInv'
      BY <3>1, <3>2, ApartStep DEF PagesInv
    <3> QED
      BY <3>1, <3>3
  <2>2. CASE UNCHANGED apartVars
    <3>1. UNCHANGED allVars /\ UNCHANGED <<tab, nav, list, calls, apart, told>>
      BY <2>2 DEF apartVars, allVars, vars
    <3>2. PagesInv'
      BY <3>1, PagesInvNext
    <3>3. ApartInv'
      BY <3>1 DEF ApartInv, Tells, Heard, OnPage, Question
    <3> QED
      BY <3>2, <3>3
  <2> QED
    BY <2>1, <2>2
<1> QED
  BY <1>1, <1>2, PTL DEF ApartSpec

(* Until two searches have been under way together, a further page is      *)
(* asked for only when an answer to that question has announced it: every  *)
(* control but the pagination goes to the first page, and the pagination   *)
(* adds its page to the question whose list is shown (updateFilters).      *)
THEOREM ApartPagesAnnounced == ApartSpec => []ApartAskedPageAnnounced
<1>1. PagesInv /\ ApartInv => ApartAskedPageAnnounced
  <2> SUFFICES ASSUME PagesInv, ApartInv, apart, NEW i \in DOMAIN calls,
                      OnPage(calls[i].what) > 1
               PROVE  <<Question(calls[i].what), OnPage(calls[i].what)>> \in told
    BY DEF ApartAskedPageAnnounced
  <2>1. calls \in Seq(Asked(Query))
    BY DEF PagesInv, PagesTypeOK
  <2>2. i \in 1 .. Len(calls) /\ Len(calls) \in Nat /\ Len(calls) <= 1
    BY <2>1, LenProperties DEF ApartInv
  <2>3. i = 1 /\ calls # <<>>
    BY <2>2, EmptySeq
  <2> QED
    BY <2>3 DEF ApartInv, Heard
<1> QED
  BY <1>1, ApartInvariant, PTL

-----------------------------------------------------------------------------
(***************************************************************************)
(* The workspace.  First the sequence of its calls: what each operation    *)
(* leaves where.                                                           *)
(***************************************************************************)
Members(s) == {s[i] : i \in DOMAIN s}

IsSequence(s) == s \in Seq(Members(s))

IsCall(c) ==
    c = [op |-> c.op, of |-> c.of, form |-> c.form, reply |-> c.reply, to |-> c.to,
         passed |-> c.passed]

SameCall(c, d) ==
    c.op = d.op /\ c.of = d.of /\ c.form = d.form /\ c.reply = d.reply /\ c.to = d.to

(* Where the j-th was before the i-th was taken out. *)
Before(i, j) == IF j < i THEN j ELSE j + 1

AreCalls(s) == IsSequence(s) /\ \A i \in DOMAIN s : IsCall(s[i])

(* What is left of s without its i-th: the same calls in the same order,   *)
(* and if that was a load, those before it have been overtaken.            *)
LeftOf(s, i, t) ==
    /\ AreCalls(t)
    /\ \A j \in DOMAIN t :
         /\ Before(i, j) \in DOMAIN s \ {i}
         /\ SameCall(t[j], s[Before(i, j)])
         /\ t[j].passed = IF j < i /\ s[i].op = "show" THEN TRUE ELSE s[Before(i, j)].passed
    /\ \A j, k \in DOMAIN t : j < k <=> Before(i, j) < Before(i, k)
    /\ \A k \in DOMAIN s \ {i} : \E j \in DOMAIN t : Before(i, j) = k

LEMMA SequenceOf ==
    ASSUME NEW S, NEW s \in Seq(S)
    PROVE  IsSequence(s) /\ Len(s) \in Nat /\ DOMAIN s = 1 .. Len(s)
<1>1. Len(s) \in Nat /\ s \in [1 .. Len(s) -> S] /\ DOMAIN s = 1 .. Len(s)
  BY LenProperties
<1>2. s \in [1 .. Len(s) -> Members(s)]
  BY <1>1 DEF Members
<1>3. s \in Seq(Members(s))
  BY <1>1, <1>2, SeqDef
<1> QED
  BY <1>1, <1>3 DEF IsSequence

LEMMA SequenceFacts ==
    ASSUME NEW s, IsSequence(s)
    PROVE  Len(s) \in Nat /\ DOMAIN s = 1 .. Len(s)
  BY LenProperties DEF IsSequence

LEMMA SequenceIn ==
    ASSUME NEW s, IsSequence(s), NEW T, Members(s) \subseteq T
    PROVE  s \in Seq(T)
  BY SeqMonotonic DEF IsSequence

LEMMA WorkAppend ==
    ASSUME NEW s, IsSequence(s), NEW e
    PROVE  /\ IsSequence(Append(s, e))
           /\ DOMAIN Append(s, e) = 1 .. Len(s) + 1
           /\ \A i \in DOMAIN s : Append(s, e)[i] = s[i]
           /\ Append(s, e)[Len(s) + 1] = e
<1> DEFINE T == Members(s) \cup {e}
<1>1. s \in Seq(T) /\ e \in T
  BY SequenceIn
<1>2. Len(s) \in Nat /\ DOMAIN s = 1 .. Len(s)
  BY SequenceFacts
<1> HIDE DEF T
<1>3. /\ Append(s, e) \in Seq(T)
      /\ Len(Append(s, e)) = Len(s) + 1
      /\ \A i \in 1 .. Len(s) : Append(s, e)[i] = s[i]
      /\ Append(s, e)[Len(s) + 1] = e
  BY <1>1, AppendProperties
<1> QED
  BY <1>2, <1>3, SequenceOf

LEMMA WorkJoin ==
    ASSUME NEW s, IsSequence(s), NEW e
    PROVE  /\ s \o <<>> = s
           /\ s \o <<e>> = Append(s, e)
<1> DEFINE T == Members(s) \cup {e}
<1>1. s \in Seq(T) /\ e \in T
  BY SequenceIn
<1> HIDE DEF T
<1> QED
  BY <1>1, ConcatEmptySeq, AppendIsConcat

LEMMA WorkRemove ==
    ASSUME NEW s, IsSequence(s), NEW i \in DOMAIN s
    PROVE  /\ IsSequence(Workspace!RemoveAt(s, i))
           /\ DOMAIN Workspace!RemoveAt(s, i) = 1 .. Len(s) - 1
           /\ \A j \in 1 .. Len(s) - 1 : Workspace!RemoveAt(s, i)[j] = s[Before(i, j)]
<1> DEFINE T == Members(s)
           before == SubSeq(s, 1, i - 1)
           after == SubSeq(s, i + 1, Len(s))
<1>1. Len(s) \in Nat /\ i \in 1 .. Len(s) /\ \A j \in 1 .. Len(s) : s[j] \in T
  BY SequenceFacts DEF Members
<1> HIDE DEF T
<1>2. /\ before \in Seq(T)
      /\ Len(before) = i - 1
      /\ \A j \in 1 .. i - 1 : before[j] = s[j]
  <2>1. \A j \in 1 .. i - 1 : s[j] \in T
    BY <1>1
  <2> QED
    BY <1>1, <2>1, SubSeqProperties, Z3
<1>3. /\ after \in Seq(T)
      /\ Len(after) = Len(s) - i
      /\ \A j \in 1 .. Len(s) - i : after[j] = s[i + j]
  <2>1. \A j \in i + 1 .. Len(s) : s[j] \in T
    BY <1>1
  <2>2. i + 1 \in Int /\ Len(s) \in Int
    BY <1>1
  <2>3. /\ after \in Seq(T)
        /\ Len(after) = IF i + 1 <= Len(s) THEN Len(s) - (i + 1) + 1 ELSE 0
        /\ \A j \in 1 .. Len(s) - (i + 1) + 1 : after[j] = s[(i + 1) + j - 1]
    BY <2>1, <2>2, SubSeqProperties, Z3
  <2>4. /\ Len(s) - (i + 1) + 1 = Len(s) - i
        /\ ~(i + 1 <= Len(s)) => Len(s) - i = 0
        /\ \A j \in 1 .. Len(s) - i : (i + 1) + j - 1 = i + j
    BY <1>1
  <2> QED
    BY <2>3, <2>4
<1> HIDE DEF before, after
<1>4. /\ before \o after \in Seq(T)
      /\ Len(before \o after) = Len(before) + Len(after)
      /\ \A j \in 1 .. Len(before) + Len(after) :
           (before \o after)[j] = IF j <= Len(before) THEN before[j] ELSE after[j - Len(before)]
  BY <1>2, <1>3, ConcatProperties
<1>5. Len(before) + Len(after) = Len(s) - 1
  BY <1>1, <1>2, <1>3
<1>6. ASSUME NEW j \in 1 .. Len(s) - 1 PROVE (before \o after)[j] = s[Before(i, j)]
  <2>1. (before \o after)[j] = IF j <= i - 1 THEN before[j] ELSE after[j - (i - 1)]
    BY <1>2, <1>4, <1>5
  <2>2. /\ j <= i - 1 => j < i /\ j \in 1 .. i - 1
        /\ ~(j <= i - 1) => /\ ~(j < i)
                            /\ j - (i - 1) \in 1 .. Len(s) - i
                            /\ i + (j - (i - 1)) = j + 1
    BY <1>1
  <2>3. CASE j <= i - 1
    BY <1>2, <2>1, <2>2, <2>3 DEF Before
  <2>4. CASE ~(j <= i - 1)
    <3>1. after[j - (i - 1)] = s[i + (j - (i - 1))]
      BY <1>3, <2>2, <2>4
    <3> QED
      BY <2>1, <2>2, <2>4, <3>1 DEF Before
  <2> QED
    BY <2>3, <2>4
<1>7. Workspace!RemoveAt(s, i) = before \o after
  BY DEF Workspace!RemoveAt, before, after
<1>8. IsSequence(before \o after) /\ DOMAIN (before \o after) = 1 .. Len(s) - 1
  BY <1>4, <1>5, SequenceOf
<1> QED
  BY <1>6, <1>7, <1>8

(* The i-th is answered, or lost. *)
LEMMA WorkAnswered ==
    ASSUME NEW s, AreCalls(s), NEW i \in DOMAIN s
    PROVE  LeftOf(s, i, Workspace!Answered(s, i))
<1> USE DEF AreCalls
<1> DEFINE t == Workspace!Answered(s, i)
           m == [j \in DOMAIN s |-> IF j < i /\ s[i].op = "show"
                                   THEN [s[j] EXCEPT !.passed = TRUE] ELSE s[j]]
<1>1. Len(s) \in Nat /\ DOMAIN s = 1 .. Len(s) /\ i \in 1 .. Len(s)
  BY SequenceFacts
<1>2. /\ DOMAIN m = 1 .. Len(s)
      /\ \A j \in DOMAIN s : m[j] = IF j < i /\ s[i].op = "show"
                                   THEN [s[j] EXCEPT !.passed = TRUE] ELSE s[j]
  BY <1>1
<1>3. m \in [1 .. Len(s) -> Members(m)]
  BY <1>1 DEF Members
<1>4. t = Workspace!RemoveAt(m, i)
  BY DEF Workspace!Answered
<1> HIDE DEF m, t
<1>5. IsSequence(m) /\ Len(m) = Len(s)
  <2>1. m \in Seq(Members(m))
    BY <1>1, <1>3, SeqDef
  <2>2. Len(m) \in Nat /\ 1 .. Len(m) = 1 .. Len(s)
    BY <1>2, <2>1, LenProperties
  <2>3. \A a, b \in Nat : 1 .. a = 1 .. b => a = b
    OBVIOUS
  <2> QED
    BY <1>1, <2>1, <2>2, <2>3 DEF IsSequence
<1>6. /\ IsSequence(t) /\ DOMAIN t = 1 .. Len(s) - 1
      /\ \A j \in 1 .. Len(s) - 1 : t[j] = m[Before(i, j)]
  BY <1>1, <1>2, <1>4, <1>5, WorkRemove
<1>8. ASSUME NEW j \in 1 .. Len(s) - 1 PROVE Before(i, j) \in DOMAIN s \ {i}
  BY <1>1 DEF Before
<1>9. ASSUME NEW j \in 1 .. Len(s) - 1
      PROVE  /\ IsCall(t[j])
             /\ SameCall(t[j], s[Before(i, j)])
             /\ t[j].passed = IF j < i /\ s[i].op = "show" THEN TRUE ELSE s[Before(i, j)].passed
  <2> DEFINE k == Before(i, j)
             c == s[k]
  <2>1. k \in DOMAIN s /\ IsCall(c)
    BY <1>8
  <2>2. k < i <=> j < i
    BY <1>1 DEF Before
  <2>3. t[j] = IF k < i /\ s[i].op = "show" THEN [c EXCEPT !.passed = TRUE] ELSE c
    BY <1>2, <1>6, <2>1
  <2> HIDE DEF k, c
  <2>4. CASE ~(k < i /\ s[i].op = "show") /\ t[j] = c
    BY <2>1, <2>2, <2>4 DEF SameCall, IsCall, c, k
  <2>5. CASE k < i /\ s[i].op = "show" /\ t[j] = [c EXCEPT !.passed = TRUE]
    <3>1. t[j] = [op |-> c.op, of |-> c.of, form |-> c.form, reply |-> c.reply, to |-> c.to,
                  passed |-> TRUE]
      BY <2>1, <2>5 DEF IsCall
    <3>2. IsCall(t[j]) /\ SameCall(t[j], c) /\ t[j].passed = TRUE
      BY <3>1 DEF IsCall, SameCall
    <3> QED
      BY <2>2, <2>5, <3>2 DEF c, k
  <2> QED
    BY <2>3, <2>4, <2>5
<1>10. \A j, k \in 1 .. Len(s) - 1 : j < k <=> Before(i, j) < Before(i, k)
  BY <1>1 DEF Before
<1>11. ASSUME NEW k \in DOMAIN s \ {i} PROVE \E j \in 1 .. Len(s) - 1 : Before(i, j) = k
  <2>1. CASE k < i
    BY <1>1, <2>1 DEF Before
  <2>2. CASE k > i
    <3>1. k - 1 \in 1 .. Len(s) - 1 /\ Before(i, k - 1) = k
      BY <1>1, <2>2 DEF Before
    <3> QED
      BY <3>1
  <2> QED
    BY <1>1, <2>1, <2>2
<1> QED
  BY <1>6, <1>8, <1>9, <1>10, <1>11 DEF t, LeftOf

LEMMA SameCardinality == \A S : Workspace!Cardinality(S) = Cardinality(S)
  BY DEF Workspace!Cardinality, Cardinality

(* A page is left. *)
LEMMA WorkAbandoned ==
    ASSUME NEW s, IsSequence(s), NEW t, t = Workspace!Abandoned(s)
    PROVE  IsSequence(t) /\ \A j \in DOMAIN t : IsCall(t[j]) /\ t[j].to = "tab"
<1> DEFINE W == Workspace!Writes(s)
           n == Workspace!Cardinality(W)
<1>1. n \in Nat
  <2>1. Len(s) \in Nat /\ DOMAIN s = 1 .. Len(s)
    BY SequenceFacts
  <2>2. IsFiniteSet(DOMAIN s)
    BY <2>1, FS_Interval
  <2>3. W \in SUBSET DOMAIN s
    BY DEF Workspace!Writes
  <2> QED
    BY <2>2, <2>3, FS_Subset, FS_CardinalityType, SameCardinality
<1>2. t = [j \in 1 .. n |-> Workspace!Left(s[Workspace!Nth(W, j)])]
  BY DEF Workspace!Abandoned
<1> HIDE DEF n, W
<1>3. t \in [1 .. n -> Members(t)]
  BY <1>2 DEF Members
<1>4. t \in Seq(Members(t))
  BY <1>1, <1>3, SeqDef
<1>5. ASSUME NEW c PROVE IsCall(Workspace!Left(c)) /\ Workspace!Left(c).to = "tab"
  <2>1. Workspace!Left(c) = [op |-> c.op, of |-> c.of, form |-> c.form, reply |-> c.reply,
                             to |-> "tab", passed |-> FALSE]
    <3> DEFINE d == Workspace!Call(c.op, c.of, c.form)
    <3>1. d = [op |-> c.op, of |-> c.of, form |-> c.form, reply |-> None, to |-> "page",
               passed |-> FALSE]
      BY DEF Workspace!Call
    <3>2. Workspace!Left(c) = [d EXCEPT !.reply = c.reply, !.to = "tab"]
      BY DEF Workspace!Left
    <3> HIDE DEF d
    <3> QED
      BY <3>1, <3>2
  <2> QED
    BY <2>1 DEF IsCall
<1>6. ASSUME NEW j \in DOMAIN t PROVE IsCall(t[j]) /\ t[j].to = "tab"
  <2> DEFINE c == s[Workspace!Nth(W, j)]
  <2>1. DOMAIN t = 1 .. n /\ \A k \in 1 .. n : t[k] = Workspace!Left(s[Workspace!Nth(W, k)])
    BY <1>2, Zenon
  <2>2. t[j] = Workspace!Left(c)
    BY <2>1
  <2> HIDE DEF c
  <2> QED
    BY <1>5, <2>2
<1> QED
  BY <1>4, <1>6 DEF IsSequence

-----------------------------------------------------------------------------
(* The rows of the API. *)
RowsTypeOK ==
    /\ service \in [Services -> Workspace!Row]
    /\ provider \in [Providers -> Workspace!Profile]
    /\ active \in [Categories -> BOOLEAN]
    /\ slots \in [Slots -> {"unborn", "stored", "deleted"}]

(* At most one row of a service is written. *)
Rewritten(s, status) ==
    /\ UNCHANGED <<provider, active>>
    /\ IF s \in Services
       THEN \E row \in Workspace!Row :
              row.status = status /\ service' = [service EXCEPT ![s] = row]
       ELSE UNCHANGED service

LEMMA RewrittenBy ==
    ASSUME RowsTypeOK, NEW s, NEW row, NEW status, Workspace!Life!Becomes(s, row),
           s \in Services => row \in Workspace!Row /\ row.status = status
    PROVE  Rewritten(s, status)
<1>1. service' = [service EXCEPT ![s] = row] /\ UNCHANGED <<provider, active>>
  BY DEF Workspace!Life!Becomes
<1>2. CASE s \in Services
  BY <1>1, <1>2 DEF Rewritten
<1>3. CASE s \notin Services
  <2>1. service' = service
    BY <1>1, <1>3 DEF RowsTypeOK
  <2> QED
    BY <1>1, <1>3, <2>1 DEF Rewritten
<1> QED
  BY <1>2, <1>3

LEMMA RewrittenTyped ==
    ASSUME RowsTypeOK, NEW s, NEW status, Rewritten(s, status)
    PROVE  /\ service' \in [Services -> Workspace!Row]
           /\ UNCHANGED <<provider, active>>
           /\ s \in Services => service'[s].status = status
           /\ \A x \in Services \ {s} : service'[x] = service[x]
  BY DEF RowsTypeOK, Rewritten

LEMMA LifeWrites ==
    ASSUME RowsTypeOK, NEW s
    PROVE  /\ Workspace!Life!Create(s) => Rewritten(s, "DRAFT")
           /\ Workspace!Life!Edit(s) => Rewritten(s, service[s].status)
           /\ Workspace!Life!Publish(s) => Rewritten(s, "PUBLISHED")
           /\ Workspace!Life!Pause(s) => Rewritten(s, "PAUSED")
           /\ Workspace!Life!Archive(s) => Rewritten(s, "ARCHIVED")
           /\ Workspace!Life!Delete(s) => Rewritten(s, "DELETED")
<1> DEFINE old == service[s]
<1>1. s \in Services => old \in Workspace!Row
  BY DEF RowsTypeOK
<1> HIDE DEF old
<1>2. ASSUME Workspace!Life!Create(s) PROVE Rewritten(s, "DRAFT")
  <2>1. PICK x \in Contents, c \in Categories :
          Workspace!Life!Becomes(s, [status |-> "DRAFT", publishedAt |-> None, content |-> x,
                                     category |-> c])
    BY <1>2 DEF Workspace!Life!Create
  <2>2. [status |-> "DRAFT", publishedAt |-> None, content |-> x, category |-> c]
          \in Workspace!Row
    BY DEF Workspace!Row, Workspace!Status, Workspace!Stored
  <2> QED
    BY <2>1, <2>2, RewrittenBy
<1>3. ASSUME Workspace!Life!Edit(s) PROVE Rewritten(s, old.status)
  <2>1. PICK x \in Contents, c \in Categories :
          Workspace!Life!Becomes(s, [old EXCEPT !.content = x, !.category = c])
    BY <1>3 DEF old, Workspace!Life!Edit
  <2>2. ASSUME s \in Services
        PROVE  /\ [old EXCEPT !.content = x, !.category = c] \in Workspace!Row
               /\ [old EXCEPT !.content = x, !.category = c].status = old.status
    BY <1>1, <2>2 DEF Workspace!Row
  <2> QED
    BY <2>1, <2>2, RewrittenBy
<1>4. ASSUME Workspace!Life!Publish(s) PROVE Rewritten(s, "PUBLISHED")
  <2>1. PICK d \in Dates :
          Workspace!Life!Becomes(s, [old EXCEPT !.status = "PUBLISHED", !.publishedAt = d])
    BY <1>4 DEF old, Workspace!Life!Publish
  <2>2. ASSUME s \in Services
        PROVE  /\ [old EXCEPT !.status = "PUBLISHED", !.publishedAt = d] \in Workspace!Row
               /\ [old EXCEPT !.status = "PUBLISHED", !.publishedAt = d].status = "PUBLISHED"
    BY <1>1, <2>2 DEF Workspace!Row, Workspace!Status, Workspace!Stored
  <2> QED
    BY <2>1, <2>2, RewrittenBy
<1>5. ASSUME Workspace!Life!Pause(s) PROVE Rewritten(s, "PAUSED")
  <2>1. Workspace!Life!Becomes(s, [old EXCEPT !.status = "PAUSED"])
    BY <1>5 DEF old, Workspace!Life!Pause
  <2>2. ASSUME s \in Services
        PROVE  /\ [old EXCEPT !.status = "PAUSED"] \in Workspace!Row
               /\ [old EXCEPT !.status = "PAUSED"].status = "PAUSED"
    BY <1>1, <2>2 DEF Workspace!Row, Workspace!Status, Workspace!Stored
  <2> QED
    BY <2>1, <2>2, RewrittenBy
<1>6. ASSUME Workspace!Life!Archive(s) PROVE Rewritten(s, "ARCHIVED")
  <2>1. Workspace!Life!Becomes(s, [old EXCEPT !.status = "ARCHIVED"])
    BY <1>6 DEF old, Workspace!Life!Archive
  <2>2. ASSUME s \in Services
        PROVE  /\ [old EXCEPT !.status = "ARCHIVED"] \in Workspace!Row
               /\ [old EXCEPT !.status = "ARCHIVED"].status = "ARCHIVED"
    BY <1>1, <2>2 DEF Workspace!Row, Workspace!Status, Workspace!Stored
  <2> QED
    BY <2>1, <2>2, RewrittenBy
<1>7. ASSUME Workspace!Life!Delete(s) PROVE Rewritten(s, "DELETED")
  <2>1. Workspace!Life!Becomes(s, [old EXCEPT !.status = "DELETED"])
    BY <1>7 DEF old, Workspace!Life!Delete
  <2>2. ASSUME s \in Services
        PROVE  /\ [old EXCEPT !.status = "DELETED"] \in Workspace!Row
               /\ [old EXCEPT !.status = "DELETED"].status = "DELETED"
    BY <1>1, <2>2 DEF Workspace!Row, Workspace!Status, Workspace!Stored
  <2> QED
    BY <2>1, <2>2, RewrittenBy
<1> QED
  BY <1>2, <1>3, <1>4, <1>5, <1>6, <1>7 DEF old

LEMMA LifeTyped ==
    ASSUME RowsTypeOK, Workspace!Life!Next, UNCHANGED slots
    PROVE  RowsTypeOK'
<1>1. ASSUME NEW s, NEW status, Rewritten(s, status) PROVE RowsTypeOK'
  BY <1>1, RewrittenTyped DEF RowsTypeOK
<1>2. ASSUME NEW s \in Services,
             \/ Workspace!Life!Create(s) \/ Workspace!Life!Edit(s) \/ Workspace!Life!Publish(s)
             \/ Workspace!Life!Pause(s) \/ Workspace!Life!Archive(s) \/ Workspace!Life!Delete(s)
      PROVE  RowsTypeOK'
  BY <1>1, <1>2, LifeWrites
<1>3. ASSUME NEW p \in Providers,
             \/ Workspace!Life!Submit(p) \/ Workspace!Life!Review(p)
             \/ Workspace!Life!SetProviderActive(p)
      PROVE  RowsTypeOK'
  <2>1. PICK profile \in Workspace!Profile :
          provider' = [provider EXCEPT ![p] = profile] /\ UNCHANGED <<service, active>>
    <3> DEFINE old == provider[p]
    <3>1. old \in Workspace!Profile
      BY DEF RowsTypeOK
    <3> HIDE DEF old
    <3>2. CASE Workspace!Life!Submit(p)
      <4>1. [old EXCEPT !.verification = "UNDER_REVIEW"] \in Workspace!Profile
        BY <3>1 DEF Workspace!Profile, Workspace!Verification
      <4> QED
        BY <3>2, <4>1 DEF Workspace!Life!Submit, old
    <3>3. CASE Workspace!Life!Review(p)
      <4>1. PICK v \in {"VERIFIED", "REJECTED", "SUSPENDED"} :
              provider' = [provider EXCEPT ![p] =
                             [verification |-> v, active |-> v # "SUSPENDED"]]
        BY <3>3 DEF Workspace!Life!Review
      <4>2. [verification |-> v, active |-> v # "SUSPENDED"] \in Workspace!Profile
        BY DEF Workspace!Profile, Workspace!Verification
      <4> QED
        BY <3>3, <4>1, <4>2 DEF Workspace!Life!Review
    <3>4. CASE Workspace!Life!SetProviderActive(p)
      <4>1. PICK b \in BOOLEAN : provider' = [provider EXCEPT ![p].active = b]
        BY <3>4 DEF Workspace!Life!SetProviderActive
      <4>2. [old EXCEPT !.active = b] \in Workspace!Profile
        BY <3>1 DEF Workspace!Profile
      <4> QED
        BY <3>4, <4>1, <4>2 DEF Workspace!Life!SetProviderActive, old
    <3> QED
      BY <1>3, <3>2, <3>3, <3>4
  <2> QED
    BY <2>1 DEF RowsTypeOK
<1>4. ASSUME NEW c \in Categories, Workspace!Life!SetCategoryActive(c) PROVE RowsTypeOK'
  BY <1>4 DEF RowsTypeOK, Workspace!Life!SetCategoryActive
<1> QED
  BY <1>2, <1>3, <1>4 DEF Workspace!Life!Next

LEMMA SubmitFacts ==
    ASSUME RowsTypeOK, NEW p, Workspace!Life!Submit(p)
    PROVE  /\ RowsTypeOK' \/ slots' # slots
           /\ UNCHANGED <<service, active>>
           /\ p \in Providers => provider'[p].verification = "UNDER_REVIEW"
<1>1. /\ provider' = [provider EXCEPT ![p].verification = "UNDER_REVIEW"]
      /\ UNCHANGED <<service, active>>
  BY DEF Workspace!Life!Submit
<1>2. CASE p \in Providers
  BY <1>1, <1>2 DEF RowsTypeOK, Workspace!Profile, Workspace!Verification
<1>3. CASE p \notin Providers
  <2>1. provider' = provider
    BY <1>1, <1>3 DEF RowsTypeOK
  <2> QED
    BY <1>1, <1>3, <2>1 DEF RowsTypeOK
<1> QED
  BY <1>2, <1>3

LEMMA SlotWrites ==
    ASSUME RowsTypeOK, NEW i, Workspace!Add(i) \/ Workspace!Drop(i)
    PROVE  RowsTypeOK' /\ UNCHANGED <<service, provider, active>>
<1>1. PICK v \in {"stored", "deleted"} : slots' = [slots EXCEPT ![i] = v]
  BY DEF Workspace!Add, Workspace!Drop
<1>2. UNCHANGED <<service, provider, active>>
  BY DEF Workspace!Add, Workspace!Drop, Workspace!rows
<1> QED
  BY <1>1, <1>2 DEF RowsTypeOK

LEMMA PerformsTyped ==
    ASSUME RowsTypeOK, NEW op, NEW of, NEW form, Workspace!Performs(op, of, form)
    PROVE  RowsTypeOK'
<1>1. ASSUME NEW status, Rewritten(of, status), UNCHANGED slots PROVE RowsTypeOK'
  BY <1>1, RewrittenTyped DEF RowsTypeOK
<1>2. CASE /\ UNCHANGED slots
           /\ \/ Workspace!Life!Create(of) \/ Workspace!Life!Edit(of) \/ Workspace!Life!Publish(of)
              \/ Workspace!Life!Pause(of) \/ Workspace!Life!Archive(of)
              \/ Workspace!Life!Delete(of)
  BY <1>1, <1>2, LifeWrites
<1>3. CASE Workspace!Life!Submit(of) /\ UNCHANGED slots
  BY <1>3, SubmitFacts
<1>4. CASE Workspace!Add(of) \/ Workspace!Drop(of)
  BY <1>4, SlotWrites
<1> QED
  BY <1>2, <1>3, <1>4 DEF Workspace!Performs

-----------------------------------------------------------------------------
(***************************************************************************)
(* The page of the workspace and its calls.                                *)
(***************************************************************************)
IsPage(p) ==
    DOMAIN p = {"view", "of", "state", "shows", "offers", "busy", "removing", "notice",
                "unfit", "calm", "rushed", "late"}

Own(i) == sent[i].to = "page"

(* What was sent from pages that were left was sent before. *)
OwnLast == \A i, j \in DOMAIN sent : Own(i) /\ ~Own(j) => j < i

SentOK == AreCalls(sent) /\ OwnLast

WorkShape == RowsTypeOK /\ IsPage(page) /\ SentOK

LEMMA SentSame == SentOK /\ UNCHANGED sent => SentOK'
  BY DEF SentOK, AreCalls, OwnLast, Own

LEMMA SentAppended ==
    ASSUME SentOK, NEW op, NEW of, NEW form,
           sent' = Append(sent, Workspace!Call(op, of, form))
    PROVE  /\ SentOK'
           /\ DOMAIN sent' = 1 .. Len(sent) + 1 /\ DOMAIN sent = 1 .. Len(sent)
           /\ Len(sent) \in Nat
           /\ \A i \in DOMAIN sent : sent'[i] = sent[i]
           /\ sent'[Len(sent) + 1] = [op |-> op, of |-> of, form |-> form, reply |-> None,
                                      to |-> "page", passed |-> FALSE]
<1>1. Len(sent) \in Nat /\ DOMAIN sent = 1 .. Len(sent)
  BY SequenceFacts DEF SentOK, AreCalls
<1> DEFINE e == Workspace!Call(op, of, form)
<1>2. e = [op |-> op, of |-> of, form |-> form, reply |-> None, to |-> "page", passed |-> FALSE]
  BY DEF Workspace!Call
<1> HIDE DEF e
<1>3. /\ IsSequence(sent') /\ DOMAIN sent' = 1 .. Len(sent) + 1
      /\ \A i \in DOMAIN sent : sent'[i] = sent[i]
      /\ sent'[Len(sent) + 1] = e
  <2>1. sent' = Append(sent, e) /\ IsSequence(sent)
    BY DEF e, SentOK, AreCalls
  <2> QED
    BY <2>1, WorkAppend
<1>4. \A i \in DOMAIN sent' : IsCall(sent'[i])
  <2>1. IsCall(e)
    BY <1>2 DEF IsCall
  <2> QED
    BY <1>1, <1>3, <2>1 DEF SentOK, AreCalls
<1>5. OwnLast'
  <2> SUFFICES ASSUME NEW i \in 1 .. Len(sent) + 1, NEW j \in 1 .. Len(sent) + 1,
                      sent'[i].to = "page", sent'[j].to # "page"
               PROVE  j < i
    BY <1>3 DEF OwnLast, Own
  <2>1. j # Len(sent) + 1
    BY <1>2, <1>3
  <2>2. j \in 1 .. Len(sent)
    BY <1>1, <2>1
  <2>3. CASE i = Len(sent) + 1
    BY <1>1, <2>2, <2>3
  <2>4. CASE i # Len(sent) + 1
    <3>1. i \in DOMAIN sent /\ j \in DOMAIN sent
      BY <1>1, <2>2, <2>4
    <3> QED
      BY <1>3, <3>1 DEF SentOK, AreCalls, OwnLast, Own
  <2> QED
    BY <2>3, <2>4
<1> QED
  BY <1>1, <1>2, <1>3, <1>4, <1>5 DEF SentOK, AreCalls

LEMMA SentReplied ==
    ASSUME SentOK, NEW i \in DOMAIN sent, NEW a, sent' = [sent EXCEPT ![i].reply = a]
    PROVE  /\ SentOK'
           /\ DOMAIN sent' = DOMAIN sent
           /\ \A j \in DOMAIN sent : j # i => sent'[j] = sent[j]
           /\ sent'[i] = [op |-> sent[i].op, of |-> sent[i].of, form |-> sent[i].form,
                          reply |-> a, to |-> sent[i].to, passed |-> sent[i].passed]
<1>1. /\ IsSequence(sent') /\ DOMAIN sent' = DOMAIN sent
      /\ \A j \in DOMAIN sent : j # i => sent'[j] = sent[j]
      /\ sent'[i] = [op |-> sent[i].op, of |-> sent[i].of, form |-> sent[i].form,
                     reply |-> a, to |-> sent[i].to, passed |-> sent[i].passed]
  <2> DEFINE e == [sent[i] EXCEPT !.reply = a]
             T == Members(sent) \cup {e}
  <2>1. Len(sent) \in Nat /\ DOMAIN sent = 1 .. Len(sent)
    BY SequenceFacts DEF SentOK, AreCalls
  <2>2. e = [op |-> sent[i].op, of |-> sent[i].of, form |-> sent[i].form, reply |-> a,
             to |-> sent[i].to, passed |-> sent[i].passed]
    BY DEF SentOK, AreCalls, IsCall
  <2>3. sent \in Seq(T) /\ e \in T
    BY SequenceIn DEF SentOK, AreCalls
  <2>4. sent' = [sent EXCEPT ![i] = e]
    OBVIOUS
  <2> HIDE DEF e, T
  <2>5. /\ sent' \in Seq(T) /\ Len(sent') = Len(sent)
        /\ \A j \in 1 .. Len(sent) : sent'[j] = IF j = i THEN e ELSE sent[j]
    BY <2>1, <2>3, <2>4, ExceptSeq
  <2> QED
    BY <2>1, <2>2, <2>5, SequenceOf
<1>2. IsCall(sent'[i]) /\ sent'[i].to = sent[i].to
  BY <1>1 DEF IsCall
<1>3. \A j \in DOMAIN sent : IsCall(sent'[j]) /\ sent'[j].to = sent[j].to
  BY <1>1, <1>2 DEF SentOK, AreCalls
<1>4. OwnLast'
  BY <1>1, <1>3 DEF SentOK, AreCalls, OwnLast, Own
<1> QED
  BY <1>1, <1>3, <1>4 DEF SentOK, AreCalls

LEMMA SentAnswered ==
    ASSUME SentOK, NEW i \in DOMAIN sent, sent' = Workspace!Answered(sent, i)
    PROVE  SentOK' /\ LeftOf(sent, i, sent')
<1>1. LeftOf(sent, i, sent')
  BY WorkAnswered DEF SentOK
<1>2. OwnLast'
  <2> SUFFICES ASSUME NEW j \in DOMAIN sent', NEW k \in DOMAIN sent',
                      sent'[j].to = "page", sent'[k].to # "page"
               PROVE  k < j
    BY DEF OwnLast, Own
  <2>1. /\ Before(i, j) \in DOMAIN sent /\ Before(i, k) \in DOMAIN sent
        /\ sent[Before(i, j)].to = "page" /\ sent[Before(i, k)].to # "page"
        /\ k < j <=> Before(i, k) < Before(i, j)
    BY <1>1 DEF LeftOf, SameCall
  <2> QED
    BY <2>1 DEF SentOK, OwnLast, Own
<1> QED
  BY <1>1, <1>2 DEF SentOK, LeftOf

(* A new page is mounted, or none: what was sent before goes on without it. *)
LEMMA SentAbandoned ==
    ASSUME SentOK, sent' = Workspace!Abandoned(sent)
    PROVE  SentOK' /\ \A i \in DOMAIN sent' : ~Own(i)'
  BY WorkAbandoned DEF SentOK, AreCalls, OwnLast, Own

LEMMA SentMounted ==
    ASSUME SentOK, NEW view, view # "away", NEW of,
           sent' = Workspace!Abandoned(sent) \o Workspace!FirstLoad(view, of)
    PROVE  /\ SentOK'
           /\ \E n \in DOMAIN sent' :
                /\ \A i \in DOMAIN sent' \ {n} : ~Own(i)'
                /\ sent'[n] = [op |-> "show", of |-> [view |-> view, of |-> of], form |-> None,
                               reply |-> None, to |-> "page", passed |-> FALSE]
<1> DEFINE s == Workspace!Abandoned(sent)
           e == Workspace!Call("show", [view |-> view, of |-> of], None)
<1>1. IsSequence(s) /\ \A j \in DOMAIN s : IsCall(s[j]) /\ s[j].to = "tab"
  BY WorkAbandoned DEF SentOK, AreCalls
<1>2. e = [op |-> "show", of |-> [view |-> view, of |-> of], form |-> None,
           reply |-> None, to |-> "page", passed |-> FALSE]
  BY DEF Workspace!Call
<1>3. sent' = s \o <<e>>
  BY DEF Workspace!FirstLoad
<1> HIDE DEF s, e
<1>4. sent' = Append(s, e)
  BY <1>1, <1>3, WorkJoin
<1>5. Len(s) \in Nat /\ DOMAIN s = 1 .. Len(s)
  BY <1>1, SequenceFacts
<1>6. /\ IsSequence(sent') /\ DOMAIN sent' = 1 .. Len(s) + 1
      /\ \A i \in DOMAIN s : sent'[i] = s[i]
      /\ sent'[Len(s) + 1] = e
  BY <1>1, <1>4, WorkAppend
<1> DEFINE n == Len(s) + 1
<1>7. n \in DOMAIN sent' /\ \A i \in DOMAIN sent' \ {n} : i \in DOMAIN s /\ i < n
  BY <1>5, <1>6
<1>8. sent'[n] = e
  BY <1>6
<1> HIDE DEF n
<1>9. \A i \in DOMAIN sent' \ {n} : IsCall(sent'[i]) /\ sent'[i].to = "tab"
  BY <1>1, <1>6, <1>7
<1>10. IsCall(e) /\ e.to = "page"
  BY <1>2 DEF IsCall
<1>11. OwnLast'
  BY <1>7, <1>8, <1>9, <1>10 DEF OwnLast, Own
<1>12. SentOK'
  BY <1>6, <1>8, <1>9, <1>10, <1>11 DEF SentOK, AreCalls
<1>13. \A i \in DOMAIN sent' \ {n} : ~Own(i)'
  BY <1>9 DEF Own
<1> QED
  BY <1>2, <1>7, <1>8, <1>12, <1>13

-----------------------------------------------------------------------------
(* What the actions of the workspace do to its page, field by field. *)
FreedFrom(q, op) ==
    /\ IsPage(q)
    /\ q.view = page.view /\ q.of = page.of /\ q.state = page.state
    /\ q.shows = page.shows /\ q.offers = page.offers
    /\ q.busy = IF op = "drop" THEN page.busy ELSE FALSE
    /\ q.removing = IF op = "drop" THEN None ELSE page.removing
    /\ q.notice = page.notice /\ q.unfit = page.unfit
    /\ q.calm = page.calm /\ q.rushed = page.rushed
    /\ q.late = page.late

LoadedFrom(q, c) ==
    /\ IsPage(q)
    /\ q.view = page.view /\ q.of = page.of
    /\ q.state = IF page.state = "loading" THEN "ready" ELSE page.state
    /\ q.shows = c.reply.data /\ q.offers = c.reply.offers
    /\ q.busy = IF c.form = None \/ c.form = "drop" THEN page.busy ELSE FALSE
    /\ q.removing = IF c.form # None /\ c.form = "drop" THEN None ELSE page.removing
    /\ q.notice = page.notice /\ q.unfit = page.unfit
    /\ q.calm = page.calm /\ q.rushed = page.rushed
    /\ q.late = c.passed

BrokenFrom(q) ==
    /\ IsPage(q)
    /\ q.view = page.view /\ q.of = page.of /\ q.state = "broken"
    /\ q.shows = page.shows /\ q.offers = page.offers
    /\ q.notice = page.notice /\ q.unfit = page.unfit
    /\ q.calm = page.calm /\ q.rushed = page.rushed
    /\ q.late = page.late

LEMMA FreedPage == IsPage(page) => \A op : FreedFrom(Workspace!Freed(op), op)
  BY DEF FreedFrom, IsPage, Workspace!Freed

LEMMA LoadedPage ==
    ASSUME IsPage(page), NEW c
    PROVE  LoadedFrom(Workspace!Loaded(c, TRUE), c) /\ BrokenFrom(Workspace!Loaded(c, FALSE))
<1> DEFINE w == IF c.form = None THEN page ELSE Workspace!Freed(c.form)
<1>1. CASE c.form = None
  <2>1. /\ Workspace!Loaded(c, TRUE) =
             [page EXCEPT !.state = IF @ = "loading" THEN "ready" ELSE @,
                          !.shows = c.reply.data, !.offers = c.reply.offers, !.late = c.passed]
        /\ Workspace!Loaded(c, FALSE) = [page EXCEPT !.state = "broken"]
    BY <1>1 DEF Workspace!Loaded
  <2> QED
    BY <1>1, <2>1 DEF LoadedFrom, BrokenFrom, IsPage
<1>2. CASE c.form # None
  <2> DEFINE f == Workspace!Freed(c.form)
  <2>1. /\ Workspace!Loaded(c, TRUE) =
             [f EXCEPT !.state = IF @ = "loading" THEN "ready" ELSE @,
                       !.shows = c.reply.data, !.offers = c.reply.offers, !.late = c.passed]
        /\ Workspace!Loaded(c, FALSE) = [f EXCEPT !.state = "broken"]
    BY <1>2 DEF Workspace!Loaded
  <2>2. FreedFrom(f, c.form)
    BY FreedPage
  <2> HIDE DEF f
  <2>3. IsPage(f)
    BY <2>2 DEF FreedFrom
  <2>4. BrokenFrom(Workspace!Loaded(c, FALSE))
    BY <2>1, <2>2, <2>3 DEF FreedFrom, BrokenFrom, IsPage
  <2> DEFINE q == Workspace!Loaded(c, TRUE)
  <2>5. /\ IsPage(q)
        /\ q.view = f.view /\ q.of = f.of
        /\ q.state = IF f.state = "loading" THEN "ready" ELSE f.state
        /\ q.shows = c.reply.data /\ q.offers = c.reply.offers
        /\ q.busy = f.busy /\ q.removing = f.removing
        /\ q.notice = f.notice /\ q.unfit = f.unfit
        /\ q.calm = f.calm /\ q.rushed = f.rushed
        /\ q.late = c.passed
    BY <2>1, <2>3 DEF IsPage
  <2> HIDE DEF q
  <2>6. LoadedFrom(q, c)
    BY <1>2, <2>2, <2>5 DEF FreedFrom, LoadedFrom
  <2> QED
    BY <2>4, <2>6 DEF q
<1> QED
  BY <1>1, <1>2

LEMMA MountedPage ==
    ASSUME NEW view, NEW of
    PROVE  LET q == Workspace!Mounted(view, of) IN
           /\ IsPage(q)
           /\ q.view = view /\ q.of = of /\ q.state = "loading" /\ q.shows = None
           /\ q.offers = {} /\ ~q.busy /\ q.removing = None /\ q.notice = "none"
           /\ ~q.rushed /\ ~q.late
  BY DEF IsPage, Workspace!Mounted

LEMMA AwayPage ==
    IsPage(Workspace!Away) /\ Workspace!Away.view = "away" /\ Workspace!Away.notice = "none"
<1> DEFINE m == Workspace!Mounted("away", None)
<1>1. Workspace!Away = [m EXCEPT !.state = "ready"]
  BY DEF Workspace!Away
<1>2. IsPage(m) /\ m.view = "away" /\ m.notice = "none"
  BY MountedPage
<1> HIDE DEF m
<1> QED
  BY <1>1, <1>2 DEF IsPage

LEMMA DisturbedPage ==
    ASSUME IsPage(page)
    PROVE  LET q == Workspace!Disturbed(page) IN
           /\ IsPage(q)
           /\ q.view = page.view /\ q.notice = page.notice
           /\ q.calm => page.view = "away"
  BY DEF IsPage, Workspace!Disturbed

-----------------------------------------------------------------------------
(***************************************************************************)
(* What keeps the page of the workspace right.  Opened: nobody has         *)
(* disturbed it.  StoredNow: what it should show.  Leaving: the tab has    *)
(* another page to go to.                                                  *)
(***************************************************************************)
OwnLoad(i) == Own(i) /\ sent[i].op = "show"
OwnWrite(i) == Own(i) /\ sent[i].op # "show"
OneOwn == \A i, j \in DOMAIN sent : Own(i) /\ Own(j) => i = j

GoodReply(c) == c.reply # None /\ c.reply.ok
BadReply(c) == c.reply # None /\ ~c.reply.ok

Opened == page.view # "away" /\ page.calm
StoredNow == Workspace!Current(page.view, page.of)
Available == {c \in Categories : active[c]}
Leaving == nav # None \/ (next # None /\ next.view # page.view)

(* The service of the page is the provider's, and if it is gone it was     *)
(* deleted here.                                                           *)
Kept ==
    page.view \in Workspace!OfOneService =>
        /\ page.of \in Services /\ Owner[page.of] = Me
        /\ \/ service[page.of].status \in Workspace!Stored
           \/ page.view = "detail" /\ service[page.of].status = "DELETED"

Fresh ==
    \/ page.shows = StoredNow
    \/ /\ Leaving
       /\ \/ page.view = "new"
          \/ page.view = "detail" /\ service[page.of].status = "DELETED"
    \/ \E i \in DOMAIN sent : OwnWrite(i) /\ GoodReply(sent[i])

(* A write of a page before it is served, and after it was. *)
Unserved(c) ==
    \/ /\ page.view = "detail" /\ c.op \in {"publish", "pause", "archive", "delete"}
       /\ c.of = page.of /\ Workspace!Offered(c.op, page.shows.status)
    \/ /\ page.view = "edit" /\ c.op = "update" /\ c.of = page.of
       /\ active[c.form.category] \/ c.form.category = page.shows.category
    \/ /\ page.view = "new" /\ c.op = "create" /\ c.of \in Services /\ Owner[c.of] = Me
       /\ service[c.of].status = "UNBORN" /\ active[c.form.category]
    \/ /\ page.view = "profile" /\ c.op = "submit" /\ c.of = Me
       /\ page.shows \in {"PENDING", "REJECTED"}

(* What only the validation of the API finds unfit is known to be. *)
Suits(c) == Workspace!Fit(c.op, c.form) \/ page.unfit

Served(c) ==
    \/ /\ page.view = "detail" /\ c.op \in {"publish", "pause", "archive"}
       /\ c.reply.data = StoredNow
    \/ /\ page.view = "detail" /\ c.op = "delete" /\ c.reply.data = None
       /\ service[page.of].status = "DELETED"
    \/ page.view = "edit" /\ c.op = "update" /\ c.reply.data = StoredNow
    \/ page.view = "new" /\ c.op = "create" /\ c.of \in Services
    \/ page.view = "profile" /\ c.op = "submit" /\ c.reply.data = StoredNow

LoadOK(c) ==
    /\ c.of = [view |-> page.view, of |-> page.of] /\ c.form = None
    /\ page.state = "loading"
    /\ GoodReply(c) => c.reply.data = StoredNow /\ c.reply.offers \subseteq Available /\ Kept

WriteOK(c) ==
    /\ page.state = "ready" /\ page.busy /\ page.notice = "none"
    /\ c.reply = None => Unserved(c) /\ Suits(c)
    /\ GoodReply(c) => Served(c)
    /\ BadReply(c) => Workspace!Excused

(* A page other than the hours has one call under way. *)
Single ==
    page.view # "availability" =>
        /\ OneOwn
        /\ \A i \in DOMAIN sent : OwnLoad(i) => LoadOK(sent[i])
        /\ \A i \in DOMAIN sent : OwnWrite(i) => WriteOK(sent[i])
        /\ page.state = "loading" => page.notice = "none"
        /\ page.state = "ready" => Kept /\ page.offers \subseteq Available /\ Fresh
        /\ page.notice = "refused" => page.state = "ready" /\ Workspace!Excused

(* The last list of slots that was asked for is the one that will be shown. *)
LastLoad(i) == OwnLoad(i) /\ \A j \in DOMAIN sent : OwnLoad(j) => j <= i

HoursCall(c) ==
    /\ c.op # "show" => c.op \in {"add", "drop"}
    /\ c.op = "show" => c.of.view = "availability" /\ (c.reply # None => c.reply.ok)

HoursLoad(c) == c.passed \/ c.reply = None \/ c.reply.data = StoredNow

HoursFresh ==
    \/ \E i \in DOMAIN sent : OwnWrite(i) /\ GoodReply(sent[i])
    \/ /\ \A i \in DOMAIN sent : LastLoad(i) => HoursLoad(sent[i])
       /\ (\A i \in DOMAIN sent : ~OwnLoad(i)) => page.late \/ page.shows = StoredNow

Hours ==
    page.view = "availability" =>
        (\A i \in DOMAIN sent : Own(i) => HoursCall(sent[i])) /\ HoursFresh

(* One slot at a time: nothing is refused. *)
QuietCall(c) ==
    /\ ~c.passed /\ ~BadReply(c)
    /\ c.op = "show" =>
         \/ c.form = None /\ page.state = "loading"
         \/ c.form = "add" /\ page.busy /\ page.state = "ready"
         \/ c.form = "drop" /\ page.removing # None /\ page.state = "ready"
    /\ c.op = "add" => /\ page.busy /\ page.state = "ready"
                       /\ c.reply = None => slots[c.of] = "unborn"
    /\ c.op = "drop" => /\ page.removing # None /\ page.state = "ready"
                        /\ c.reply = None => slots[c.of] = "stored"

Quiet ==
    page.view = "availability" /\ ~page.rushed =>
        /\ OneOwn /\ \A i \in DOMAIN sent : Own(i) => QuietCall(sent[i])
        /\ ~page.late /\ page.notice # "refused" /\ page.state \in {"loading", "ready"}
        /\ page.state = "loading" => ~page.busy /\ page.removing = None

AwayInv == page.view = "away" => page.notice = "none" /\ \A i \in DOMAIN sent : ~Own(i)

OpenInv == AwayInv /\ (Opened => Single /\ Hours /\ Quiet)

-----------------------------------------------------------------------------
(* What the user does on a page: one more call. *)
Sends(op, of, form) ==
    /\ sent' = Append(sent, Workspace!Call(op, of, form))
    /\ IsPage(page')
    /\ page'.view = page.view /\ page'.of = page.of /\ page'.state = page.state
    /\ page'.shows = page.shows /\ page'.offers = page.offers /\ page'.calm = page.calm
    /\ page'.late = page.late /\ page'.notice = "none"
    /\ UNCHANGED <<service, provider, active, slots, next>>

Hurries == page'.rushed = (page.rushed \/ page.busy \/ page.removing # None)

LEMMA PressSends ==
    ASSUME IsPage(page), NEW op, Workspace!Press(op)
    PROVE  Sends(op, page.of, None) /\ page'.busy = TRUE
<1>1. page' = [page EXCEPT !.busy = TRUE, !.notice = "none"]
  BY DEF Workspace!Press
<1>2. /\ sent' = Append(sent, Workspace!Call(op, page.of, None))
      /\ UNCHANGED <<service, provider, active, slots, next>>
  BY DEF Workspace!Press, Workspace!Send, Workspace!server
<1> QED
  BY <1>1, <1>2 DEF Sends, IsPage

LEMMA SaveSends ==
    ASSUME IsPage(page), NEW s, NEW x, NEW c, Workspace!Save(s, x, c)
    PROVE  /\ Sends(IF page.view = "edit" THEN "update" ELSE "create", s,
                    [content |-> x, category |-> c])
           /\ page'.busy = TRUE /\ page'.unfit = (x \in Unfit)
<1>1. page' = [page EXCEPT !.busy = TRUE, !.notice = "none", !.unfit = x \in Unfit]
  BY DEF Workspace!Save
<1>2. /\ sent' = Append(sent, Workspace!Call(IF page.view = "edit" THEN "update" ELSE "create",
                                             s, [content |-> x, category |-> c]))
      /\ UNCHANGED <<service, provider, active, slots, next>>
  BY DEF Workspace!Save, Workspace!Send, Workspace!server
<1> QED
  BY <1>1, <1>2 DEF Sends, IsPage

LEMMA SubmitSends ==
    ASSUME IsPage(page), NEW x, Workspace!SubmitDocuments(x)
    PROVE  /\ Sends("submit", Me, [content |-> x])
           /\ page'.busy = TRUE /\ page'.unfit = (x \in Unfit)
<1>1. page' = [page EXCEPT !.busy = TRUE, !.notice = "none", !.unfit = x \in Unfit]
  BY DEF Workspace!SubmitDocuments
<1>2. /\ sent' = Append(sent, Workspace!Call("submit", Me, [content |-> x]))
      /\ UNCHANGED <<service, provider, active, slots, next>>
  BY DEF Workspace!SubmitDocuments, Workspace!Send, Workspace!server
<1> QED
  BY <1>1, <1>2 DEF Sends, IsPage

LEMMA AddSends ==
    ASSUME IsPage(page), NEW i, Workspace!AddSlot(i)
    PROVE  /\ Sends("add", i, None) /\ Hurries
           /\ page'.busy = TRUE /\ page'.removing = page.removing
<1>1. page' = [[page EXCEPT !.busy = TRUE] EXCEPT
                 !.notice = "none", !.rushed = @ \/ page.busy \/ page.removing # None]
  BY DEF Workspace!AddSlot, Workspace!WriteSlot
<1>2. /\ sent' = Append(sent, Workspace!Call("add", i, None))
      /\ UNCHANGED <<service, provider, active, slots, next>>
  BY DEF Workspace!AddSlot, Workspace!Send, Workspace!server
<1>3. page'.rushed = (page.rushed \/ page.busy \/ page.removing # None)
  BY <1>1 DEF IsPage
<1>4. /\ IsPage(page')
      /\ page'.view = page.view /\ page'.of = page.of /\ page'.state = page.state
      /\ page'.shows = page.shows /\ page'.offers = page.offers /\ page'.calm = page.calm
      /\ page'.late = page.late /\ page'.notice = "none"
      /\ page'.busy = TRUE /\ page'.removing = page.removing
  BY <1>1 DEF IsPage
<1> QED
  BY <1>2, <1>3, <1>4 DEF Sends, Hurries

LEMMA RemoveSends ==
    ASSUME IsPage(page), NEW i, Workspace!RemoveSlot(i)
    PROVE  /\ Sends("drop", i, None) /\ Hurries
           /\ page'.busy = page.busy /\ page'.removing = i
<1>1. page' = [[page EXCEPT !.removing = i] EXCEPT
                 !.notice = "none", !.rushed = @ \/ page.busy \/ page.removing # None]
  BY DEF Workspace!RemoveSlot, Workspace!WriteSlot
<1>2. /\ sent' = Append(sent, Workspace!Call("drop", i, None))
      /\ UNCHANGED <<service, provider, active, slots, next>>
  BY DEF Workspace!RemoveSlot, Workspace!Send, Workspace!server
<1>3. page'.rushed = (page.rushed \/ page.busy \/ page.removing # None)
  BY <1>1 DEF IsPage
<1>4. /\ IsPage(page')
      /\ page'.view = page.view /\ page'.of = page.of /\ page'.state = page.state
      /\ page'.shows = page.shows /\ page'.offers = page.offers /\ page'.calm = page.calm
      /\ page'.late = page.late /\ page'.notice = "none"
      /\ page'.busy = page.busy /\ page'.removing = i
  BY <1>1 DEF IsPage
<1> QED
  BY <1>2, <1>3, <1>4 DEF Sends, Hurries

-----------------------------------------------------------------------------
(* The shape of the workspace: rows, page and calls, with the calls of     *)
(* pages that were left first.                                             *)
SameRows == UNCHANGED <<service, provider, active, slots>>

LEMMA RowsSame == RowsTypeOK /\ SameRows => RowsTypeOK'
  BY DEF RowsTypeOK, SameRows

LEMMA SendsShape ==
    ASSUME WorkShape, NEW op, NEW of, NEW form, Sends(op, of, form)
    PROVE  WorkShape'
<1>1. RowsTypeOK'
  BY RowsSame DEF WorkShape, Sends, SameRows
<1>2. SentOK'
  BY SentAppended DEF WorkShape, Sends
<1> QED
  BY <1>1, <1>2 DEF WorkShape, Sends

LEMMA SameShape ==
    ASSUME WorkShape, SameRows, UNCHANGED <<page, sent>>
    PROVE  WorkShape'
  BY RowsSame, SentSame DEF WorkShape

LEMMA UsesCases ==
    ASSUME IsPage(page), Workspace!Uses
    PROVE  \/ /\ SameRows /\ UNCHANGED <<page, sent>>
              /\ page.view # "away"
              /\ \E view \in Views, of \in Services \cup {None} :
                   Workspace!Linked(view, of) /\ Workspace!Goes(view, of)
           \/ \E op \in {"publish", "pause", "archive", "delete"} : Workspace!Press(op)
           \/ \E s \in Services, x \in Contents \cup Unfit, c \in Categories :
                Workspace!Save(s, x, c)
           \/ \E x \in {None} \cup Unfit : Workspace!SubmitDocuments(x)
           \/ \E i \in Slots : Workspace!AddSlot(i) \/ Workspace!RemoveSlot(i)
<1>1. ASSUME NEW view, NEW of, Workspace!FollowLink(view, of)
      PROVE  /\ SameRows /\ UNCHANGED <<page, sent>>
             /\ page.view # "away"
             /\ Workspace!Linked(view, of) /\ Workspace!Goes(view, of)
  BY <1>1 DEF Workspace!FollowLink, Workspace!server, SameRows
<1>2. ASSUME \/ \E view \in {"list", "availability", "profile", "new"} :
                   Workspace!FollowLink(view, None)
             \/ \E view \in Workspace!OfOneService, s \in Services :
                   Workspace!FollowLink(view, s)
      PROVE  \E view \in Views, of \in Services \cup {None} : Workspace!FollowLink(view, of)
  BY <1>2 DEF Workspace!OfOneService, Views
<1> QED
  BY <1>1, <1>2 DEF Workspace!Uses

LEMMA UsesShape == WorkShape /\ Workspace!Uses => WorkShape'
<1> SUFFICES ASSUME WorkShape, Workspace!Uses PROVE WorkShape'
  OBVIOUS
<1>1. IsPage(page)
  BY DEF WorkShape
<1>2. CASE \E op \in {"publish", "pause", "archive", "delete"} : Workspace!Press(op)
  BY <1>1, <1>2, PressSends, SendsShape
<1>3. CASE \E s \in Services, x \in Contents \cup Unfit, c \in Categories :
             Workspace!Save(s, x, c)
  BY <1>1, <1>3, SaveSends, SendsShape
<1>4. CASE \E x \in {None} \cup Unfit : Workspace!SubmitDocuments(x)
  BY <1>1, <1>4, SubmitSends, SendsShape
<1>5. CASE \E i \in Slots : Workspace!AddSlot(i) \/ Workspace!RemoveSlot(i)
  BY <1>1, <1>5, AddSends, RemoveSends, SendsShape
<1>6. CASE SameRows /\ UNCHANGED <<page, sent>>
  BY <1>6, SameShape
<1> QED
  BY <1>1, <1>2, <1>3, <1>4, <1>5, <1>6, UsesCases

LEMMA EnterShape == WorkShape /\ Workspace!Enter => WorkShape'
  BY SameShape DEF Workspace!Enter, Workspace!server, SameRows

LEMMA OthersShape ==
    WorkShape /\ Workspace!Others =>
        WorkShape' /\ UNCHANGED <<next, sent>> /\ page' = Workspace!Disturbed(page)
<1> SUFFICES ASSUME WorkShape, Workspace!Others
             PROVE  WorkShape' /\ UNCHANGED <<next, sent>> /\ page' = Workspace!Disturbed(page)
  OBVIOUS
<1>1. RowsTypeOK'
  BY LifeTyped, SlotWrites DEF WorkShape, Workspace!Others
<1>2. IsPage(page')
  BY DisturbedPage DEF WorkShape, Workspace!Others
<1>3. SentOK'
  BY SentSame DEF WorkShape, Workspace!Others
<1> QED
  BY <1>1, <1>2, <1>3 DEF WorkShape, Workspace!Others

(* The API serves the i-th call. *)
ReplyIs(i, a) ==
    /\ DOMAIN sent' = DOMAIN sent
    /\ \A j \in DOMAIN sent : j # i => sent'[j] = sent[j]
    /\ sent'[i] = [op |-> sent[i].op, of |-> sent[i].of, form |-> sent[i].form,
                   reply |-> a, to |-> sent[i].to, passed |-> sent[i].passed]

LEMMA ServeLoadFacts ==
    ASSUME WorkShape, NEW i \in DOMAIN sent, Workspace!ServeLoad(i)
    PROVE  /\ WorkShape' /\ SameRows /\ UNCHANGED <<page, next>>
           /\ sent[i].op = "show" /\ sent[i].reply = None
           /\ LET what == sent[i].of IN
              ReplyIs(i, IF Workspace!Found(what.view, what.of)
                         THEN Workspace!Yes(Workspace!Current(what.view, what.of),
                                            IF what.view \in Workspace!Forms THEN Available ELSE {})
                         ELSE Workspace!No)
<1> DEFINE a == IF Workspace!Found(sent[i].of.view, sent[i].of.of)
                THEN Workspace!Yes(Workspace!Current(sent[i].of.view, sent[i].of.of),
                                   IF sent[i].of.view \in Workspace!Forms THEN Available ELSE {})
                ELSE Workspace!No
<1>1. /\ SameRows /\ UNCHANGED <<page, next>>
      /\ sent[i].op = "show" /\ sent[i].reply = None
      /\ sent' = [sent EXCEPT ![i].reply = a]
  BY DEF Workspace!ServeLoad, Workspace!server, SameRows, Available
<1> HIDE DEF a
<1>2. SentOK' /\ ReplyIs(i, a)
  BY <1>1, SentReplied DEF WorkShape, ReplyIs
<1>3. WorkShape'
  BY <1>1, <1>2, RowsSame DEF WorkShape
<1> QED
  BY <1>1, <1>2, <1>3 DEF a

LEMMA ServeWriteFacts ==
    ASSUME WorkShape, NEW i \in DOMAIN sent, Workspace!ServeWrite(i)
    PROVE  /\ WorkShape' /\ UNCHANGED next
           /\ sent[i].op # "show" /\ sent[i].reply = None
           /\ \/ /\ Workspace!Performs(sent[i].op, sent[i].of, sent[i].form)
                 /\ ReplyIs(i, Workspace!Yes(Workspace!Said(sent[i].op, sent[i].of), {}))
                 /\ page' = IF sent[i].to = "page" THEN page ELSE Workspace!Disturbed(page)
              \/ /\ ~Workspace!Accepts(sent[i].op, sent[i].of, sent[i].form)
                 /\ ReplyIs(i, Workspace!No)
                 /\ SameRows /\ UNCHANGED page
<1>1. UNCHANGED next /\ sent[i].op # "show" /\ sent[i].reply = None
  BY DEF Workspace!ServeWrite
<1>2. ASSUME NEW a, sent' = [sent EXCEPT ![i].reply = a] PROVE SentOK' /\ ReplyIs(i, a)
  BY <1>2, SentReplied DEF WorkShape, ReplyIs
<1> DEFINE yes == Workspace!Yes(Workspace!Said(sent[i].op, sent[i].of), {})
<1>3. CASE /\ Workspace!Performs(sent[i].op, sent[i].of, sent[i].form)
           /\ sent' = [sent EXCEPT ![i].reply = yes]
           /\ page' = IF sent[i].to = "page" THEN page ELSE Workspace!Disturbed(page)
  <2> HIDE DEF yes
  <2>1. SentOK' /\ ReplyIs(i, yes)
    BY <1>2, <1>3
  <2>2. RowsTypeOK'
    BY <1>3, PerformsTyped DEF WorkShape
  <2>3. IsPage(page')
    BY <1>3, DisturbedPage DEF WorkShape
  <2> QED
    BY <1>1, <1>3, <2>1, <2>2, <2>3 DEF WorkShape, yes
<1>4. CASE /\ ~Workspace!Accepts(sent[i].op, sent[i].of, sent[i].form)
           /\ sent' = [sent EXCEPT ![i].reply = Workspace!No]
           /\ SameRows /\ UNCHANGED page
  <2>1. SentOK' /\ ReplyIs(i, Workspace!No)
    BY <1>2, <1>4
  <2> QED
    BY <1>1, <1>4, <2>1, RowsSame DEF WorkShape
<1> QED
  BY <1>3, <1>4 DEF Workspace!ServeWrite, Workspace!server, SameRows

-----------------------------------------------------------------------------
(* The page is answered: what it does then. *)
LEMMA LeftOwnLast ==
    ASSUME SentOK, NEW i \in DOMAIN sent, NEW t, LeftOf(sent, i, t),
           NEW j \in DOMAIN t, NEW k \in DOMAIN t, t[j].to = "page", t[k].to # "page"
    PROVE  k < j
<1>1. /\ Before(i, j) \in DOMAIN sent /\ Before(i, k) \in DOMAIN sent
      /\ sent[Before(i, j)].to = "page" /\ sent[Before(i, k)].to # "page"
      /\ k < j <=> Before(i, k) < Before(i, j)
  BY DEF LeftOf, SameCall
<1> QED
  BY <1>1 DEF SentOK, OwnLast, Own

(* One is taken out and a load of the hours is sent. *)
Reloads(i, form) ==
    \E t, n :
        /\ LeftOf(sent, i, t)
        /\ n \notin DOMAIN t /\ DOMAIN sent' = DOMAIN t \cup {n}
        /\ \A j \in DOMAIN t : sent'[j] = t[j] /\ j < n
        /\ sent'[n] = [op |-> "show", of |-> [view |-> "availability", of |-> None],
                       form |-> form, reply |-> None, to |-> "page", passed |-> FALSE]

LEMMA SentReloads ==
    ASSUME SentOK, NEW i \in DOMAIN sent, NEW form,
           sent' = Append(Workspace!Answered(sent, i), [Workspace!Reload EXCEPT !.form = form])
    PROVE  SentOK' /\ Reloads(i, form)
<1> DEFINE t == Workspace!Answered(sent, i)
           e == [Workspace!Reload EXCEPT !.form = form]
           n == Len(t) + 1
<1>1. LeftOf(sent, i, t)
  BY WorkAnswered DEF SentOK
<1>2. e = [op |-> "show", of |-> [view |-> "availability", of |-> None],
           form |-> form, reply |-> None, to |-> "page", passed |-> FALSE]
  <2> DEFINE r == Workspace!Reload
             hours == [view |-> "availability", of |-> None]
  <2>1. r = [op |-> "show", of |-> hours,
             form |-> None, reply |-> None, to |-> "page", passed |-> FALSE]
    BY DEF Workspace!Reload, Workspace!Call
  <2>2. e = [r EXCEPT !.form = form]
    OBVIOUS
  <2> HIDE DEF r, hours, e
  <2>3. e = [op |-> "show", of |-> hours,
             form |-> form, reply |-> None, to |-> "page", passed |-> FALSE]
    BY <2>1, <2>2
  <2> QED
    BY <2>3 DEF hours
<1>3. sent' = Append(t, e)
  OBVIOUS
<1> HIDE DEF t, e
<1>4. IsSequence(t) /\ \A j \in DOMAIN t : IsCall(t[j])
  BY <1>1 DEF LeftOf, AreCalls
<1>5. Len(t) \in Nat /\ DOMAIN t = 1 .. Len(t)
  BY <1>4, SequenceFacts
<1>6. /\ IsSequence(sent') /\ DOMAIN sent' = 1 .. Len(t) + 1
      /\ \A j \in DOMAIN t : sent'[j] = t[j]
      /\ sent'[Len(t) + 1] = e
  <2>1. /\ IsSequence(Append(t, e)) /\ DOMAIN Append(t, e) = 1 .. Len(t) + 1
        /\ \A j \in DOMAIN t : Append(t, e)[j] = t[j]
        /\ Append(t, e)[Len(t) + 1] = e
    BY <1>4, WorkAppend
  <2> QED
    BY <1>3, <2>1
<1>7. /\ n \notin DOMAIN t /\ DOMAIN sent' = DOMAIN t \cup {n}
      /\ \A j \in DOMAIN t : j < n /\ ~(n < j)
      /\ sent'[n] = e
  BY <1>5, <1>6
<1> HIDE DEF n
<1>8. IsCall(e) /\ e.to = "page"
  BY <1>2 DEF IsCall
<1>9. OwnLast'
  <2> SUFFICES ASSUME NEW j \in DOMAIN sent', NEW k \in DOMAIN sent',
                      sent'[j].to = "page", sent'[k].to # "page"
               PROVE  k < j
    BY DEF OwnLast, Own
  <2>1. k \in DOMAIN t /\ sent'[k] = t[k]
    BY <1>6, <1>7, <1>8
  <2>2. CASE j = n
    BY <1>7, <2>1, <2>2
  <2>3. CASE j \in DOMAIN t
    <3>1. t[j].to = "page" /\ t[k].to # "page"
      BY <1>6, <2>1, <2>3
    <3> QED
      BY <1>1, <2>1, <2>3, <3>1, LeftOwnLast
  <2> QED
    BY <1>7, <2>2, <2>3
<1>10. SentOK'
  BY <1>4, <1>6, <1>7, <1>8, <1>9 DEF SentOK, AreCalls
<1>11. Reloads(i, form)
  BY <1>1, <1>2, <1>6, <1>7 DEF Reloads
<1> QED
  BY <1>10, <1>11

Loads(i) ==
    /\ sent[i].op = "show" /\ LeftOf(sent, i, sent') /\ UNCHANGED next
    /\ IF sent[i].reply.ok THEN LoadedFrom(page', sent[i]) ELSE BrokenFrom(page')

LoadsAgain(i) ==
    /\ sent[i].op \in {"add", "drop"} /\ sent[i].reply.ok
    /\ Reloads(i, sent[i].op) /\ UNCHANGED next
    /\ IsPage(page') /\ page'.state = "ready"
    /\ \A f \in DOMAIN page \ {"state"} : page'[f] = page[f]

Proceeds(i) ==
    /\ sent[i].op \notin {"show", "add", "drop"} /\ sent[i].reply.ok
    /\ LeftOf(sent, i, sent') /\ Workspace!Leads(sent[i])
    /\ IsPage(page')
    /\ page'.view = page.view /\ page'.of = page.of /\ page'.state = page.state
    /\ page'.offers = page.offers /\ page'.notice = page.notice /\ page'.calm = page.calm
    /\ page'.shows = IF sent[i].reply.data # None THEN sent[i].reply.data ELSE page.shows

Refuses(i) ==
    /\ sent[i].op # "show" /\ ~sent[i].reply.ok
    /\ LeftOf(sent, i, sent') /\ UNCHANGED next
    /\ IsPage(page')
    /\ page'.view = page.view /\ page'.of = page.of /\ page'.state = page.state
    /\ page'.shows = page.shows /\ page'.offers = page.offers /\ page'.calm = page.calm
    /\ page'.rushed = page.rushed /\ page'.late = page.late /\ page'.notice = "refused"
    /\ page'.unfit = page.unfit

LEMMA LoadsFacts ==
    ASSUME IsPage(page), NEW c, page' = Workspace!Loaded(c, c.reply.ok)
    PROVE  IF c.reply.ok THEN LoadedFrom(page', c) ELSE BrokenFrom(page')
<1>1. CASE c.reply.ok
  <2>1. page' = Workspace!Loaded(c, TRUE)
    BY <1>1 DEF Workspace!Loaded
  <2> QED
    BY <1>1, <2>1, LoadedPage
<1>2. CASE ~c.reply.ok
  <2>1. page' = Workspace!Loaded(c, FALSE)
    BY <1>2 DEF Workspace!Loaded
  <2> QED
    BY <1>2, <2>1, LoadedPage
<1> QED
  BY <1>1, <1>2

LEMMA AnswerFacts ==
    ASSUME WorkShape, NEW i \in DOMAIN sent, Workspace!Answer(i)
    PROVE  /\ WorkShape' /\ SameRows /\ sent[i].reply # None
           /\ \/ Own(i) /\ (Loads(i) \/ LoadsAgain(i) \/ Proceeds(i) \/ Refuses(i))
              \/ ~Own(i) /\ page' = Workspace!Disturbed(page) /\ LeftOf(sent, i, sent')
<1> DEFINE c == sent[i]
<1>0. SameRows /\ c.reply # None
  BY DEF Workspace!Answer, Workspace!server, SameRows
<1>1. IsPage(page) /\ SentOK /\ RowsTypeOK'
  BY <1>0, RowsSame DEF WorkShape
<1>2. ASSUME sent' = Workspace!Answered(sent, i) PROVE SentOK' /\ LeftOf(sent, i, sent')
  BY <1>1, <1>2, SentAnswered
<1>3. CASE /\ c.to = "page" /\ c.op = "show" /\ page' = Workspace!Loaded(c, c.reply.ok)
           /\ sent' = Workspace!Answered(sent, i) /\ UNCHANGED next
  <2>1. Loads(i)
    BY <1>1, <1>2, <1>3, LoadsFacts DEF Loads
  <2>2. IsPage(page')
    BY <2>1 DEF Loads, LoadedFrom, BrokenFrom
  <2> QED
    BY <1>0, <1>1, <1>2, <1>3, <2>1, <2>2 DEF WorkShape, Own
<1>4. CASE /\ c.to = "page" /\ c.op \in {"add", "drop"} /\ c.reply.ok
           /\ sent' = Append(Workspace!Answered(sent, i), [Workspace!Reload EXCEPT !.form = c.op])
           /\ page' = [page EXCEPT !.state = "ready"] /\ UNCHANGED next
  <2>1. SentOK' /\ Reloads(i, c.op)
    BY <1>1, <1>4, SentReloads
  <2>2. IsPage(page')
    BY <1>1, <1>4 DEF IsPage
  <2>3. page'.state = "ready" /\ \A f \in DOMAIN page \ {"state"} : page'[f] = page[f]
    BY <1>1, <1>4 DEF IsPage
  <2> QED
    BY <1>0, <1>1, <1>4, <2>1, <2>2, <2>3 DEF WorkShape, Own, LoadsAgain
<1>5. CASE /\ c.to = "page" /\ c.op \notin {"show", "add", "drop"} /\ c.reply.ok
           /\ sent' = Workspace!Answered(sent, i)
           /\ page' = IF c.reply.data # None
                      THEN [Workspace!Freed(c.op) EXCEPT !.shows = c.reply.data]
                      ELSE Workspace!Freed(c.op)
           /\ Workspace!Leads(c)
  <2> DEFINE f == Workspace!Freed(c.op)
  <2>1. FreedFrom(f, c.op)
    BY <1>1, FreedPage
  <2>2. page' = IF c.reply.data # None THEN [f EXCEPT !.shows = c.reply.data] ELSE f
    BY <1>5
  <2> HIDE DEF f
  <2>3. /\ IsPage(page')
        /\ page'.view = page.view /\ page'.of = page.of /\ page'.state = page.state
        /\ page'.offers = page.offers /\ page'.notice = page.notice /\ page'.calm = page.calm
        /\ page'.shows = IF c.reply.data # None THEN c.reply.data ELSE page.shows
    BY <2>1, <2>2 DEF FreedFrom, IsPage
  <2>4. Proceeds(i)
    BY <1>2, <1>5, <2>3 DEF Proceeds
  <2> QED
    BY <1>0, <1>1, <1>2, <1>5, <2>3, <2>4 DEF WorkShape, Own
<1>6. CASE /\ c.to = "page" /\ c.op # "show" /\ ~c.reply.ok /\ Workspace!Fails(i, "refused")
  <2> DEFINE f == Workspace!Freed(c.op)
  <2>1. FreedFrom(f, c.op)
    BY <1>1, FreedPage
  <2>2. /\ page' = [f EXCEPT !.notice = "refused"]
        /\ sent' = Workspace!Answered(sent, i) /\ UNCHANGED next
    BY <1>6 DEF Workspace!Fails
  <2> HIDE DEF f
  <2>3. /\ IsPage(page')
        /\ page'.view = page.view /\ page'.of = page.of /\ page'.state = page.state
        /\ page'.shows = page.shows /\ page'.offers = page.offers /\ page'.calm = page.calm
        /\ page'.rushed = page.rushed /\ page'.late = page.late /\ page'.notice = "refused"
        /\ page'.unfit = page.unfit
    BY <2>1, <2>2 DEF FreedFrom, IsPage
  <2>4. Refuses(i)
    BY <1>2, <1>6, <2>2, <2>3 DEF Refuses
  <2> QED
    BY <1>0, <1>1, <1>2, <1>6, <2>2, <2>3, <2>4 DEF WorkShape, Own
<1>7. CASE /\ c.to = "tab" /\ page' = Workspace!Disturbed(page)
           /\ sent' = Workspace!Answered(sent, i)
  BY <1>0, <1>1, <1>2, <1>7, DisturbedPage DEF WorkShape, Own
<1>8. ASSUME c.to = "page", c.op # "show", c.reply.ok, Workspace!Succeeds(i)
      PROVE  \/ /\ c.op \in {"add", "drop"}
                /\ sent' = Append(Workspace!Answered(sent, i),
                                  [Workspace!Reload EXCEPT !.form = c.op])
                /\ page' = [page EXCEPT !.state = "ready"] /\ UNCHANGED next
             \/ /\ c.op \notin {"show", "add", "drop"}
                /\ sent' = Workspace!Answered(sent, i)
                /\ page' = IF c.reply.data # None
                           THEN [Workspace!Freed(c.op) EXCEPT !.shows = c.reply.data]
                           ELSE Workspace!Freed(c.op)
                /\ Workspace!Leads(c)
  BY <1>8 DEF Workspace!Succeeds, Workspace!Leads
<1> QED
  BY <1>3, <1>4, <1>5, <1>6, <1>7, <1>8 DEF Workspace!Answer

LEMMA LoseFacts ==
    ASSUME WorkShape, NEW i \in DOMAIN sent, Workspace!Lose(i)
    PROVE  /\ WorkShape' /\ SameRows /\ UNCHANGED next
           /\ \/ Own(i) /\ ~page'.calm /\ page'.view = page.view
              \/ ~Own(i) /\ UNCHANGED page /\ LeftOf(sent, i, sent')
<1> DEFINE c == sent[i]
<1>0. SameRows /\ UNCHANGED next /\ sent' = Workspace!Answered(sent, i)
  BY DEF Workspace!Lose, Workspace!server, SameRows
<1>1. IsPage(page) /\ SentOK /\ RowsTypeOK'
  BY <1>0, RowsSame DEF WorkShape
<1>2. SentOK' /\ LeftOf(sent, i, sent')
  BY <1>0, <1>1, SentAnswered
<1>3. CASE c.to = "page" /\ page' = [Workspace!Loaded(c, FALSE) EXCEPT !.calm = FALSE]
  <2> DEFINE w == Workspace!Loaded(c, FALSE)
  <2>1. BrokenFrom(w)
    BY <1>1, LoadedPage
  <2>2. page' = [w EXCEPT !.calm = FALSE]
    BY <1>3
  <2> HIDE DEF w
  <2>3. IsPage(page') /\ ~page'.calm /\ page'.view = page.view
    BY <2>1, <2>2 DEF BrokenFrom, IsPage
  <2> QED
    BY <1>0, <1>1, <1>2, <1>3, <2>3 DEF WorkShape, Own
<1>4. CASE /\ c.to = "page"
           /\ page' = [Workspace!Freed(c.op) EXCEPT !.notice = "failed", !.calm = FALSE]
  <2> DEFINE w == Workspace!Freed(c.op)
  <2>1. FreedFrom(w, c.op)
    BY <1>1, FreedPage
  <2>2. page' = [w EXCEPT !.notice = "failed", !.calm = FALSE]
    BY <1>4
  <2> HIDE DEF w
  <2>3. IsPage(page') /\ ~page'.calm /\ page'.view = page.view
    BY <2>1, <2>2 DEF FreedFrom, IsPage
  <2> QED
    BY <1>0, <1>1, <1>2, <1>4, <2>3 DEF WorkShape, Own
<1>5. CASE c.to = "tab" /\ UNCHANGED page
  BY <1>0, <1>1, <1>2, <1>5 DEF WorkShape, Own
<1> QED
  BY <1>3, <1>4, <1>5 DEF Workspace!Lose

-----------------------------------------------------------------------------
(* A page is mounted; the page is left. *)
FirstCall(view, of) ==
    \E n \in DOMAIN sent' :
        /\ \A i \in DOMAIN sent' \ {n} : ~Own(i)'
        /\ sent'[n] = [op |-> "show", of |-> [view |-> view, of |-> of], form |-> None,
                       reply |-> None, to |-> "page", passed |-> FALSE]

Mounts(view, of) ==
    /\ view # "away" /\ IsPage(page') /\ FirstCall(view, of)
    /\ page'.view = view /\ page'.of = of /\ page'.state = "loading" /\ page'.notice = "none"
    /\ ~page'.busy /\ page'.removing = None /\ ~page'.late

GoneAway == page'.view = "away" /\ page'.notice = "none" /\ \A i \in DOMAIN sent' : ~Own(i)'

LEMMA GoneFacts ==
    ASSUME WorkShape, SameRows, page' = Workspace!Away, sent' = Workspace!Abandoned(sent)
    PROVE  WorkShape' /\ GoneAway
<1>1. IsPage(page') /\ page'.view = "away" /\ page'.notice = "none"
  BY AwayPage
<1>2. SentOK' /\ \A i \in DOMAIN sent' : ~Own(i)'
  BY SentAbandoned DEF WorkShape
<1> QED
  BY <1>1, <1>2, RowsSame DEF WorkShape, GoneAway

LEMMA ArriveFacts ==
    ASSUME WorkShape, Workspace!Arrive
    PROVE  /\ WorkShape' /\ SameRows /\ next # None /\ next' = None
           /\ \/ next.view = page.view /\ UNCHANGED <<page, sent>>
              \/ GoneAway
              \/ \E view, of : Mounts(view, of)
<1>1. SameRows /\ next # None /\ next' = None
  BY DEF Workspace!Arrive, Workspace!server, SameRows
<1>2. CASE next.view = page.view /\ UNCHANGED <<page, sent>>
  BY <1>1, <1>2, SameShape
<1>3. CASE /\ next.view = "away" /\ page' = Workspace!Away
           /\ sent' = Workspace!Abandoned(sent) \o Workspace!FirstLoad(next.view, next.of)
  <2> DEFINE s == Workspace!Abandoned(sent)
  <2>1. IsSequence(s)
    BY WorkAbandoned DEF WorkShape, SentOK, AreCalls
  <2>2. sent' = s \o <<>>
    BY <1>3 DEF Workspace!FirstLoad
  <2> HIDE DEF s
  <2>3. s \o <<>> = s
    BY <2>1, WorkJoin
  <2>4. sent' = Workspace!Abandoned(sent)
    BY <2>2, <2>3 DEF s
  <2> QED
    BY <1>1, <1>3, <2>4, GoneFacts
<1>4. CASE /\ next.view # "away" /\ page' = Workspace!Mounted(next.view, next.of)
           /\ sent' = Workspace!Abandoned(sent) \o Workspace!FirstLoad(next.view, next.of)
  <2>1. /\ IsPage(page')
        /\ page'.view = next.view /\ page'.of = next.of /\ page'.state = "loading"
        /\ page'.notice = "none" /\ ~page'.busy /\ page'.removing = None /\ ~page'.late
    BY <1>4, MountedPage
  <2>2. SentOK' /\ FirstCall(next.view, next.of)
    BY <1>4, SentMounted DEF WorkShape, FirstCall
  <2>3. Mounts(next.view, next.of)
    BY <1>4, <2>1, <2>2 DEF Mounts
  <2>4. WorkShape'
    BY <1>1, <2>1, <2>2, RowsSame DEF WorkShape
  <2> QED
    BY <1>1, <2>3, <2>4
<1> QED
  BY <1>2, <1>3, <1>4 DEF Workspace!Arrive

-----------------------------------------------------------------------------
(* A step leaves an open page and its calls alone, or is one of those of   *)
(* the page itself, or closes or disturbs it.                              *)
Shifted(d) ==
    /\ \A j \in DOMAIN sent' : Own(j)' => j + d \in DOMAIN sent /\ sent'[j] = sent[j + d]
    /\ \A k \in DOMAIN sent : Own(k) => k - d \in DOMAIN sent' /\ sent'[k - d] = sent[k]

KeepsLeaving == Leaving /\ page.view \in {"new", "detail"} => Leaving'

Idles == SameRows /\ UNCHANGED page /\ KeepsLeaving /\ \E d \in {0, 1} : Shifted(d)

Closes == ~Opened' /\ (AwayInv => AwayInv')

Acts ==
    /\ UNCHANGED <<nav, next>>
    /\ \/ \E op \in {"publish", "pause", "archive", "delete"} : Workspace!Press(op)
       \/ \E s \in Services, x \in Contents \cup Unfit, c \in Categories :
            Workspace!Save(s, x, c)
       \/ \E x \in {None} \cup Unfit : Workspace!SubmitDocuments(x)
       \/ \E i \in Slots : Workspace!AddSlot(i) \/ Workspace!RemoveSlot(i)

IsServed(i) ==
    /\ Own(i) /\ UNCHANGED <<nav, next>>
    /\ Workspace!ServeLoad(i) \/ Workspace!ServeWrite(i)

IsAnswered(i) == Own(i) /\ Workspace!Answer(i) /\ LastAskedIsWorkspace

LEMMA ShiftedSame == SentOK /\ UNCHANGED sent => Shifted(0)
<1>1. SentOK => DOMAIN sent \subseteq Nat
  BY SequenceFacts DEF SentOK, AreCalls
<1>2. \A j \in Nat : j + 0 = j /\ j - 0 = j
  OBVIOUS
<1> QED
  BY <1>1, <1>2 DEF Shifted

LEMMA ShiftedReply ==
    ASSUME SentOK, NEW i \in DOMAIN sent, ~Own(i), NEW a, ReplyIs(i, a)
    PROVE  Shifted(0)
<1>1. DOMAIN sent \subseteq Nat
  BY SequenceFacts DEF SentOK, AreCalls
<1>2. \A j \in Nat : j + 0 = j /\ j - 0 = j
  OBVIOUS
<1>3. ~Own(i)' /\ DOMAIN sent' = DOMAIN sent /\ \A j \in DOMAIN sent : j # i => sent'[j] = sent[j]
  BY DEF ReplyIs, Own
<1> QED
  BY <1>1, <1>2, <1>3 DEF Shifted

LEMMA ShiftedLost ==
    ASSUME SentOK, SentOK', NEW i \in DOMAIN sent, ~Own(i), LeftOf(sent, i, sent')
    PROVE  Shifted(1)
<1>1. DOMAIN sent \subseteq Nat /\ DOMAIN sent' \subseteq Nat
  BY SequenceFacts DEF SentOK, AreCalls
<1>2. ASSUME NEW j \in DOMAIN sent', Own(j)'
      PROVE  j + 1 \in DOMAIN sent /\ sent'[j] = sent[j + 1]
  <2>1. /\ Before(i, j) \in DOMAIN sent \ {i} /\ SameCall(sent'[j], sent[Before(i, j)])
        /\ sent'[j].passed = IF j < i /\ sent[i].op = "show" THEN TRUE
                             ELSE sent[Before(i, j)].passed
    BY DEF LeftOf
  <2>2. Own(Before(i, j))
    BY <1>2, <2>1 DEF Own, SameCall
  <2>3. i < Before(i, j)
    BY <2>1, <2>2 DEF SentOK, OwnLast
  <2>4. Before(i, j) = j + 1 /\ ~(j < i)
    BY <1>1, <2>3 DEF Before
  <2>5. IsCall(sent'[j]) /\ IsCall(sent[j + 1]) /\ SameCall(sent'[j], sent[j + 1])
        /\ sent'[j].passed = sent[j + 1].passed
    BY <2>1, <2>4 DEF SentOK, AreCalls
  <2>6. sent'[j] = sent[j + 1]
    BY <2>5 DEF IsCall, SameCall
  <2> QED
    BY <2>1, <2>4, <2>6
<1>3. ASSUME NEW k \in DOMAIN sent, Own(k)
      PROVE  k - 1 \in DOMAIN sent' /\ sent'[k - 1] = sent[k]
  <2>1. k # i /\ i < k
    BY <1>3 DEF SentOK, OwnLast
  <2>2. PICK j \in DOMAIN sent' : Before(i, j) = k
    BY <2>1 DEF LeftOf
  <2>3. j = k - 1 /\ j + 1 = k
    BY <1>1, <2>1, <2>2 DEF Before
  <2>4. Own(j)'
    BY <1>3, <2>2 DEF LeftOf, SameCall, Own
  <2> QED
    BY <1>2, <2>3, <2>4
<1> QED
  BY <1>2, <1>3 DEF Shifted

-----------------------------------------------------------------------------
StepCase ==
    \/ Idles
    \/ Closes
    \/ Acts
    \/ \E i \in DOMAIN sent : IsServed(i) \/ IsAnswered(i)
    \/ SameRows /\ \E view, of : Mounts(view, of)

LEMMA CloseFacts ==
    /\ UNCHANGED <<page, sent>> /\ page.view = "away" => Closes
    /\ GoneAway => Closes
  BY DEF Closes, Opened, AwayInv, GoneAway, Own

LEMMA IdleFacts ==
    SentOK /\ SameRows /\ UNCHANGED <<page, sent>> /\ KeepsLeaving => Idles
  BY ShiftedSame DEF Idles

LEMMA NextPages ==
    ASSUME NEW view \in Views, NEW of \in Services \cup {None}, Workspace!Goes(view, of)
    PROVE  next' # None /\ next'.view = view
<1>1. next' = [view |-> view, of |-> of]
  BY DEF Workspace!Goes
<1>2. next' \in [view : Views, of : Services \cup {None}]
  BY <1>1
<1> QED
  BY <1>1, <1>2, WorkspaceAssumption

LEMMA SameRouter == LastAskedIsWorkspace /\ UNCHANGED next => UNCHANGED nav
  BY DEF LastAskedIsWorkspace, vars

LEMMA UseStep ==
    ASSUME WorkShape, WorkspaceUse
    PROVE  WorkShape' /\ StepCase
<1>1. WorkShape'
  BY UsesShape, EnterShape DEF WorkspaceUse
<1>2. CASE Workspace!Enter
  <2>1. UNCHANGED <<page, sent>> /\ page.view = "away"
    BY <1>2 DEF Workspace!Enter
  <2> QED
    BY <1>1, <2>1, CloseFacts DEF StepCase
<1>3. ASSUME SameRows, UNCHANGED <<page, sent>>, NEW view \in Views,
             NEW of \in Services \cup {None},
             Workspace!Linked(view, of), Workspace!Goes(view, of)
      PROVE  Idles
  <2>1. next' # None /\ next'.view = view
    BY <1>3, NextPages
  <2>2. page.view \in {"new", "detail"} => view # page.view
    BY <1>3 DEF Workspace!Linked, Workspace!OfOneService
  <2>3. KeepsLeaving
    BY <1>3, <2>1, <2>2 DEF KeepsLeaving, Leaving
  <2> QED
    BY <1>3, <2>3, IdleFacts DEF WorkShape
<1>4. ASSUME UNCHANGED next,
             \/ \E op \in {"publish", "pause", "archive", "delete"} : Workspace!Press(op)
             \/ \E s \in Services, x \in Contents \cup Unfit, c \in Categories :
                  Workspace!Save(s, x, c)
             \/ \E x \in {None} \cup Unfit : Workspace!SubmitDocuments(x)
             \/ \E i \in Slots : Workspace!AddSlot(i) \/ Workspace!RemoveSlot(i)
      PROVE  Acts
  BY <1>4, SameRouter DEF WorkspaceUse, Acts
<1>5. \/ \E op \in {"publish", "pause", "archive", "delete"} : Workspace!Press(op)
      \/ \E s \in Services, x \in Contents \cup Unfit, c \in Categories :
           Workspace!Save(s, x, c)
      \/ \E x \in {None} \cup Unfit : Workspace!SubmitDocuments(x)
      \/ \E i \in Slots : Workspace!AddSlot(i) \/ Workspace!RemoveSlot(i)
      => UNCHANGED next
  BY DEF Workspace!Press, Workspace!Save, Workspace!SubmitDocuments, Workspace!AddSlot,
         Workspace!RemoveSlot
<1> QED
  BY <1>1, <1>2, <1>3, <1>4, <1>5, UsesCases DEF WorkspaceUse, StepCase, WorkShape

(* Who disturbs the page closes it for this proof. *)
LEMMA DisturbCloses ==
    ASSUME IsPage(page), page' = Workspace!Disturbed(page),
           AwayInv => \A i \in DOMAIN sent' : ~Own(i)' \/ page.view # "away"
    PROVE  Closes
<1>1. page'.view = page.view /\ page'.notice = page.notice /\ (page'.calm => page.view = "away")
  BY DisturbedPage
<1> QED
  BY <1>1 DEF Closes, Opened, AwayInv

LEMMA LeftOwn ==
    ASSUME NEW i \in DOMAIN sent, LeftOf(sent, i, sent'), \A j \in DOMAIN sent : ~Own(j)
    PROVE  \A j \in DOMAIN sent' : ~Own(j)'
  BY DEF LeftOf, SameCall, Own

LEMMA MachineStepCase ==
    ASSUME WorkShape, NEW i \in DOMAIN sent, Workspace!Responds(i), LastAskedIsWorkspace
    PROVE  WorkShape' /\ StepCase
<1>0. SentOK /\ IsPage(page)
  BY DEF WorkShape
<1>1. CASE Workspace!ServeLoad(i)
  <2> DEFINE what == sent[i].of
             a == IF Workspace!Found(what.view, what.of)
                  THEN Workspace!Yes(Workspace!Current(what.view, what.of),
                                     IF what.view \in Workspace!Forms THEN Available ELSE {})
                  ELSE Workspace!No
  <2>1. /\ WorkShape' /\ SameRows /\ UNCHANGED <<page, next>>
        /\ ReplyIs(i, a)
    BY <1>1, ServeLoadFacts
  <2> HIDE DEF a
  <2>2. UNCHANGED <<nav, next>> /\ KeepsLeaving
    BY <2>1, SameRouter DEF KeepsLeaving, Leaving
  <2>3. CASE Own(i)
    BY <1>1, <2>1, <2>2, <2>3 DEF StepCase, IsServed
  <2>4. CASE ~Own(i)
    <3>1. Shifted(0)
      BY <1>0, <2>1, <2>4, ShiftedReply
    <3> QED
      BY <2>1, <2>2, <3>1 DEF StepCase, Idles
  <2> QED
    BY <2>3, <2>4
<1>2. CASE Workspace!ServeWrite(i)
  <2>1. WorkShape' /\ UNCHANGED next
    BY <1>2, ServeWriteFacts
  <2>2. UNCHANGED <<nav, next>> /\ (UNCHANGED page => KeepsLeaving)
    BY <2>1, SameRouter DEF KeepsLeaving, Leaving
  <2>3. CASE Own(i)
    BY <1>2, <2>1, <2>2, <2>3 DEF StepCase, IsServed
  <2>4. CASE ~Own(i)
    <3> DEFINE yes == Workspace!Yes(Workspace!Said(sent[i].op, sent[i].of), {})
    <3>1. \/ ReplyIs(i, yes) /\ page' = Workspace!Disturbed(page)
          \/ ReplyIs(i, Workspace!No) /\ SameRows /\ UNCHANGED page
      BY <1>2, <2>4, ServeWriteFacts DEF Own
    <3> HIDE DEF yes
    <3>2. CASE ReplyIs(i, Workspace!No) /\ SameRows /\ UNCHANGED page
      <4>1. Shifted(0)
        BY <1>0, <2>4, <3>2, ShiftedReply
      <4> QED
        BY <2>1, <2>2, <3>2, <4>1 DEF StepCase, Idles
    <3>3. CASE ReplyIs(i, yes) /\ page' = Workspace!Disturbed(page)
      <4>1. AwayInv => \A j \in DOMAIN sent' : ~Own(j)' \/ page.view # "away"
        BY <2>4, <3>3 DEF ReplyIs, AwayInv, Own
      <4> QED
        BY <1>0, <2>1, <3>3, <4>1, DisturbCloses DEF StepCase
    <3> QED
      BY <3>1, <3>2, <3>3
  <2> QED
    BY <2>3, <2>4
<1>3. CASE Workspace!Answer(i)
  <2>1. /\ WorkShape'
        /\ \/ Own(i)
           \/ ~Own(i) /\ page' = Workspace!Disturbed(page) /\ LeftOf(sent, i, sent')
    BY <1>3, AnswerFacts
  <2>2. CASE Own(i)
    BY <1>3, <2>1, <2>2 DEF StepCase, IsAnswered
  <2>3. CASE page' = Workspace!Disturbed(page) /\ LeftOf(sent, i, sent')
    <3>1. AwayInv => \A j \in DOMAIN sent' : ~Own(j)' \/ page.view # "away"
      BY <2>3, LeftOwn DEF AwayInv
    <3> QED
      BY <1>0, <2>1, <2>3, <3>1, DisturbCloses DEF StepCase
  <2> QED
    BY <2>1, <2>2, <2>3
<1>4. CASE Workspace!Lose(i)
  <2>1. /\ WorkShape' /\ SameRows /\ UNCHANGED next
        /\ \/ Own(i) /\ ~page'.calm /\ page'.view = page.view
           \/ ~Own(i) /\ UNCHANGED page /\ LeftOf(sent, i, sent')
    BY <1>4, LoseFacts
  <2>2. CASE Own(i) /\ ~page'.calm /\ page'.view = page.view
    <3>1. Closes
      BY <2>2 DEF Closes, Opened, AwayInv
    <3> QED
      BY <2>1, <3>1 DEF StepCase
  <2>3. CASE ~Own(i) /\ UNCHANGED page /\ LeftOf(sent, i, sent')
    <3>1. KeepsLeaving
      BY <2>1, <2>3, SameRouter DEF KeepsLeaving, Leaving
    <3>2. Shifted(1)
      BY <1>0, <2>1, <2>3, ShiftedLost DEF WorkShape
    <3> QED
      BY <2>1, <2>3, <3>1, <3>2 DEF StepCase, Idles
  <2> QED
    BY <2>1, <2>2, <2>3
<1> QED
  BY <1>1, <1>2, <1>3, <1>4 DEF Workspace!Responds

LEMMA WorkStep ==
    ASSUME PagesTypeOK, OneNavigation, WorkShape, [WebNext]_allVars
    PROVE  WorkShape' /\ StepCase
<1>0. SentOK /\ IsPage(page)
  BY DEF WorkShape
<1>1. CASE SearchUse
  <2>1. SameRows /\ UNCHANGED <<page, sent>>
    BY <1>1 DEF SearchUse, SameRows
  <2>2. UNCHANGED nav \/ nav' \in Page
    BY <1>1, UserTypes DEF SearchUse
  <2>3. UNCHANGED <<nav, next>> \/ nav' # None
    BY <1>1, <2>2, PageIsNotNone DEF SearchUse, LastAskedIsSearch
  <2>4. KeepsLeaving
    BY <2>1, <2>3 DEF KeepsLeaving, Leaving
  <2> QED
    BY <1>0, <2>1, <2>4, SameShape, IdleFacts DEF StepCase
<1>2. CASE SearchMachine \/ UNCHANGED allVars
  <2>1. SameRows /\ UNCHANGED <<page, sent, next>>
    BY <1>2 DEF SearchMachine, workspaceVars, allVars, SameRows
  <2>2. UNCHANGED nav
    BY <1>2 DEF SearchMachine, MachineStep, TimerFires, Answer, Suggest, allVars, vars
  <2>3. KeepsLeaving
    BY <2>1, <2>2 DEF KeepsLeaving, Leaving
  <2> QED
    BY <1>0, <2>1, <2>3, SameShape, IdleFacts DEF StepCase
<1>3. CASE SearchArrive
  <2>1. SameRows
    BY <1>3 DEF SearchArrive, SameRows
  <2>2. CASE page.view = "away" /\ UNCHANGED <<page, sent>>
    BY <2>1, <2>2, SameShape, CloseFacts DEF StepCase
  <2>3. CASE LeaveWorkspace
    BY <2>1, <2>3, GoneFacts, CloseFacts DEF StepCase, LeaveWorkspace
  <2> QED
    BY <1>3, <2>2, <2>3 DEF SearchArrive, InWorkspace
<1>4. CASE WorkspaceUse
  BY <1>4, UseStep
<1>5. CASE Others
  <2>1. WorkShape' /\ UNCHANGED sent /\ page' = Workspace!Disturbed(page)
    BY <1>5, OthersShape DEF Others
  <2>2. AwayInv => \A j \in DOMAIN sent' : ~Own(j)' \/ page.view # "away"
    BY <2>1 DEF AwayInv, Own
  <2> QED
    BY <1>0, <2>1, <2>2, DisturbCloses DEF StepCase
<1>6. CASE WorkspaceMachine
  BY <1>6, MachineStepCase DEF WorkspaceMachine
<1>7. CASE WorkspaceArrive
  <2>1. Workspace!Arrive
    BY <1>7 DEF WorkspaceArrive
  <2>2. /\ WorkShape' /\ SameRows /\ next # None
        /\ \/ next.view = page.view /\ UNCHANGED <<page, sent>>
           \/ GoneAway
           \/ \E view, of : Mounts(view, of)
    BY <2>1, ArriveFacts
  <2>3. CASE next.view = page.view /\ UNCHANGED <<page, sent>>
    <3>1. ~Leaving
      BY <2>2, <2>3 DEF OneNavigation, Leaving
    <3> QED
      BY <1>0, <2>2, <2>3, <3>1, IdleFacts DEF StepCase, KeepsLeaving
  <2>4. CASE GoneAway
    BY <2>2, <2>4, CloseFacts DEF StepCase
  <2>5. CASE \E view, of : Mounts(view, of)
    BY <2>2, <2>5 DEF StepCase
  <2> QED
    BY <2>2, <2>3, <2>4, <2>5
<1> QED
  BY <1>1, <1>2, <1>3, <1>4, <1>5, <1>6, <1>7 DEF WebNext, User, Machine

-----------------------------------------------------------------------------
(* The page and its calls are left alone. *)
LEMMA TermsSame ==
    ASSUME SameRows, page'.view = page.view, page'.of = page.of
    PROVE  StoredNow' = StoredNow /\ Available' = Available /\ Kept' = Kept
  BY DEF SameRows, StoredNow, Available, Kept, Workspace!Current, Workspace!Mine

LEMMA ExcusedSame ==
    ASSUME SameRows, page'.view = page.view, page'.of = page.of, page'.shows = page.shows,
           page'.unfit = page.unfit
    PROVE  Workspace!Excused' = Workspace!Excused
  BY DEF SameRows, Workspace!Excused

LEMMA CallsSame ==
    ASSUME SameRows, UNCHANGED page, NEW c
    PROVE  /\ LoadOK(c)' = LoadOK(c) /\ WriteOK(c)' = WriteOK(c)
           /\ HoursLoad(c)' = HoursLoad(c) /\ QuietCall(c)' = QuietCall(c)
<1>1. StoredNow' = StoredNow /\ Available' = Available /\ Kept' = Kept
      /\ Workspace!Excused' = Workspace!Excused
  BY TermsSame, ExcusedSame
<1>2. Unserved(c)' = Unserved(c) /\ Served(c)' = Served(c) /\ Suits(c)' = Suits(c)
  BY <1>1 DEF Unserved, Served, Suits, Workspace!Fit, SameRows
<1>3. LoadOK(c)' = LoadOK(c)
  BY <1>1 DEF LoadOK
<1>4. WriteOK(c)' = WriteOK(c)
  BY <1>1, <1>2 DEF WriteOK
<1>5. HoursLoad(c)' = HoursLoad(c)
  BY <1>1 DEF HoursLoad
<1>6. QuietCall(c)' = QuietCall(c)
  BY DEF QuietCall, SameRows
<1> QED
  BY <1>3, <1>4, <1>5, <1>6

LEMMA ShiftedOwn ==
    ASSUME NEW d, Shifted(d)
    PROVE  /\ \A j \in DOMAIN sent' : Own(j)' =>
                /\ j + d \in DOMAIN sent /\ sent'[j] = sent[j + d] /\ Own(j + d)
                /\ OwnLoad(j)' => OwnLoad(j + d)
                /\ OwnWrite(j)' => OwnWrite(j + d)
           /\ \A k \in DOMAIN sent : Own(k) =>
                /\ k - d \in DOMAIN sent' /\ sent'[k - d] = sent[k] /\ Own(k - d)'
                /\ OwnLoad(k) => OwnLoad(k - d)'
                /\ OwnWrite(k) => OwnWrite(k - d)'
  BY DEF Shifted, Own, OwnLoad, OwnWrite

LEMMA Positions == \A s : AreCalls(s) => DOMAIN s \subseteq Nat
  BY SequenceFacts DEF AreCalls

LEMMA ShiftedOne ==
    ASSUME WorkShape, WorkShape', NEW d \in {0, 1}, Shifted(d), OneOwn
    PROVE  OneOwn'
<1> SUFFICES ASSUME NEW i \in DOMAIN sent', NEW j \in DOMAIN sent', Own(i)', Own(j)'
             PROVE  i = j
  BY DEF OneOwn
<1>1. i \in Nat /\ j \in Nat
  BY Positions DEF WorkShape, SentOK
<1>2. i + d = j + d
  BY ShiftedOwn DEF OneOwn
<1> QED
  BY <1>1, <1>2

LEMMA IdleSingle ==
    ASSUME WorkShape, WorkShape', Idles, Single
    PROVE  Single'
<1> SUFFICES ASSUME page.view # "availability" PROVE Single'
  BY DEF Idles, Single
<1>0. PICK d \in {0, 1} : Shifted(d)
  BY DEF Idles
<1>1. OneOwn'
  BY <1>0, ShiftedOne DEF Single
<1>2. SameRows /\ UNCHANGED page
  BY DEF Idles
<1>3. StoredNow' = StoredNow /\ Available' = Available /\ Kept' = Kept
      /\ Workspace!Excused' = Workspace!Excused
  BY <1>2, TermsSame, ExcusedSame
<1>4. ASSUME NEW j \in DOMAIN sent', OwnLoad(j)' PROVE LoadOK(sent[j])'
  <2>1. j + d \in DOMAIN sent /\ sent'[j] = sent[j + d] /\ OwnLoad(j + d)
    BY <1>0, <1>4, ShiftedOwn DEF OwnLoad
  <2>2. LoadOK(sent'[j])
    BY <2>1 DEF Single
  <2>3. ASSUME NEW c, LoadOK(c) PROVE LoadOK(c)'
    BY <1>2, <2>3, CallsSame
  <2> QED
    BY <2>2, <1>3, <1>2 DEF LoadOK
<1>5. ASSUME NEW j \in DOMAIN sent', OwnWrite(j)' PROVE WriteOK(sent[j])'
  <2>1. j + d \in DOMAIN sent /\ sent'[j] = sent[j + d] /\ OwnWrite(j + d)
    BY <1>0, <1>5, ShiftedOwn DEF OwnWrite
  <2>2. WriteOK(sent'[j])
    BY <2>1 DEF Single
  <2> QED
    BY <2>2, <1>3, <1>2 DEF WriteOK, Unserved, Served, Suits, Workspace!Fit, SameRows
<1>6. Fresh => Fresh'
  <2>1. CASE \E i \in DOMAIN sent : OwnWrite(i) /\ GoodReply(sent[i])
    <3>1. PICK i \in DOMAIN sent : OwnWrite(i) /\ GoodReply(sent[i])
      BY <2>1
    <3>2. i - d \in DOMAIN sent' /\ sent'[i - d] = sent[i] /\ OwnWrite(i - d)'
      BY <1>0, <3>1, ShiftedOwn DEF OwnWrite
    <3> QED
      BY <3>1, <3>2 DEF Fresh, GoodReply
  <2>2. CASE page.shows = StoredNow
    BY <1>2, <1>3, <2>2 DEF Fresh
  <2>3. CASE /\ Leaving
             /\ \/ page.view = "new"
                \/ page.view = "detail" /\ service[page.of].status = "DELETED"
    BY <1>2, <2>3 DEF Fresh, Idles, KeepsLeaving, SameRows
  <2> QED
    BY <2>1, <2>2, <2>3 DEF Fresh
<1> QED
  BY <1>1, <1>2, <1>3, <1>4, <1>5, <1>6 DEF Single

LEMMA IdleHours ==
    ASSUME WorkShape, WorkShape', Idles, Hours
    PROVE  Hours'
<1> SUFFICES ASSUME page.view = "availability" PROVE Hours'
  BY DEF Idles, Hours
<1>0. PICK d \in {0, 1} : Shifted(d)
  BY DEF Idles
<1>2. SameRows /\ UNCHANGED page
  BY DEF Idles
<1>3. StoredNow' = StoredNow
  BY <1>2, TermsSame
<1>4. \A j \in DOMAIN sent' : Own(j)' => HoursCall(sent'[j])
  BY <1>0, ShiftedOwn DEF Hours
<1>5. HoursFresh'
  <2>1. CASE \E i \in DOMAIN sent : OwnWrite(i) /\ GoodReply(sent[i])
    <3>1. PICK i \in DOMAIN sent : OwnWrite(i) /\ GoodReply(sent[i])
      BY <2>1
    <3>2. i - d \in DOMAIN sent' /\ sent'[i - d] = sent[i] /\ OwnWrite(i - d)'
      BY <1>0, <3>1, ShiftedOwn DEF OwnWrite
    <3> QED
      BY <3>1, <3>2 DEF HoursFresh, GoodReply
  <2>2. CASE /\ \A i \in DOMAIN sent : LastLoad(i) => HoursLoad(sent[i])
             /\ (\A i \in DOMAIN sent : ~OwnLoad(i)) => page.late \/ page.shows = StoredNow
    <3>1. ASSUME NEW j \in DOMAIN sent', LastLoad(j)' PROVE HoursLoad(sent[j])'
      <4>1. j + d \in DOMAIN sent /\ sent'[j] = sent[j + d] /\ OwnLoad(j + d)
        BY <1>0, <3>1, ShiftedOwn DEF LastLoad, OwnLoad
      <4>2. ASSUME NEW k \in DOMAIN sent, OwnLoad(k) PROVE k <= j + d
        <5>1. k - d \in DOMAIN sent' /\ OwnLoad(k - d)'
          BY <1>0, <4>2, ShiftedOwn DEF OwnLoad
        <5>2. k - d <= j
          BY <3>1, <5>1 DEF LastLoad
        <5>3. k \in Nat /\ j \in Nat
          BY Positions DEF WorkShape, SentOK
        <5> QED
          BY <5>2, <5>3
      <4>3. HoursLoad(sent[j + d])
        BY <2>2, <4>1, <4>2 DEF LastLoad
      <4> QED
        BY <1>3, <4>1, <4>3 DEF HoursLoad
    <3>2. (\A j \in DOMAIN sent' : ~OwnLoad(j)') => \A k \in DOMAIN sent : ~OwnLoad(k)
      BY <1>0, ShiftedOwn DEF OwnLoad
    <3> QED
      BY <1>2, <1>3, <2>2, <3>1, <3>2 DEF HoursFresh
  <2> QED
    BY <2>1, <2>2 DEF Hours, HoursFresh
<1> QED
  BY <1>4, <1>5 DEF Hours, HoursCall

LEMMA IdleQuiet ==
    ASSUME WorkShape, WorkShape', Idles, Quiet
    PROVE  Quiet'
<1> SUFFICES ASSUME page.view = "availability", ~page.rushed PROVE Quiet'
  BY DEF Idles, Quiet
<1>0. PICK d \in {0, 1} : Shifted(d)
  BY DEF Idles
<1>1. OneOwn'
  BY <1>0, ShiftedOne DEF Quiet
<1>2. SameRows /\ UNCHANGED page
  BY DEF Idles
<1>3. ASSUME NEW j \in DOMAIN sent', Own(j)' PROVE QuietCall(sent[j])'
  <2>1. j + d \in DOMAIN sent /\ sent'[j] = sent[j + d] /\ Own(j + d)
    BY <1>0, <1>3, ShiftedOwn
  <2>2. QuietCall(sent'[j])
    BY <2>1 DEF Quiet
  <2> QED
    BY <1>2, <2>2 DEF QuietCall, SameRows
<1> QED
  BY <1>1, <1>2, <1>3 DEF Quiet

LEMMA IdleOpen ==
    ASSUME WorkShape, WorkShape', Idles, OpenInv
    PROVE  OpenInv'
<1>0. PICK d \in {0, 1} : Shifted(d)
  BY DEF Idles
<1>1. AwayInv'
  BY <1>0, ShiftedOwn DEF OpenInv, AwayInv, Idles
<1>2. Opened' => Opened
  BY DEF Idles, Opened
<1> QED
  BY <1>1, <1>2, IdleSingle, IdleHours, IdleQuiet DEF OpenInv

(* A page is mounted. *)
LEMMA MountOpen ==
    ASSUME NEW view, NEW of, Mounts(view, of)
    PROVE  OpenInv'
<1>1. PICK n \in DOMAIN sent' :
        /\ \A i \in DOMAIN sent' \ {n} : ~Own(i)'
        /\ sent'[n] = [op |-> "show", of |-> [view |-> view, of |-> of], form |-> None,
                       reply |-> None, to |-> "page", passed |-> FALSE]
  BY DEF Mounts, FirstCall
<1>2. /\ page'.view = view /\ page'.of = of /\ page'.state = "loading"
      /\ page'.notice = "none" /\ ~page'.busy /\ page'.removing = None /\ ~page'.late
      /\ view # "away"
  BY DEF Mounts
<1>3. \A i \in DOMAIN sent' : Own(i)' => i = n
  BY <1>1
<1>4. OwnLoad(n)' /\ sent'[n].reply = None /\ sent'[n].form = None /\ ~sent'[n].passed
      /\ sent'[n].of = [view |-> view, of |-> of] /\ sent'[n].op = "show"
  BY <1>1 DEF Own, OwnLoad
<1>5. AwayInv'
  BY <1>2 DEF AwayInv
<1>6. OneOwn' /\ \A i \in DOMAIN sent' : ~OwnWrite(i)'
  BY <1>3, <1>4 DEF OneOwn, OwnWrite
<1>7. Single'
  <2>1. LoadOK(sent[n])'
    BY <1>2, <1>4 DEF LoadOK, GoodReply
  <2>2. \A i \in DOMAIN sent' : OwnLoad(i)' => LoadOK(sent[i])'
    BY <1>3, <2>1 DEF OwnLoad
  <2> QED
    BY <1>2, <1>6, <2>2 DEF Single
<1>8. Hours'
  <2>1. (HoursCall(sent'[n]) /\ HoursLoad(sent[n])') \/ view # "availability"
    BY <1>4 DEF HoursCall, HoursLoad
  <2> QED
    BY <1>2, <1>3, <1>4, <2>1 DEF Hours, HoursFresh, LastLoad, OwnLoad
<1>9. Quiet'
  <2>1. QuietCall(sent[n])'
    BY <1>2, <1>4 DEF QuietCall, BadReply
  <2> QED
    BY <1>2, <1>3, <1>6, <2>1 DEF Quiet
<1> QED
  BY <1>5, <1>7, <1>8, <1>9 DEF OpenInv

-----------------------------------------------------------------------------
(* The user acts on the page: one more call of the page. *)
OneMore(e) ==
    \E n \in DOMAIN sent' :
        /\ n \notin DOMAIN sent /\ DOMAIN sent' = DOMAIN sent \cup {n}
        /\ \A i \in DOMAIN sent : sent'[i] = sent[i]
        /\ sent'[n] = e

LEMMA SendsOneMore ==
    ASSUME WorkShape, NEW op, NEW of, NEW form, Sends(op, of, form)
    PROVE  /\ SameRows
           /\ OneMore([op |-> op, of |-> of, form |-> form, reply |-> None, to |-> "page",
                       passed |-> FALSE])
<1>1. sent' = Append(sent, Workspace!Call(op, of, form)) /\ SentOK /\ SameRows
  BY DEF Sends, SameRows, WorkShape
<1>2. /\ DOMAIN sent' = 1 .. Len(sent) + 1 /\ DOMAIN sent = 1 .. Len(sent)
      /\ Len(sent) \in Nat
      /\ \A i \in DOMAIN sent : sent'[i] = sent[i]
      /\ sent'[Len(sent) + 1] = [op |-> op, of |-> of, form |-> form, reply |-> None,
                                 to |-> "page", passed |-> FALSE]
  BY <1>1, SentAppended
<1> DEFINE n == Len(sent) + 1
<1>3. n \in DOMAIN sent' /\ n \notin DOMAIN sent /\ DOMAIN sent' = DOMAIN sent \cup {n}
  BY <1>2
<1>4. /\ \A i \in DOMAIN sent : sent'[i] = sent[i]
      /\ sent'[n] = [op |-> op, of |-> of, form |-> form, reply |-> None,
                     to |-> "page", passed |-> FALSE]
  BY <1>2
<1> HIDE DEF n
<1> QED
  BY <1>1, <1>3, <1>4 DEF OneMore

LEMMA SendSingle ==
    ASSUME WorkShape, Single, page.view # "availability", UNCHANGED nav,
           page.state = "ready", ~page.busy, NEW op, op # "show", NEW of, NEW form,
           Sends(op, of, form), page'.busy = TRUE,
           Workspace!Fit(op, form) \/ page'.unfit,
           \A e : e.op = op /\ e.of = of /\ e.form = form => Unserved(e)
    PROVE  Single'
<1> DEFINE e == [op |-> op, of |-> of, form |-> form, reply |-> None, to |-> "page",
                 passed |-> FALSE]
<1>1. SameRows /\ OneMore(e)
  BY SendsOneMore
<1>a. e.op = op /\ e.of = of /\ e.form = form /\ e.to = "page" /\ e.reply = None
  OBVIOUS
<1> HIDE DEF e
<1>2. /\ e.op = op /\ e.of = of /\ e.form = form /\ e.to = "page" /\ e.reply = None
      /\ Unserved(e)
  BY <1>a
<1>3. PICK n \in DOMAIN sent' :
        /\ DOMAIN sent' = DOMAIN sent \cup {n}
        /\ \A i \in DOMAIN sent : sent'[i] = sent[i]
        /\ sent'[n] = e
  BY <1>1 DEF OneMore
<1>4. \A i \in DOMAIN sent : ~Own(i)
  BY DEF Single, OwnLoad, OwnWrite, LoadOK, WriteOK
<1>5. \A i \in DOMAIN sent' : Own(i)' => i = n
  BY <1>3, <1>4 DEF Own
<1>6. /\ page'.view = page.view /\ page'.of = page.of /\ page'.state = "ready"
      /\ page'.shows = page.shows /\ page'.offers = page.offers /\ page'.notice = "none"
      /\ UNCHANGED next
  BY DEF Sends
<1>7. StoredNow' = StoredNow /\ Available' = Available /\ Kept' = Kept
  BY <1>1, <1>6, TermsSame
<1>8. WriteOK(sent[n])'
  <2>1. Unserved(e)'
    BY <1>1, <1>2, <1>6 DEF Unserved, SameRows
  <2>2. sent'[n].reply = None /\ Unserved(sent[n])'
    BY <1>2, <1>3, <2>1 DEF Unserved
  <2>3. Suits(sent[n])'
    BY <1>2, <1>3 DEF Suits, Workspace!Fit
  <2> QED
    BY <1>6, <2>2, <2>3 DEF WriteOK, GoodReply, BadReply
<1>9. OneOwn'
  BY <1>5 DEF OneOwn
<1>10. \A i \in DOMAIN sent' : ~OwnLoad(i)' /\ (OwnWrite(i)' => WriteOK(sent[i])')
  BY <1>2, <1>3, <1>5, <1>8 DEF OwnLoad, OwnWrite
<1>11. Fresh'
  <2>1. \/ page.shows = StoredNow
        \/ /\ Leaving
           /\ \/ page.view = "new"
              \/ page.view = "detail" /\ service[page.of].status = "DELETED"
    BY <1>4 DEF Single, Fresh, OwnWrite
  <2>2. CASE page.shows = StoredNow
    BY <1>6, <1>7, <2>2 DEF Fresh
  <2>3. CASE /\ Leaving
             /\ \/ page.view = "new"
                \/ page.view = "detail" /\ service[page.of].status = "DELETED"
    BY <1>1, <1>6, <2>3 DEF Fresh, Leaving, SameRows
  <2> QED
    BY <2>1, <2>2, <2>3
<1> QED
  BY <1>6, <1>7, <1>9, <1>10, <1>11 DEF Single

LEMMA SendHours ==
    ASSUME WorkShape, Hours, page.view = "availability",
           NEW op \in {"add", "drop"}, NEW of, NEW form, Sends(op, of, form)
    PROVE  Hours'
<1> DEFINE e == [op |-> op, of |-> of, form |-> form, reply |-> None, to |-> "page",
                 passed |-> FALSE]
<1>1. SameRows /\ OneMore(e)
  BY SendsOneMore
<1>2. e.op = op /\ HoursCall(e)
  BY DEF HoursCall
<1> HIDE DEF e
<1>3. PICK n \in DOMAIN sent' :
        /\ n \notin DOMAIN sent /\ DOMAIN sent' = DOMAIN sent \cup {n}
        /\ \A i \in DOMAIN sent : sent'[i] = sent[i]
        /\ sent'[n] = e
  BY <1>1 DEF OneMore
<1>4. /\ page'.view = page.view /\ page'.of = page.of
      /\ page'.shows = page.shows /\ page'.late = page.late
  BY DEF Sends
<1>5. StoredNow' = StoredNow
  BY <1>1, <1>4, TermsSame
<1>6. ~OwnLoad(n)'
  BY <1>2, <1>3 DEF OwnLoad
<1>7. \A i \in DOMAIN sent : /\ OwnLoad(i)' = OwnLoad(i)
                             /\ OwnWrite(i)' = OwnWrite(i)
                             /\ HoursLoad(sent[i])' = HoursLoad(sent[i])
  BY <1>3, <1>5 DEF OwnLoad, OwnWrite, Own, HoursLoad
<1>8. \A i \in DOMAIN sent' : LastLoad(i)' => i \in DOMAIN sent /\ LastLoad(i)
  BY <1>3, <1>6, <1>7 DEF LastLoad
<1>9. \A i \in DOMAIN sent' : Own(i)' => HoursCall(sent'[i])
  BY <1>2, <1>3 DEF Hours, Own
<1>10. HoursFresh'
  <2>1. CASE \E i \in DOMAIN sent : OwnWrite(i) /\ GoodReply(sent[i])
    BY <1>3, <1>7, <2>1 DEF HoursFresh, GoodReply
  <2>2. CASE /\ \A i \in DOMAIN sent : LastLoad(i) => HoursLoad(sent[i])
             /\ (\A i \in DOMAIN sent : ~OwnLoad(i)) => page.late \/ page.shows = StoredNow
    BY <1>3, <1>4, <1>5, <1>7, <1>8, <2>2 DEF HoursFresh
  <2> QED
    BY <2>1, <2>2 DEF Hours, HoursFresh
<1> QED
  BY <1>4, <1>9, <1>10 DEF Hours, HoursCall

(* A quiet user writes a slot when no call of the page is under way. *)
LEMMA SendQuiet ==
    ASSUME WorkShape, Hours, Quiet, page.view = "availability",
           NEW i \in Slots, Workspace!AddSlot(i) \/ Workspace!RemoveSlot(i)
    PROVE  Quiet'
<1> SUFFICES ASSUME ~page'.rushed PROVE Quiet'
  BY DEF Quiet
<1>0. IsPage(page) /\ i # None
  BY WorkspaceAssumption DEF WorkShape
<1>1. ~page.rushed /\ ~page.busy /\ page.removing = None
  BY <1>0, AddSends, RemoveSends DEF Hurries
<1>2. page.state = "ready" /\ ~page.late
  BY <1>1 DEF Quiet, Workspace!AddSlot, Workspace!RemoveSlot, Workspace!Editing
<1>3. \A j \in DOMAIN sent : ~Own(j)
  BY <1>1, <1>2 DEF Quiet, QuietCall, Hours, HoursCall
<1>4. page.shows = StoredNow
  BY <1>2, <1>3 DEF Hours, HoursFresh, OwnLoad, OwnWrite
<1>5. ASSUME NEW op \in {"add", "drop"}, Sends(op, i, None),
             op = "add" => page'.busy = TRUE /\ slots[i] = "unborn",
             op = "drop" => page'.removing = i /\ slots[i] = "stored"
      PROVE  Quiet'
  <2> DEFINE e == [op |-> op, of |-> i, form |-> None, reply |-> None, to |-> "page",
                   passed |-> FALSE]
  <2>1. SameRows /\ OneMore(e)
    BY <1>5, SendsOneMore
  <2>2. e.op = op /\ e.of = i /\ e.reply = None /\ ~e.passed
    OBVIOUS
  <2> HIDE DEF e
  <2>3. PICK n \in DOMAIN sent' :
          /\ DOMAIN sent' = DOMAIN sent \cup {n}
          /\ \A j \in DOMAIN sent : sent'[j] = sent[j]
          /\ sent'[n] = e
    BY <2>1 DEF OneMore
  <2>4. \A j \in DOMAIN sent' : Own(j)' => j = n
    BY <1>3, <2>3 DEF Own
  <2>5. page'.state = "ready" /\ ~page'.late /\ page'.notice = "none"
    BY <1>2, <1>5 DEF Sends
  <2>6. QuietCall(sent[n])'
    BY <1>0, <1>5, <2>1, <2>2, <2>3, <2>5 DEF QuietCall, BadReply, SameRows
  <2> QED
    BY <2>4, <2>5, <2>6 DEF Quiet, OneOwn
<1>6. CASE Workspace!AddSlot(i)
  <2>1. Sends("add", i, None) /\ page'.busy = TRUE
    BY <1>0, <1>6, AddSends
  <2>2. slots[i] = "unborn"
    BY <1>6 DEF Workspace!AddSlot
  <2> QED
    BY <1>5, <2>1, <2>2
<1>7. CASE Workspace!RemoveSlot(i)
  <2>1. Sends("drop", i, None) /\ page'.removing = i
    BY <1>0, <1>7, RemoveSends
  <2>2. slots[i] = "stored"
    BY <1>4, <1>7 DEF Workspace!RemoveSlot, StoredNow, Workspace!Current
  <2> QED
    BY <1>5, <2>1, <2>2
<1> QED
  BY <1>6, <1>7

-----------------------------------------------------------------------------
LEMMA ActsOpen ==
    ASSUME WorkShape, OpenInv, Acts
    PROVE  OpenInv'
<1>0. IsPage(page)
  BY DEF WorkShape
<1>1. ASSUME NEW op, NEW of, NEW form, Sends(op, of, form), page.view # "away",
             Opened => Single' /\ Hours' /\ Quiet'
      PROVE  OpenInv'
  BY <1>1 DEF Sends, OpenInv, AwayInv, Opened
<1>2. ASSUME NEW op, op # "show", NEW of, NEW form, Sends(op, of, form), page'.busy = TRUE,
             page.view \notin {"away", "availability"}, page.state = "ready", ~page.busy,
             Workspace!Fit(op, form) \/ page'.unfit,
             Opened => \A e : e.op = op /\ e.of = of /\ e.form = form => Unserved(e)
      PROVE  OpenInv'
  <2>1. Opened => Single'
    BY <1>2, SendSingle DEF OpenInv, Acts
  <2>2. Hours' /\ Quiet'
    BY <1>2 DEF Sends, Hours, Quiet
  <2> QED
    BY <1>1, <1>2, <2>1, <2>2
<1>3. ASSUME NEW op \in {"publish", "pause", "archive", "delete"}, Workspace!Press(op)
      PROVE  OpenInv'
  <2>1. Sends(op, page.of, None) /\ page'.busy = TRUE
    BY <1>0, <1>3, PressSends
  <2>2. /\ page.view = "detail" /\ page.state = "ready" /\ ~page.busy
        /\ Workspace!Offered(op, page.shows.status)
    BY <1>3 DEF Workspace!Press, Workspace!Ready
  <2>3. \A e : e.op = op /\ e.of = page.of /\ e.form = None => Unserved(e)
    BY <2>2 DEF Unserved
  <2>4. Workspace!Fit(op, None)
    BY DEF Workspace!Fit
  <2> QED
    BY <1>2, <2>1, <2>2, <2>3, <2>4
<1>7. \A x, c : /\ [content |-> x, category |-> c].category = c
                /\ [content |-> x, category |-> c].content = x
                /\ [content |-> x].content = x
  OBVIOUS
<1>4. ASSUME NEW s \in Services, NEW x \in Contents \cup Unfit, NEW c \in Categories,
             Workspace!Save(s, x, c)
      PROVE  OpenInv'
  <2> DEFINE op == IF page.view = "edit" THEN "update" ELSE "create"
             form == [content |-> x, category |-> c]
  <2>1. Sends(op, s, form) /\ page'.busy = TRUE /\ page'.unfit = (x \in Unfit)
    BY <1>0, <1>4, SaveSends
  <2>2. /\ page.view \in {"new", "edit"} /\ page.state = "ready" /\ ~page.busy
        /\ page.view = "edit" => s = page.of
        /\ page.view = "new" => Owner[s] = Me /\ service[s].status = "UNBORN"
        /\ c \in page.offers \/ (page.view = "edit" /\ c = page.shows.category)
    BY <1>4 DEF Workspace!Save, Workspace!Ready, Workspace!Forms, Workspace!Choices
  <2>3. form.category = c /\ form.content = x
    <3> HIDE DEF op
    <3> QED
      BY <1>7
  <2> HIDE DEF form
  <2>6. Workspace!Fit(op, form) \/ page'.unfit
    <3> HIDE DEF op
    <3> QED
      BY <2>1, <2>3 DEF Workspace!Fit
  <2>4. Opened => \A e : e.op = op /\ e.of = s /\ e.form = form => Unserved(e)
    <3>1. Opened => (c \in page.offers => active[c])
      BY <2>2 DEF OpenInv, Single, Available
    <3>2. CASE page.view = "edit"
      BY <2>2, <2>3, <3>1, <3>2 DEF Unserved
    <3>3. CASE page.view = "new"
      BY <2>2, <2>3, <3>1, <3>3 DEF Unserved
    <3> QED
      BY <2>2, <3>2, <3>3
  <2>5. op # "show"
    OBVIOUS
  <2> HIDE DEF op
  <2> QED
    BY <1>2, <2>1, <2>2, <2>4, <2>5, <2>6
<1>5. ASSUME NEW x \in {None} \cup Unfit, Workspace!SubmitDocuments(x)
      PROVE  OpenInv'
  <2> DEFINE form == [content |-> x]
  <2>1. Sends("submit", Me, form) /\ page'.busy = TRUE /\ page'.unfit = (x \in Unfit)
    BY <1>0, <1>5, SubmitSends
  <2>2. /\ page.view = "profile" /\ page.state = "ready" /\ ~page.busy
        /\ page.shows \in {"PENDING", "REJECTED"}
    BY <1>5 DEF Workspace!SubmitDocuments, Workspace!Ready
  <2>3. \A e : e.op = "submit" /\ e.of = Me /\ e.form = form => Unserved(e)
    BY <2>2 DEF Unserved
  <2>4. form.content = x
    BY <1>7
  <2> HIDE DEF form
  <2>5. Workspace!Fit("submit", form) \/ page'.unfit
    BY <2>1, <2>4 DEF Workspace!Fit
  <2> QED
    BY <1>2, <2>1, <2>2, <2>3, <2>5
<1>6. ASSUME NEW i \in Slots, Workspace!AddSlot(i) \/ Workspace!RemoveSlot(i)
      PROVE  OpenInv'
  <2>1. page.view = "availability"
    BY <1>6 DEF Workspace!AddSlot, Workspace!RemoveSlot, Workspace!Editing
  <2>2. PICK op \in {"add", "drop"} : Sends(op, i, None)
    BY <1>0, <1>6, AddSends, RemoveSends
  <2>3. Opened => Hours'
    BY <2>1, <2>2, SendHours DEF OpenInv
  <2>4. Opened => Quiet'
    BY <1>6, <2>1, SendQuiet DEF OpenInv
  <2>5. Single'
    BY <2>1, <2>2 DEF Sends, Single
  <2> QED
    BY <1>1, <2>1, <2>2, <2>3, <2>4, <2>5
<1> QED
  BY <1>3, <1>4, <1>5, <1>6 DEF Acts

-----------------------------------------------------------------------------
(* A call of the page is served. *)
LEMMA AnswersAreNot ==
    /\ Workspace!No # None /\ ~Workspace!No.ok /\ Workspace!No.data = None
    /\ \A x, o : /\ Workspace!Yes(x, o).ok = TRUE /\ Workspace!Yes(x, o).data = x
                 /\ Workspace!Yes(x, o).offers = o
    /\ \A x \in Workspace!Row \cup Workspace!Verification \cup {None} :
         Workspace!Yes(x, {}) # None
<1>1. Workspace!No = [ok |-> FALSE, data |-> None, offers |-> {}]
  BY DEF Workspace!No
<1>2. Workspace!No \in AnswersWith({None})
  BY <1>1 DEF AnswersWith
<1>3. \A x, o : /\ Workspace!Yes(x, o).ok = TRUE /\ Workspace!Yes(x, o).data = x
                /\ Workspace!Yes(x, o).offers = o
  BY DEF Workspace!Yes
<1>4. ASSUME NEW X, NEW x \in X PROVE Workspace!Yes(x, {}) \in AnswersWith(X)
  BY DEF AnswersWith, Workspace!Yes
<1>5. None \notin AnswersWith(Workspace!Row) /\ None \notin AnswersWith(Workspace!Verification)
      /\ None \notin AnswersWith({None})
  BY WorkspaceAssumption
<1>6. ASSUME NEW x \in Workspace!Row \cup Workspace!Verification \cup {None}
      PROVE  Workspace!Yes(x, {}) # None
  <2>1. CASE x \in Workspace!Row
    BY <1>4, <1>5, <2>1
  <2>2. CASE x \in Workspace!Verification
    BY <1>4, <1>5, <2>2
  <2>3. CASE x \in {None}
    BY <1>4, <1>5, <2>3
  <2> QED
    BY <2>1, <2>2, <2>3
<1>7. ~Workspace!No.ok /\ Workspace!No.data = None
  BY <1>1
<1> QED
  BY <1>2, <1>3, <1>5, <1>6, <1>7

(* What a write that is performed does to what its page shows. *)
LEMMA PerformedOne ==
    ASSUME RowsTypeOK, page.view # "availability", Kept, NEW c, c.op # "show", Unserved(c),
           Workspace!Performs(c.op, c.of, c.form), UNCHANGED page
    PROVE  /\ Available' = Available /\ Kept'
           /\ Workspace!Said(c.op, c.of)
                \in Workspace!Row \cup Workspace!Verification \cup {None}
           /\ \A e : e.op = c.op /\ e.of = c.of
                 /\ e.reply.data = Workspace!Said(c.op, c.of) => Served(e)'
<1>1. ASSUME NEW status, NEW s \in Services, Rewritten(s, status)
      PROVE  /\ service'[s] \in Workspace!Row /\ service'[s].status = status
             /\ Available' = Available
  BY <1>1, RewrittenTyped DEF Available
<1>2. CASE page.view = "detail"
  <2>1. /\ c.op \in {"publish", "pause", "archive", "delete"} /\ c.of = page.of
        /\ page.of \in Services /\ Owner[page.of] = Me
    BY <1>2 DEF Unserved, Kept, Workspace!OfOneService
  <2>2. \/ c.op = "publish" /\ Workspace!Life!Publish(page.of)
        \/ c.op = "pause" /\ Workspace!Life!Pause(page.of)
        \/ c.op = "archive" /\ Workspace!Life!Archive(page.of)
        \/ c.op = "delete" /\ Workspace!Life!Delete(page.of)
    BY <2>1 DEF Workspace!Performs
  <2>3. \/ c.op = "publish" /\ Rewritten(page.of, "PUBLISHED")
        \/ c.op = "pause" /\ Rewritten(page.of, "PAUSED")
        \/ c.op = "archive" /\ Rewritten(page.of, "ARCHIVED")
        \/ c.op = "delete" /\ Rewritten(page.of, "DELETED")
    BY <2>2, LifeWrites
  <2>4. StoredNow' = service'[page.of]
    BY <1>2 DEF StoredNow, Workspace!Current, Workspace!OfOneService
  <2>5. c.op # "delete" => Workspace!Said(c.op, c.of) = service'[page.of]
    BY <2>1 DEF Workspace!Said
  <2>6. c.op = "delete" => Workspace!Said(c.op, c.of) = None
    BY <2>1 DEF Workspace!Said
  <2>7. /\ service'[page.of] \in Workspace!Row /\ Available' = Available
        /\ service'[page.of].status \in Workspace!Stored \cup {"DELETED"}
        /\ c.op = "delete" => service'[page.of].status = "DELETED"
    BY <1>1, <2>1, <2>3 DEF Workspace!Stored
  <2>8. Kept'
    BY <1>2, <2>1, <2>7 DEF Kept
  <2>9. \A e : e.op = c.op /\ e.of = c.of
            /\ e.reply.data = Workspace!Said(c.op, c.of) => Served(e)'
    BY <1>2, <2>1, <2>4, <2>5, <2>6, <2>7 DEF Served
  <2> QED
    BY <2>5, <2>6, <2>7, <2>8, <2>9
<1>3. CASE page.view = "edit"
  <2>1. /\ c.op = "update" /\ c.of = page.of /\ page.of \in Services /\ Owner[page.of] = Me
        /\ service[page.of].status \in Workspace!Stored
    BY <1>3 DEF Unserved, Kept, Workspace!OfOneService
  <2>2. Workspace!Life!Edit(page.of)
    BY <2>1 DEF Workspace!Performs
  <2>3. Rewritten(page.of, service[page.of].status)
    BY <2>2, LifeWrites
  <2>4. StoredNow' = service'[page.of]
    BY <1>3 DEF StoredNow, Workspace!Current, Workspace!OfOneService
  <2>5. Workspace!Said(c.op, c.of) = service'[page.of]
    BY <2>1 DEF Workspace!Said
  <2>6. /\ service'[page.of] \in Workspace!Row /\ Available' = Available
        /\ service'[page.of].status \in Workspace!Stored
    BY <1>1, <2>1, <2>3
  <2>7. Kept'
    BY <1>3, <2>1, <2>6 DEF Kept
  <2>8. \A e : e.op = c.op /\ e.of = c.of
            /\ e.reply.data = Workspace!Said(c.op, c.of) => Served(e)'
    BY <1>3, <2>1, <2>4, <2>5 DEF Served
  <2> QED
    BY <2>5, <2>6, <2>7, <2>8
<1>4. CASE page.view = "new"
  <2>1. c.op = "create" /\ c.of \in Services
    BY <1>4 DEF Unserved
  <2>2. Workspace!Life!Create(c.of)
    BY <2>1 DEF Workspace!Performs
  <2>3. Rewritten(c.of, "DRAFT")
    BY <2>2, LifeWrites
  <2>4. Workspace!Said(c.op, c.of) = service'[c.of]
    BY <2>1 DEF Workspace!Said
  <2>5. service'[c.of] \in Workspace!Row /\ Available' = Available
    BY <1>1, <2>1, <2>3
  <2>6. Kept'
    BY <1>4 DEF Kept, Workspace!OfOneService
  <2>7. \A e : e.op = c.op /\ e.of = c.of => Served(e)'
    BY <1>4, <2>1 DEF Served
  <2> QED
    BY <2>4, <2>5, <2>6, <2>7
<1>5. CASE page.view = "profile"
  <2>1. c.op = "submit" /\ c.of = Me
    BY <1>5 DEF Unserved
  <2>2. Workspace!Life!Submit(Me) /\ UNCHANGED slots
    BY <2>1 DEF Workspace!Performs
  <2>3. RowsTypeOK' /\ UNCHANGED <<service, active>>
    BY <2>2, SubmitFacts
  <2>4. provider'[Me].verification \in Workspace!Verification
    BY <2>3, WorkspaceAssumption DEF RowsTypeOK, Workspace!Profile
  <2>5. StoredNow' = provider'[Me].verification
    BY <1>5 DEF StoredNow, Workspace!Current, Workspace!OfOneService
  <2>6. Workspace!Said(c.op, c.of) = provider'[Me].verification
    BY <2>1 DEF Workspace!Said
  <2>7. Available' = Available /\ Kept'
    BY <1>5, <2>3 DEF Available, Kept, Workspace!OfOneService
  <2>8. \A e : e.op = c.op /\ e.of = c.of
            /\ e.reply.data = Workspace!Said(c.op, c.of) => Served(e)'
    BY <1>5, <2>1, <2>5, <2>6 DEF Served
  <2> QED
    BY <2>4, <2>6, <2>7, <2>8
<1> QED
  BY <1>2, <1>3, <1>4, <1>5 DEF Unserved

(* What a page offers is refused for the reasons that are excused. *)
LEMMA RefusedOne ==
    ASSUME RowsTypeOK, Kept, NEW c, c.op # "show", Unserved(c), Suits(c),
           page.shows = StoredNow \/ page.view = "new"
             \/ (page.view = "detail" /\ service[page.of].status = "DELETED"),
           ~Workspace!Accepts(c.op, c.of, c.form)
    PROVE  Workspace!Excused
<1> SUFFICES ASSUME Workspace!Fit(c.op, c.form) PROVE Workspace!Excused
  BY DEF Suits, Workspace!Excused
<1>1. CASE page.view = "detail" /\ service[page.of].status # "DELETED"
  <2>1. /\ c.op \in {"publish", "pause", "archive", "delete"} /\ c.of = page.of
        /\ page.of \in Services /\ Owner[page.of] = Me
        /\ service[page.of].status \in Workspace!Stored
        /\ Workspace!Offered(c.op, page.shows.status)
    BY <1>1 DEF Unserved, Kept, Workspace!OfOneService
  <2>2. page.shows = service[page.of]
    BY <1>1 DEF StoredNow, Workspace!Current, Workspace!OfOneService
  <2>3. c.op = "publish"
    BY <2>1, <2>2 DEF Workspace!Accepts, Workspace!Offered, Workspace!Stored
  <2>4. service[page.of].status \in {"DRAFT", "PAUSED"}
    BY <2>1, <2>2, <2>3 DEF Workspace!Offered
  <2>5. ~(/\ service[page.of].content \in Complete
          /\ provider[Me].verification = "VERIFIED")
    BY <2>1, <2>3, <2>4 DEF Workspace!Accepts
  <2> QED
    BY <1>1, <2>2, <2>5 DEF Workspace!Excused
<1>2. CASE page.view = "detail" /\ service[page.of].status = "DELETED"
  BY <1>2 DEF Workspace!Excused
<1>3. CASE page.view = "edit"
  <2>1. /\ c.op = "update" /\ c.of = page.of
        /\ service[page.of].status \in Workspace!Stored
        /\ active[c.form.category] \/ c.form.category = page.shows.category
    BY <1>3 DEF Unserved, Kept, Workspace!OfOneService
  <2>2. page.shows = service[page.of]
    BY <1>3 DEF StoredNow, Workspace!Current, Workspace!OfOneService
  <2>3. service[page.of].status = "ARCHIVED" \/ ~active[c.form.category]
    BY <2>1 DEF Workspace!Accepts
  <2> QED
    BY <1>3, <2>1, <2>2, <2>3 DEF Workspace!Excused
<1>4. CASE page.view = "new"
  BY <1>4 DEF Unserved, Workspace!Accepts
<1>5. CASE page.view = "profile"
  <2>1. c.op = "submit" /\ c.of = Me /\ page.shows \in {"PENDING", "REJECTED"}
    BY <1>5 DEF Unserved
  <2>2. page.shows = provider[Me].verification
    BY <1>5 DEF StoredNow, Workspace!Current, Workspace!OfOneService
  <2> QED
    BY <2>1, <2>2 DEF Workspace!Accepts
<1> QED
  BY <1>1, <1>2, <1>3, <1>4, <1>5 DEF Unserved

-----------------------------------------------------------------------------
(* A call of the page is served. *)
LEMMA ReplyOwn ==
    ASSUME NEW i \in DOMAIN sent, NEW a, ReplyIs(i, a)
    PROVE  /\ DOMAIN sent' = DOMAIN sent
           /\ \A j \in DOMAIN sent : j # i => sent'[j] = sent[j]
           /\ \A j \in DOMAIN sent : /\ Own(j)' = Own(j)
                                     /\ OwnLoad(j)' = OwnLoad(j)
                                     /\ OwnWrite(j)' = OwnWrite(j)
           /\ OneOwn => OneOwn'
           /\ sent'[i].op = sent[i].op /\ sent'[i].of = sent[i].of
           /\ sent'[i].form = sent[i].form /\ sent'[i].passed = sent[i].passed
           /\ sent'[i].reply = a
<1>1. /\ DOMAIN sent' = DOMAIN sent
      /\ \A j \in DOMAIN sent : j # i => sent'[j] = sent[j]
      /\ sent'[i].op = sent[i].op /\ sent'[i].of = sent[i].of
      /\ sent'[i].form = sent[i].form /\ sent'[i].passed = sent[i].passed
      /\ sent'[i].to = sent[i].to /\ sent'[i].reply = a
  BY DEF ReplyIs
<1>2. \A j \in DOMAIN sent : /\ Own(j)' = Own(j)
                             /\ OwnLoad(j)' = OwnLoad(j)
                             /\ OwnWrite(j)' = OwnWrite(j)
  BY <1>1 DEF Own, OwnLoad, OwnWrite
<1>3. OneOwn => OneOwn'
  BY <1>1, <1>2 DEF OneOwn
<1> QED
  BY <1>1, <1>2, <1>3

LEMMA LoadServedSingle ==
    ASSUME WorkShape, Single, page.view # "availability",
           NEW i \in DOMAIN sent, Own(i), Workspace!ServeLoad(i)
    PROVE  Single'
<1> DEFINE what == sent[i].of
           a == IF Workspace!Found(what.view, what.of)
                THEN Workspace!Yes(Workspace!Current(what.view, what.of),
                                   IF what.view \in Workspace!Forms THEN Available ELSE {})
                ELSE Workspace!No
<1>1. /\ SameRows /\ UNCHANGED <<page, next>>
      /\ sent[i].op = "show" /\ ReplyIs(i, a)
  BY ServeLoadFacts
<1>2. /\ OneOwn /\ LoadOK(sent[i])
  BY <1>1 DEF Single, OwnLoad
<1>3. /\ what.view = page.view /\ what.of = page.of
      /\ sent[i].of = [view |-> page.view, of |-> page.of] /\ sent[i].form = None
      /\ page.state = "loading"
  BY <1>2 DEF LoadOK
<1>4. a.ok => a.data = StoredNow /\ a.offers \subseteq Available /\ Kept
  <2>1. CASE Workspace!Found(page.view, page.of)
    <3>1. a = Workspace!Yes(StoredNow, IF page.view \in Workspace!Forms THEN Available ELSE {})
      BY <1>3, <2>1 DEF StoredNow
    <3>2. Kept
      BY <2>1 DEF Workspace!Found, Kept, Workspace!Mine
    <3> HIDE DEF a
    <3> QED
      BY <3>1, <3>2, AnswersAreNot
  <2>2. CASE ~Workspace!Found(page.view, page.of)
    BY <1>3, <2>2, AnswersAreNot
  <2> QED
    BY <2>1, <2>2
<1> HIDE DEF a
<1>5. StoredNow' = StoredNow /\ Available' = Available /\ Kept' = Kept
  BY <1>1, TermsSame
<1>6. LoadOK(sent[i])'
  BY <1>1, <1>3, <1>4, <1>5, ReplyOwn DEF LoadOK, GoodReply
<1>7. \A j \in DOMAIN sent' : Own(j)' => j = i
  BY <1>1, <1>2, ReplyOwn DEF OneOwn
<1>8. OneOwn' /\ ~OwnWrite(i)'
  BY <1>1, <1>2, ReplyOwn DEF OwnWrite
<1>9. \A j \in DOMAIN sent' : ~OwnWrite(j)' /\ (OwnLoad(j)' => LoadOK(sent[j])')
  BY <1>6, <1>7, <1>8 DEF OwnWrite, OwnLoad
<1>10. page'.state = "loading" /\ page'.notice = "none"
  BY <1>1, <1>3 DEF Single
<1> QED
  BY <1>8, <1>9, <1>10 DEF Single

LEMMA WriteServedSingle ==
    ASSUME WorkShape, Single, page.view # "availability", UNCHANGED nav,
           NEW i \in DOMAIN sent, Own(i), Workspace!ServeWrite(i)
    PROVE  Single'
<1> DEFINE c == sent[i]
           said == Workspace!Said(c.op, c.of)
<1>1. /\ UNCHANGED next /\ c.op # "show" /\ c.reply = None
      /\ \/ /\ Workspace!Performs(c.op, c.of, c.form)
            /\ ReplyIs(i, Workspace!Yes(said, {})) /\ UNCHANGED page
         \/ /\ ~Workspace!Accepts(c.op, c.of, c.form)
            /\ ReplyIs(i, Workspace!No) /\ SameRows /\ UNCHANGED page
  BY ServeWriteFacts DEF Own
<1>2. /\ OneOwn /\ OwnWrite(i) /\ WriteOK(c)
  BY <1>1 DEF Single, OwnWrite
<1>3. /\ page.state = "ready" /\ page.busy /\ page.notice = "none" /\ Unserved(c) /\ Suits(c)
      /\ Kept /\ page.offers \subseteq Available /\ Fresh
  BY <1>1, <1>2 DEF WriteOK, Single
<1>4. UNCHANGED page
  BY <1>1
<1>5. ASSUME NEW a, ReplyIs(i, a), WriteOK(sent[i])',
             Kept', page.offers \subseteq Available', Fresh'
      PROVE  Single'
  <2>1. OneOwn' /\ OwnWrite(i)' /\ DOMAIN sent' = DOMAIN sent
    BY <1>2, <1>5, ReplyOwn
  <2>2. \A j \in DOMAIN sent' : Own(j)' => j = i
    BY <2>1, <1>2 DEF OneOwn, OwnWrite
  <2>3. \A j \in DOMAIN sent' : ~OwnLoad(j)' /\ (OwnWrite(j)' => WriteOK(sent[j])')
    BY <1>5, <2>1, <2>2 DEF OwnWrite, OwnLoad
  <2> QED
    BY <1>3, <1>4, <1>5, <2>1, <2>3 DEF Single
<1>6. CASE /\ Workspace!Performs(c.op, c.of, c.form)
           /\ ReplyIs(i, Workspace!Yes(said, {}))
  <2>1. /\ Available' = Available /\ Kept'
        /\ said \in Workspace!Row \cup Workspace!Verification \cup {None}
        /\ \A e : e.op = c.op /\ e.of = c.of /\ e.reply.data = said => Served(e)'
    BY <1>1, <1>3, <1>4, <1>6, PerformedOne DEF WorkShape
  <2>2. Workspace!Yes(said, {}) # None /\ Workspace!Yes(said, {}).ok = TRUE
        /\ Workspace!Yes(said, {}).data = said
    BY <2>1, AnswersAreNot
  <2> DEFINE a == Workspace!Yes(said, {})
  <2> HIDE DEF a, said
  <2>3. sent'[i].op = c.op /\ sent'[i].of = c.of /\ sent'[i].reply = a
        /\ a # None /\ a.ok = TRUE /\ a.data = said
    BY <1>6, <2>2, ReplyOwn DEF a
  <2>4. Served(sent[i])'
    BY <2>1, <2>3 DEF Served
  <2>5. WriteOK(sent[i])'
    BY <1>3, <1>4, <2>3, <2>4 DEF WriteOK, GoodReply, BadReply
  <2>6. OwnWrite(i)' /\ i \in DOMAIN sent'
    BY <1>2, <1>6, ReplyOwn
  <2>7. Fresh'
    BY <2>3, <2>6 DEF Fresh, GoodReply
  <2> QED
    BY <1>3, <1>5, <1>6, <2>1, <2>5, <2>7
<1>7. CASE /\ ~Workspace!Accepts(c.op, c.of, c.form)
           /\ ReplyIs(i, Workspace!No) /\ SameRows
  <2>1. \/ page.shows = StoredNow
        \/ /\ Leaving
           /\ \/ page.view = "new"
              \/ page.view = "detail" /\ service[page.of].status = "DELETED"
    <3>1. \A j \in DOMAIN sent : ~(OwnWrite(j) /\ GoodReply(sent[j]))
      BY <1>1, <1>2 DEF OneOwn, OwnWrite, GoodReply
    <3> QED
      BY <1>3, <3>1 DEF Fresh
  <2>2. Workspace!Excused
    BY <1>1, <1>3, <1>7, <2>1, RefusedOne DEF WorkShape
  <2>3. /\ Workspace!Excused' /\ StoredNow' = StoredNow
        /\ Available' = Available /\ Kept' = Kept
    BY <1>4, <1>7, <2>2, TermsSame, ExcusedSame
  <2>4. Fresh'
    <3>1. CASE page.shows = StoredNow
      BY <1>4, <2>3, <3>1 DEF Fresh
    <3>2. CASE /\ Leaving
               /\ \/ page.view = "new"
                  \/ page.view = "detail" /\ service[page.of].status = "DELETED"
      BY <1>1, <1>4, <1>7, <3>2 DEF Fresh, Leaving, SameRows
    <3> QED
      BY <2>1, <3>1, <3>2
  <2>5. sent'[i].reply = Workspace!No
    BY <1>7, ReplyOwn
  <2>6. WriteOK(sent[i])'
    BY <1>3, <1>4, <2>3, <2>5, AnswersAreNot DEF WriteOK, GoodReply, BadReply
  <2> QED
    BY <1>3, <1>5, <1>7, <2>3, <2>4, <2>6
<1> QED
  BY <1>1, <1>6, <1>7

(* The list of slots the API answers with. *)
LEMMA HoursServed ==
    ASSUME WorkShape, Hours, page.view = "availability",
           NEW i \in DOMAIN sent, Own(i), Workspace!ServeLoad(i)
    PROVE  \E a : ReplyIs(i, a) /\ a.ok = TRUE /\ a.data = StoredNow
<1> DEFINE what == sent[i].of
           found == Workspace!Found(what.view, what.of)
           a == IF found
                THEN Workspace!Yes(Workspace!Current(what.view, what.of),
                                   IF what.view \in Workspace!Forms THEN Available ELSE {})
                ELSE Workspace!No
<1>1. sent[i].op = "show" /\ ReplyIs(i, a)
  BY ServeLoadFacts
<1>2. what.view = "availability"
  BY <1>1 DEF Hours, HoursCall
<1>3. found
  BY <1>2 DEF Workspace!Found, Workspace!OfOneService
<1>4. Workspace!Current(what.view, what.of) = StoredNow
  BY <1>2 DEF StoredNow, Workspace!Current, Workspace!OfOneService
<1>5. a = Workspace!Yes(StoredNow, IF what.view \in Workspace!Forms THEN Available ELSE {})
  BY <1>3, <1>4
<1> HIDE DEF a
<1> QED
  BY <1>1, <1>5, AnswersAreNot

LEMMA LoadServedHours ==
    ASSUME WorkShape, Hours, page.view = "availability",
           NEW i \in DOMAIN sent, Own(i), Workspace!ServeLoad(i)
    PROVE  Hours' /\ (Quiet => Quiet')
<1>1. SameRows /\ UNCHANGED page /\ sent[i].op = "show"
  BY ServeLoadFacts
<1>2. PICK a : ReplyIs(i, a) /\ a.ok = TRUE /\ a.data = StoredNow
  BY HoursServed
<1>3. StoredNow' = StoredNow
  BY <1>1, TermsSame
<1>4. /\ DOMAIN sent' = DOMAIN sent
      /\ \A j \in DOMAIN sent : j # i => sent'[j] = sent[j]
      /\ \A j \in DOMAIN sent : /\ Own(j)' = Own(j)
                                /\ OwnLoad(j)' = OwnLoad(j)
                                /\ OwnWrite(j)' = OwnWrite(j)
      /\ OneOwn => OneOwn'
      /\ sent'[i].op = "show" /\ sent'[i].of = sent[i].of
      /\ sent'[i].form = sent[i].form /\ sent'[i].passed = sent[i].passed
      /\ sent'[i].reply = a
  BY <1>1, <1>2, ReplyOwn
<1>5. \A j \in DOMAIN sent' : Own(j)' => HoursCall(sent'[j])
  BY <1>1, <1>2, <1>4 DEF Hours, HoursCall
<1>6. \A j \in DOMAIN sent' : LastLoad(j)' => LastLoad(j)
  BY <1>4 DEF LastLoad
<1>7. HoursFresh'
  <2>1. CASE \E j \in DOMAIN sent : OwnWrite(j) /\ GoodReply(sent[j])
    BY <1>1, <1>4, <2>1 DEF HoursFresh, GoodReply, OwnWrite
  <2>2. CASE /\ \A j \in DOMAIN sent : LastLoad(j) => HoursLoad(sent[j])
             /\ (\A j \in DOMAIN sent : ~OwnLoad(j)) => page.late \/ page.shows = StoredNow
    <3>1. ASSUME NEW j \in DOMAIN sent', LastLoad(j)' PROVE HoursLoad(sent[j])'
      BY <1>2, <1>3, <1>4, <1>6, <2>2, <3>1 DEF HoursLoad
    <3> QED
      BY <1>1, <1>3, <1>4, <2>2, <3>1 DEF HoursFresh
  <2> QED
    BY <2>1, <2>2 DEF Hours, HoursFresh
<1>8. Quiet => Quiet'
  <2> SUFFICES ASSUME Quiet, ~page.rushed PROVE Quiet'
    BY <1>1 DEF Quiet
  <2>1. OneOwn /\ \A j \in DOMAIN sent : Own(j) => j = i
    BY DEF Quiet, OneOwn
  <2>2. QuietCall(sent[i])'
    BY <1>1, <1>2, <1>4 DEF Quiet, QuietCall, BadReply
  <2>3. \A j \in DOMAIN sent' : Own(j)' => QuietCall(sent[j])'
    BY <1>4, <2>1, <2>2
  <2> QED
    BY <1>1, <1>4, <2>1, <2>3 DEF Quiet
<1> QED
  BY <1>5, <1>7, <1>8 DEF Hours, HoursCall

LEMMA WriteServedHours ==
    ASSUME WorkShape, Hours, page.view = "availability",
           NEW i \in DOMAIN sent, Own(i), Workspace!ServeWrite(i)
    PROVE  Hours' /\ (Quiet => Quiet')
<1> DEFINE c == sent[i]
           said == Workspace!Said(c.op, c.of)
           yes == Workspace!Yes(said, {})
<1>1. /\ c.op # "show" /\ c.reply = None /\ UNCHANGED page
      /\ \/ ReplyIs(i, yes)
         \/ /\ ~Workspace!Accepts(c.op, c.of, c.form)
            /\ ReplyIs(i, Workspace!No) /\ SameRows
  BY ServeWriteFacts DEF Own
<1>2. c.op \in {"add", "drop"}
  BY <1>1 DEF Hours, HoursCall
<1>3. said = None
  BY <1>2 DEF Workspace!Said
<1>4. yes # None /\ yes.ok = TRUE
  BY <1>3, AnswersAreNot
<1>5. PICK a : ReplyIs(i, a) /\ (a = yes \/ a = Workspace!No)
  BY <1>1
<1>6. /\ DOMAIN sent' = DOMAIN sent
      /\ \A j \in DOMAIN sent : j # i => sent'[j] = sent[j]
      /\ \A j \in DOMAIN sent : /\ Own(j)' = Own(j)
                                /\ OwnLoad(j)' = OwnLoad(j)
                                /\ OwnWrite(j)' = OwnWrite(j)
      /\ OneOwn => OneOwn'
      /\ sent'[i].op = c.op /\ sent'[i].passed = c.passed /\ sent'[i].reply = a
  BY <1>5, ReplyOwn
<1>7. \A j \in DOMAIN sent' : Own(j)' => HoursCall(sent'[j])
  BY <1>2, <1>6 DEF Hours, HoursCall
<1> HIDE DEF yes, said
<1>8. CASE ReplyIs(i, yes)
  <2>1. sent'[i].reply = yes /\ OwnWrite(i)' /\ i \in DOMAIN sent'
    <3>1. sent'[i].reply = yes
      BY <1>8, ReplyOwn
    <3> QED
      BY <1>1, <1>6, <3>1 DEF OwnWrite
  <2>2. HoursFresh'
    BY <1>4, <2>1 DEF HoursFresh, GoodReply
  <2>3. Quiet => Quiet'
    <3> SUFFICES ASSUME Quiet, ~page.rushed PROVE Quiet'
      BY <1>1 DEF Quiet
    <3>1. OneOwn /\ \A j \in DOMAIN sent : Own(j) => j = i
      BY DEF Quiet, OneOwn
    <3>2. QuietCall(sent[i])'
      BY <1>1, <1>2, <1>4, <1>6, <2>1 DEF Quiet, QuietCall, BadReply
    <3>3. \A j \in DOMAIN sent' : Own(j)' => QuietCall(sent[j])'
      BY <1>6, <3>1, <3>2
    <3> QED
      BY <1>1, <1>6, <3>1, <3>3 DEF Quiet
  <2> QED
    BY <1>1, <1>7, <2>2, <2>3 DEF Hours, HoursCall
<1>9. CASE /\ ~Workspace!Accepts(c.op, c.of, c.form)
           /\ ReplyIs(i, Workspace!No) /\ SameRows
  <2>1. StoredNow' = StoredNow
    BY <1>1, <1>9, TermsSame
  <2>2. \A j \in DOMAIN sent' : LastLoad(j)' => LastLoad(j) /\ j # i
    BY <1>1, <1>6 DEF LastLoad, OwnLoad
  <2>3. HoursFresh'
    <3>1. CASE \E j \in DOMAIN sent : OwnWrite(j) /\ GoodReply(sent[j])
      <4>1. PICK j \in DOMAIN sent : OwnWrite(j) /\ GoodReply(sent[j])
        BY <3>1
      <4>2. j # i
        BY <1>1, <4>1 DEF GoodReply
      <4> QED
        BY <1>6, <4>1, <4>2 DEF HoursFresh, GoodReply
    <3>2. CASE /\ \A j \in DOMAIN sent : LastLoad(j) => HoursLoad(sent[j])
               /\ (\A j \in DOMAIN sent : ~OwnLoad(j)) => page.late \/ page.shows = StoredNow
      <4>1. ASSUME NEW j \in DOMAIN sent', LastLoad(j)' PROVE HoursLoad(sent[j])'
        BY <1>6, <2>1, <2>2, <3>2, <4>1 DEF HoursLoad
      <4> QED
        BY <1>1, <1>6, <2>1, <3>2, <4>1 DEF HoursFresh
    <3> QED
      BY <3>1, <3>2 DEF Hours, HoursFresh
  <2>4. Quiet => page.rushed
    <3> SUFFICES ASSUME Quiet, ~page.rushed PROVE FALSE
      OBVIOUS
    <3>1. QuietCall(c)
      BY DEF Quiet
    <3>2. /\ c.op = "add" => slots[c.of] = "unborn"
          /\ c.op = "drop" => slots[c.of] = "stored"
      BY <1>1, <3>1 DEF QuietCall
    <3> QED
      BY <1>2, <1>9, <3>2 DEF Workspace!Accepts, Workspace!Fit
  <2> QED
    BY <1>1, <1>7, <2>3, <2>4 DEF Hours, HoursCall, Quiet
<1> QED
  BY <1>1, <1>8, <1>9

LEMMA ServedOpen ==
    ASSUME WorkShape, OpenInv, NEW i \in DOMAIN sent, IsServed(i)
    PROVE  OpenInv'
<1>1. Own(i) /\ UNCHANGED <<nav, next>> /\ (Workspace!ServeLoad(i) \/ Workspace!ServeWrite(i))
  BY DEF IsServed
<1>2. UNCHANGED page
  BY <1>1, ServeLoadFacts, ServeWriteFacts DEF Own
<1>3. page.view # "away"
  BY <1>1 DEF OpenInv, AwayInv
<1>4. Opened => Single' /\ Hours' /\ Quiet'
  <2> SUFFICES ASSUME Single, Hours, Quiet PROVE Single' /\ Hours' /\ Quiet'
    BY DEF OpenInv
  <2>1. CASE page.view = "availability"
    <3>1. Hours' /\ Quiet'
      BY <1>1, <2>1, LoadServedHours, WriteServedHours
    <3> QED
      BY <1>2, <2>1, <3>1 DEF Single
  <2>2. CASE page.view # "availability"
    <3>1. Single'
      BY <1>1, <2>2, LoadServedSingle, WriteServedSingle
    <3> QED
      BY <1>2, <2>2, <3>1 DEF Hours, Quiet
  <2> QED
    BY <2>1, <2>2
<1> QED
  BY <1>2, <1>3, <1>4 DEF OpenInv, AwayInv, Opened

-----------------------------------------------------------------------------
(* A call of the page is answered. *)
LEMMA LeftCalls ==
    ASSUME NEW i \in DOMAIN sent, NEW t, LeftOf(sent, i, t)
    PROVE  /\ \A j \in DOMAIN t :
                /\ Before(i, j) \in DOMAIN sent \ {i}
                /\ t[j].op = sent[Before(i, j)].op /\ t[j].of = sent[Before(i, j)].of
                /\ t[j].reply = sent[Before(i, j)].reply
                /\ t[j].to = sent[Before(i, j)].to
           /\ \A k \in DOMAIN sent \ {i} : \E j \in DOMAIN t : Before(i, j) = k
           /\ OneOwn /\ Own(i) => \A j \in DOMAIN t : t[j].to # "page"
           /\ (\A j \in DOMAIN sent : Own(j) => HoursCall(sent[j])) =>
                \A j \in DOMAIN t : t[j].to = "page" => HoursCall(t[j])
<1>1. \A j \in DOMAIN t :
        /\ Before(i, j) \in DOMAIN sent \ {i}
        /\ t[j].op = sent[Before(i, j)].op /\ t[j].of = sent[Before(i, j)].of
        /\ t[j].reply = sent[Before(i, j)].reply
        /\ t[j].to = sent[Before(i, j)].to
  BY DEF LeftOf, SameCall
<1>2. OneOwn /\ Own(i) => \A j \in DOMAIN t : t[j].to # "page"
  BY <1>1 DEF OneOwn, Own
<1>3. (\A j \in DOMAIN sent : Own(j) => HoursCall(sent[j])) =>
        \A j \in DOMAIN t : t[j].to = "page" => HoursCall(t[j])
  BY <1>1 DEF Own, HoursCall
<1> QED
  BY <1>1, <1>2, <1>3 DEF LeftOf

(* The pages with one call: nothing is under way then. *)
LEMMA AnsweredSingle ==
    ASSUME WorkShape, SameRows, Single, page.view # "availability", LastAskedIsWorkspace,
           NEW i \in DOMAIN sent, Own(i), sent[i].reply # None,
           Loads(i) \/ LoadsAgain(i) \/ Proceeds(i) \/ Refuses(i)
    PROVE  Single'
<1> DEFINE c == sent[i]
<1>1. OneOwn /\ (c.op = "show" => LoadOK(c)) /\ (c.op # "show" => WriteOK(c))
  BY DEF Single, OwnLoad, OwnWrite
<1>2. ASSUME LeftOf(sent, i, sent'),
             page'.state = "loading" => page'.notice = "none",
             page'.state = "ready" => Kept' /\ page'.offers \subseteq Available' /\ Fresh',
             page'.notice = "refused" => page'.state = "ready" /\ Workspace!Excused'
      PROVE  Single'
  <2>1. \A j \in DOMAIN sent' : ~Own(j)'
    BY <1>1, <1>2, LeftCalls DEF Own
  <2>2. OneOwn' /\ \A j \in DOMAIN sent' : ~OwnLoad(j)' /\ ~OwnWrite(j)'
    BY <2>1 DEF OneOwn, OwnLoad, OwnWrite
  <2> QED
    BY <1>2, <2>2 DEF Single
<1>3. ASSUME page'.view = page.view, page'.of = page.of
      PROVE  StoredNow' = StoredNow /\ Available' = Available /\ Kept' = Kept
  BY <1>3, TermsSame
<1>4. CASE Loads(i)
  <2>1. LoadOK(c) /\ page.state = "loading" /\ page.notice = "none"
    BY <1>1, <1>4 DEF Loads, LoadOK, Single
  <2>2. CASE c.reply.ok
    <3>1. LoadedFrom(page', c) /\ GoodReply(c)
      BY <1>4, <2>2 DEF Loads, GoodReply
    <3>2. c.reply.data = StoredNow /\ c.reply.offers \subseteq Available /\ Kept
      BY <2>1, <3>1 DEF LoadOK
    <3>3. /\ page'.view = page.view /\ page'.of = page.of /\ page'.state = "ready"
          /\ page'.shows = StoredNow /\ page'.offers \subseteq Available
          /\ page'.notice = "none"
      BY <2>1, <3>1, <3>2 DEF LoadedFrom
    <3>4. Kept' /\ page'.offers \subseteq Available' /\ Fresh'
      BY <1>3, <3>2, <3>3 DEF Fresh
    <3> QED
      BY <1>2, <1>4, <3>3, <3>4 DEF Loads
  <2>3. CASE ~c.reply.ok
    <3>1. page'.state = "broken" /\ page'.notice = "none"
      BY <1>4, <2>1, <2>3 DEF Loads, BrokenFrom
    <3> QED
      BY <1>2, <1>4, <3>1 DEF Loads
  <2> QED
    BY <2>2, <2>3
<1>5. CASE LoadsAgain(i)
  BY <1>1, <1>5 DEF LoadsAgain, WriteOK, GoodReply, Served
<1>6. CASE Proceeds(i)
  <2>1. /\ page.state = "ready" /\ page.notice = "none" /\ Served(c)
        /\ Kept /\ page.offers \subseteq Available
    BY <1>1, <1>6 DEF Proceeds, WriteOK, GoodReply, Single
  <2>2. /\ page'.view = page.view /\ page'.of = page.of /\ page'.state = "ready"
        /\ page'.offers = page.offers /\ page'.notice = "none"
        /\ page'.shows = IF c.reply.data # None THEN c.reply.data ELSE page.shows
        /\ LeftOf(sent, i, sent') /\ Workspace!Leads(c)
    BY <1>6, <2>1 DEF Proceeds
  <2>3. StoredNow' = StoredNow /\ Available' = Available /\ Kept' = Kept
    BY <1>3, <2>2
  <2>4. ASSUME page.view \in {"detail", "edit"} PROVE StoredNow # None
    <3>1. page.of \in Services /\ StoredNow = service[page.of]
      BY <2>1, <2>4 DEF Kept, StoredNow, Workspace!Current, Workspace!OfOneService
    <3>2. StoredNow \in Workspace!Row
      BY <3>1 DEF WorkShape, RowsTypeOK
    <3> QED
      BY <3>2, WorkspaceAssumption
  <2>5. ASSUME page.view = "profile" PROVE StoredNow # None
    <3>1. StoredNow = provider[Me].verification
      BY <2>5 DEF StoredNow, Workspace!Current, Workspace!OfOneService
    <3>2. StoredNow \in Workspace!Verification
      BY <3>1, WorkspaceAssumption DEF WorkShape, RowsTypeOK, Workspace!Profile
    <3> QED
      BY <3>2, WorkspaceAssumption
  <2>6. ASSUME page.view \in {"detail", "edit", "profile"}, c.reply.data = StoredNow
        PROVE  Fresh'
    <3>1. page'.shows = StoredNow
      BY <2>2, <2>4, <2>5, <2>6
    <3> QED
      BY <2>3, <3>1 DEF Fresh
  <2>7. ASSUME page.view = "detail", c.op = "delete", service[page.of].status = "DELETED"
        PROVE  Fresh'
    <3>1. Workspace!Goes("list", None)
      BY <2>2, <2>7 DEF Workspace!Leads
    <3>2. next' # None /\ next'.view = "list"
      BY <3>1, NextPages DEF Views
    <3>3. Leaving'
      BY <2>2, <2>7, <3>2 DEF Leaving
    <3>4. service'[page'.of].status = "DELETED" /\ page'.view = "detail"
      BY <2>2, <2>7 DEF SameRows
    <3> QED
      BY <3>3, <3>4 DEF Fresh
  <2>8. ASSUME page.view = "new", c.op = "create", c.of \in Services
        PROVE  Fresh'
    <3>1. Workspace!Goes("detail", c.of)
      BY <2>2, <2>8 DEF Workspace!Leads
    <3>2. next' # None /\ next'.view = "detail"
      BY <2>8, <3>1, NextPages DEF Views
    <3> QED
      BY <2>2, <2>8, <3>2 DEF Leaving, Fresh
  <2>9. Fresh'
    BY <2>1, <2>6, <2>7, <2>8 DEF Served
  <2> QED
    BY <1>2, <2>1, <2>2, <2>3, <2>9
<1>7. CASE Refuses(i)
  <2>1. /\ page.state = "ready" /\ Workspace!Excused
        /\ Kept /\ page.offers \subseteq Available /\ Fresh
    BY <1>1, <1>7 DEF Refuses, WriteOK, BadReply, Single
  <2>2. /\ page'.view = page.view /\ page'.of = page.of /\ page'.state = "ready"
        /\ page'.shows = page.shows /\ page'.offers = page.offers
        /\ page'.unfit = page.unfit
        /\ UNCHANGED <<nav, next>> /\ LeftOf(sent, i, sent')
    BY <1>7, <2>1, SameRouter DEF Refuses
  <2>3. /\ StoredNow' = StoredNow /\ Available' = Available /\ Kept'
        /\ Workspace!Excused'
    BY <1>3, <2>1, <2>2, ExcusedSame
  <2>4. \A j \in DOMAIN sent : ~(OwnWrite(j) /\ GoodReply(sent[j]))
    BY <1>1, <1>7 DEF OneOwn, OwnWrite, GoodReply, Refuses
  <2>5. ASSUME page.shows = StoredNow PROVE Fresh'
    BY <2>2, <2>3, <2>5 DEF Fresh
  <2>6. ASSUME Leaving,
               \/ page.view = "new"
               \/ page.view = "detail" /\ service[page.of].status = "DELETED"
        PROVE  Fresh'
    BY <2>2, <2>6 DEF Fresh, Leaving, SameRows
  <2>7. Fresh'
    BY <2>1, <2>4, <2>5, <2>6 DEF Fresh
  <2> QED
    BY <1>2, <2>1, <2>2, <2>3, <2>7
<1> QED
  BY <1>4, <1>5, <1>6, <1>7

(* The hours. *)
LEMMA WriteStays ==
    ASSUME NEW i \in DOMAIN sent, LeftOf(sent, i, sent'),
           NEW k \in DOMAIN sent \ {i}, OwnWrite(k), GoodReply(sent[k])
    PROVE  \E j \in DOMAIN sent' : OwnWrite(j)' /\ GoodReply(sent'[j])
<1>1. PICK j \in DOMAIN sent' : Before(i, j) = k
  BY LeftCalls
<1>2. sent'[j].op = sent[k].op /\ sent'[j].to = sent[k].to /\ sent'[j].reply = sent[k].reply
  BY <1>1, LeftCalls
<1> QED
  BY <1>2 DEF OwnWrite, Own, GoodReply

LEMMA LoadsHours ==
    ASSUME WorkShape, WorkShape', SameRows, Hours, page.view = "availability",
           NEW i \in DOMAIN sent, Own(i), sent[i].reply # None, Loads(i)
    PROVE  Hours' /\ (Quiet => Quiet')
<1> DEFINE c == sent[i]
<1>1. c.op = "show" /\ LeftOf(sent, i, sent') /\ OwnLoad(i)
  BY DEF Loads, OwnLoad
<1>2. HoursCall(c) /\ c.reply.ok
  BY <1>1 DEF Hours, HoursCall
<1>3. LoadedFrom(page', c)
  BY <1>2 DEF Loads
<1>4. /\ page'.view = "availability" /\ page'.of = page.of
      /\ page'.shows = c.reply.data /\ page'.late = c.passed
      /\ page'.notice = page.notice /\ page'.rushed = page.rushed
      /\ page'.state = IF page.state = "loading" THEN "ready" ELSE page.state
  BY <1>3 DEF LoadedFrom
<1>5. StoredNow' = StoredNow
  BY <1>4, TermsSame
<1>6. DOMAIN sent \subseteq Nat /\ DOMAIN sent' \subseteq Nat
  BY Positions DEF WorkShape, SentOK
<1>7. \A j \in DOMAIN sent' : Own(j)' => HoursCall(sent'[j])
  BY <1>1, LeftCalls DEF Hours, Own
<1>8. HoursFresh'
  <2>1. CASE \E k \in DOMAIN sent : OwnWrite(k) /\ GoodReply(sent[k])
    BY <1>1, <2>1, WriteStays DEF HoursFresh, OwnWrite
  <2>2. CASE \A k \in DOMAIN sent : LastLoad(k) => HoursLoad(sent[k])
    <3>1. ASSUME NEW j \in DOMAIN sent', LastLoad(j)' PROVE HoursLoad(sent[j])'
      <4> DEFINE k == Before(i, j)
      <4>1. /\ k \in DOMAIN sent \ {i}
            /\ sent'[j].op = sent[k].op /\ sent'[j].to = sent[k].to
            /\ sent'[j].reply = sent[k].reply
            /\ sent'[j].passed = IF j < i THEN TRUE ELSE sent[k].passed
        <5>1. sent'[j].passed = IF j < i /\ c.op = "show" THEN TRUE ELSE sent[k].passed
          BY <1>1 DEF LeftOf
        <5> HIDE DEF k
        <5> QED
          BY <1>1, <5>1, LeftCalls DEF k
      <4>2. CASE j < i
        BY <4>1, <4>2 DEF HoursLoad
      <4>3. CASE ~(j < i)
        <5>1. OwnLoad(k)
          BY <3>1, <4>1 DEF LastLoad, OwnLoad, Own
        <5>2. i < k
          BY <1>6, <4>3 DEF Before
        <5>3. ASSUME NEW m \in DOMAIN sent, OwnLoad(m), m # i PROVE m <= k
          <6>1. PICK n \in DOMAIN sent' : Before(i, n) = m
            BY <1>1, <5>3, LeftCalls
          <6>2. sent'[n].op = sent[m].op /\ sent'[n].to = sent[m].to
            BY <1>1, <6>1, LeftCalls
          <6>3. OwnLoad(n)'
            BY <5>3, <6>2 DEF OwnLoad, Own
          <6>4. n <= j
            BY <3>1, <6>3 DEF LastLoad
          <6>5. n \in Nat /\ j \in Nat /\ i \in Nat
            BY <1>6
          <6> QED
            BY <4>3, <6>1, <6>4, <6>5 DEF Before
        <5>4. LastLoad(k)
          BY <1>6, <4>1, <5>1, <5>2, <5>3 DEF LastLoad
        <5>5. HoursLoad(sent[k])
          BY <2>2, <4>1, <5>4
        <5> QED
          BY <1>5, <4>1, <4>3, <5>5 DEF HoursLoad
      <4> QED
        BY <4>2, <4>3
    <3>2. ASSUME \A j \in DOMAIN sent' : ~OwnLoad(j)'
          PROVE  page'.late \/ page'.shows = StoredNow'
      <4>1. ASSUME NEW m \in DOMAIN sent, OwnLoad(m), m # i PROVE FALSE
        <5>1. PICK n \in DOMAIN sent' : Before(i, n) = m
          BY <1>1, <4>1, LeftCalls
        <5>2. sent'[n].op = sent[m].op /\ sent'[n].to = sent[m].to
          BY <1>1, <5>1, LeftCalls
        <5> QED
          BY <3>2, <4>1, <5>2 DEF OwnLoad, Own
      <4>2. LastLoad(i)
        BY <1>1, <1>6, <4>1 DEF LastLoad
      <4>3. c.passed \/ c.reply.data = StoredNow
        BY <2>2, <4>2 DEF HoursLoad
      <4> QED
        BY <1>4, <1>5, <4>3
    <3> QED
      BY <3>1, <3>2 DEF HoursFresh
  <2> QED
    BY <2>1, <2>2 DEF Hours, HoursFresh
<1>9. Quiet => Quiet'
  <2> SUFFICES ASSUME Quiet, ~page.rushed PROVE Quiet'
    BY <1>4 DEF Quiet
  <2>1. OneOwn /\ ~c.passed /\ page.notice # "refused" /\ page.state \in {"loading", "ready"}
    BY DEF Quiet, QuietCall
  <2>2. \A j \in DOMAIN sent' : ~Own(j)'
    BY <1>1, <2>1, LeftCalls DEF Own
  <2>3. page'.state = "ready" /\ ~page'.late /\ page'.notice # "refused"
    BY <1>4, <2>1
  <2> QED
    BY <2>2, <2>3 DEF Quiet, OneOwn
<1> QED
  BY <1>7, <1>8, <1>9 DEF Hours, HoursCall

LEMMA LoadsAgainHours ==
    ASSUME WorkShape, WorkShape', SameRows, Hours, page.view = "availability",
           NEW i \in DOMAIN sent, Own(i), LoadsAgain(i)
    PROVE  Hours' /\ (Quiet => Quiet')
<1> DEFINE c == sent[i]
<1>1. PICK t, n :
        /\ LeftOf(sent, i, t)
        /\ n \notin DOMAIN t /\ DOMAIN sent' = DOMAIN t \cup {n}
        /\ \A j \in DOMAIN t : sent'[j] = t[j] /\ j < n
        /\ sent'[n] = [op |-> "show", of |-> [view |-> "availability", of |-> None],
                       form |-> c.op, reply |-> None, to |-> "page", passed |-> FALSE]
  BY DEF LoadsAgain, Reloads
<1>2. /\ sent'[n].op = "show" /\ sent'[n].of.view = "availability" /\ sent'[n].form = c.op
      /\ sent'[n].reply = None /\ sent'[n].to = "page" /\ ~sent'[n].passed
  BY <1>1
<1>3. /\ page'.view = page.view /\ page'.shows = page.shows
      /\ page'.late = page.late /\ page'.notice = page.notice
      /\ page'.rushed = page.rushed /\ page'.busy = page.busy /\ page'.calm = page.calm
      /\ page'.removing = page.removing /\ page'.state = "ready"
  <2>1. /\ DOMAIN page = {"view", "of", "state", "shows", "offers", "busy", "removing",
                          "notice", "unfit", "calm", "rushed", "late"}
        /\ page'.state = "ready" /\ \A f \in DOMAIN page \ {"state"} : page'[f] = page[f]
    BY DEF LoadsAgain, WorkShape, IsPage
  <2> QED
    BY <2>1
<1>4. DOMAIN sent' \subseteq Nat
  BY Positions DEF WorkShape, SentOK
<1>5. \A j \in DOMAIN sent' : Own(j)' => HoursCall(sent'[j])
  <2>1. HoursCall(sent'[n])
    BY <1>2 DEF HoursCall
  <2>2. \A j \in DOMAIN t : t[j].to = "page" => HoursCall(t[j])
    BY <1>1, LeftCalls DEF Hours
  <2> QED
    BY <1>1, <2>1, <2>2 DEF Own
<1>6. n \in DOMAIN sent' /\ OwnLoad(n)'
  BY <1>1, <1>2 DEF OwnLoad, Own
<1>7. \A j \in DOMAIN sent' : LastLoad(j)' => j = n
  BY <1>1, <1>4, <1>6 DEF LastLoad
<1>8. HoursFresh'
  BY <1>2, <1>6, <1>7 DEF HoursFresh, HoursLoad
<1>9. Quiet => Quiet'
  <2> SUFFICES ASSUME Quiet, ~page.rushed PROVE Quiet'
    BY <1>3 DEF Quiet
  <2>1. /\ OneOwn /\ QuietCall(c) /\ c.op \in {"add", "drop"}
        /\ ~page.late /\ page.notice # "refused"
    BY DEF Quiet, LoadsAgain
  <2>2. \A j \in DOMAIN sent' : Own(j)' => j = n
    BY <1>1, <2>1, LeftCalls DEF Own
  <2>3. \/ c.op = "add" /\ page.busy
        \/ c.op = "drop" /\ page.removing # None
    BY <2>1 DEF QuietCall
  <2>4. QuietCall(sent[n])'
    BY <1>2, <1>3, <2>3 DEF QuietCall, BadReply
  <2> QED
    BY <1>3, <2>1, <2>2, <2>4 DEF Quiet, OneOwn
<1> QED
  BY <1>3, <1>5, <1>8, <1>9 DEF Hours, HoursCall

LEMMA RefusesHours ==
    ASSUME WorkShape, WorkShape', SameRows, Hours, page.view = "availability",
           NEW i \in DOMAIN sent, Own(i), sent[i].reply # None, Refuses(i)
    PROVE  Hours' /\ (Quiet => Quiet')
<1> DEFINE c == sent[i]
<1>1. /\ c.op # "show" /\ ~c.reply.ok /\ LeftOf(sent, i, sent')
      /\ page'.view = page.view /\ page'.of = page.of /\ page'.shows = page.shows
      /\ page'.rushed = page.rushed /\ page'.late = page.late
  BY DEF Refuses
<1>2. StoredNow' = StoredNow
  BY <1>1, TermsSame
<1>3. DOMAIN sent \subseteq Nat /\ DOMAIN sent' \subseteq Nat
  BY Positions DEF WorkShape, SentOK
<1>4. \A j \in DOMAIN sent' : Own(j)' => HoursCall(sent'[j])
  BY <1>1, LeftCalls DEF Hours, Own
<1>5. \A j \in DOMAIN sent' :
        /\ Before(i, j) \in DOMAIN sent
        /\ OwnLoad(j)' = OwnLoad(Before(i, j))
        /\ sent'[j].reply = sent[Before(i, j)].reply
        /\ sent'[j].passed = sent[Before(i, j)].passed
  <2> TAKE j \in DOMAIN sent'
  <2>1. /\ Before(i, j) \in DOMAIN sent
        /\ sent'[j].op = sent[Before(i, j)].op /\ sent'[j].to = sent[Before(i, j)].to
        /\ sent'[j].reply = sent[Before(i, j)].reply
    BY <1>1, LeftCalls
  <2>2. sent'[j].passed = IF j < i /\ c.op = "show" THEN TRUE ELSE sent[Before(i, j)].passed
    BY <1>1 DEF LeftOf
  <2> QED
    BY <1>1, <2>1, <2>2 DEF OwnLoad, Own
<1>6. ASSUME NEW m \in DOMAIN sent, OwnLoad(m)
      PROVE  \E j \in DOMAIN sent' : Before(i, j) = m /\ OwnLoad(j)'
  <2>1. m # i
    BY <1>1, <1>6 DEF OwnLoad
  <2> QED
    BY <1>1, <1>5, <1>6, <2>1, LeftCalls
<1>7. HoursFresh'
  <2>1. CASE \E k \in DOMAIN sent : OwnWrite(k) /\ GoodReply(sent[k])
    BY <1>1, <2>1, WriteStays DEF HoursFresh, GoodReply
  <2>2. CASE /\ \A k \in DOMAIN sent : LastLoad(k) => HoursLoad(sent[k])
             /\ (\A k \in DOMAIN sent : ~OwnLoad(k)) => page.late \/ page.shows = StoredNow
    <3>1. ASSUME NEW j \in DOMAIN sent', LastLoad(j)' PROVE HoursLoad(sent[j])'
      <4>1. OwnLoad(Before(i, j)) /\ Before(i, j) \in DOMAIN sent
        BY <1>5, <3>1 DEF LastLoad
      <4>2. ASSUME NEW m \in DOMAIN sent, OwnLoad(m) PROVE m <= Before(i, j)
        <5>1. PICK n \in DOMAIN sent' : Before(i, n) = m /\ OwnLoad(n)'
          BY <1>6, <4>2
        <5>2. n <= j
          BY <3>1, <5>1 DEF LastLoad
        <5>3. n \in Nat /\ j \in Nat /\ i \in Nat
          BY <1>3
        <5> QED
          BY <5>1, <5>2, <5>3 DEF Before
      <4>3. HoursLoad(sent[Before(i, j)])
        BY <2>2, <4>1, <4>2 DEF LastLoad
      <4> QED
        BY <1>2, <1>5, <4>3 DEF HoursLoad
    <3>2. (\A j \in DOMAIN sent' : ~OwnLoad(j)') => \A k \in DOMAIN sent : ~OwnLoad(k)
      BY <1>6
    <3> QED
      BY <1>1, <1>2, <2>2, <3>1, <3>2 DEF HoursFresh
  <2> QED
    BY <2>1, <2>2 DEF Hours, HoursFresh
<1>8. Quiet => page.rushed
  BY <1>1 DEF Quiet, QuietCall, BadReply
<1> QED
  BY <1>1, <1>4, <1>7, <1>8 DEF Hours, HoursCall, Quiet

LEMMA AnsweredOpen ==
    ASSUME WorkShape, OpenInv, NEW i \in DOMAIN sent, IsAnswered(i)
    PROVE  OpenInv'
<1>1. /\ WorkShape' /\ SameRows /\ sent[i].reply # None
      /\ Own(i) /\ (Loads(i) \/ LoadsAgain(i) \/ Proceeds(i) \/ Refuses(i))
      /\ LastAskedIsWorkspace
  BY AnswerFacts DEF IsAnswered
<1>2. page.view # "away"
  BY <1>1 DEF OpenInv, AwayInv
<1>3. page'.view = page.view /\ page'.calm = page.calm
  <2>1. CASE LoadsAgain(i)
    <3>1. /\ DOMAIN page = {"view", "of", "state", "shows", "offers", "busy", "removing",
                            "notice", "unfit", "calm", "rushed", "late"}
          /\ \A f \in DOMAIN page \ {"state"} : page'[f] = page[f]
      BY <2>1 DEF LoadsAgain, WorkShape, IsPage
    <3> QED
      BY <3>1
  <2> QED
    BY <1>1, <2>1 DEF Loads, Proceeds, Refuses, LoadedFrom, BrokenFrom
<1>4. Opened => Single' /\ Hours' /\ Quiet'
  <2> SUFFICES ASSUME Single, Hours, Quiet PROVE Single' /\ Hours' /\ Quiet'
    BY DEF OpenInv
  <2>1. CASE page.view = "availability"
    <3>1. ~Proceeds(i)
      BY <1>1, <2>1 DEF Proceeds, Hours, HoursCall
    <3>2. Hours' /\ Quiet'
      BY <1>1, <2>1, <3>1, LoadsHours, LoadsAgainHours, RefusesHours
    <3> QED
      BY <1>3, <2>1, <3>2 DEF Single
  <2>2. CASE page.view # "availability"
    <3>1. Single'
      BY <1>1, <2>2, AnsweredSingle
    <3> QED
      BY <1>3, <2>2, <3>1 DEF Hours, Quiet
  <2> QED
    BY <2>1, <2>2
<1> QED
  BY <1>2, <1>3, <1>4 DEF OpenInv, AwayInv, Opened

-----------------------------------------------------------------------------
(* The invariant of the tab with its workspace. *)
WorkInv == PagesInv /\ WorkShape /\ OpenInv

LEMMA WorkInit == WebInit => WorkShape /\ OpenInv
<1> SUFFICES ASSUME Workspace!PagesInit PROVE WorkShape /\ OpenInv
  BY DEF WebInit
<1>1. page = Workspace!Away /\ sent = <<>>
  BY DEF Workspace!PagesInit
<1>2. RowsTypeOK
  <2>1. service \in [Services -> Workspace!Row] /\ active \in [Categories -> BOOLEAN]
    BY DEF Workspace!PagesInit
  <2>2. provider \in [Providers -> Workspace!Profile]
    BY DEF Workspace!PagesInit, Workspace!Profile, Workspace!Verification
  <2>3. slots \in [Slots -> {"unborn", "stored", "deleted"}]
    BY DEF Workspace!PagesInit
  <2> QED
    BY <2>1, <2>2, <2>3 DEF RowsTypeOK
<1>3. IsPage(page) /\ page.view = "away" /\ page.notice = "none"
  BY <1>1, AwayPage
<1>4. IsSequence(sent) /\ DOMAIN sent = {}
  <2>1. sent \in Seq({})
    BY <1>1
  <2>2. IsSequence(sent) /\ DOMAIN sent = 1 .. Len(sent) /\ Len(sent) = 0
    BY <1>1, <2>1, SequenceOf, EmptySeq
  <2> QED
    BY <2>2
<1>5. SentOK
  BY <1>4 DEF SentOK, AreCalls, OwnLast
<1> QED
  BY <1>2, <1>3, <1>4, <1>5 DEF WorkShape, OpenInv, AwayInv, Opened

LEMMA WorkNext ==
    ASSUME WorkInv, [WebNext]_allVars
    PROVE  WorkInv'
<1>1. PagesInv'
  BY PagesInvNext DEF WorkInv
<1>2. WorkShape' /\ StepCase
  BY WorkStep DEF WorkInv, PagesInv
<1>3. WorkShape /\ OpenInv
  BY DEF WorkInv
<1>4. CASE Idles
  BY <1>1, <1>2, <1>3, <1>4, IdleOpen DEF WorkInv
<1>5. CASE Closes
  BY <1>1, <1>2, <1>3, <1>5 DEF WorkInv, OpenInv, Closes
<1>6. CASE Acts
  BY <1>1, <1>2, <1>3, <1>6, ActsOpen DEF WorkInv
<1>7. ASSUME NEW i \in DOMAIN sent, IsServed(i) \/ IsAnswered(i) PROVE WorkInv'
  BY <1>1, <1>2, <1>3, <1>7, ServedOpen, AnsweredOpen DEF WorkInv
<1>8. CASE \E view, of : Mounts(view, of)
  BY <1>1, <1>2, <1>8, MountOpen DEF WorkInv
<1> QED
  BY <1>2, <1>4, <1>5, <1>6, <1>7, <1>8 DEF StepCase

LEMMA WorkInvariant == WebSpec => []WorkInv
<1>1. WebInit => WorkInv
  BY PagesInvInit, WorkInit DEF WorkInv
<1> QED
  BY <1>1, WorkNext, PTL DEF WebSpec

(* The rows of the API keep their types, and the calls of the page that is *)
(* open come after those of the pages that were left, whatever the order   *)
(* in which they are served and answered.                                  *)
THEOREM WorkspaceTypesAndOrder == WebSpec => [](RowsTypeOK /\ OwnLast)
<1>1. WorkInv => RowsTypeOK /\ OwnLast
  BY DEF WorkInv, WorkShape, SentOK
<1> QED
  BY <1>1, WorkInvariant, PTL

(* A page of the workspace that nobody disturbed has one call under way at *)
(* a time, the page of the hours excepted: its load, or the one action its *)
(* busy flag lets through (runAction, the forms).                          *)
THEOREM WorkspaceOneCall == WebSpec => [](Opened /\ page.view # "availability" => OneOwn)
<1>1. WorkInv => (Opened /\ page.view # "availability" => OneOwn)
  BY DEF WorkInv, OpenInv, Single
<1> QED
  BY <1>1, WorkInvariant, PTL

(* A page of the workspace at rest shows what the API stores, unless       *)
(* somebody disturbed it or its list of slots had been overtaken: whatever *)
(* the user did there and wherever he came from, runAction, the forms and  *)
(* the reloads of AvailabilityEditor leave it right.                       *)
THEOREM WorkspaceShowsWhatIsStored == WebSpec => []ShowsWhatIsStored
<1>1. WorkInv => ShowsWhatIsStored
  <2> SUFFICES ASSUME WorkInv, nav = None, Workspace!AtRest, page.state = "ready",
                      page.view # "away", page.calm, ~page.late
               PROVE  page.shows = StoredNow
    BY DEF ShowsWhatIsStored, Workspace!ShowsWhatIsStored, Workspace!Ready, StoredNow
  <2>1. next = None /\ \A i \in DOMAIN sent : ~Own(i)
    BY DEF Workspace!AtRest, Own
  <2>2. Single /\ Hours
    BY DEF WorkInv, OpenInv, Opened
  <2>3. CASE page.view = "availability"
    BY <2>1, <2>2, <2>3 DEF Hours, HoursFresh, OwnLoad, OwnWrite
  <2>4. CASE page.view # "availability"
    BY <2>1, <2>2, <2>4 DEF Single, Fresh, Leaving, OwnWrite
  <2> QED
    BY <2>3, <2>4
<1> QED
  BY <1>1, WorkInvariant, PTL

(* On a page nobody disturbed, what the page offers is refused only for    *)
(* the reasons the page cannot know of or leaves to the API: a value that  *)
(* only the validation of the API finds unfit, incomplete or not verified  *)
(* when it publishes, deleted a moment before, archived, or a retired      *)
(* category; two slots are never refused one after the other.              *)
THEOREM WorkspaceRefusesForAReason == WebSpec => []RefusedForAReason
<1>1. WorkInv => RefusedForAReason
  <2> SUFFICES ASSUME WorkInv, page.notice = "refused", page.calm, ~page.rushed
               PROVE  Workspace!Excused
    BY DEF RefusedForAReason, Workspace!RefusedForAReason
  <2>1. page.view # "away"
    BY DEF WorkInv, OpenInv, AwayInv
  <2>2. Single /\ Quiet
    BY <2>1 DEF WorkInv, OpenInv, Opened
  <2> QED
    BY <2>2 DEF Single, Quiet
<1> QED
  BY <1>1, WorkInvariant, PTL
=============================================================================
