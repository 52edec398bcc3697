---------------------------- MODULE SearchPage ----------------------------
(***************************************************************************)
(* A tab on the search pages of the web application: search-page-client,   *)
(* the map, the search bar with its suggestions, and the pages that lead   *)
(* to them.                                                                *)
(*                                                                         *)
(* The URL says what is searched for.  A control computes a new URL from   *)
(* the filters the page holds and asks the router for it; the navigation   *)
(* arrives later, and a newer one replaces one that has not arrived.  On   *)
(* arrival the page takes its filters from the URL and asks the API.       *)
(* Neither that call nor one for suggestions is ever taken back, and calls *)
(* are answered in any order; a page that is left takes no answer.         *)
(***************************************************************************)
EXTENDS SearchQuery, Sequences

CONSTANTS
    Texts,          \* what users type, and labels of suggestions
    Short,          \* those with fewer than two characters
    Categories,     \* the slugs of categories
    Offers,         \* Offers[k]: what the control of filter k offers
    MaxCalls,       \* calls of a page under way at a time (bound)
    MaxPages        \* pages that an answer announces (bound)

(* What the panel of filters and the sort selector set. *)
Filters ==
    {"category", "city", "minPrice", "maxPrice", "minRating", "radius",
     "verifiedOnly", "instantBooking", "sort"}

Parameters == Filters \cup {"q", "page"}

Places == {"home", "search", "map", "category", "other"}

(* SearchParams of search-params.ts. *)
ValuesOf(k) ==
    CASE k \in {"q", "city"}            -> Texts
      [] k = "category"                 -> Categories
      [] k \in {"page", "radius"}       -> Nat
      [] k \in {"minPrice", "maxPrice"} -> Int
      [] k = "minRating"                -> 0 .. 5
      [] k \in Switches                 -> BOOLEAN
      [] OTHER                          -> STRING

Values == Texts \cup Categories \cup Int \cup BOOLEAN \cup STRING

ASSUME TextAssumption == Short \subseteq Texts /\ None \notin Texts \cup Categories
ASSUME OffersAssumption ==
    /\ DOMAIN Offers \subseteq Filters
    /\ \A k \in DOMAIN Offers : Offers[k] \subseteq ValuesOf(k) \cup {None}
ASSUME MaxPagesAssumption == MaxPages \in Nat

(* No query and no page is None. *)
ASSUME NoneAssumption ==
    /\ None \notin Nat
    /\ \A D \in SUBSET Parameters :
         None \notin [D -> Values] /\ None \notin [place : Places, url : [D -> Values]]

VARIABLES
    tab,        \* the page that is shown and the parameters of its URL
    nav,        \* the page that was asked for and has not arrived, or None
    list,       \* the list or the map: its filters, what it shows
    calls,      \* the searches under way, in the order they were sent
    bar,        \* the search bar
    asks,       \* the requests for suggestions under way, in that order
    chosen      \* what the user chose, and whether he waited for the page

vars == <<tab, nav, list, calls, bar, asks, chosen>>

Nothing == [k \in {} |-> None]

Search(t) == [k \in {"q"} |-> t]

InCategory(c) == [k \in {"category"} |-> c]

Long(t) == t \notin Short \cup {None}

(* isLoading, error and response of a page that has just been mounted.     *)
(* pages: the pages that the answer announces, 0 when it has no items.     *)
(* late: the answer that was shown last had been overtaken; crowded: the   *)
(* last search was sent while another was under way.                       *)
Blank(f) == [filters |-> f, loading |-> TRUE, error |-> "none", shown |-> None,
             pages |-> 0, late |-> FALSE, crowded |-> FALSE]

(* listed: the text whose suggestions the bar has, None if it has none.    *)
(* A bar that is mounted with a text asks for suggestions by itself.       *)
Bar(t) == [text |-> t, due |-> Long(t), listed |-> None, open |-> FALSE, late |-> FALSE]

Sent(x) == [what |-> x, passed |-> FALSE]

Overtaken(s) == [i \in DOMAIN s |-> [s[i] EXCEPT !.passed = TRUE]]

(* The i-th is answered: those sent before it have been overtaken. *)
Answered(s, i) == Overtaken(SubSeq(s, 1, i - 1)) \o SubSeq(s, i + 1, Len(s))

-----------------------------------------------------------------------------
(* fetchResults; also load of the map. *)
Fetch(f) ==
    /\ Len(calls) < MaxCalls
    /\ calls' = Append(calls, Sent(f))
    /\ list' = [list EXCEPT !.filters = f, !.loading = TRUE, !.error = "none",
                            !.crowded = calls # <<>>]

(* Mutant of Follow: the page keeps the filters it started with. *)
FollowUrlOnly ==
    /\ nav.place = tab.place /\ nav.url # tab.url
    /\ Len(calls) < MaxCalls
    /\ calls' = Append(calls, Sent(nav.url))
    /\ list' = [list EXCEPT !.loading = TRUE, !.error = "none", !.crowded = calls # <<>>]
    /\ nav' = None
    /\ UNCHANGED <<bar, asks>>

(* The page stays mounted: its effect follows the URL. *)
Follow ==
    /\ nav.place = tab.place /\ nav.url # tab.url
    /\ Fetch(nav.url)
    /\ nav' = None
    /\ UNCHANGED <<bar, asks>>

(* Nothing has changed for the effect. *)
StayPut ==
    /\ nav = tab
    /\ nav' = None
    /\ UNCHANGED <<list, calls, bar, asks>>

(* What a page at this URL starts with. *)
FirstCalls(place, url) == IF place \in {"search", "map"} THEN <<Sent(url)>> ELSE <<>>
FirstText(place, url) == IF place \in {"search", "map"} THEN Value(url, "q", None) ELSE None

(* Another page is mounted; the calls of the one before find nobody.       *)
(* The page of a category replaces itself by a search in that category.    *)
Mount ==
    /\ nav.place # tab.place
    /\ list' = Blank(nav.url)
    /\ calls' = FirstCalls(nav.place, nav.url)
    /\ bar' = Bar(FirstText(nav.place, nav.url))
    /\ asks' = <<>>
    /\ nav' = IF nav.place = "category" THEN [place |-> "search", url |-> nav.url] ELSE None

(* The browser opens the home page or another one, or a list by its URL. *)
Init ==
    /\ \/ \E place \in {"home", "other"} : tab = [place |-> place, url |-> Nothing]
       \/ \E t \in Texts : tab = [place |-> "search", url |-> Search(t)]
    /\ nav = None
    /\ list = Blank(tab.url)
    /\ calls = FirstCalls(tab.place, tab.url)
    /\ bar = Bar(FirstText(tab.place, tab.url))
    /\ asks = <<>>
    /\ chosen = [filters |-> tab.url, waited |-> TRUE]

Arrive ==
    /\ nav # None
    /\ tab' = nav
    /\ Follow \/ StayPut \/ Mount
    /\ UNCHANGED chosen

Goes(place, url) == nav' = [place |-> place, url |-> url]

(* What the URL should say once the navigation has arrived. *)
Wants(f) == chosen' = [filters |-> f, waited |-> TRUE]

(* The header leads to the list, a popular search on the home page too. *)
Link(url) ==
    /\ url = Nothing \/ tab.place = "home"
    /\ Goes("search", url) /\ Wants(url)
    /\ UNCHANGED <<tab, list, calls, bar, asks>>

(* A category on the home page. *)
Browse(c) ==
    /\ tab.place = "home"
    /\ Goes("category", InCategory(c)) /\ Wants(InCategory(c))
    /\ UNCHANGED <<tab, list, calls, bar, asks>>

Leave(place) ==
    /\ Goes(place, Nothing) /\ Wants(Nothing)
    /\ UNCHANGED <<tab, list, calls, bar, asks>>

-----------------------------------------------------------------------------
HasControls == tab.place \in {"search", "category"}

(* Mutant of Updated: the page number of the list before is kept. *)
UpdatedInPlace(f, k, v) == With(f, k, v)

(* updateFilters: the first page of what is now asked for. *)
Updated(f, k, v) ==
    IF k = "page" THEN With(f, k, v) ELSE With(With(f, k, v), "page", 1)

(* The user waits for the page, or chooses again before it has arrived. *)
Chooses(f) ==
    chosen' = [filters |-> f, waited |-> chosen.waited /\ nav = None]

Change(k, v) ==
    /\ HasControls
    /\ v # Value(list.filters, k, None)
    /\ Goes("search", Serialize(Updated(list.filters, k, v)))
    /\ Chooses(Serialize(With(With(chosen.filters, "page", 1), k, v)))
    /\ UNCHANGED <<tab, list, calls, bar, asks>>

(* The badges of ActiveFilters. *)
Remove(k) ==
    /\ HasControls
    /\ Sets(list.filters, k) /\ k \notin {"q", "page", "sort"}
    /\ Goes("search", Serialize(With(Without(list.filters, k), "page", 1)))
    /\ Chooses(With(Without(chosen.filters, k), "page", 1))
    /\ UNCHANGED <<tab, list, calls, bar, asks>>

(* The list is on the screen, not its skeleton and not an error. *)
Lists == ~list.loading /\ list.error = "none" /\ list.shown # None

(* Beside the badges, or where nothing was found. *)
ClearAll ==
    /\ HasControls
    /\ \/ DOMAIN list.filters \ {"q", "page", "sort"} # {}
       \/ Lists /\ list.pages = 0
    /\ LET url == Serialize(With(Nothing, "q", Value(list.filters, "q", None))) IN
         /\ Goes("search", url)
         /\ Chooses(url)
    /\ UNCHANGED <<tab, list, calls, bar, asks>>

(* SearchPagination, Previous and Next included. *)
GoToPage(p) ==
    /\ HasControls /\ Lists
    /\ list.pages > 1 /\ p \in 1 .. list.pages
    /\ Goes("search", Serialize(Updated(list.filters, "page", p)))
    /\ Chooses(With(chosen.filters, "page", p))
    /\ UNCHANGED <<tab, list, calls, bar, asks>>

(* MapListToggle keeps the query string; that of a category's page is      *)
(* empty, and the page is about to replace itself.                         *)
ToggleMap ==
    /\ \/ /\ tab.place \in {"search", "map"}
          /\ Goes(IF tab.place = "map" THEN "search" ELSE "map", tab.url)
          /\ Chooses(chosen.filters)
       \/ /\ tab.place = "category"
          /\ Goes("map", Nothing)
          /\ chosen' = [chosen EXCEPT !.waited = FALSE]
    /\ UNCHANGED <<tab, list, calls, bar, asks>>

Retry ==
    /\ tab.place \in {"search", "map"}
    /\ ~list.loading /\ list.error # "none"
    /\ Fetch(list.filters)
    /\ UNCHANGED <<tab, nav, bar, asks, chosen>>

(* The total is an estimate, of an index that others change: an answer may *)
(* announce any number of pages that covers the items it brings; without   *)
(* an estimate it counts these alone.                                      *)
Announced(f) == {0, 1} \cup OnPage(f) .. MaxPages

(* Mutant of Answer: an error leaves the results of the search before. *)
AnswerKeepingResults(i) ==
    /\ i \in DOMAIN calls
    /\ \E error \in {"none", "refused", "failed"}, n \in Announced(calls[i].what) :
         /\ error = "none" => Admitted(calls[i].what)
         /\ error = "refused" => ~Admitted(calls[i].what)
         /\ list' = [list EXCEPT
                !.loading = FALSE,
                !.error = IF error = "none" THEN @ ELSE error,
                !.shown = IF error = "none" THEN calls[i].what ELSE @,
                !.pages = IF error = "none" THEN n ELSE @,
                !.late = calls[i].passed]
    /\ calls' = Answered(calls, i)
    /\ UNCHANGED <<tab, nav, bar, asks, chosen>>

(* The API answers, refuses the query, or is not reached. *)
Answer(i) ==
    /\ i \in DOMAIN calls
    /\ \E error \in {"none", "refused", "failed"}, n \in Announced(calls[i].what) :
         /\ error = "none" => Admitted(calls[i].what)
         /\ error = "refused" => ~Admitted(calls[i].what)
         /\ list' = [list EXCEPT
                !.loading = FALSE,
                !.error = IF error = "none" THEN @ ELSE error,
                !.shown = IF error = "none" THEN calls[i].what ELSE None,
                !.pages = IF error = "none" THEN n ELSE 0,
                !.late = calls[i].passed]
    /\ calls' = Answered(calls, i)
    /\ UNCHANGED <<tab, nav, bar, asks, chosen>>

-----------------------------------------------------------------------------
(* Mutant of Write: typing leaves the timer as it is. *)
WriteOnce(t) ==
    IF Long(t)
    THEN bar' = [bar EXCEPT !.text = t, !.due = @ \/ ~Long(bar.text)] /\ UNCHANGED asks
    ELSE /\ bar' = [bar EXCEPT !.text = t, !.due = FALSE, !.listed = None]
         /\ asks' = Overtaken(asks)

(* setQuery and the effect that follows: the timer is cleared and, unless  *)
(* the text is too short to be asked for, set again.                       *)
Write(t) ==
    IF Long(t)
    THEN bar' = [bar EXCEPT !.text = t, !.due = TRUE] /\ UNCHANGED asks
    ELSE /\ bar' = [bar EXCEPT !.text = t, !.due = FALSE, !.listed = None]
         /\ asks' = Overtaken(asks)

HasBar == tab.place \in {"home", "search", "map", "category"}

Type(t) ==
    /\ HasBar
    /\ t # bar.text
    /\ Write(t)
    /\ UNCHANGED <<tab, nav, list, calls, chosen>>

(* The 300 ms are over. *)
TimerFires ==
    /\ bar.due
    /\ Len(asks) < MaxCalls
    /\ bar' = [bar EXCEPT !.due = FALSE]
    /\ asks' = Append(asks, Sent(bar.text))
    /\ UNCHANGED <<tab, nav, list, calls, chosen>>

(* The suggestions open whatever the user has done in the meantime; an     *)
(* error or a refusal empties them.                                        *)
Suggest(i) ==
    /\ i \in DOMAIN asks
    /\ \/ /\ asks[i].what \notin TooLong["autocomplete"]
          /\ bar' = [bar EXCEPT !.listed = asks[i].what, !.open = TRUE, !.late = asks[i].passed]
       \/ bar' = [bar EXCEPT !.listed = None]
    /\ asks' = Answered(asks, i)
    /\ UNCHANGED <<tab, nav, list, calls, chosen>>

Focus ==
    /\ HasBar
    /\ ~bar.open /\ bar.listed # None
    /\ bar' = [bar EXCEPT !.open = TRUE]
    /\ UNCHANGED <<tab, nav, list, calls, asks, chosen>>

(* A click elsewhere, or Escape. *)
Close ==
    /\ bar.open
    /\ bar' = [bar EXCEPT !.open = FALSE]
    /\ UNCHANGED <<tab, nav, list, calls, asks, chosen>>

(* handleSubmit without a suggestion. *)
Submit ==
    /\ HasBar
    /\ bar.text # None
    /\ Goes("search", Search(bar.text)) /\ Wants(Search(bar.text))
    /\ bar' = [bar EXCEPT !.open = FALSE]
    /\ UNCHANGED <<tab, list, calls, asks>>

(* handleSuggestionSelect: a category, a service or a provider ... *)
SelectPage ==
    /\ HasBar /\ bar.open /\ bar.listed # None
    /\ \/ \E c \in Categories : Goes("category", InCategory(c)) /\ Wants(InCategory(c))
       \/ Goes("other", Nothing) /\ Wants(Nothing)
    /\ bar' = [bar EXCEPT !.open = FALSE]
    /\ UNCHANGED <<tab, list, calls, asks>>

(* ... or a tag, which is written into the bar and searched for. *)
SelectTag(t) ==
    /\ HasBar /\ bar.open /\ bar.listed # None
    /\ Goes("search", Search(t)) /\ Wants(Search(t))
    /\ bar' = [bar EXCEPT !.open = FALSE, !.text = t,
                          !.due = IF t = bar.text THEN @ ELSE Long(t),
                          !.listed = IF t = bar.text \/ Long(t) THEN @ ELSE None]
    /\ asks' = IF t = bar.text \/ Long(t) THEN asks ELSE Overtaken(asks)
    /\ UNCHANGED <<tab, list, calls>>

-----------------------------------------------------------------------------
UserStep ==
    \/ \E url \in {Nothing} \cup {Search(t) : t \in Texts} : Link(url)
    \/ \E c \in Categories : Browse(c)
    \/ \E place \in {"home", "other"} : Leave(place)
    \/ \E k \in DOMAIN Offers : (\E v \in Offers[k] : Change(k, v)) \/ Remove(k)
    \/ \E p \in 1 .. MaxPages : GoToPage(p)
    \/ ClearAll \/ ToggleMap \/ Retry
    \/ \E t \in Texts \cup {None} : Type(t)
    \/ \E t \in Texts : SelectTag(t)
    \/ Focus \/ Close \/ Submit \/ SelectPage

MachineStep == TimerFires \/ \E i \in 1 .. MaxCalls : Answer(i) \/ Suggest(i)

Next == UserStep \/ MachineStep \/ Arrive

Spec == Init /\ [][Next]_vars

-----------------------------------------------------------------------------
Results == tab.place \in {"search", "map"}

(* When no search is under way, the page shows what its URL asks for or an *)
(* error, unless the last answer had been overtaken; and it shows an error *)
(* only instead of results, unless two searches were under way together    *)
(* ("setError(null)" comes with the question, not with the answer).        *)
ShownIsAsked ==
    Results /\ calls = <<>> =>
        /\ ~list.loading
        /\ ~list.late => list.shown = tab.url \/ list.error # "none"
        /\ ~list.crowded => (list.shown = None <=> list.error # "none")

(* A bar at rest suggests what fits its text, unless the answer had been   *)
(* overtaken by a later one or by shortening the text.                     *)
SuggestedIsTyped ==
    bar.open /\ bar.listed # None /\ ~bar.due /\ asks = <<>> /\ ~bar.late =>
        bar.listed = bar.text

(* Once it has arrived, the URL says everything the user chose and did not *)
(* take back, provided that he waited for each page before he went on      *)
(* ("const newFilters = { ...filters, ...updates }" are those of the page  *)
(* that is still shown).                                                   *)
ChosenIsKept ==
    Results /\ nav = None /\ chosen.waited => tab.url = chosen.filters

(* The user of a page never gets an answer to a filter by distance or a    *)
(* sort by distance, for no control sets the place; and nothing else is    *)
(* refused but what the inputs do not keep him from entering, a negative   *)
(* price and a text that is too long.                                      *)
Unanswerable(f) ==
    \/ Sets(f, "radius") \/ Value(f, "sort", "relevance") = "distance"
    \/ Value(f, "minPrice", 0) < 0 \/ Value(f, "maxPrice", 0) < 0
    \/ ~Fits(f, "q") \/ ~Fits(f, "category") \/ ~Fits(f, "city")

SearchRefusedForAReason ==
    /\ list.shown # None => ~Unanswerable(list.shown)
    /\ list.error = "refused" /\ ~list.crowded => Unanswerable(tab.url)
=============================================================================
