---------------------------- MODULE PagesApart ----------------------------
(* WebPages with a history of its searches. *)
EXTENDS WebPages

VARIABLES
    apart,      \* no two searches of a page have been under way together
    told        \* the pages that answers have announced, and of what

(* What an answer that is shown announces; a first page needs no telling. *)
Tells(l) == IF l.shown = None THEN {} ELSE {Question(l.shown)} \X (2 .. l.pages)

Remembers ==
    /\ apart' = (apart /\ Len(calls') <= 1)
    /\ told' = told \cup Tells(list')

apartVars == <<allVars, apart, told>>

ApartInit == WebInit /\ apart = TRUE /\ told = {}

ApartSpec == ApartInit /\ [][WebNext /\ Remembers]_apartVars

-----------------------------------------------------------------------------
(* Until two searches have been under way together, a further page is      *)
(* asked for only if an answer to that very question has announced it:     *)
(* every choice but that of a page starts over at the first page, and the  *)
(* page number goes into the filters of the question whose list is shown.  *)
ApartAskedPageAnnounced ==
    apart => \A i \in DOMAIN calls : OnPage(calls[i].what) > 1 =>
                 <<Question(calls[i].what), OnPage(calls[i].what)>> \in told
=============================================================================
