------------------------------ MODULE WebPages ------------------------------
(***************************************************************************)
(* One tab of the web application: the search pages and the workspace of a *)
(* provider under the one router of the tab.                               *)
(*                                                                         *)
(* The last page that was asked for wins, whoever asked.  A form or a      *)
(* deletion of the workspace asks when the API has answered, wherever the  *)
(* user is by then: it takes him from the list he has gone to, and drops   *)
(* the choice he has just made there.  The workspace is one of the pages   *)
(* that are an "other" page to SearchPage.                                 *)
(***************************************************************************)
EXTENDS SearchPage

CONSTANTS
    Services, Providers, Contents, Complete, Unfit, Dates, Owner, Me, Slots, MaxSent

VARIABLES service, provider, active, slots, page, next, sent

Workspace == INSTANCE ProviderPages

Views == {"list", "new", "detail", "edit", "availability", "profile"}

AnswersWith(Data) == [ok : BOOLEAN, data : Data, offers : SUBSET Categories]

(* No slot, row, status, page or answer of the workspace is None. *)
ASSUME WorkspaceAssumption ==
    /\ Me \in Providers /\ Owner \in [Services -> Providers]
    /\ Unfit \cap Contents = {} /\ None \notin Unfit
    /\ None \notin Slots \cup Workspace!Verification \cup Workspace!Row
    /\ None \notin [view : Views, of : Services \cup {None}]
    /\ None \notin AnswersWith(Workspace!Row) \cup AnswersWith(SUBSET Slots)
    /\ None \notin AnswersWith(Workspace!Verification) \cup AnswersWith({None})
    /\ \A S \in SUBSET Services : None \notin AnswersWith([S -> Workspace!Row])

workspaceVars == <<service, provider, active, slots, page, next, sent>>

allVars == <<vars, workspaceVars>>

InWorkspace == page.view # "away"

WebInit ==
    /\ Init /\ Workspace!PagesInit
    /\ next # None => tab.place = "other"

(* The workspace is left: its calls go on without it. *)
LeaveWorkspace ==
    /\ page' = Workspace!Away
    /\ sent' = Workspace!Abandoned(sent)

(* What was asked for on a search page replaces what the workspace asked.  *)
LastAskedIsSearch == next' = IF nav' \notin {nav, None} THEN None ELSE next

SearchUse ==
    /\ UserStep
    /\ LastAskedIsSearch
    /\ UNCHANGED <<service, provider, active, slots, page, sent>>

SearchMachine == MachineStep /\ UNCHANGED workspaceVars

SearchArrive ==
    /\ Arrive
    /\ IF InWorkspace THEN LeaveWorkspace ELSE UNCHANGED <<page, sent>>
    /\ LastAskedIsSearch
    /\ UNCHANGED <<service, provider, active, slots>>

(* And the other way round; chosen records that a choice was dropped. *)
LastAskedIsWorkspace ==
    IF next' \notin {next, None}
    THEN /\ nav' = None
         /\ chosen' = [chosen EXCEPT !.waited = @ /\ nav = None]
         /\ UNCHANGED <<tab, list, calls, bar, asks>>
    ELSE UNCHANGED vars

WorkspaceUse ==
    /\ tab.place = "other"
    /\ Workspace!Uses \/ Workspace!Enter
    /\ LastAskedIsWorkspace

Others == Workspace!Others /\ UNCHANGED vars

WorkspaceMachine ==
    /\ \E i \in 1 .. MaxSent : i \in DOMAIN sent /\ Workspace!Responds(i)
    /\ LastAskedIsWorkspace

(* A page of the workspace takes the place of a search page. *)
WorkspaceArrive ==
    /\ Workspace!Arrive
    /\ IF tab.place = "other" THEN UNCHANGED vars
       ELSE /\ tab' = [place |-> "other", url |-> Nothing]
            /\ list' = Blank(Nothing) /\ calls' = <<>>
            /\ bar' = Bar(None) /\ asks' = <<>>
            /\ chosen' = [filters |-> Nothing, waited |-> TRUE]
            /\ UNCHANGED nav

User == SearchUse \/ WorkspaceUse \/ Others

Machine == SearchMachine \/ SearchArrive \/ WorkspaceMachine \/ WorkspaceArrive

WebNext == User \/ Machine

WebSpec == WebInit /\ [][WebNext]_allVars

-----------------------------------------------------------------------------
(* As in ProviderPages, once the tab has no page to go to. *)
ShowsWhatIsStored == nav = None => Workspace!ShowsWhatIsStored

RefusedForAReason == Workspace!RefusedForAReason
=============================================================================
