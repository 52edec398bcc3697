--------------------------- MODULE SearchRebuild ---------------------------
(***************************************************************************)
(* SearchSync with a history that tells the rebuilds of the services index *)
(* that nothing disturbed from the others.                                 *)
(***************************************************************************)
EXTENDS SearchSync

(* Since the rows were read for the rebuild, no row has changed and no     *)
(* task has changed the index.                                             *)
VARIABLE undisturbed

Rebuilding == rebuild["services"] # NoRebuild

Remembers ==
    undisturbed' =
        /\ Rebuilding'
        /\ \/ ~Rebuilding
           \/ /\ undisturbed
              /\ UNCHANGED <<service, provider, active>>
              /\ found' = found \/ rebuild' # rebuild

rebuildVars == <<vars, undisturbed>>

RebuildSpec ==
    /\ SearchInit /\ undisturbed = FALSE
    /\ [][SearchNext /\ Remembers]_rebuildVars

(* Whatever a crash, a failed call or an overlap has left in the services  *)
(* index, a rebuild of it by an administrator repairs it, unless a row or  *)
(* the index changes between its read and its end (reindexAll of           *)
(* service-search.indexer.ts, lines 50-66).                                *)
RebuildRepairs ==
    [][undisturbed /\ AddSnapshot("services") =>
         \A s \in Services : found'[s] = Indexed(s)]_rebuildVars
=============================================================================
