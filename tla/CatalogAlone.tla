--------------------------- MODULE CatalogAlone ---------------------------
(***************************************************************************)
(* ServiceCatalog with a history that tells the behaviours in which no two *)
(* requests have overlapped from the others.                               *)
(***************************************************************************)
EXTENDS ServiceCatalog

(* So far no two requests have been under way at a time. *)
VARIABLE alone

OneAtATime == \A q, r \in Requests : req[q] # Idle /\ req[r] # Idle => q = r

StaysAlone == alone' = (alone /\ OneAtATime')

aloneVars == <<catalogVars, alone>>

AloneInit == Init /\ alone = TRUE
AloneSpec == AloneInit /\ [][Next /\ StaysAlone]_aloneVars

(* Until two requests overlap, the handlers deliver the life cycle of      *)
(* ServiceLifecycle: failed audits and crashes included, every write is a  *)
(* step the life cycle allows of the rows as they then are.                *)
AloneImplementsLifecycle ==
    /\ Lifecycle!Init
    /\ [][alone' => [Lifecycle!Next]_(Lifecycle!vars)]_aloneVars
=============================================================================
