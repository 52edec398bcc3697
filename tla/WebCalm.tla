------------------------------ MODULE WebCalm ------------------------------
(***************************************************************************)
(* What the web application's tabs show as long as nothing goes wrong.     *)
(* calm is a history of the steps taken: no page has been reloaded, and no *)
(* request and no call of the cookie's route has failed so far.            *)
(***************************************************************************)
EXTENDS WebTabs

VARIABLE calm

calmVars == <<vars, calm>>

CalmInit == WebInit /\ calm = TRUE

CalmNext ==
    \/ CalmStep /\ UNCHANGED calm
    \/ Disturbance /\ calm' = FALSE

CalmSpec == CalmInit /\ [][CalmNext]_calmVars

(* A tab at rest shows the tenant in which its requests act, as long as    *)
(* nothing was reloaded and nothing failed.                                *)
CalmShownIsActedIn == calm => ShownIsActedIn

(* So long, too, the cookie is set exactly if the tab has a session.       *)
CalmGateFollowsSession == calm => GateFollowsSession

(* So long, too, and users waiting for what they asked for, each owns one  *)
(* business tenant at most.                                                *)
CalmOneOwnedBusiness == calm => OneOwnedBusiness
=============================================================================
