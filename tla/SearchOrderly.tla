--------------------------- MODULE SearchOrderly ---------------------------
(***************************************************************************)
(* SearchSync with a history that tells the behaviours in which every      *)
(* change has been carried to the indexes before the next one from the     *)
(* others.                                                                 *)
(***************************************************************************)
EXTENDS SearchRebuild

(* So far one slot at a time has been busy, with its request or with the   *)
(* task of its event, nothing has failed or been rebuilt, and nobody has   *)
(* submitted a provider for verification: that changes the documents of    *)
(* the provider's services and emits nothing (QuietVerificationCurrent).   *)
VARIABLE orderly

Busy(r) == req[r] # Idle \/ bus[r] # None \/ task[r] # NoTask
OneBusy == \A q, r \in Requests : Busy(q) /\ Busy(r) => q = r

CarriesOn ==
    \E r \in Requests :
        \/ /\ RequestStep(r)
           /\ req[r].pc = "notify" => Notify(r)
           /\ req'[r].op # "submit"
        \/ StartTask(r)
        \/ TaskStep(r)

StaysOrderly == orderly' = (orderly /\ CarriesOn /\ OneBusy')

orderlyVars == <<vars, orderly>>

OrderlyInit == SearchInit /\ orderly = TRUE
OrderlySpec == OrderlyInit /\ [][SearchNext /\ StaysOrderly]_orderlyVars

(***************************************************************************)
(* A request that has been accepted goes on (the database answers), its    *)
(* event reaches the listener (the Node event loop runs every callback)    *)
(* and the listener's calls are answered.  Clients and administrators need *)
(* not do anything.  Nothing is claimed of other behaviours.               *)
(***************************************************************************)
Answered(r) == RequestStep(r) /\ req[r] # Idle

OrderlyFairness ==
    \A r \in Requests :
        /\ WF_vars(orderly /\ Answered(r))
        /\ WF_vars(orderly /\ StartTask(r))
        /\ WF_vars(orderly /\ TaskStep(r))

(* As long as every change is carried to the index before the next one is  *)
(* made, the services index is exact whenever nothing is going on: each    *)
(* operation that changes a document or whether it belongs there emits the *)
(* event that repairs it.                                                  *)
OrderlyIndexExact == orderly => QuietIndexExact

(* Under the same condition a difference between the index and the rows    *)
(* does not last: a search stops finding a withdrawn service, and starts   *)
(* to find a new one.                                                      *)
OrderlyIndexCatchesUp ==
    \A s \in Services :
        orderly /\ found[s] # Indexed(s) ~> ~orderly \/ found[s] = Indexed(s)
=============================================================================
