--------------------------- MODULE SessionsAlone ---------------------------
(***************************************************************************)
(* Sessions with a history that tells the behaviours in which no two       *)
(* requests have overlapped from the others, and that remembers which      *)
(* reset tokens have changed a password.                                   *)
(***************************************************************************)
EXTENDS Sessions

VARIABLES
    alone,      \* so far no two requests have been under way at a time
    spent,      \* the reset tokens with which a password was changed
    raced       \* requests that had read their reset token as unused before
                \* another request spent it

OneAtATime == \A q, r \in Requests : req[q] # Idle /\ req[r] # Idle => q = r

StaysAlone == alone' = (alone /\ OneAtATime')

Resetting(r) == At(r, "reset", "write")

(* This step changes the password for request r. *)
Spends(r) == Resetting(r) /\ At(r, "reset", "reply")'

RemembersSpent ==
    /\ spent' = spent \cup {req[r].reset : r \in {q \in Requests : Spends(q)}}
    /\ raced' = {r \in Requests :
                    /\ Resetting(r) /\ Resetting(r)'
                    /\ r \in raced \/ req[r].reset \in spent' \ spent}

aloneVars == <<vars, alone, spent, raced>>

AloneInit == Init /\ alone = TRUE /\ spent = {} /\ raced = {}
AloneNext == Next /\ StaysAlone /\ RemembersSpent
AloneSpec == AloneInit /\ [][AloneNext]_aloneVars

(* Until two requests overlap, and whatever call fails and wherever the    *)
(* process stops, a client never holds two valid tokens of one session.    *)
AloneOneTokenPerSession == alone => OneTokenPerSession

(* "Invalid or expired reset token" (auth.service.ts, line 378): a password *)
(* reset token changes a password once, in whatever order requests run,    *)
(* fail and stop.  Only requests that had read it before the first of them *)
(* marked it as used can change the password a second time.                *)
ResetTokenSpentOnceUnlessRaced ==
    \A r \in Requests : Resetting(r) /\ req[r].reset \in spent => r \in raced

(* Until two requests overlap, and whatever fails, the tokens implement    *)
(* the sessions of SessionLife: no session outlives a change of its        *)
(* password.                                                               *)
AloneImplementsSessionLife ==
    /\ Life!Init
    /\ [][alone' => [Life!Next]_(Life!vars)]_aloneVars
=============================================================================
