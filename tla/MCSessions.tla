---------------------------- MODULE MCSessions ----------------------------
(* Small instances of Sessions for TLC. *)
EXTENDS SessionsAlone, Integers, FiniteSets, TLC

(* Slots, tokens and names are interchangeable. *)
Interchangeable ==
    Permutations(Requests) \cup Permutations(Tokens) \cup Permutations(SessionIds)
    \cup Permutations(Users)

Registered == {u \in Users : password[u] # None}
OneWord == CHOOSE w \in Passwords : TRUE

(* Requests that have overlapped are those of one user, whose password     *)
(* stays the same word.                                                    *)
Within ==
    ~alone => /\ \A r, q \in Requests : req[r].user # None /\ req[q].user # None
                                          => req[r].user = req[q].user
              /\ \A u \in Registered : password[u] = OneWord
              /\ Cardinality(Registered) <= 1

MCNext == AloneNext /\ Within'
MCSpec == AloneInit /\ [][MCNext]_aloneVars
=============================================================================
