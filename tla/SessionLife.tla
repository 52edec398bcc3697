---------------------------- MODULE SessionLife ----------------------------
(***************************************************************************)
(* What AuthService promises about sessions.  A session begins when a user *)
(* registers, signs in or switches tenant; refreshing its tokens continues *)
(* it and changes nothing here.  It ends by a logout, when its token       *)
(* expires or when an answer is lost, and once over it is over for good.   *)
(* A password changes only together with the end of every session of its   *)
(* user.                                                                   *)
(***************************************************************************)
CONSTANTS
    Users,
    Passwords,
    SessionIds,
    None

VARIABLES
    password,   \* password[u]: the password of user u, None before u registers
    session     \* session[s]: the user of session s and whether it is open, or None

vars == <<password, session>>

Session == [user : Users, open : BOOLEAN]

Init ==
    /\ password = [u \in Users |-> None]
    /\ session = [s \in SessionIds |-> None]

Register(u) ==
    /\ password[u] = None
    /\ \E w \in Passwords : password' = [password EXCEPT ![u] = w]
    /\ UNCHANGED session

Open(s, u) ==
    /\ password[u] # None
    /\ session[s] = None
    /\ session' = [session EXCEPT ![s] = [user |-> u, open |-> TRUE]]
    /\ UNCHANGED password

Ended(S) ==
    [s \in SessionIds |-> IF s \in S THEN [session[s] EXCEPT !.open = FALSE] ELSE session[s]]

Begun == {s \in SessionIds : session[s] # None}

Close ==
    /\ \E S \in SUBSET Begun : session' = Ended(S)
    /\ UNCHANGED password

Reset(u) ==
    /\ password[u] # None
    /\ \E w \in Passwords : password' = [password EXCEPT ![u] = w]
    /\ session' = Ended({s \in Begun : session[s].user = u})

Next ==
    \/ \E u \in Users : Register(u) \/ Reset(u)
    \/ \E s \in SessionIds, u \in Users : Open(s, u)
    \/ Close

Spec == Init /\ [][Next]_vars
=============================================================================
