----------------------------- MODULE Sessions -----------------------------
(***************************************************************************)
(* Accounts, refresh tokens and password resets: AuthService, TokenService *)
(* and the token that TenancyQueryService.switchTenant issues.             *)
(*                                                                         *)
(* Each handler is a series of database calls without a transaction around *)
(* them (resetPassword's last write is the exception), so every call is a  *)
(* step and the requests in the slots of Requests interleave:              *)
(*                                                                         *)
(*   register  idle --> write --> issue --> reply --> idle                 *)
(*   login, switch  idle --> issue --> reply --> idle                      *)
(*   refresh   idle --> issue --> revoke --> reply --> idle                *)
(*   forgot    idle --> write --> reply --> idle                           *)
(*   reset     idle --> write --> reply --> idle                           *)
(*   logout    idle --> reply --> idle                                     *)
(*                                                                         *)
(* Only the hash of a token is stored, so a client can present a token     *)
(* when it has received it in an answer: held and sent are what clients    *)
(* know.  A session is the chain of refresh tokens that begins when a user *)
(* signs in; the program keeps no name for it, token[t].session is one.    *)
(***************************************************************************)
CONSTANTS
    Users,
    Passwords,
    Tokens,      \* refresh tokens (bound)
    SessionIds,  \* names of sessions (bound)
    Resets,      \* password reset tokens (bound)
    Requests,    \* request slots: how many requests run at a time (bound)
    Ops,         \* the operations clients call (bound)
    Faults,      \* what may go wrong: a subset of {"crash", "error"}
    None

AllOps == {"register", "login", "switch", "refresh", "logout", "forgot", "reset"}

VARIABLES
    password,   \* password[u]: the passwordHash of user u, None before u registers
    token,      \* token[t]: the row of refresh token t, or None
    reset,      \* reset[k]: the row of password reset token k, or None
    held,       \* the refresh tokens that clients have received
    sent,       \* the password reset tokens that users have received
    req         \* req[r]: the request in slot r

vars == <<password, token, reset, held, sent, req>>

RefreshToken ==
    [user : Users, session : SessionIds, expired : BOOLEAN, revoked : BOOLEAN,
     next : Tokens \cup {None}]

PasswordResetToken == [user : Users, expired : BOOLEAN, used : BOOLEAN]

ASSUME SessionAssumption ==
    /\ Ops \subseteq AllOps
    /\ Faults \subseteq {"crash", "error"}
    /\ None \notin Users \cup Passwords \cup Tokens \cup SessionIds \cup Resets
    /\ None \notin RefreshToken \cup PasswordResetToken \cup [user : Users, open : BOOLEAN]

(***************************************************************************)
(* user is whom the request is about, with the token or the reset it       *)
(* presented or created; new is the refresh token it has issued.           *)
(***************************************************************************)
Idle == [pc |-> "idle", op |-> None, user |-> None, token |-> None, reset |-> None, new |-> None]

Request ==
    {Idle}
    \cup [pc : {"write"}, op : {"register", "forgot"}, user : Users, token : {None},
          reset : {None}, new : {None}]
    \cup [pc : {"write"}, op : {"reset"}, user : Users, token : {None},
          reset : Resets, new : {None}]
    \cup [pc : {"issue"}, op : {"register", "login", "switch"}, user : Users, token : {None},
          reset : {None}, new : {None}]
    \cup [pc : {"issue"}, op : {"refresh"}, user : Users, token : Tokens,
          reset : {None}, new : {None}]
    \cup [pc : {"revoke"}, op : {"refresh"}, user : Users, token : Tokens,
          reset : {None}, new : Tokens]
    \cup [pc : {"reply"}, op : {"forgot"}, user : Users, token : {None},
          reset : Resets, new : {None}]
    \cup [pc : {"reply"}, op : AllOps \ {"forgot"}, user : Users, token : Tokens \cup {None},
          reset : Resets \cup {None}, new : Tokens \cup {None}]

TypeOK ==
    /\ password \in [Users -> Passwords \cup {None}]
    /\ token \in [Tokens -> RefreshToken \cup {None}]
    /\ reset \in [Resets -> PasswordResetToken \cup {None}]
    /\ held \subseteq Tokens
    /\ sent \subseteq Resets
    /\ req \in [Requests -> Request]

Init ==
    /\ password = [u \in Users |-> None]
    /\ token = [t \in Tokens |-> None]
    /\ reset = [k \in Resets |-> None]
    /\ held = {}
    /\ sent = {}
    /\ req = [r \in Requests |-> Idle]

(* revokedAt: null and expiresAt in the future *)
Live(t) == token[t] # None /\ ~token[t].revoked /\ ~token[t].expired

Valid(k) == reset[k] # None /\ ~reset[k].used /\ ~reset[k].expired

(***************************************************************************)
(* The first read of each handler.  A request that its read refuses leaves *)
(* no trace.                                                               *)
(***************************************************************************)
Accept(r, op, pc, u) ==
    /\ op \in Ops
    /\ req[r] = Idle
    /\ req' = [req EXCEPT ![r] = [Idle EXCEPT !.pc = pc, !.op = op, !.user = u]]
    /\ UNCHANGED <<password, token, reset, held, sent>>

ReadForRegister(r, u) ==
    /\ password[u] = None
    /\ Accept(r, "register", "write", u)

(* The client knows the password, or has an access token. *)
ReadForSession(r, op, u) ==
    /\ op \in {"login", "switch"}
    /\ password[u] # None
    /\ op = "switch" => \E t \in held : token[t].user = u
    /\ Accept(r, op, "issue", u)

ReadForForgot(r, u) ==
    /\ password[u] # None
    /\ Accept(r, "forgot", "write", u)

Present(r, op, pc, u, t, k) ==
    /\ op \in Ops
    /\ req[r] = Idle
    /\ req' = [req EXCEPT ![r] = [Idle EXCEPT !.pc = pc, !.op = op, !.user = u,
                                              !.token = t, !.reset = k]]
    /\ UNCHANGED <<password, token, reset, held, sent>>

(* Mutant of ReadForRefresh: findFirst without revokedAt: null. *)
ReadForRefreshAny(r, t) ==
    /\ t \in held
    /\ token[t] # None /\ ~token[t].expired
    /\ Present(r, "refresh", "issue", token[t].user, t, None)

ReadForRefresh(r, t) ==
    /\ t \in held
    /\ Live(t)
    /\ Present(r, "refresh", "issue", token[t].user, t, None)

ReadForReset(r, k) ==
    /\ k \in sent
    /\ Valid(k)
    /\ Present(r, "reset", "write", reset[k].user, None, k)

(***************************************************************************)
(* The writes.                                                             *)
(***************************************************************************)
At(r, op, pc) == req[r].op = op /\ req[r].pc = pc

(* The address is unique: of two registrations one fails. *)
WriteUser(r) ==
    /\ At(r, "register", "write")
    /\ password[req[r].user] = None
    /\ \E w \in Passwords : password' = [password EXCEPT ![req[r].user] = w]
    /\ req' = [req EXCEPT ![r].pc = "issue"]
    /\ UNCHANGED <<token, reset, held, sent>>

RefuseUser(r) ==
    /\ At(r, "register", "write")
    /\ password[req[r].user] # None
    /\ req' = [req EXCEPT ![r] = Idle]
    /\ UNCHANGED <<password, token, reset, held, sent>>

Unnamed == {s \in SessionIds : \A t \in Tokens : token[t] # None => token[t].session # s}

(* issueTokenPair: a refresh continues the session of the token it was given. *)
IssueToken(r) ==
    /\ req[r].pc = "issue"
    /\ \E t \in Tokens, s \in SessionIds :
         /\ token[t] = None
         /\ IF req[r].op = "refresh" THEN s = token[req[r].token].session ELSE s \in Unnamed
         /\ token' = [token EXCEPT ![t] = [user |-> req[r].user, session |-> s,
                                           expired |-> FALSE, revoked |-> FALSE, next |-> None]]
         /\ req' = [req EXCEPT ![r].new = t,
                               ![r].pc = IF req[r].op = "refresh" THEN "revoke" ELSE "reply"]
    /\ UNCHANGED <<password, reset, held, sent>>

(* Mutant of RevokeOld: the old token is linked to the new one and stays valid. *)
RevokeOldNot(r) ==
    /\ req[r].pc = "revoke"
    /\ token' = [token EXCEPT ![req[r].token].next = req[r].new]
    /\ req' = [req EXCEPT ![r].pc = "reply"]
    /\ UNCHANGED <<password, reset, held, sent>>

(* The end of rotateRefreshToken: the old row is updated by its id. *)
RevokeOld(r) ==
    /\ req[r].pc = "revoke"
    /\ token' = [token EXCEPT ![req[r].token].revoked = TRUE,
                              ![req[r].token].next = req[r].new]
    /\ req' = [req EXCEPT ![r].pc = "reply"]
    /\ UNCHANGED <<password, reset, held, sent>>

(* revokeRefreshToken: one updateMany. *)
Logout(r, t) ==
    /\ "logout" \in Ops
    /\ req[r] = Idle
    /\ t \in held
    /\ token' = [token EXCEPT ![t].revoked = TRUE]
    /\ req' = [req EXCEPT ![r] = [Idle EXCEPT !.pc = "reply", !.op = "logout",
                                              !.user = token[t].user, !.token = t]]
    /\ UNCHANGED <<password, reset, held, sent>>

WriteReset(r) ==
    /\ At(r, "forgot", "write")
    /\ \E k \in Resets :
         /\ reset[k] = None
         /\ reset' = [reset EXCEPT ![k] = [user |-> req[r].user, expired |-> FALSE,
                                           used |-> FALSE]]
         /\ req' = [req EXCEPT ![r].pc = "reply", ![r].reset = k]
    /\ UNCHANGED <<password, token, held, sent>>

Revoked(u) ==
    [t \in Tokens |-> IF token[t] # None /\ token[t].user = u
                      THEN [token[t] EXCEPT !.revoked = TRUE] ELSE token[t]]

(* Mutant of WritePassword: the sessions are left as they are. *)
WritePasswordAlone(r) ==
    /\ At(r, "reset", "write")
    /\ \E w \in Passwords : password' = [password EXCEPT ![req[r].user] = w]
    /\ reset' = [reset EXCEPT ![req[r].reset].used = TRUE]
    /\ req' = [req EXCEPT ![r].pc = "reply"]
    /\ UNCHANGED <<token, held, sent>>

(* Mutant of WritePassword: the reset token is not marked as used. *)
WritePasswordUnmarked(r) ==
    /\ At(r, "reset", "write")
    /\ \E w \in Passwords : password' = [password EXCEPT ![req[r].user] = w]
    /\ token' = Revoked(req[r].user)
    /\ req' = [req EXCEPT ![r].pc = "reply"]
    /\ UNCHANGED <<reset, held, sent>>

(* resetPassword's transaction: the password, the reset token, the sessions. *)
WritePassword(r) ==
    /\ At(r, "reset", "write")
    /\ \E w \in Passwords : password' = [password EXCEPT ![req[r].user] = w]
    /\ reset' = [reset EXCEPT ![req[r].reset].used = TRUE]
    /\ token' = Revoked(req[r].user)
    /\ req' = [req EXCEPT ![r].pc = "reply"]
    /\ UNCHANGED <<held, sent>>

(* The audit row and the answer, which hands over what was issued. *)
Reply(r) ==
    /\ req[r].pc = "reply"
    /\ held' = held \cup ({req[r].new} \ {None})
    /\ sent' = IF req[r].op = "forgot" THEN sent \cup {req[r].reset} ELSE sent
    /\ req' = [req EXCEPT ![r] = Idle]
    /\ UNCHANGED <<password, token, reset>>

(***************************************************************************)
(* A database call fails, the answer is lost, or refresh finds the account *)
(* disabled after it has rotated the token: the handler throws and what it *)
(* has written stays written.                                              *)
(***************************************************************************)
Fails(r) ==
    /\ "error" \in Faults
    /\ req[r] # Idle
    /\ req' = [req EXCEPT ![r] = Idle]
    /\ UNCHANGED <<password, token, reset, held, sent>>

Crash ==
    /\ "crash" \in Faults
    /\ req' = [r \in Requests |-> Idle]
    /\ UNCHANGED <<password, token, reset, held, sent>>

(***************************************************************************)
(* Time passes.  Only a handler's first read looks at expiresAt, so a token *)
(* that expires while it is being rotated is taken to expire afterwards.   *)
(***************************************************************************)
ExpireToken(t) ==
    /\ Live(t)
    /\ \A r \in Requests : req[r].pc = "issue" => req[r].token # t
    /\ token' = [token EXCEPT ![t].expired = TRUE]
    /\ UNCHANGED <<password, reset, held, sent, req>>

ExpireReset(k) ==
    /\ Valid(k)
    /\ reset' = [reset EXCEPT ![k].expired = TRUE]
    /\ UNCHANGED <<password, token, held, sent, req>>

Read(r) ==
    \/ \E u \in Users :
         \/ ReadForRegister(r, u) \/ ReadForForgot(r, u)
         \/ \E op \in {"login", "switch"} : ReadForSession(r, op, u)
    \/ \E t \in Tokens : ReadForRefresh(r, t)
    \/ \E k \in Resets : ReadForReset(r, k)

Write(r) ==
    \/ WriteUser(r) \/ RefuseUser(r) \/ IssueToken(r) \/ RevokeOld(r)
    \/ WriteReset(r) \/ WritePassword(r) \/ \E t \in Tokens : Logout(r, t)

Next ==
    \/ \E r \in Requests : Read(r) \/ Write(r) \/ Reply(r) \/ Fails(r)
    \/ Crash
    \/ \E t \in Tokens : ExpireToken(t)
    \/ \E k \in Resets : ExpireReset(k)

Spec == Init /\ [][Next]_vars

-----------------------------------------------------------------------------
(* The tokens with which session s can be continued: valid, and known to a *)
(* client or about to be.                                                  *)
Usable(s) ==
    {t \in Tokens : /\ Live(t) /\ token[t].session = s
                    /\ t \in held \/ \E r \in Requests : req[r].new = t}

Refreshing(s) ==
    \E r \in Requests : req[r].pc = "issue" /\ req[r].op = "refresh"
                        /\ token[req[r].token].session = s

Began(s) == s \notin Unnamed

Over(s) == Began(s) /\ Usable(s) = {} /\ ~Refreshing(s)

(* A session that is over stays over: once its last token was revoked by a *)
(* logout or a reset, was replaced or expired, and no refresh that had read *)
(* it before is still on its way (lines 128-151 of token.service.ts), no   *)
(* order of requests, failures and crashes brings the session back, nor is *)
(* a refresh accepted for it.                                              *)
OverIsOver ==
    [][\A s \in SessionIds : Over(s) => Over(s)']_vars

(* "Rotate refresh token" (auth.controller.ts, line 75): a refresh hands   *)
(* over the new token only after the old one was revoked, so a client never *)
(* has two tokens for one session.                                         *)
OneTokenPerSession ==
    \A t1, t2 \in held :
        Live(t1) /\ Live(t2) /\ token[t1].session = token[t2].session => t1 = t2

(* One request at a time, and whatever fails: sessions as SessionLife has  *)
(* them.  In particular no session outlives a change of its password.      *)
UserOf(s) ==
    CHOOSE u \in Users :
        \E t \in Tokens : token[t] # None /\ token[t].session = s /\ token[t].user = u

SessionOf(s) ==
    IF s \in Unnamed THEN None ELSE [user |-> UserOf(s), open |-> Usable(s) # {}]

Life == INSTANCE SessionLife WITH session <- [s \in SessionIds |-> SessionOf(s)]
ImplementsSessionLife == Life!Spec
=============================================================================
