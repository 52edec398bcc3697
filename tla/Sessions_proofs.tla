-------------------------- MODULE Sessions_proofs --------------------------
(***************************************************************************)
(* Proofs about Sessions, for any number of users, tokens, resets and      *)
(* concurrent requests.                                                    *)
(***************************************************************************)
EXTENDS SessionsAlone, TLAPS

(***************************************************************************)
(* How the rows and the requests refer to each other.  Requests hold ids   *)
(* that were read or created, tokens and resets are never deleted, and the *)
(* tokens of a session are those of one user.                              *)
(***************************************************************************)
KnownRows ==
    /\ \A t \in held : token[t] # None
    /\ \A k \in sent : reset[k] # None
    /\ \A t \in Tokens : token[t] # None => password[token[t].user] # None
    /\ \A k \in Resets : reset[k] # None => password[reset[k].user] # None

RequestLinked(r) ==
    /\ req[r].token # None => /\ token[req[r].token] # None
                              /\ token[req[r].token].user = req[r].user
    /\ req[r].new # None => token[req[r].new] # None
    /\ req[r].reset # None => /\ reset[req[r].reset] # None
                              /\ reset[req[r].reset].user = req[r].user
    /\ req[r] # Idle /\ ~At(r, "register", "write") => password[req[r].user] # None

RequestRows == \A r \in Requests : RequestLinked(r)

OneUser ==
    \A t1, t2 \in Tokens :
        token[t1] # None /\ token[t2] # None /\ token[t1].session = token[t2].session
        => token[t1].user = token[t2].user

Linked == KnownRows /\ RequestRows /\ OneUser

IInv == TypeOK /\ Linked

(***************************************************************************)
(* Types, action by action.                                                *)
(***************************************************************************)
LEMMA InitInv == Init => IInv
BY SessionAssumption DEF Init, IInv, TypeOK, Linked, KnownRows, RequestRows, RequestLinked, OneUser, Idle, Request

LEMMA ReadTyped ==
    ASSUME IInv, NEW r \in Requests, Read(r)
    PROVE  TypeOK'
<1>1. ASSUME NEW u \in Users, ReadForRegister(r, u)
      PROVE  TypeOK'
  <2>1. [Idle EXCEPT !.pc = "write", !.op = "register", !.user = u] \in Request
    BY DEF Request, Idle
  <2> QED
    BY <1>1, <2>1 DEF IInv, TypeOK, ReadForRegister, Accept
<1>2. ASSUME NEW u \in Users, NEW op \in {"login", "switch"}, ReadForSession(r, op, u)
      PROVE  TypeOK'
  BY <1>2 DEF IInv, TypeOK, ReadForSession, Accept, Request, Idle
<1>3. ASSUME NEW u \in Users, ReadForForgot(r, u)
      PROVE  TypeOK'
  BY <1>3 DEF IInv, TypeOK, ReadForForgot, Accept, Request, Idle
<1>4. ASSUME NEW t \in Tokens, ReadForRefresh(r, t)
      PROVE  TypeOK'
  <2>1. token[t].user \in Users
    BY <1>4 DEF IInv, TypeOK, ReadForRefresh, Live, RefreshToken
  <2> QED
    BY <1>4, <2>1 DEF IInv, TypeOK, ReadForRefresh, Present, Request, Idle
<1>5. ASSUME NEW k \in Resets, ReadForReset(r, k)
      PROVE  TypeOK'
  <2>1. reset[k].user \in Users
    BY <1>5 DEF IInv, TypeOK, ReadForReset, Valid, PasswordResetToken
  <2> QED
    BY <1>5, <2>1 DEF IInv, TypeOK, ReadForReset, Present, Request, Idle
<1> QED
  BY <1>1, <1>2, <1>3, <1>4, <1>5 DEF Read

LEMMA RevokedRow ==
    ASSUME NEW row \in RefreshToken
    PROVE  /\ [row EXCEPT !.revoked = TRUE] \in RefreshToken
           /\ [row EXCEPT !.revoked = TRUE].user = row.user
           /\ [row EXCEPT !.revoked = TRUE].session = row.session
           /\ [row EXCEPT !.revoked = TRUE].revoked
BY DEF RefreshToken

LEMMA RowTyped ==
    ASSUME TypeOK
    PROVE  /\ \A t \in Tokens : token[t] # None => token[t] \in RefreshToken
           /\ \A k \in Resets : reset[k] # None => reset[k] \in PasswordResetToken
BY DEF TypeOK

(* What a running request holds. *)
LEMMA RequestTyped ==
    ASSUME TypeOK, NEW r \in Requests, req[r] # Idle
    PROVE  /\ req[r].user \in Users
           /\ req[r].pc = "issue" /\ req[r].op # "refresh" => req[r].token = None
           /\ req[r].pc = "issue" /\ req[r].op = "refresh" => req[r].token \in Tokens
           /\ req[r].pc = "issue" => req[r].reset = None /\ req[r].new = None
           /\ req[r].pc = "revoke" => req[r].token \in Tokens /\ req[r].new \in Tokens
           /\ req[r].pc = "revoke" => req[r].op = "refresh" /\ req[r].reset = None
           /\ req[r].pc = "write" => req[r].token = None /\ req[r].new = None
           /\ At(r, "reset", "write") => req[r].reset \in Resets
           /\ At(r, "register", "write") \/ At(r, "forgot", "write") => req[r].reset = None
           /\ req[r].op = "forgot" /\ req[r].pc = "reply" => req[r].reset \in Resets
           /\ req[r].new \in Tokens \cup {None}
           /\ req[r].op \in AllOps
BY SessionAssumption DEF TypeOK, Request, Idle, At, AllOps

LEMMA WriteTyped ==
    ASSUME IInv, NEW r \in Requests, Write(r)
    PROVE  TypeOK'
<1> USE SessionAssumption
<1>1. ASSUME WriteUser(r) PROVE TypeOK'
  BY <1>1, RequestTyped DEF IInv, TypeOK, WriteUser, At, Request, Idle
<1>2. ASSUME RefuseUser(r) PROVE TypeOK'
  BY <1>2 DEF IInv, TypeOK, RefuseUser, At, Request, Idle
<1>3. ASSUME IssueToken(r) PROVE TypeOK'
  <2>1. PICK t \in Tokens, s \in SessionIds :
          /\ token' = [token EXCEPT ![t] = [user |-> req[r].user, session |-> s,
                                           expired |-> FALSE, revoked |-> FALSE, next |-> None]]
          /\ req' = [req EXCEPT ![r].new = t,
                               ![r].pc = IF req[r].op = "refresh" THEN "revoke" ELSE "reply"]
    BY <1>3 DEF IssueToken
  <2>2. req[r] # Idle
    BY <1>3 DEF IssueToken, Idle
  <2>3. token' \in [Tokens -> RefreshToken \cup {None}]
    BY <2>1, <2>2, RequestTyped DEF IInv, TypeOK, RefreshToken
  <2>4. [req[r] EXCEPT !.new = t, !.pc = IF req[r].op = "refresh" THEN "revoke" ELSE "reply"]
        \in Request
    BY <1>3, <2>2 DEF IInv, TypeOK, IssueToken, Request, Idle, AllOps
  <2>5. req' \in [Requests -> Request]
    BY <2>1, <2>4 DEF IInv, TypeOK
  <2> QED
    BY <1>3, <2>3, <2>5 DEF IInv, TypeOK, IssueToken
<1>4. ASSUME RevokeOld(r) PROVE TypeOK'
  <2>1. req[r] # Idle /\ req[r].token \in Tokens /\ req[r].new \in Tokens
    BY <1>4, RequestTyped DEF IInv, RevokeOld, Idle
  <2>2. token[req[r].token] \in RefreshToken
    BY <2>1 DEF IInv, TypeOK, Linked, RequestRows, RequestLinked
  <2>3. [token[req[r].token] EXCEPT !.revoked = TRUE, !.next = req[r].new] \in RefreshToken
    BY <2>1, <2>2 DEF RefreshToken
  <2>4. token' \in [Tokens -> RefreshToken \cup {None}]
    BY <1>4, <2>1, <2>2, <2>3 DEF IInv, TypeOK, RevokeOld
  <2>5. [req[r] EXCEPT !.pc = "reply"] \in Request
    BY <1>4, <2>1 DEF IInv, TypeOK, RevokeOld, Request, Idle, AllOps
  <2> QED
    BY <1>4, <2>4, <2>5 DEF IInv, TypeOK, RevokeOld
<1>5. ASSUME WriteReset(r) PROVE TypeOK'
  <2>1. PICK k \in Resets :
          /\ reset' = [reset EXCEPT ![k] = [user |-> req[r].user, expired |-> FALSE,
                                           used |-> FALSE]]
          /\ req' = [req EXCEPT ![r].pc = "reply", ![r].reset = k]
    BY <1>5 DEF WriteReset
  <2>2. req[r] # Idle /\ req[r].user \in Users
    BY <1>5, RequestTyped DEF IInv, WriteReset, At, Idle
  <2>3. [req[r] EXCEPT !.pc = "reply", !.reset = k] \in Request
    BY <1>5, <2>2 DEF IInv, TypeOK, WriteReset, At, Request, Idle, AllOps
  <2>4. reset' \in [Resets -> PasswordResetToken \cup {None}]
    BY <2>1, <2>2 DEF IInv, TypeOK, PasswordResetToken
  <2> QED
    BY <1>5, <2>1, <2>3, <2>4 DEF IInv, TypeOK, WriteReset
<1>6. ASSUME WritePassword(r) PROVE TypeOK'
  <2>1. req[r] # Idle /\ req[r].user \in Users /\ req[r].reset \in Resets
    BY <1>6, RequestTyped DEF IInv, WritePassword, At, Idle
  <2>2. reset[req[r].reset] \in PasswordResetToken
    BY <2>1 DEF IInv, TypeOK, Linked, RequestRows, RequestLinked
  <2>3. reset' \in [Resets -> PasswordResetToken \cup {None}]
    <3>1. [reset[req[r].reset] EXCEPT !.used = TRUE] \in PasswordResetToken
      BY <2>2 DEF PasswordResetToken
    <3> QED
      BY <1>6, <2>1, <3>1 DEF IInv, TypeOK, WritePassword
  <2>4. token' \in [Tokens -> RefreshToken \cup {None}]
    <3>1. \A t \in Tokens : token[t] # None =>
            [token[t] EXCEPT !.revoked = TRUE] \in RefreshToken
      BY RowTyped, RevokedRow DEF IInv
    <3> QED
      BY <1>6, <3>1 DEF IInv, TypeOK, WritePassword, Revoked
  <2>5. [req[r] EXCEPT !.pc = "reply"] \in Request
    BY <1>6, <2>1 DEF IInv, TypeOK, WritePassword, At, Request, Idle, AllOps
  <2>6. password' \in [Users -> Passwords \cup {None}]
    BY <1>6, <2>1 DEF IInv, TypeOK, WritePassword
  <2> QED
    BY <1>6, <2>3, <2>4, <2>5, <2>6 DEF IInv, TypeOK, WritePassword
<1>7. ASSUME NEW t \in Tokens, Logout(r, t) PROVE TypeOK'
  <2>1. token[t] \in RefreshToken
    BY <1>7 DEF IInv, TypeOK, Linked, KnownRows, Logout
  <2>2. [token[t] EXCEPT !.revoked = TRUE] \in RefreshToken /\ token[t].user \in Users
    BY <2>1 DEF RefreshToken
  <2>3. [Idle EXCEPT !.pc = "reply", !.op = "logout", !.user = token[t].user, !.token = t]
        \in Request
    BY <2>2 DEF Idle, Request, AllOps
  <2> QED
    BY <1>7, <2>2, <2>3 DEF IInv, TypeOK, Logout
<1> QED
  BY <1>1, <1>2, <1>3, <1>4, <1>5, <1>6, <1>7 DEF Write

LEMMA OtherTyped ==
    ASSUME IInv,
           \/ \E r \in Requests : Reply(r) \/ Fails(r)
           \/ Crash
           \/ \E t \in Tokens : ExpireToken(t)
           \/ \E k \in Resets : ExpireReset(k)
    PROVE  TypeOK'
<1> USE SessionAssumption
<1>1. ASSUME NEW r \in Requests, Reply(r) PROVE TypeOK'
  <2>1. req[r] # Idle
    BY <1>1 DEF Reply, Idle
  <2>2. held' \subseteq Tokens
    BY <1>1, <2>1, RequestTyped DEF IInv, TypeOK, Reply
  <2>3. sent' \subseteq Resets
    BY <1>1, <2>1, RequestTyped DEF IInv, TypeOK, Reply
  <2> QED
    BY <1>1, <2>2, <2>3 DEF IInv, TypeOK, Reply, Request
<1>2. ASSUME NEW r \in Requests, Fails(r) PROVE TypeOK'
  BY <1>2 DEF IInv, TypeOK, Fails, Request
<1>3. ASSUME Crash PROVE TypeOK'
  BY <1>3 DEF IInv, TypeOK, Crash, Request
<1>4. ASSUME NEW t \in Tokens, ExpireToken(t) PROVE TypeOK'
  <2>1. [token[t] EXCEPT !.expired = TRUE] \in RefreshToken
    BY <1>4 DEF IInv, TypeOK, ExpireToken, Live, RefreshToken
  <2> QED
    BY <1>4, <2>1 DEF IInv, TypeOK, ExpireToken
<1>5. ASSUME NEW k \in Resets, ExpireReset(k) PROVE TypeOK'
  <2>1. reset[k] \in PasswordResetToken
    BY <1>5 DEF IInv, TypeOK, ExpireReset, Valid
  <2>2. [reset[k] EXCEPT !.expired = TRUE] \in PasswordResetToken
    BY <2>1 DEF PasswordResetToken
  <2> QED
    BY <1>5, <2>2 DEF IInv, TypeOK, ExpireReset
<1> QED
  BY <1>1, <1>2, <1>3, <1>4, <1>5
(***************************************************************************)
(* Rows are never deleted and keep their owner; a token that is not valid  *)
(* does not become valid again; only IssueToken and WriteReset add rows.   *)
(***************************************************************************)
TokensKept(T) ==
    \A t \in T : token[t] # None =>
        /\ token'[t] # None
        /\ token'[t].user = token[t].user
        /\ token'[t].session = token[t].session
        /\ Live(t)' => Live(t)

PasswordsKept == \A u \in Users : password[u] # None => password'[u] # None

ResetsKept ==
    \A k \in Resets : reset[k] # None => reset'[k] # None /\ reset'[k].user = reset[k].user

NoneAdded ==
    /\ \A t \in Tokens : token[t] = None => token'[t] = None
    /\ \A k \in Resets : reset[k] = None => reset'[k] = None

LEMMA TokenUpdate ==
    ASSUME TypeOK, NEW t \in Tokens, token[t] # None, NEW row \in RefreshToken,
           row.user = token[t].user, row.session = token[t].session,
           token[t].revoked => row.revoked, token[t].expired => row.expired,
           token' = [token EXCEPT ![t] = row]
    PROVE  TokensKept(Tokens) /\ \A x \in Tokens : token[x] = None => token'[x] = None
<1>1. row # None
  BY SessionAssumption DEF RefreshToken
<1>2. token'[t] = row /\ \A x \in Tokens \ {t} : token'[x] = token[x]
  BY DEF TypeOK
<1>3. row.revoked \in BOOLEAN /\ row.expired \in BOOLEAN
  BY DEF RefreshToken
<1> QED
  BY <1>1, <1>2, <1>3 DEF TokensKept, Live, TypeOK

LEMMA Untouched ==
    ASSUME UNCHANGED token
    PROVE  TokensKept(Tokens) /\ \A x \in Tokens : token[x] = None => token'[x] = None
BY DEF TokensKept, Live

LEMMA ReadKeeps ==
    ASSUME NEW r \in Requests, Read(r)
    PROVE  UNCHANGED <<password, token, reset, held, sent>>
BY DEF Read, ReadForRegister, ReadForSession, ReadForForgot, ReadForRefresh, ReadForReset,
       Accept, Present

LEMMA IssueKeeps ==
    ASSUME IInv, NEW r \in Requests, IssueToken(r)
    PROVE  TokensKept(Tokens) /\ PasswordsKept /\ ResetsKept
<1>1. PICK t \in Tokens, s \in SessionIds :
        /\ token[t] = None
        /\ token' = [token EXCEPT ![t] = [user |-> req[r].user, session |-> s,
                                         expired |-> FALSE, revoked |-> FALSE, next |-> None]]
  BY DEF IssueToken
<1>2. \A x \in Tokens : token[x] # None => token'[x] = token[x]
  BY <1>1 DEF IInv, TypeOK
<1> QED
  BY <1>2 DEF IssueToken, TokensKept, PasswordsKept, ResetsKept, Live

LEMMA NextKeeps ==
    ASSUME IInv, Next
    PROVE  /\ TokensKept(Tokens) /\ PasswordsKept /\ ResetsKept
           /\ \/ \E r \in Requests : IssueToken(r) \/ WriteReset(r)
              \/ NoneAdded
<1> USE SessionAssumption
<1> DEFINE Kept == TokensKept(Tokens) /\ PasswordsKept /\ ResetsKept
<1>1. ASSUME NEW r \in Requests, Read(r) \/ RefuseUser(r) \/ Reply(r) \/ Fails(r) \/ Crash
      PROVE  Kept /\ NoneAdded
  <2>1. UNCHANGED <<password, token, reset>>
    BY <1>1, ReadKeeps DEF RefuseUser, Reply, Fails, Crash
  <2> QED
    BY <2>1, Untouched DEF PasswordsKept, ResetsKept, NoneAdded
<1>2. ASSUME NEW r \in Requests, WriteUser(r) PROVE Kept /\ NoneAdded
  <2>1. UNCHANGED <<token, reset>> /\ PasswordsKept
    BY <1>2 DEF WriteUser, PasswordsKept, IInv, TypeOK
  <2> QED
    BY <2>1, Untouched DEF ResetsKept, NoneAdded
<1>3. ASSUME NEW r \in Requests, RevokeOld(r) PROVE Kept /\ NoneAdded
  <2>1. req[r] # Idle /\ req[r].token \in Tokens /\ req[r].new \in Tokens
    BY <1>3, RequestTyped DEF IInv, RevokeOld, Idle
  <2>2. token[req[r].token] # None /\ token[req[r].token] \in RefreshToken
    BY <2>1 DEF IInv, TypeOK, Linked, RequestRows, RequestLinked
  <2> DEFINE row == [token[req[r].token] EXCEPT !.revoked = TRUE, !.next = req[r].new]
  <2>3. /\ row \in RefreshToken /\ row.user = token[req[r].token].user
        /\ row.session = token[req[r].token].session
        /\ row.revoked /\ row.expired = token[req[r].token].expired
    BY <2>1, <2>2 DEF RefreshToken
  <2>4. token' = [token EXCEPT ![req[r].token] = row]
    BY <1>3, <2>1 DEF RevokeOld, IInv, TypeOK
  <2> HIDE DEF row
  <2>5. TokensKept(Tokens) /\ \A x \in Tokens : token[x] = None => token'[x] = None
    BY <2>1, <2>2, <2>3, <2>4, TokenUpdate DEF IInv
  <2> QED
    BY <1>3, <2>5 DEF RevokeOld, PasswordsKept, ResetsKept, NoneAdded
<1>4. ASSUME NEW r \in Requests, NEW t \in Tokens, Logout(r, t) PROVE Kept /\ NoneAdded
  <2>2. token[t] # None /\ token[t] \in RefreshToken
    BY <1>4 DEF Logout, IInv, TypeOK, Linked, KnownRows
  <2> DEFINE row == [token[t] EXCEPT !.revoked = TRUE]
  <2>3. /\ row \in RefreshToken /\ row.user = token[t].user
        /\ row.session = token[t].session
        /\ row.revoked /\ row.expired = token[t].expired
    BY <2>2 DEF RefreshToken
  <2>4. token' = [token EXCEPT ![t] = row]
    BY <1>4 DEF Logout
  <2> HIDE DEF row
  <2>5. TokensKept(Tokens) /\ \A x \in Tokens : token[x] = None => token'[x] = None
    BY <2>2, <2>3, <2>4, TokenUpdate DEF IInv
  <2> QED
    BY <1>4, <2>5 DEF Logout, PasswordsKept, ResetsKept, NoneAdded
<1>5. ASSUME NEW t \in Tokens, ExpireToken(t) PROVE Kept /\ NoneAdded
  <2>2. token[t] # None /\ token[t] \in RefreshToken
    BY <1>5 DEF ExpireToken, Live, IInv, TypeOK
  <2> DEFINE row == [token[t] EXCEPT !.expired = TRUE]
  <2>3. /\ row \in RefreshToken /\ row.user = token[t].user
        /\ row.session = token[t].session
        /\ row.expired /\ row.revoked = token[t].revoked
    BY <2>2 DEF RefreshToken
  <2>4. token' = [token EXCEPT ![t] = row]
    BY <1>5 DEF ExpireToken
  <2> HIDE DEF row
  <2>5. TokensKept(Tokens) /\ \A x \in Tokens : token[x] = None => token'[x] = None
    BY <2>2, <2>3, <2>4, TokenUpdate DEF IInv
  <2> QED
    BY <1>5, <2>5 DEF ExpireToken, PasswordsKept, ResetsKept, NoneAdded
<1>6. ASSUME NEW k \in Resets, ExpireReset(k) PROVE Kept /\ NoneAdded
  <2>1. reset[k] # None /\ reset[k] \in PasswordResetToken
    BY <1>6 DEF ExpireReset, Valid, IInv, TypeOK
  <2>2. /\ [reset[k] EXCEPT !.expired = TRUE] # None
        /\ [reset[k] EXCEPT !.expired = TRUE].user = reset[k].user
    <3>1. [reset[k] EXCEPT !.expired = TRUE] \in PasswordResetToken
      BY <2>1 DEF PasswordResetToken
    <3> QED
      BY <2>1, <3>1 DEF PasswordResetToken
  <2>3. ResetsKept /\ \A x \in Resets : reset[x] = None => reset'[x] = None
    BY <1>6, <2>1, <2>2 DEF ExpireReset, ResetsKept, IInv, TypeOK
  <2> QED
    BY <1>6, <2>3, Untouched DEF ExpireReset, PasswordsKept, NoneAdded
<1>7. ASSUME NEW r \in Requests, WriteReset(r) PROVE Kept
  BY <1>7, Untouched DEF WriteReset, PasswordsKept, ResetsKept, IInv, TypeOK
<1>8. ASSUME NEW r \in Requests, WritePassword(r) PROVE Kept /\ NoneAdded
  <2>1. req[r] # Idle /\ req[r].user \in Users /\ req[r].reset \in Resets
    BY <1>8, RequestTyped DEF IInv, WritePassword, At, Idle
  <2>2. reset[req[r].reset] # None /\ reset[req[r].reset] \in PasswordResetToken
    BY <2>1 DEF IInv, TypeOK, Linked, RequestRows, RequestLinked
  <2>3. /\ [reset[req[r].reset] EXCEPT !.used = TRUE] # None
        /\ [reset[req[r].reset] EXCEPT !.used = TRUE].user = reset[req[r].reset].user
    <3>1. [reset[req[r].reset] EXCEPT !.used = TRUE] \in PasswordResetToken
      BY <2>2 DEF PasswordResetToken
    <3> QED
      BY <2>2, <3>1 DEF PasswordResetToken
  <2>4. ResetsKept /\ \A x \in Resets : reset[x] = None => reset'[x] = None
    BY <1>8, <2>1, <2>2, <2>3 DEF WritePassword, ResetsKept, IInv, TypeOK
  <2>5. \A t \in Tokens : token[t] # None =>
          /\ [token[t] EXCEPT !.revoked = TRUE] \in RefreshToken
          /\ [token[t] EXCEPT !.revoked = TRUE].user = token[t].user
          /\ [token[t] EXCEPT !.revoked = TRUE].session = token[t].session
          /\ [token[t] EXCEPT !.revoked = TRUE].revoked
    BY RowTyped, RevokedRow DEF IInv
  <2>6. TokensKept(Tokens) /\ \A x \in Tokens : token[x] = None => token'[x] = None
    BY <1>8, <2>5 DEF WritePassword, Revoked, TokensKept, Live
  <2>7. PasswordsKept
    BY <1>8, <2>1 DEF WritePassword, PasswordsKept, IInv, TypeOK
  <2> QED
    BY <2>4, <2>6, <2>7 DEF NoneAdded
<1>9. ASSUME NEW r \in Requests, IssueToken(r) PROVE Kept
  BY <1>9, IssueKeeps
<1>10. Requests = {} /\ Crash => Kept /\ NoneAdded
  BY Untouched DEF Crash, PasswordsKept, ResetsKept, NoneAdded
<1> QED
  BY <1>1, <1>2, <1>3, <1>4, <1>5, <1>6, <1>7, <1>8, <1>9, <1>10 DEF Next, Write
LEMMA RequestFields ==
    ASSUME TypeOK, NEW r \in Requests
    PROVE  /\ req[r].token \in Tokens \cup {None}
           /\ req[r].new \in Tokens \cup {None}
           /\ req[r].reset \in Resets \cup {None}
           /\ req[r] # Idle => req[r].user \in Users
BY DEF TypeOK, Request, Idle

(* A request that a step leaves alone, or ends, stays linked to its rows. *)
LEMMA LinkedKept ==
    ASSUME IInv, TokensKept(Tokens), PasswordsKept, ResetsKept, NEW r \in Requests,
           req'[r] = req[r] \/ req'[r] = Idle
    PROVE  RequestLinked(r)'
<1>1. CASE req'[r] = Idle
  BY <1>1 DEF RequestLinked, Idle
<1>2. CASE req'[r] = req[r]
  <2>1. RequestLinked(r)
    BY DEF IInv, Linked, RequestRows
  <2> QED
    BY <1>2, <2>1, RequestFields DEF IInv, RequestLinked, At, TokensKept, PasswordsKept, ResetsKept
<1> QED
  BY <1>1, <1>2

LEMMA RequestRowsStep ==
    ASSUME IInv, Next
    PROVE  RequestRows'
<1> USE SessionAssumption
<1>0. TokensKept(Tokens) /\ PasswordsKept /\ ResetsKept
  BY NextKeeps
<1>1. ASSUME NEW r \in Requests, RequestLinked(r)',
             \A q \in Requests \ {r} : req'[q] = req[q]
      PROVE  RequestRows'
  BY <1>0, <1>1, LinkedKept DEF RequestRows
<1>2. ASSUME NEW r \in Requests, NEW u \in Users,
             \/ ReadForRegister(r, u) \/ ReadForForgot(r, u)
             \/ \E op \in {"login", "switch"} : ReadForSession(r, op, u)
      PROVE  RequestRows'
  <2>1. PICK op \in AllOps, pc \in {"write", "issue"} :
          /\ op # "register" => password[u] # None
          /\ op = "register" => pc = "write"
          /\ Accept(r, op, pc, u)
    BY <1>2 DEF ReadForRegister, ReadForForgot, ReadForSession, AllOps
  <2>2. /\ req'[r].op = op /\ req'[r].pc = pc /\ req'[r].user = u
        /\ req'[r].token = None /\ req'[r].new = None /\ req'[r].reset = None
        /\ \A q \in Requests \ {r} : req'[q] = req[q]
        /\ UNCHANGED password
    BY <2>1 DEF Accept, Idle, IInv, TypeOK
  <2>3. RequestLinked(r)'
    BY <2>1, <2>2 DEF RequestLinked, At
  <2> QED
    BY <1>1, <2>2, <2>3
<1>3. ASSUME NEW r \in Requests, NEW t \in Tokens, ReadForRefresh(r, t) \/ Logout(r, t)
      PROVE  RequestRows'
  <2>1. token[t] # None /\ password[token[t].user] # None /\ token[t].user \in Users
    BY <1>3, RowTyped DEF IInv, Linked, KnownRows, ReadForRefresh, Live, Logout, RefreshToken
  <2>2. /\ req'[r].token = t /\ req'[r].user = token[t].user
        /\ req'[r].new = None /\ req'[r].reset = None
        /\ \A q \in Requests \ {r} : req'[q] = req[q]
    <3>1. CASE ReadForRefresh(r, t)
      BY <3>1 DEF ReadForRefresh, Present, Idle, IInv, TypeOK
    <3>2. CASE Logout(r, t)
      BY <3>2 DEF Logout, Idle, IInv, TypeOK
    <3> QED
      BY <1>3, <3>1, <3>2
  <2>3. RequestLinked(r)'
    BY <1>0, <2>1, <2>2 DEF RequestLinked, TokensKept, PasswordsKept
  <2> QED
    BY <1>1, <2>2, <2>3
<1>4. ASSUME NEW r \in Requests, NEW k \in Resets, ReadForReset(r, k)
      PROVE  RequestRows'
  <2>1. reset[k] # None /\ password[reset[k].user] # None
    BY <1>4 DEF IInv, Linked, KnownRows, ReadForReset, Valid
  <2>2. /\ req'[r].token = None /\ req'[r].user = reset[k].user
        /\ req'[r].new = None /\ req'[r].reset = k
        /\ \A q \in Requests \ {r} : req'[q] = req[q]
        /\ UNCHANGED <<password, reset>>
    BY <1>4 DEF ReadForReset, Present, Idle, IInv, TypeOK
  <2>3. RequestLinked(r)'
    BY <2>1, <2>2 DEF RequestLinked
  <2> QED
    BY <1>1, <2>2, <2>3
<1>5. ASSUME NEW r \in Requests, WriteUser(r) PROVE RequestRows'
  <2>1. req[r] # Idle /\ req[r].user \in Users /\ req[r].reset = None
        /\ req[r].token = None /\ req[r].new = None
    BY <1>5, RequestTyped DEF IInv, WriteUser, At, Idle
  <2>2. RequestLinked(r)'
    BY <1>5, <2>1 DEF RequestLinked, WriteUser, IInv, TypeOK
  <2> QED
    BY <1>1, <1>5, <2>2 DEF WriteUser, IInv, TypeOK
<1>6. ASSUME NEW r \in Requests, IssueToken(r) PROVE RequestRows'
  <2>1. PICK t \in Tokens, s \in SessionIds :
          /\ token' = [token EXCEPT ![t] = [user |-> req[r].user, session |-> s,
                                           expired |-> FALSE, revoked |-> FALSE, next |-> None]]
          /\ req' = [req EXCEPT ![r].new = t,
                               ![r].pc = IF req[r].op = "refresh" THEN "revoke" ELSE "reply"]
    BY <1>6 DEF IssueToken
  <2>2. req[r] # Idle /\ req[r].user \in Users /\ req[r].reset = None /\ ~At(r, "register", "write")
    BY <1>6, RequestTyped DEF IInv, IssueToken, Idle, At
  <2>3. token'[t] # None
    <3>1. [user |-> req[r].user, session |-> s,
           expired |-> FALSE, revoked |-> FALSE, next |-> None] \in RefreshToken
      BY <2>2 DEF RefreshToken
    <3> QED
      BY <2>1, <3>1 DEF IInv, TypeOK
  <2>4. RequestLinked(r)
    BY DEF IInv, Linked, RequestRows
  <2>5. /\ req'[r].token = req[r].token /\ req'[r].user = req[r].user
        /\ req'[r].new = t /\ req'[r].reset = None
        /\ \A q \in Requests \ {r} : req'[q] = req[q]
    <3>1. req[r] \in Request
      BY DEF IInv, TypeOK
    <3> QED
      BY <2>1, <2>2, <3>1 DEF IInv, TypeOK, Request, Idle
  <2>6. RequestLinked(r)'
    BY <1>0, <2>2, <2>3, <2>4, <2>5, RequestFields
       DEF RequestLinked, TokensKept, PasswordsKept, IInv
  <2> QED
    BY <1>1, <2>5, <2>6
<1>7. ASSUME NEW r \in Requests, RevokeOld(r) \/ WritePassword(r)
      PROVE  RequestRows'
  <2>1. req[r] # Idle /\ ~At(r, "register", "write")
    BY <1>7 DEF RevokeOld, WritePassword, Idle, At
  <2>2. RequestLinked(r)
    BY DEF IInv, Linked, RequestRows
  <2>3. /\ req'[r].token = req[r].token /\ req'[r].user = req[r].user
        /\ req'[r].new = req[r].new /\ req'[r].reset = req[r].reset
        /\ \A q \in Requests \ {r} : req'[q] = req[q]
    <3>1. req' = [req EXCEPT ![r].pc = "reply"]
      BY <1>7 DEF RevokeOld, WritePassword
    <3>2. req[r] \in Request
      BY DEF IInv, TypeOK
    <3> QED
      BY <3>1, <3>2 DEF IInv, TypeOK, Request, Idle
  <2>4. RequestLinked(r)'
    BY <1>0, <2>1, <2>2, <2>3, RequestFields
       DEF RequestLinked, TokensKept, PasswordsKept, ResetsKept, IInv
  <2> QED
    BY <1>1, <2>3, <2>4
<1>8. ASSUME NEW r \in Requests, WriteReset(r) PROVE RequestRows'
  <2>1. PICK k \in Resets :
          /\ reset' = [reset EXCEPT ![k] = [user |-> req[r].user, expired |-> FALSE,
                                           used |-> FALSE]]
          /\ req' = [req EXCEPT ![r].pc = "reply", ![r].reset = k]
    BY <1>8 DEF WriteReset
  <2>2. req[r] # Idle /\ req[r].user \in Users /\ req[r].token = None /\ req[r].new = None
        /\ ~At(r, "register", "write")
    BY <1>8, RequestTyped DEF IInv, WriteReset, Idle, At
  <2>3. reset'[k] # None /\ reset'[k].user = req[r].user
    <3>1. [user |-> req[r].user, expired |-> FALSE, used |-> FALSE] \in PasswordResetToken
      BY <2>2 DEF PasswordResetToken
    <3> QED
      BY <2>1, <3>1 DEF IInv, TypeOK
  <2>4. RequestLinked(r)
    BY DEF IInv, Linked, RequestRows
  <2>5. /\ req'[r].token = None /\ req'[r].user = req[r].user
        /\ req'[r].new = None /\ req'[r].reset = k
        /\ \A q \in Requests \ {r} : req'[q] = req[q]
    <3>1. req[r] \in Request
      BY DEF IInv, TypeOK
    <3> QED
      BY <2>1, <2>2, <3>1 DEF IInv, TypeOK, Request, Idle
  <2>6. RequestLinked(r)'
    BY <1>0, <2>2, <2>3, <2>4, <2>5 DEF RequestLinked, PasswordsKept
  <2> QED
    BY <1>1, <2>5, <2>6
<1>9. ASSUME NEW r \in Requests, RefuseUser(r) \/ Reply(r) \/ Fails(r)
      PROVE  RequestRows'
  <2>1. \A q \in Requests : req'[q] = req[q] \/ req'[q] = Idle
    BY <1>9 DEF RefuseUser, Reply, Fails, IInv, TypeOK
  <2> QED
    BY <1>0, <2>1, LinkedKept DEF RequestRows
<1>10. ASSUME Crash \/ (\E t \in Tokens : ExpireToken(t)) \/ \E k \in Resets : ExpireReset(k)
       PROVE  RequestRows'
  <2>1. \A q \in Requests : req'[q] = req[q] \/ req'[q] = Idle
    BY <1>10 DEF Crash, ExpireToken, ExpireReset
  <2> QED
    BY <1>0, <2>1, LinkedKept DEF RequestRows
<1> QED
  BY <1>2, <1>3, <1>4, <1>5, <1>6, <1>7, <1>8, <1>9, <1>10 DEF Next, Read, Write
LEMMA KnownRowsStep ==
    ASSUME IInv, Next
    PROVE  KnownRows'
<1> USE SessionAssumption
<1>0. TokensKept(Tokens) /\ PasswordsKept /\ ResetsKept
  BY NextKeeps
<1>1. \A t \in held' : token'[t] # None
  <2>1. \A t \in held' : t \in held \/ \E r \in Requests : req[r].new = t /\ t # None
    BY DEF Next, Read, ReadForRegister, ReadForSession, ReadForForgot, ReadForRefresh,
           ReadForReset, Accept, Present, Write, WriteUser, RefuseUser, IssueToken, RevokeOld,
           Logout, WriteReset, WritePassword, Reply, Fails, Crash, ExpireToken, ExpireReset
  <2> QED
    BY <1>0, <2>1, RequestFields DEF IInv, TypeOK, Linked, KnownRows, RequestRows, RequestLinked,
                                     TokensKept
<1>2. \A k \in sent' : reset'[k] # None
  <2>1. \A k \in sent' :
          k \in sent \/ \E r \in Requests : req[r].pc = "reply" /\ req[r].op = "forgot"
                                            /\ req[r].reset = k
    BY DEF Next, Read, ReadForRegister, ReadForSession, ReadForForgot, ReadForRefresh,
           ReadForReset, Accept, Present, Write, WriteUser, RefuseUser, IssueToken, RevokeOld,
           Logout, WriteReset, WritePassword, Reply, Fails, Crash, ExpireToken, ExpireReset
  <2>2. \A r \in Requests : req[r].pc = "reply" /\ req[r].op = "forgot" => req[r].reset \in Resets
    BY RequestTyped DEF IInv, Idle
  <2> QED
    BY <1>0, <2>1, <2>2 DEF IInv, TypeOK, Linked, KnownRows, RequestRows, RequestLinked,
                            ResetsKept
<1>3. \A t \in Tokens : token'[t] # None => password'[token'[t].user] # None
  <2>1. \A t \in Tokens : token[t] # None /\ token'[t] # None =>
          password'[token'[t].user] # None
    BY <1>0, RowTyped DEF IInv, Linked, KnownRows, TokensKept, PasswordsKept, RefreshToken
  <2>2. ASSUME NEW r \in Requests, IssueToken(r), NEW t \in Tokens, token[t] = None,
               token'[t] # None
        PROVE  password'[token'[t].user] # None
    <3>1. req[r] # Idle /\ ~At(r, "register", "write")
      BY <2>2 DEF IssueToken, Idle, At
    <3>2. password[req[r].user] # None
      BY <3>1 DEF IInv, Linked, RequestRows, RequestLinked
    <3>3. token'[t].user = req[r].user
      BY <2>2 DEF IssueToken, IInv, TypeOK
    <3> QED
      BY <2>2, <3>2, <3>3 DEF IssueToken
  <2>3. ASSUME NEW r \in Requests, WriteReset(r)
        PROVE  UNCHANGED token
    BY <2>3 DEF WriteReset
  <2> QED
    BY <2>1, <2>2, <2>3, NextKeeps DEF NoneAdded
<1>4. \A k \in Resets : reset'[k] # None => password'[reset'[k].user] # None
  <2>1. \A k \in Resets : reset[k] # None /\ reset'[k] # None =>
          password'[reset'[k].user] # None
    BY <1>0, RowTyped DEF IInv, Linked, KnownRows, ResetsKept, PasswordsKept, PasswordResetToken
  <2>2. ASSUME NEW r \in Requests, WriteReset(r), NEW k \in Resets, reset[k] = None,
               reset'[k] # None
        PROVE  password'[reset'[k].user] # None
    <3>1. req[r] # Idle /\ ~At(r, "register", "write")
      BY <2>2 DEF WriteReset, Idle, At
    <3>2. password[req[r].user] # None
      BY <3>1 DEF IInv, Linked, RequestRows, RequestLinked
    <3>3. reset'[k].user = req[r].user
      BY <2>2 DEF WriteReset, IInv, TypeOK
    <3> QED
      BY <2>2, <3>2, <3>3 DEF WriteReset
  <2>3. ASSUME NEW r \in Requests, IssueToken(r)
        PROVE  UNCHANGED reset
    BY <2>3 DEF IssueToken
  <2> QED
    BY <2>1, <2>2, <2>3, NextKeeps DEF NoneAdded
<1> QED
  BY <1>1, <1>2, <1>3, <1>4 DEF KnownRows

(* What a new token looks like: its session is fresh or that of the token presented. *)
LEMMA Issued ==
    ASSUME IInv, NEW r \in Requests, IssueToken(r)
    PROVE  \E t \in Tokens, s \in SessionIds :
             /\ token[t] = None
             /\ req[r].op = "refresh" => /\ s = token[req[r].token].session
                                         /\ req[r].token \in Tokens /\ token[req[r].token] # None
                                         /\ token[req[r].token].user = req[r].user
             /\ req[r].op # "refresh" => s \in Unnamed
             /\ token'[t] = [user |-> req[r].user, session |-> s, expired |-> FALSE,
                             revoked |-> FALSE, next |-> None]
             /\ token'[t] # None
             /\ \A x \in Tokens \ {t} : token'[x] = token[x]
             /\ req'[r].new = t
             /\ \A q \in Requests \ {r} : req'[q] = req[q]
<1>1. req[r] # Idle /\ req[r].user \in Users
  BY RequestTyped DEF IInv, IssueToken, Idle
<1>2. \A s \in SessionIds :
        [user |-> req[r].user, session |-> s, expired |-> FALSE, revoked |-> FALSE,
         next |-> None] \in RefreshToken
  BY <1>1 DEF RefreshToken
<1>3. req[r].op = "refresh" => /\ req[r].token \in Tokens /\ token[req[r].token] # None
                               /\ token[req[r].token].user = req[r].user
  BY <1>1, RequestTyped, SessionAssumption
     DEF IInv, IssueToken, Linked, RequestRows, RequestLinked
<1>4. req[r] \in Request
  BY DEF IInv, TypeOK
<1>5. PICK t \in Tokens, s \in SessionIds :
        /\ token[t] = None
        /\ IF req[r].op = "refresh" THEN s = token[req[r].token].session ELSE s \in Unnamed
        /\ token' = [token EXCEPT ![t] = [user |-> req[r].user, session |-> s,
                                          expired |-> FALSE, revoked |-> FALSE, next |-> None]]
        /\ req' = [req EXCEPT ![r].new = t,
                              ![r].pc = IF req[r].op = "refresh" THEN "revoke" ELSE "reply"]
  BY DEF IssueToken
<1>6. req'[r].new = t /\ \A q \in Requests \ {r} : req'[q] = req[q]
  BY <1>4, <1>5 DEF IInv, TypeOK, Request, Idle
<1>7. token'[t] # None
  BY <1>2, <1>5, SessionAssumption DEF IInv, TypeOK
<1>8. /\ token'[t] = [user |-> req[r].user, session |-> s, expired |-> FALSE,
                      revoked |-> FALSE, next |-> None]
      /\ \A x \in Tokens \ {t} : token'[x] = token[x]
  BY <1>5 DEF IInv, TypeOK
<1> QED
  BY <1>3, <1>5, <1>6, <1>7, <1>8

LEMMA OneUserStep ==
    ASSUME IInv, Next
    PROVE  OneUser'
<1>0. TokensKept(Tokens)
  BY NextKeeps
<1>1. ASSUME \A t \in Tokens : token[t] = None => token'[t] = None
      PROVE  OneUser'
  BY <1>0, <1>1 DEF IInv, Linked, OneUser, TokensKept
<1>2. ASSUME NEW r \in Requests, IssueToken(r)
      PROVE  OneUser'
  <2>1. PICK t \in Tokens, s \in SessionIds :
             /\ token[t] = None
             /\ req[r].op = "refresh" => /\ s = token[req[r].token].session
                                         /\ req[r].token \in Tokens /\ token[req[r].token] # None
                                         /\ token[req[r].token].user = req[r].user
             /\ req[r].op # "refresh" => s \in Unnamed
             /\ token'[t] = [user |-> req[r].user, session |-> s, expired |-> FALSE,
                             revoked |-> FALSE, next |-> None]
             /\ \A x \in Tokens \ {t} : token'[x] = token[x]
    BY <1>2, Issued
  <2>2. \A x \in Tokens \ {t} : token[x] # None /\ token[x].session = s =>
          token[x].user = req[r].user
    BY <2>1 DEF IInv, Linked, OneUser, Unnamed
  <2>3. token'[t].user = req[r].user /\ token'[t].session = s
    BY <2>1
  <2> QED
    BY <2>1, <2>2, <2>3 DEF IInv, Linked, OneUser
<1>3. ASSUME NEW r \in Requests, WriteReset(r)
      PROVE  OneUser'
  BY <1>1, <1>3 DEF WriteReset
<1> QED
  BY <1>1, <1>2, <1>3, NextKeeps DEF NoneAdded

(***************************************************************************)
(* The inductive invariant.                                                *)
(***************************************************************************)
LEMMA InvStep == IInv /\ [Next]_vars => IInv'
<1>1. IInv /\ Next => IInv'
  <2> SUFFICES ASSUME IInv, Next PROVE IInv'
    OBVIOUS
  <2>1. TypeOK'
    BY ReadTyped, WriteTyped, OtherTyped DEF Next
  <2> QED
    BY <2>1, KnownRowsStep, RequestRowsStep, OneUserStep DEF IInv, Linked
<1>2. IInv /\ UNCHANGED vars => IInv'
  BY DEF vars, IInv, TypeOK, Linked, KnownRows, RequestRows, RequestLinked, OneUser, At
<1> QED
  BY <1>1, <1>2

THEOREM Invariance == Spec => []IInv
BY InitInv, InvStep, PTL DEF Spec

(* Every reachable state is well typed, for any number of concurrent       *)
(* requests, failures and crashes.                                         *)
THEOREM SessionTypeCorrect == Spec => []TypeOK
<1>1. IInv => TypeOK
  BY DEF IInv
<1> QED
  BY <1>1, Invariance, PTL
(***************************************************************************)
(* Which sessions a step can open.                                         *)
(***************************************************************************)
Known(t) == t \in held \/ \E r \in Requests : req[r].new = t

LEMMA RequestsOnlyShrink ==
    ASSUME IInv, \A r \in Requests : req'[r] = req[r] \/ req'[r].new \in {None, req[r].new},
           UNCHANGED held
    PROVE  \A t \in Tokens : Known(t)' => Known(t)
BY SessionAssumption DEF Known

LEMMA KnownShrinks ==
    ASSUME IInv, Next, \A r \in Requests : ~IssueToken(r)
    PROVE  \A t \in Tokens : Known(t)' => Known(t)
<1>1. ASSUME NEW r \in Requests, Read(r)
      PROVE  \A t \in Tokens : Known(t)' => Known(t)
  <2>1. UNCHANGED held
    BY <1>1, ReadKeeps
  <2>2. \A q \in Requests : req'[q] = req[q] \/ req'[q].new \in {None, req[q].new}
    <3>1. ASSUME NEW op, NEW pc, NEW u, Accept(r, op, pc, u)
          PROVE  req'[r].new = None /\ \A q \in Requests \ {r} : req'[q] = req[q]
      BY <3>1 DEF Accept, Idle, IInv, TypeOK
    <3>2. ASSUME NEW op, NEW pc, NEW u, NEW t, NEW k, Present(r, op, pc, u, t, k)
          PROVE  req'[r].new = None /\ \A q \in Requests \ {r} : req'[q] = req[q]
      BY <3>2 DEF Present, Idle, IInv, TypeOK
    <3>3. req'[r].new = None /\ \A q \in Requests \ {r} : req'[q] = req[q]
      BY <1>1, <3>1, <3>2 DEF Read, ReadForRegister, ReadForSession, ReadForForgot,
                              ReadForRefresh, ReadForReset
    <3> QED
      BY <3>3
  <2> QED
    BY <2>1, <2>2, RequestsOnlyShrink
<1>2. ASSUME NEW r \in Requests,
             req' = [req EXCEPT ![r].pc = "reply"] \/ req' = [req EXCEPT ![r].pc = "issue"],
             UNCHANGED held
      PROVE  \A t \in Tokens : Known(t)' => Known(t)
  <2>1. req[r] \in Request
    BY DEF IInv, TypeOK
  <2>2. \A q \in Requests : req'[q] = req[q] \/ req'[q].new \in {None, req[q].new}
    BY <1>2, <2>1 DEF IInv, TypeOK, Request, Idle
  <2> QED
    BY <1>2, <2>2, RequestsOnlyShrink
<1>3. ASSUME NEW r \in Requests, WriteReset(r)
      PROVE  \A t \in Tokens : Known(t)' => Known(t)
  <2>1. PICK k \in Resets : req' = [req EXCEPT ![r].pc = "reply", ![r].reset = k]
    BY <1>3 DEF WriteReset
  <2>2. req[r] \in Request
    BY DEF IInv, TypeOK
  <2>3. \A q \in Requests : req'[q] = req[q] \/ req'[q].new \in {None, req[q].new}
    BY <2>1, <2>2 DEF IInv, TypeOK, Request, Idle
  <2> QED
    BY <1>3, <2>3, RequestsOnlyShrink DEF WriteReset
<1>4. ASSUME NEW r \in Requests, RefuseUser(r) \/ Fails(r) \/ \E t \in Tokens : Logout(r, t)
      PROVE  \A t \in Tokens : Known(t)' => Known(t)
  <2>1. \A q \in Requests : req'[q] = req[q] \/ req'[q].new \in {None, req[q].new}
    <3>1. CASE RefuseUser(r) \/ Fails(r)
      BY <3>1 DEF RefuseUser, Fails, Idle, IInv, TypeOK
    <3>2. ASSUME NEW t \in Tokens, Logout(r, t)
          PROVE  req'[r].new = None /\ \A q \in Requests \ {r} : req'[q] = req[q]
      BY <3>2 DEF Logout, Idle, IInv, TypeOK
    <3> QED
      BY <1>4, <3>1, <3>2
  <2> QED
    BY <1>4, <2>1, RequestsOnlyShrink DEF RefuseUser, Fails, Logout
<1>5. ASSUME NEW r \in Requests, Reply(r)
      PROVE  \A t \in Tokens : Known(t)' => Known(t)
  BY <1>5, SessionAssumption DEF Reply, Known, Idle, IInv, TypeOK
<1>6. ASSUME Crash \/ (\E t \in Tokens : ExpireToken(t)) \/ \E k \in Resets : ExpireReset(k)
      PROVE  \A t \in Tokens : Known(t)' => Known(t)
  BY <1>6, RequestsOnlyShrink DEF Crash, ExpireToken, ExpireReset, Idle
<1>7. ASSUME NEW r \in Requests, WriteUser(r) \/ RevokeOld(r) \/ WritePassword(r)
      PROVE  \A t \in Tokens : Known(t)' => Known(t)
  BY <1>2, <1>7 DEF WriteUser, RevokeOld, WritePassword
<1> QED
  BY <1>1, <1>3, <1>4, <1>5, <1>6, <1>7 DEF Next, Write

LEMMA UsableShrinks ==
    ASSUME IInv, Next, \A r \in Requests : ~IssueToken(r)
    PROVE  \A s \in SessionIds : Usable(s)' \subseteq Usable(s)
<1>1. \A t \in Tokens : token'[t] # None => token[t] # None
  BY NextKeeps DEF NoneAdded, WriteReset
<1>2. \A t \in Tokens : Live(t)' => Live(t) /\ token'[t].session = token[t].session
  BY <1>1, NextKeeps DEF TokensKept, Live
<1> QED
  BY <1>2, KnownShrinks DEF Usable, Known

(* A new token makes its own session usable and leaves the others alone. *)
LEMMA UsableIssued ==
    ASSUME IInv, NEW r \in Requests, IssueToken(r)
    PROVE  \E s \in SessionIds :
             /\ \A x \in SessionIds \ {s} : Usable(x)' = Usable(x)
             /\ Usable(s)' # {}
             /\ Usable(s) \subseteq Usable(s)'
             /\ req[r].op = "refresh" => s = token[req[r].token].session
             /\ req[r].op # "refresh" => s \in Unnamed
             /\ \A x \in SessionIds \ {s} : x \in Unnamed <=> x \in Unnamed'
             /\ s \notin Unnamed'
             /\ \E t \in Tokens : token[t] = None /\ token'[t] # None /\ token'[t].session = s
                                  /\ token'[t].user = req[r].user
<1>1. PICK t \in Tokens, s \in SessionIds :
             /\ token[t] = None
             /\ req[r].op = "refresh" => s = token[req[r].token].session
             /\ req[r].op # "refresh" => s \in Unnamed
             /\ token'[t] = [user |-> req[r].user, session |-> s, expired |-> FALSE,
                             revoked |-> FALSE, next |-> None]
             /\ token'[t] # None
             /\ \A x \in Tokens \ {t} : token'[x] = token[x]
             /\ req'[r].new = t
             /\ \A q \in Requests \ {r} : req'[q] = req[q]
  BY Issued
<1>2. UNCHANGED held
  BY DEF IssueToken
<1>3. req[r].new = None
  BY RequestTyped DEF IInv, IssueToken, Idle
<1>4. \A x \in Tokens \ {t} : Known(x)' <=> Known(x)
  BY <1>1, <1>2, <1>3, SessionAssumption DEF Known
<1>5. \A x \in Tokens \ {t} : Live(x)' <=> Live(x)
  BY <1>1 DEF Live
<1>6. Live(t)' /\ Known(t)' /\ token'[t].session = s /\ token'[t].user = req[r].user /\ ~Live(t)
  BY <1>1 DEF Live, Known
<1>7. \A x \in SessionIds, y \in Tokens \ {t} : y \in Usable(x)' <=> y \in Usable(x)
  BY <1>1, <1>4, <1>5 DEF Usable, Known
<1>8. t \in Usable(s)' /\ \A x \in SessionIds \ {s} : t \notin Usable(x)'
  BY <1>6 DEF Usable, Known
<1>9. \A x \in SessionIds : t \notin Usable(x) /\ Usable(x) \subseteq Tokens
                             /\ Usable(x)' \subseteq Tokens
  BY <1>6 DEF Usable
<1>10. \A x \in SessionIds \ {s} : x \in Unnamed <=> x \in Unnamed'
  BY <1>1, <1>6 DEF Unnamed
<1>11. s \notin Unnamed'
  BY <1>1, <1>6 DEF Unnamed
<1>12. \A x \in SessionIds \ {s} : Usable(x)' = Usable(x)
  BY <1>7, <1>8, <1>9
<1>13. Usable(s)' # {} /\ Usable(s) \subseteq Usable(s)'
  BY <1>7, <1>8, <1>9
<1> QED
  BY <1>1, <1>6, <1>10, <1>11, <1>12, <1>13

(* A request comes to the refresh of a session by reading a valid token.   *)
LEMMA RefreshingReads ==
    ASSUME IInv, Next, NEW r \in Requests, req'[r].pc = "issue", req'[r].op = "refresh"
    PROVE  req'[r] = req[r] \/ \E t \in Tokens : ReadForRefresh(r, t)
<1>1. ASSUME NEW q \in Requests, Read(q), q # r
      PROVE  req'[r] = req[r]
  BY <1>1 DEF Read, ReadForRegister, ReadForSession, ReadForForgot, ReadForRefresh, ReadForReset,
              Accept, Present, IInv, TypeOK
<1>2. ASSUME Read(r)
      PROVE  \E t \in Tokens : ReadForRefresh(r, t)
  <2>1. ASSUME NEW op \in {"register", "login", "switch", "forgot"}, NEW pc, NEW u,
               Accept(r, op, pc, u)
        PROVE  FALSE
    BY <2>1 DEF Accept, Idle, IInv, TypeOK
  <2>2. ASSUME NEW k \in Resets, ReadForReset(r, k)
        PROVE  FALSE
    BY <2>2 DEF ReadForReset, Present, Idle, IInv, TypeOK
  <2> QED
    BY <1>2, <2>1, <2>2 DEF Read, ReadForRegister, ReadForSession, ReadForForgot
<1>3. ASSUME NEW q \in Requests, Write(q) \/ Reply(q) \/ Fails(q)
      PROVE  req'[r] = req[r]
  <2>1. CASE q # r
    BY <1>3, <2>1 DEF Write, WriteUser, RefuseUser, IssueToken, RevokeOld, WriteReset, WritePassword,
                      Logout, Reply, Fails, IInv, TypeOK
  <2>2. ASSUME q = r
        PROVE  FALSE
    <3>1. req[r] \in Request
      BY DEF IInv, TypeOK
    <3>2. ASSUME IssueToken(r) \/ RevokeOld(r) \/ WritePassword(r) \/ WriteReset(r)
          PROVE  req'[r].pc \in {"revoke", "reply"}
      <4>1. \A pc : [req[r] EXCEPT !.pc = pc].pc = pc
        BY <3>1 DEF Request, Idle
      <4>2. \A k, pc : [req[r] EXCEPT !.pc = pc, !.reset = k].pc = pc
        BY <3>1 DEF Request, Idle
      <4>3. \A t, pc : [req[r] EXCEPT !.new = t, !.pc = pc].pc = pc
        BY <3>1 DEF Request, Idle
      <4>4. CASE IssueToken(r)
        BY <4>3, <4>4 DEF IssueToken, IInv, TypeOK
      <4>5. CASE RevokeOld(r) \/ WritePassword(r)
        BY <4>1, <4>5 DEF RevokeOld, WritePassword, IInv, TypeOK
      <4>6. CASE WriteReset(r)
        BY <4>2, <4>6 DEF WriteReset, IInv, TypeOK
      <4> QED
        BY <3>2, <4>4, <4>5, <4>6
    <3>3. ASSUME WriteUser(r)
          PROVE  req'[r].op = "register"
      BY <3>1, <3>3 DEF WriteUser, At, IInv, TypeOK, Request, Idle
    <3>4. ASSUME RefuseUser(r) \/ Reply(r) \/ Fails(r) \/ \E t \in Tokens : Logout(r, t)
          PROVE  req'[r].pc \in {"idle", "reply"}
      <4>1. CASE RefuseUser(r) \/ Reply(r) \/ Fails(r)
        BY <4>1 DEF RefuseUser, Reply, Fails, Idle, IInv, TypeOK
      <4>2. ASSUME NEW t \in Tokens, Logout(r, t)
            PROVE  req'[r].pc = "reply"
        BY <4>2 DEF Logout, Idle, IInv, TypeOK
      <4> QED
        BY <3>4, <4>1, <4>2
    <3> QED
      BY <1>3, <2>2, <3>2, <3>3, <3>4 DEF Write
  <2> QED
    BY <2>1, <2>2
<1>4. ASSUME Crash
      PROVE  FALSE
  BY <1>4 DEF Crash, Idle
<1>5. ASSUME (\E t \in Tokens : ExpireToken(t)) \/ \E k \in Resets : ExpireReset(k)
      PROVE  req'[r] = req[r]
  BY <1>5 DEF ExpireToken, ExpireReset
<1> QED
  BY <1>1, <1>2, <1>3, <1>4, <1>5 DEF Next

LEMMA RefreshingStarts ==
    ASSUME IInv, Next, NEW s \in SessionIds, Refreshing(s)'
    PROVE  Refreshing(s) \/ Usable(s) # {}
<1>1. PICK r \in Requests : /\ req'[r].pc = "issue" /\ req'[r].op = "refresh"
                            /\ token'[req'[r].token].session = s
  BY DEF Refreshing
<1>2. CASE req'[r] = req[r]
  <2>1. req[r].token \in Tokens /\ token[req[r].token] # None
    BY <1>1, <1>2, RequestTyped, SessionAssumption DEF IInv, Linked, RequestRows, RequestLinked, Idle
  <2>2. token'[req[r].token].session = token[req[r].token].session
    BY <2>1, NextKeeps DEF TokensKept
  <2> QED
    BY <1>1, <1>2, <2>2 DEF Refreshing
<1>3. ASSUME NEW t \in Tokens, ReadForRefresh(r, t)
      PROVE  Usable(s) # {}
  <2>1. req'[r].token = t /\ token' = token
    BY <1>3 DEF ReadForRefresh, Present, Idle, IInv, TypeOK
  <2>2. t \in Usable(s)
    BY <1>1, <1>3, <2>1 DEF Usable, ReadForRefresh
  <2> QED
    BY <2>2
<1> QED
  BY <1>1, <1>2, <1>3, RefreshingReads

(* A session that is over is never continued, whatever overlaps: a refresh *)
(* of it needs a valid token to begin with, and no other request issues a  *)
(* token for a session that has begun.                                     *)
THEOREM OverForGood == Spec => OverIsOver
<1>1. ASSUME IInv, Next, NEW s \in SessionIds, Over(s)
      PROVE  Over(s)'
  <2>1. Usable(s)' = {}
    <3>1. CASE \A r \in Requests : ~IssueToken(r)
      BY <1>1, <3>1, UsableShrinks DEF Over
    <3>2. ASSUME NEW r \in Requests, IssueToken(r)
          PROVE  Usable(s)' = {}
      <4>1. PICK x \in SessionIds :
               /\ \A y \in SessionIds \ {x} : Usable(y)' = Usable(y)
               /\ req[r].op = "refresh" => x = token[req[r].token].session
               /\ req[r].op # "refresh" => x \in Unnamed
        BY <1>1, <3>2, UsableIssued
      <4>2. s = x => Refreshing(s) \/ s \in Unnamed
        BY <3>2, <4>1 DEF Refreshing, IssueToken
      <4> QED
        BY <1>1, <4>1, <4>2 DEF Over, Began
    <3> QED
      BY <3>1, <3>2
  <2>2. ~Refreshing(s)'
    BY <1>1, RefreshingStarts DEF Over
  <2>3. Began(s)'
    BY <1>1, NextKeeps DEF Over, Began, Unnamed, TokensKept
  <2> QED
    BY <2>1, <2>2, <2>3 DEF Over
<1>2. IInv /\ [Next]_vars => [\A s \in SessionIds : Over(s) => Over(s)']_vars
  BY <1>1
<1> QED
  BY <1>2, Invariance, PTL DEF Spec, OverIsOver
(***************************************************************************)
(* One request at a time.  What a request has read is still so when it     *)
(* writes, and the session it refreshes has no other token in the hands of *)
(* a client.                                                               *)
(***************************************************************************)
SerialRequest(r) ==
    /\ req[r].pc = "issue" /\ req[r].op = "refresh" =>
         req[r].token \in held /\ Live(req[r].token)
    /\ req[r].pc = "revoke" =>
         \A x \in held : Live(x) /\ token[x].session = token[req[r].new].session
                        => x = req[r].token
    /\ req[r].pc = "reply" /\ req[r].new # None =>
         \A x \in held : Live(x) => token[x].session # token[req[r].new].session

Serial ==
    /\ \A r \in Requests : SerialRequest(r)
    /\ OneTokenPerSession

LEMMA InitSerial == Init => Serial
BY DEF Init, Serial, SerialRequest, OneTokenPerSession, Idle, At

(* A step that adds nothing to what clients hold keeps the tokens apart. *)
LEMMA ApartKept ==
    ASSUME IInv, Next, OneTokenPerSession, held' \subseteq held
    PROVE  /\ \A x \in held' : /\ Live(x)' => Live(x)
                               /\ token'[x].session = token[x].session
           /\ OneTokenPerSession'
<1>1. \A x \in held : x \in Tokens /\ token[x] # None
  BY DEF IInv, TypeOK, Linked, KnownRows
<1>2. \A x \in held' : /\ Live(x)' => Live(x)
                       /\ token'[x].session = token[x].session
  BY <1>1, NextKeeps DEF TokensKept
<1>3. ASSUME NEW x \in held', NEW y \in held', Live(x)', Live(y)',
             (token[x].session)' = (token[y].session)'
      PROVE  x = y
  BY <1>2, <1>3 DEF OneTokenPerSession
<1>4. OneTokenPerSession'
  BY <1>3 DEF OneTokenPerSession
<1> QED
  BY <1>2, <1>4

(* Whoever acts, the others are idle and stay so. *)
LEMMA OthersIdle ==
    ASSUME IInv, OneAtATime, OneAtATime', NEW r \in Requests, Read(r) \/ Write(r) \/ Reply(r) \/ Fails(r)
    PROVE  \A q \in Requests \ {r} : req'[q] = Idle
<1>1. req \in [Requests -> Request]
  BY DEF IInv, TypeOK
<1>2. ASSUME NEW x, req' = [req EXCEPT ![r] = x], x.pc # "idle"
      PROVE  \A q \in Requests \ {r} : req'[q] = Idle
  <2>1. req'[r] # Idle
    BY <1>1, <1>2 DEF Idle
  <2> QED
    BY <2>1 DEF OneAtATime
<1>3. ASSUME NEW op, NEW pc, NEW u, pc # "idle", Accept(r, op, pc, u)
      PROVE  \A q \in Requests \ {r} : req'[q] = Idle
  <2>1. [Idle EXCEPT !.pc = pc, !.op = op, !.user = u].pc = pc
    BY DEF Idle
  <2> QED
    BY <1>2, <1>3, <2>1 DEF Accept
<1>4. ASSUME NEW op, NEW pc, NEW u, NEW t, NEW k, pc # "idle", Present(r, op, pc, u, t, k)
      PROVE  \A q \in Requests \ {r} : req'[q] = Idle
  <2>1. [Idle EXCEPT !.pc = pc, !.op = op, !.user = u, !.token = t, !.reset = k].pc = pc
    BY DEF Idle
  <2> QED
    BY <1>2, <1>4, <2>1 DEF Present
<1>5. CASE Read(r)
  BY <1>3, <1>4, <1>5
  DEF Read, ReadForRegister, ReadForForgot, ReadForSession, ReadForRefresh, ReadForReset
<1>6. ASSUME NEW t \in Tokens, Logout(r, t)
      PROVE  \A q \in Requests \ {r} : req'[q] = Idle
  <2>1. [Idle EXCEPT !.pc = "reply", !.op = "logout", !.user = token[t].user, !.token = t].pc
          = "reply"
    BY DEF Idle
  <2> QED
    BY <1>2, <1>6, <2>1 DEF Logout
<1>7. CASE WriteUser(r) \/ RefuseUser(r) \/ IssueToken(r) \/ RevokeOld(r)
           \/ WriteReset(r) \/ WritePassword(r) \/ Reply(r) \/ Fails(r)
  <2>1. req[r] # Idle
    BY <1>7
    DEF WriteUser, RefuseUser, IssueToken, RevokeOld, WriteReset, WritePassword, Reply, Fails,
        At, Idle
  <2>2. \A q \in Requests \ {r} : req[q] = Idle
    BY <2>1 DEF OneAtATime
  <2>3. ASSUME WriteUser(r) \/ RefuseUser(r) \/ RevokeOld(r) \/ WritePassword(r)
               \/ Reply(r) \/ Fails(r)
        PROVE  \A q \in Requests \ {r} : req'[q] = req[q]
    BY <1>1, <2>3 DEF WriteUser, RefuseUser, RevokeOld, WritePassword, Reply, Fails
  <2>4. ASSUME IssueToken(r)
        PROVE  \A q \in Requests \ {r} : req'[q] = req[q]
    <3>1. PICK t, pc : req' = [req EXCEPT ![r].new = t, ![r].pc = pc]
      BY <2>4 DEF IssueToken
    <3> QED
      BY <1>1, <3>1
  <2>5. ASSUME WriteReset(r)
        PROVE  \A q \in Requests \ {r} : req'[q] = req[q]
    <3>1. PICK k : req' = [req EXCEPT ![r].pc = "reply", ![r].reset = k]
      BY <2>5 DEF WriteReset
    <3> QED
      BY <1>1, <3>1
  <2> QED
    BY <1>7, <2>2, <2>3, <2>4, <2>5
<1> QED
  BY <1>5, <1>6, <1>7 DEF Write

(* So it is enough to look at the one that acts. *)
LEMMA SerialOthers ==
    ASSUME NEW r \in Requests, \A q \in Requests \ {r} : req'[q] = Idle,
           OneTokenPerSession', SerialRequest(r)'
    PROVE  Serial'
<1>1. ASSUME NEW q \in Requests \ {r}
      PROVE  SerialRequest(q)'
  BY <1>1 DEF SerialRequest, Idle
<1> QED
  BY <1>1 DEF Serial

LEMMA SerialStep ==
    ASSUME IInv, Serial, OneAtATime, OneAtATime', Next
    PROVE  Serial'
<1> USE SessionAssumption
<1>0. OneTokenPerSession /\ \A r \in Requests : SerialRequest(r)
  BY DEF Serial
<1>1. ASSUME NEW r \in Requests, Read(r)
      PROVE  Serial'
  <2>1. UNCHANGED <<password, token, reset, held, sent>>
    BY <1>1, ReadKeeps
  <2>2. OneTokenPerSession'
    BY <1>0, <2>1 DEF OneTokenPerSession, Live
  <2>3. SerialRequest(r)'
    <3>1. ASSUME NEW u \in Users,
                 \/ ReadForRegister(r, u) \/ ReadForForgot(r, u)
                 \/ \E op \in {"login", "switch"} : ReadForSession(r, op, u)
          PROVE  /\ req'[r].pc \in {"write", "issue"} /\ req'[r].op \notin {"refresh", "reset"}
      <4>1. PICK op \in AllOps \ {"refresh", "reset"}, pc \in {"write", "issue"} :
              Accept(r, op, pc, u)
        BY <3>1 DEF ReadForRegister, ReadForForgot, ReadForSession, AllOps
      <4> QED
        BY <4>1 DEF Accept, Idle, IInv, TypeOK
    <3>2. ASSUME NEW t \in Tokens, ReadForRefresh(r, t)
          PROVE  /\ req'[r].pc = "issue" /\ req'[r].op = "refresh" /\ req'[r].token = t
                 /\ t \in held /\ Live(t)
      BY <3>2 DEF ReadForRefresh, Present, Idle, IInv, TypeOK
    <3>3. ASSUME NEW k \in Resets, ReadForReset(r, k)
          PROVE  req'[r].pc = "write"
      BY <3>3 DEF ReadForReset, Present, Idle, IInv, TypeOK
    <3> QED
      BY <1>1, <2>1, <3>1, <3>2, <3>3 DEF Read, SerialRequest, Live, At
  <2> QED
    BY <1>1, <2>2, <2>3, OthersIdle, SerialOthers
<1>2. ASSUME NEW r \in Requests, IssueToken(r)
      PROVE  Serial'
  <2>1. PICK t \in Tokens, s \in SessionIds :
             /\ token[t] = None
             /\ req[r].op = "refresh" => /\ s = token[req[r].token].session
                                         /\ req[r].token \in Tokens /\ token[req[r].token] # None
             /\ req[r].op # "refresh" => s \in Unnamed
             /\ token'[t] = [user |-> req[r].user, session |-> s, expired |-> FALSE,
                             revoked |-> FALSE, next |-> None]
             /\ \A x \in Tokens \ {t} : token'[x] = token[x]
             /\ req'[r].new = t
    BY <1>2, Issued
  <2>2. held' = held /\ held \subseteq Tokens \ {t} /\ \A x \in held : token[x] # None
    BY <1>2, <2>1 DEF IssueToken, IInv, TypeOK, Linked, KnownRows
  <2>3. \A x \in held : token'[x] = token[x] /\ (Live(x)' <=> Live(x))
    BY <2>1, <2>2 DEF Live
  <2>4. OneTokenPerSession'
    BY <1>0, <2>2, <2>3 DEF OneTokenPerSession
  <2>5. /\ req'[r].pc = (IF req[r].op = "refresh" THEN "revoke" ELSE "reply")
        /\ req'[r].token = req[r].token
    <3>1. req[r] \in Request
      BY DEF IInv, TypeOK
    <3> QED
      BY <1>2, <3>1 DEF IssueToken, IInv, TypeOK, Request, Idle
  <2>6. req[r].op = "refresh" => req[r].token \in held /\ Live(req[r].token)
    BY <1>0, <1>2 DEF SerialRequest, IssueToken
  <2>7. SerialRequest(r)'
    <3>1. token'[t].session = s
      BY <2>1
    <3>2. CASE req[r].op = "refresh"
      BY <1>0, <2>1, <2>2, <2>3, <2>5, <2>6, <3>1, <3>2 DEF SerialRequest, OneTokenPerSession
    <3>3. CASE req[r].op # "refresh"
      BY <2>1, <2>2, <2>3, <2>5, <3>1, <3>3 DEF SerialRequest, Unnamed
    <3> QED
      BY <3>2, <3>3
  <2> QED
    BY <1>2, <2>4, <2>5, <2>7, OthersIdle, SerialOthers DEF At, Write
<1>3. ASSUME NEW r \in Requests, RevokeOld(r)
      PROVE  Serial'
  <2>1. held' = held /\ req[r].new \in Tokens /\ req[r].token \in Tokens /\ req[r] # Idle
    BY <1>3, RequestTyped DEF RevokeOld, IInv, Idle
  <2>2. OneTokenPerSession' /\ \A x \in held : /\ Live(x)' => Live(x)
                                                /\ token'[x].session = token[x].session
    BY <1>0, <1>3, <2>1, ApartKept DEF Next, Write
  <2>3. token[req[r].new] # None /\ token[req[r].token] \in RefreshToken
    BY <2>1, RowTyped DEF IInv, Linked, RequestRows, RequestLinked
  <2>4. token'[req[r].new].session = token[req[r].new].session
    BY <1>3, <2>1, <2>3, NextKeeps DEF TokensKept, Next, Write
  <2>5. PICK old \in Tokens : old = req[r].token
    BY <2>1
  <2>8. ~Live(old)'
    <3>1. token'[old].revoked
      BY <1>3, <2>1, <2>3, <2>5 DEF RevokeOld, IInv, TypeOK, RefreshToken
    <3> QED
      BY <3>1 DEF Live
  <2>6. /\ req'[r].pc = "reply" /\ req'[r].new = req[r].new
    <3>1. req[r] \in Request
      BY DEF IInv, TypeOK
    <3> QED
      BY <1>3, <3>1 DEF RevokeOld, IInv, TypeOK, Request, Idle
  <2>9. ASSUME NEW x \in held, Live(x)'
        PROVE  token'[x].session # token'[req[r].new].session
    BY <1>0, <1>3, <2>2, <2>4, <2>5, <2>8, <2>9 DEF SerialRequest, RevokeOld
  <2>7. SerialRequest(r)'
    BY <2>1, <2>6, <2>9 DEF SerialRequest
  <2> QED
    BY <1>3, <2>2, <2>6, <2>7, OthersIdle, SerialOthers DEF At, Write
<1>4. ASSUME NEW r \in Requests, Reply(r)
      PROVE  Serial'
  <2>1. req'[r] = Idle /\ token' = token /\ held' = held \cup ({req[r].new} \ {None})
    BY <1>4 DEF Reply, IInv, TypeOK
  <2>2. OneTokenPerSession'
    BY <1>0, <1>4, <2>1 DEF OneTokenPerSession, SerialRequest, Live, Reply
  <2> QED
    BY <1>4, <2>1, <2>2, OthersIdle, SerialOthers DEF SerialRequest, At, Idle
<1>5. ASSUME NEW r \in Requests,
             \/ WriteUser(r) \/ WriteReset(r) \/ WritePassword(r) \/ RefuseUser(r) \/ Fails(r)
             \/ \E t \in Tokens : Logout(r, t)
      PROVE  Serial'
  <2>1. held' = held
    BY <1>5 DEF WriteUser, WriteReset, WritePassword, RefuseUser, Fails, Logout
  <2>2. OneTokenPerSession'
    BY <1>0, <1>5, <2>1, ApartKept DEF Next, Write
  <2>3. \/ req'[r].pc \in {"idle", "reply"} /\ req'[r].new = None
        \/ req'[r].pc = "issue" /\ req'[r].op = "register"
    <3>1. ASSUME WriteUser(r)
          PROVE  req'[r].pc = "issue" /\ req'[r].op = "register"
      BY <3>1 DEF WriteUser, At, IInv, TypeOK, Request, Idle
    <3>2. ASSUME WritePassword(r)
          PROVE  req'[r].pc = "reply" /\ req'[r].new = None
      <4>1. req[r].new = None /\ req[r] \in Request
        BY <3>2, RequestTyped DEF WritePassword, At, Idle, IInv, TypeOK
      <4> QED
        BY <3>2, <4>1 DEF WritePassword, IInv, TypeOK, Request, Idle
    <3>3. ASSUME WriteReset(r)
          PROVE  req'[r].pc = "reply" /\ req'[r].new = None
      <4>1. req[r].new = None /\ req[r] \in Request
        BY <3>3, RequestTyped DEF WriteReset, At, Idle, IInv, TypeOK
      <4>2. PICK k \in Resets : req' = [req EXCEPT ![r].pc = "reply", ![r].reset = k]
        BY <3>3 DEF WriteReset
      <4> QED
        BY <4>1, <4>2 DEF IInv, TypeOK, Request, Idle
    <3>4. ASSUME RefuseUser(r) \/ Fails(r)
          PROVE  req'[r] = Idle
      BY <3>4 DEF RefuseUser, Fails, IInv, TypeOK
    <3>5. ASSUME NEW t \in Tokens, Logout(r, t)
          PROVE  req'[r].pc = "reply" /\ req'[r].new = None
      BY <3>5 DEF Logout, Idle, IInv, TypeOK
    <3> QED
      BY <1>5, <3>1, <3>2, <3>3, <3>4, <3>5 DEF Idle
  <2> QED
    BY <1>5, <2>2, <2>3, OthersIdle, SerialOthers DEF SerialRequest, At, Write
<1>6. ASSUME Crash
      PROVE  Serial'
  <2>1. OneTokenPerSession'
    BY <1>0, <1>6 DEF Crash, OneTokenPerSession, Live
  <2> QED
    BY <1>6, <2>1 DEF Crash, Serial, SerialRequest, At, Idle
<1>7. ASSUME NEW t \in Tokens, ExpireToken(t)
      PROVE  Serial'
  <2>1. held' = held /\ req' = req /\ reset' = reset
    BY <1>7 DEF ExpireToken
  <2>2. OneTokenPerSession' /\ \A x \in held : /\ Live(x)' => Live(x)
                                                /\ token'[x].session = token[x].session
    BY <1>0, <1>7, <2>1, ApartKept DEF Next
  <2>3. ASSUME NEW r \in Requests
        PROVE  SerialRequest(r)'
    <3>1. req[r].new # None => token'[req[r].new].session = token[req[r].new].session
      BY <1>7, NextKeeps, RequestFields
         DEF Next, TokensKept, IInv, Linked, RequestRows, RequestLinked
    <3>2. req[r].pc = "issue" /\ req[r].op = "refresh" =>
            req[r].token \in held /\ Live(req[r].token)'
      <4> SUFFICES ASSUME req[r].pc = "issue", req[r].op = "refresh"
                   PROVE  req[r].token \in held /\ Live(req[r].token)'
        OBVIOUS
      <4>1. req[r].token # t /\ req[r].token \in Tokens
        BY <1>7, RequestTyped DEF ExpireToken, IInv, Idle
      <4>2. token'[req[r].token] = token[req[r].token]
        BY <1>7, <4>1 DEF ExpireToken, IInv, TypeOK
      <4> QED
        BY <1>0, <2>1, <4>2 DEF SerialRequest, Live
    <3>3. req[r].pc = "revoke" => req[r].new # None
      BY RequestTyped DEF IInv, Idle
    <3> QED
      BY <1>0, <2>1, <2>2, <3>1, <3>2, <3>3 DEF SerialRequest
  <2> QED
    BY <2>2, <2>3 DEF Serial
<1>8. ASSUME NEW k \in Resets, ExpireReset(k)
      PROVE  Serial'
  <2>1. held' = held /\ req' = req /\ token' = token
    BY <1>8 DEF ExpireReset
  <2>2. OneTokenPerSession' /\ \A r \in Requests : SerialRequest(r)'
    BY <1>0, <2>1 DEF OneTokenPerSession, SerialRequest, Live
  <2> QED
    BY <2>2 DEF Serial
<1> QED
  BY <1>1, <1>2, <1>3, <1>4, <1>5, <1>6, <1>7, <1>8 DEF Next, Write
LEMMA AloneInvariance == AloneSpec => [](IInv /\ (alone => OneAtATime /\ Serial))
<1> DEFINE AloneInv == alone => OneAtATime /\ Serial
<1>1. AloneInit => IInv /\ AloneInv
  BY InitInv, InitSerial DEF AloneInit, Init, OneAtATime
<1>2. IInv /\ AloneInv /\ [AloneNext]_aloneVars => (IInv /\ AloneInv)'
  <2>1. IInv /\ AloneInv /\ AloneNext => AloneInv'
    BY SerialStep DEF AloneNext, StaysAlone
  <2>2. AloneInv /\ UNCHANGED aloneVars => AloneInv'
    BY DEF Serial, SerialRequest, OneTokenPerSession, Live, At, OneAtATime,
           vars, aloneVars
  <2>3. [AloneNext]_aloneVars => [Next]_vars
    BY DEF AloneNext, aloneVars
  <2> QED
    BY <2>1, <2>2, <2>3, InvStep
<1> QED
  BY <1>1, <1>2, PTL DEF AloneSpec

(* Until two requests overlap, a client never holds two valid tokens of    *)
(* one session, whatever fails between the steps of a rotation.            *)
THEOREM AloneOneToken == AloneSpec => []AloneOneTokenPerSession
<1>1. (alone => OneAtATime /\ Serial) => AloneOneTokenPerSession
  BY DEF Serial, AloneOneTokenPerSession
<1> QED
  BY <1>1, AloneInvariance, PTL

(***************************************************************************)
(* Reset tokens.  The transaction that changes a password marks the token  *)
(* in the same step, no step takes the mark away, and no handler begins    *)
(* with a marked token: a request that could spend one twice has read it   *)
(* before the mark.                                                        *)
(***************************************************************************)
SpentMarked == \A k \in spent : k \in Resets /\ reset[k] # None /\ reset[k].used

LEMMA MarksKept ==
    ASSUME IInv, Next, NEW k \in Resets, reset[k] # None, reset[k].used
    PROVE  reset'[k] # None /\ reset'[k].used
<1>1. reset[k] \in PasswordResetToken
  BY RowTyped DEF IInv
<1>2. CASE \E r \in Requests : WriteReset(r)
  BY <1>2 DEF WriteReset, IInv, TypeOK
<1>3. ASSUME NEW r \in Requests, WritePassword(r)
      PROVE  reset'[k] # None /\ reset'[k].used
  <2>1. reset' = [reset EXCEPT ![req[r].reset].used = TRUE]
    BY <1>3 DEF WritePassword
  <2>2. [reset[k] EXCEPT !.used = TRUE] \in PasswordResetToken /\ [reset[k] EXCEPT !.used = TRUE].used
    BY <1>1 DEF PasswordResetToken
  <2>3. reset'[k] \in {reset[k], [reset[k] EXCEPT !.used = TRUE]}
    BY <2>1 DEF IInv, TypeOK
  <2> QED
    BY <2>2, <2>3, SessionAssumption
<1>4. ASSUME NEW j \in Resets, ExpireReset(j)
      PROVE  reset'[k] # None /\ reset'[k].used
  <2>1. j # k
    BY <1>4 DEF ExpireReset, Valid
  <2> QED
    BY <1>4, <2>1 DEF ExpireReset, IInv, TypeOK
<1>5. CASE UNCHANGED reset
  BY <1>5
<1> QED
  BY <1>2, <1>3, <1>4, <1>5, ReadKeeps
     DEF Next, Write, WriteUser, RefuseUser, IssueToken, RevokeOld, Logout, Reply, Fails, Crash,
         ExpireToken

(* A step of a request leaves the other requests where they are. *)
LEMMA OneMoves ==
    ASSUME IInv, NEW q \in Requests, Read(q) \/ Write(q) \/ Reply(q) \/ Fails(q),
           NEW r \in Requests \ {q}
    PROVE  req'[r] = req[r]
<1>1. req \in [Requests -> Request]
  BY DEF IInv, TypeOK
<1>2. CASE Read(q)
  <2>1. ASSUME NEW op, NEW pc, NEW u, Accept(q, op, pc, u) PROVE req'[r] = req[r]
    BY <1>1, <2>1 DEF Accept
  <2>2. ASSUME NEW op, NEW pc, NEW u, NEW t, NEW k, Present(q, op, pc, u, t, k)
        PROVE  req'[r] = req[r]
    BY <1>1, <2>2 DEF Present
  <2> QED
    BY <1>2, <2>1, <2>2
       DEF Read, ReadForRegister, ReadForForgot, ReadForSession, ReadForRefresh, ReadForReset
<1>3. CASE WriteUser(q) \/ RefuseUser(q) \/ RevokeOld(q) \/ WritePassword(q) \/ Reply(q) \/ Fails(q)
  BY <1>1, <1>3 DEF WriteUser, RefuseUser, RevokeOld, WritePassword, Reply, Fails
<1>4. CASE IssueToken(q)
  BY <1>1, <1>4 DEF IssueToken
<1>5. CASE WriteReset(q)
  BY <1>1, <1>5 DEF WriteReset
<1>6. ASSUME NEW t \in Tokens, Logout(q, t) PROVE req'[r] = req[r]
  BY <1>1, <1>6 DEF Logout
<1> QED
  BY <1>2, <1>3, <1>4, <1>5, <1>6 DEF Write

(* Who is about to change a password has just read its token as unused, or *)
(* was already about to.                                                   *)
LEMMA ResettingBegins ==
    ASSUME IInv, Next, NEW r \in Requests, Resetting(r)'
    PROVE  \/ Resetting(r) /\ req'[r].reset = req[r].reset
           \/ /\ ~reset[req'[r].reset].used
              /\ UNCHANGED reset /\ \A q \in Requests : ~Spends(q)
<1> USE SessionAssumption
<1>1. ASSUME req'[r] # req[r]
      PROVE  \E k \in Resets : ReadForReset(r, k)
  <2>1. \A q \in Requests \ {r} : ~ (Read(q) \/ Write(q) \/ Reply(q) \/ Fails(q))
    BY <1>1, OneMoves
  <2>2. ~Crash /\ \A t \in Tokens : ~ExpireToken(t)
    BY <1>1 DEF Crash, ExpireToken, Resetting, At, Idle
  <2>3. \A k \in Resets : ~ExpireReset(k)
    BY <1>1 DEF ExpireReset
  <2>4. ~ (Reply(r) \/ Fails(r))
    BY DEF Reply, Fails, Resetting, At, Idle, IInv, TypeOK
  <2>5. req[r] \in Request
    BY DEF IInv, TypeOK
  <2>6. ~Write(r)
    <3>1. ~ (WriteUser(r) \/ RefuseUser(r) \/ RevokeOld(r) \/ WritePassword(r))
      BY <2>5 DEF WriteUser, RefuseUser, RevokeOld, WritePassword, Resetting, At, Idle, IInv, TypeOK,
           Request
    <3>2. ~IssueToken(r)
      <4> SUFFICES ASSUME IssueToken(r) PROVE FALSE
        OBVIOUS
      <4>1. PICK t \in Tokens :
               req' = [req EXCEPT ![r].new = t,
                                  ![r].pc = IF req[r].op = "refresh" THEN "revoke" ELSE "reply"]
        BY DEF IssueToken
      <4> QED
        BY <2>5, <4>1 DEF Resetting, At, Idle, IInv, TypeOK, Request
    <3>3. ~WriteReset(r)
      <4> SUFFICES ASSUME WriteReset(r) PROVE FALSE
        OBVIOUS
      <4>1. PICK k \in Resets : req' = [req EXCEPT ![r].pc = "reply", ![r].reset = k]
        BY DEF WriteReset
      <4> QED
        BY <2>5, <4>1 DEF Resetting, At, Idle, IInv, TypeOK, Request
    <3>4. \A t \in Tokens : ~Logout(r, t)
      <4> SUFFICES ASSUME NEW t \in Tokens, Logout(r, t) PROVE FALSE
        OBVIOUS
      <4>1. req'[r].pc = "reply"
        BY DEF Logout, Idle, IInv, TypeOK
      <4> QED
        BY <4>1 DEF Resetting, At
    <3> QED
      BY <3>1, <3>2, <3>3, <3>4 DEF Write
  <2>7. Read(r)
    BY <2>1, <2>2, <2>3, <2>4, <2>6 DEF Next
  <2>8. ASSUME NEW op, NEW pc, NEW u, Accept(r, op, pc, u) PROVE op = "reset"
    BY <2>8 DEF Accept, Resetting, At, Idle, IInv, TypeOK
  <2>9. ASSUME NEW op, NEW pc, NEW u, NEW t, NEW k, Present(r, op, pc, u, t, k) PROVE op = "reset"
    BY <2>9 DEF Present, Resetting, At, Idle, IInv, TypeOK
  <2> QED
    BY <2>7, <2>8, <2>9
       DEF Read, ReadForRegister, ReadForSession, ReadForForgot, ReadForRefresh
<1>2. CASE req'[r] = req[r]
  BY <1>2 DEF Resetting, At
<1>3. ASSUME NEW k \in Resets, ReadForReset(r, k)
      PROVE  /\ ~reset[req'[r].reset].used
             /\ UNCHANGED reset /\ \A q \in Requests : ~Spends(q)
  <2>1. req[r] = Idle /\ req' = [req EXCEPT ![r] = [Idle EXCEPT !.pc = "write", !.op = "reset",
                              !.user = reset[k].user, !.token = None, !.reset = k]]
    BY <1>3 DEF ReadForReset, Present
  <2>2. req'[r].reset = k /\ req'[r].pc = "write" /\ \A q \in Requests \ {r} : req'[q] = req[q]
    BY <2>1 DEF IInv, TypeOK, Idle
  <2> QED
    BY <1>3, <2>2 DEF ReadForReset, Present, Valid, Spends, Resetting, At
<1> QED
  BY <1>1, <1>2, <1>3

(* Only the transaction of resetPassword spends a token. *)
LEMMA SpendsWrites ==
    ASSUME IInv, Next, NEW r \in Requests, Spends(r)
    PROVE  WritePassword(r)
<1>1. At(r, "reset", "write") /\ At(r, "reset", "reply")'
  BY DEF Spends, Resetting
<1>2. \A q \in Requests \ {r} : ~ (Read(q) \/ Write(q) \/ Reply(q) \/ Fails(q))
  BY <1>1, OneMoves DEF At
<1>3. ~Crash /\ (\A t \in Tokens : ~ExpireToken(t)) /\ (\A k \in Resets : ~ExpireReset(k))
  BY <1>1 DEF Crash, ExpireToken, ExpireReset, At, Idle
<1>4. ~Read(r) /\ ~Reply(r) /\ ~Fails(r)
  <2>1. req[r] # Idle /\ req'[r] # Idle
    BY <1>1 DEF At, Idle
  <2>2. ~Read(r)
    BY <2>1 DEF Read, ReadForRegister, ReadForSession, ReadForForgot, ReadForRefresh, ReadForReset,
         Accept, Present
  <2> QED
    BY <2>1, <2>2 DEF Reply, Fails, IInv, TypeOK
<1>5. ~WriteUser(r) /\ ~RefuseUser(r) /\ ~IssueToken(r) /\ ~RevokeOld(r) /\ ~WriteReset(r)
      /\ \A t \in Tokens : ~Logout(r, t)
  <2>1. req[r].op = "reset" /\ req[r].pc = "write" /\ req[r] # Idle
    BY <1>1 DEF At, Idle
  <2>2. ~WriteUser(r) /\ ~RefuseUser(r) /\ ~WriteReset(r)
    BY <2>1 DEF At, WriteUser, RefuseUser, WriteReset
  <2>3. ~IssueToken(r) /\ ~RevokeOld(r)
    BY <2>1 DEF IssueToken, RevokeOld
  <2>4. \A t \in Tokens : ~Logout(r, t)
    BY <2>1 DEF Logout
  <2> QED
    BY <2>2, <2>3, <2>4
<1> QED
  BY <1>2, <1>3, <1>4, <1>5 DEF Next, Write

(* A reset token changes a password once, for any number of overlapping    *)
(* requests, whatever fails; only a request that had read the token before *)
(* it was spent can change the password with it again.                     *)
THEOREM ResetOnceUnlessRaced == AloneSpec => []ResetTokenSpentOnceUnlessRaced
<1> DEFINE Inv == SpentMarked /\ ResetTokenSpentOnceUnlessRaced
<1>1. AloneInit => Inv
  BY DEF AloneInit, SpentMarked, ResetTokenSpentOnceUnlessRaced
<1>2. IInv /\ Inv /\ [AloneNext]_aloneVars => Inv'
  <2>1. ASSUME IInv, Inv, AloneNext PROVE SpentMarked'
    <3> SUFFICES ASSUME NEW k \in spent'
                 PROVE  k \in Resets /\ reset'[k] # None /\ reset'[k].used
      BY DEF SpentMarked
    <3>1. CASE k \in spent
      BY <2>1, <3>1, MarksKept DEF SpentMarked, AloneNext
    <3>2. CASE k \notin spent
      <4>1. PICK r \in Requests : Spends(r) /\ k = req[r].reset
        BY <2>1, <3>2 DEF AloneNext, RemembersSpent
      <4>2. WritePassword(r)
        BY <2>1, <4>1, SpendsWrites DEF AloneNext
      <4>3. req[r] # Idle /\ k \in Resets
        BY <2>1, <4>1, RequestTyped DEF IInv, Spends, Resetting, At, Idle
      <4>4. reset[k] # None /\ reset[k] \in PasswordResetToken
        BY <2>1, <4>1, <4>3, RowTyped, SessionAssumption
           DEF IInv, Linked, RequestRows, RequestLinked
      <4>5. reset'[k] = [reset[k] EXCEPT !.used = TRUE]
        BY <2>1, <4>1, <4>2, <4>3 DEF WritePassword, IInv, TypeOK
      <4>6. [reset[k] EXCEPT !.used = TRUE] \in PasswordResetToken /\ [reset[k] EXCEPT !.used = TRUE].used
        BY <4>4 DEF PasswordResetToken
      <4> QED
        BY <4>3, <4>5, <4>6, SessionAssumption
    <3> QED
      BY <3>1, <3>2
  <2>2. ASSUME IInv, Inv, AloneNext PROVE ResetTokenSpentOnceUnlessRaced'
    <3> SUFFICES ASSUME NEW r \in Requests, Resetting(r)', req'[r].reset \in spent'
                 PROVE  r \in raced'
      BY DEF ResetTokenSpentOnceUnlessRaced
    <3>1. CASE Resetting(r) /\ req'[r].reset = req[r].reset
      BY <2>2, <3>1 DEF AloneNext, RemembersSpent, ResetTokenSpentOnceUnlessRaced
    <3>2. CASE ~reset[req'[r].reset].used /\ UNCHANGED reset /\ \A q \in Requests : ~Spends(q)
      <4>1. spent' = spent
        BY <2>2, <3>2 DEF AloneNext, RemembersSpent
      <4> QED
        BY <2>2, <3>2, <4>1 DEF SpentMarked
    <3> QED
      BY <2>2, <3>1, <3>2, ResettingBegins DEF AloneNext
  <2>3. ASSUME Inv, UNCHANGED aloneVars PROVE Inv'
    BY <2>3 DEF aloneVars, vars, SpentMarked, ResetTokenSpentOnceUnlessRaced, Resetting, At
  <2> QED
    BY <2>1, <2>2, <2>3
<1>3. AloneSpec => []IInv
  BY AloneInvariance, PTL
<1> QED
  BY <1>1, <1>2, <1>3, PTL DEF AloneSpec

(***************************************************************************)
(* The refinement.  The user of a session is that of any of its tokens.    *)
(***************************************************************************)
LEMMA UserOfToken ==
    ASSUME TypeOK, OneUser, NEW t \in Tokens, token[t] # None
    PROVE  UserOf(token[t].session) = token[t].user
<1>1. token[t].user \in Users
  BY RowTyped DEF RefreshToken
<1>2. \A u \in Users :
        (\E x \in Tokens : token[x] # None /\ token[x].session = token[t].session
                          /\ token[x].user = u) <=> u = token[t].user
  BY <1>1 DEF OneUser
<1> QED
  BY <1>1, <1>2 DEF UserOf

LEMMA UserKept ==
    ASSUME IInv, Next, NEW s \in SessionIds, s \notin Unnamed
    PROVE  /\ s \notin Unnamed'
           /\ UserOf(s)' = UserOf(s)
           /\ UserOf(s) \in Users
<1>1. PICK t \in Tokens : token[t] # None /\ token[t].session = s
  BY DEF Unnamed
<1>2. token'[t] # None /\ token'[t].session = s /\ token'[t].user = token[t].user
  BY <1>1, NextKeeps DEF TokensKept
<1>3. UserOf(s) = token[t].user
  BY <1>1, UserOfToken DEF IInv, Linked
<1>4. TypeOK' /\ OneUser'
  BY InvStep DEF IInv, Linked
<1>5. UserOf(s)' = token'[t].user
  <2>1. \A u \in Users :
          (\E x \in Tokens : token'[x] # None /\ token'[x].session = s
                            /\ token'[x].user = u) <=> u = token'[t].user
    BY <1>1, <1>2, <1>4, RowTyped DEF OneUser, RefreshToken, IInv
  <2>2. token'[t].user \in Users
    BY <1>1, <1>2, RowTyped DEF RefreshToken, IInv
  <2> QED
    BY <2>1, <2>2 DEF UserOf
<1> QED
  BY <1>1, <1>2, <1>3, <1>5, RowTyped DEF Unnamed, RefreshToken, IInv

LEMMA SessionRecord ==
    ASSUME NEW u \in Users
    PROVE  /\ [user |-> u, open |-> TRUE] \in [user : Users, open : BOOLEAN]
           /\ [user |-> u, open |-> FALSE] \in [user : Users, open : BOOLEAN]
           /\ [[user |-> u, open |-> TRUE] EXCEPT !.open = FALSE] = [user |-> u, open |-> FALSE]
           /\ [[user |-> u, open |-> FALSE] EXCEPT !.open = FALSE] = [user |-> u, open |-> FALSE]
<1>1. [user |-> u, open |-> TRUE] \in [user : Users, open : BOOLEAN]
  OBVIOUS
<1>2. [user |-> u, open |-> FALSE] \in [user : Users, open : BOOLEAN]
  OBVIOUS
<1>3. \A b, c : [[user |-> u, open |-> b] EXCEPT !.open = c] = [user |-> u, open |-> c]
  OBVIOUS
<1>4. /\ [[user |-> u, open |-> TRUE] EXCEPT !.open = FALSE] = [user |-> u, open |-> FALSE]
      /\ [[user |-> u, open |-> FALSE] EXCEPT !.open = FALSE] = [user |-> u, open |-> FALSE]
  BY <1>3, Zenon
<1> QED
  BY <1>1, <1>2, <1>4

(* A step after which no session is open that was not before ends sessions. *)
LEMMA CloseStep ==
    ASSUME IInv, Next, UNCHANGED password,
           \A s \in SessionIds : s \in Unnamed' <=> s \in Unnamed,
           \A s \in SessionIds : Usable(s)' # {} => Usable(s) # {}
    PROVE  Life!Close
<1> DEFINE S == {s \in SessionIds : s \notin Unnamed /\ Usable(s)' = {}}
<1> DEFINE sess == [s \in SessionIds |-> SessionOf(s)]
<1>1. \A s \in SessionIds : sess[s] = SessionOf(s) /\ sess'[s] = SessionOf(s)'
  OBVIOUS
<1>2. \A s \in SessionIds : s \notin Unnamed =>
        /\ SessionOf(s) = [user |-> UserOf(s), open |-> Usable(s) # {}]
        /\ SessionOf(s)' = [user |-> UserOf(s), open |-> Usable(s)' # {}]
        /\ SessionOf(s) # None
  <2>1. ASSUME NEW s \in SessionIds, s \notin Unnamed
        PROVE  /\ SessionOf(s) = [user |-> UserOf(s), open |-> Usable(s) # {}]
               /\ SessionOf(s)' = [user |-> UserOf(s), open |-> Usable(s)' # {}]
               /\ UserOf(s) \in Users
    BY <2>1, UserKept DEF SessionOf
  <2>2. ASSUME NEW s \in SessionIds, s \notin Unnamed
        PROVE  SessionOf(s) # None
    <3>1. SessionOf(s) \in {[user |-> UserOf(s), open |-> TRUE], [user |-> UserOf(s), open |-> FALSE]}
      <4>1. (Usable(s) # {}) = TRUE \/ (Usable(s) # {}) = FALSE
        OBVIOUS
      <4> QED
        BY <2>1, <2>2, <4>1
    <3>2. SessionOf(s) \in [user : Users, open : BOOLEAN]
      BY <2>1, <2>2, <3>1, SessionRecord
    <3> QED
      BY <3>2, SessionAssumption
  <2> QED
    BY <2>1, <2>2
<1>3. \A s \in SessionIds : s \in Unnamed => SessionOf(s) = None /\ SessionOf(s)' = None
  BY DEF SessionOf
<1>4. S \in SUBSET {s \in SessionIds : sess[s] # None}
  BY <1>1, <1>2
<1>5. sess' = [s \in SessionIds |-> IF s \in S THEN [sess[s] EXCEPT !.open = FALSE] ELSE sess[s]]
  <2>1. ASSUME NEW s \in SessionIds
        PROVE  SessionOf(s)' = IF s \in S THEN [SessionOf(s) EXCEPT !.open = FALSE]
                               ELSE SessionOf(s)
    <3>1. CASE s \in Unnamed
      BY <1>3, <3>1
    <3>2. CASE s \notin Unnamed /\ Usable(s)' = {}
      <4>1. (Usable(s)' # {}) = FALSE
        BY <3>2
      <4>2. SessionOf(s)' = [user |-> UserOf(s), open |-> FALSE]
        BY <1>2, <3>2, <4>1
      <4>3. SessionOf(s) \in {[user |-> UserOf(s), open |-> TRUE], [user |-> UserOf(s), open |-> FALSE]}
        <5>1. (Usable(s) # {}) = TRUE \/ (Usable(s) # {}) = FALSE
          OBVIOUS
        <5> QED
          BY <1>2, <3>2, <5>1
      <4>4. s \in S
        BY <3>2
      <4> QED
        BY <3>2, <4>2, <4>3, <4>4, UserKept, SessionRecord
    <3>3. CASE s \notin Unnamed /\ Usable(s)' # {}
      BY <1>2, <3>3
    <3> QED
      BY <3>1, <3>2, <3>3
  <2> QED
    BY <1>1, <2>1
<1> HIDE DEF S
<1> QED
  BY <1>4, <1>5 DEF Life!Close, Life!Ended, Life!Begun
LEMMA UnnamedKept ==
    ASSUME IInv, Next, \A r \in Requests : ~IssueToken(r)
    PROVE  \A s \in SessionIds : s \in Unnamed' <=> s \in Unnamed
<1>1. \A t \in Tokens : token'[t] # None <=> token[t] # None
  BY NextKeeps DEF NoneAdded, WriteReset, TokensKept
<1>2. \A t \in Tokens : token[t] # None => token'[t].session = token[t].session
  BY NextKeeps DEF TokensKept
<1> QED
  BY <1>1, <1>2 DEF Unnamed

(* Registration: the password appears, no session begins. *)
LEMMA RegisterStep ==
    ASSUME IInv, NEW r \in Requests, WriteUser(r)
    PROVE  \E u \in Users : Life!Register(u)
<1>1. req[r].user \in Users
  BY RequestTyped DEF IInv, WriteUser, At, Idle
<1>2. \A q \in Requests : req'[q].new = req[q].new
  <2>1. req[r] \in Request
    BY DEF IInv, TypeOK
  <2> QED
    BY <2>1 DEF WriteUser, IInv, TypeOK, Request, Idle
<1>3. UNCHANGED <<token, held>>
  BY DEF WriteUser
<1>4. \A s \in SessionIds : SessionOf(s)' = SessionOf(s)
  <2> TAKE s \in SessionIds
  <2>1. Unnamed' = Unnamed
    BY <1>3 DEF Unnamed
  <2>2. UserOf(s)' = UserOf(s)
    BY <1>3 DEF UserOf
  <2>3. Usable(s)' = Usable(s)
    BY <1>2, <1>3 DEF Usable, Live
  <2> QED
    BY <2>1, <2>2, <2>3 DEF SessionOf
<1> QED
  BY <1>1, <1>4 DEF Life!Register, WriteUser

(* A token for a new session opens it; one for a session that is open changes nothing. *)
LEMMA IssueStep ==
    ASSUME IInv, Serial, NEW r \in Requests, IssueToken(r)
    PROVE  Life!Close \/ \E s \in SessionIds, u \in Users : Life!Open(s, u)
<1> DEFINE sess == [s \in SessionIds |-> SessionOf(s)]
<1>1. Next /\ UNCHANGED password
  BY DEF Next, Write, IssueToken
<1>2. req[r] # Idle /\ req[r].user \in Users /\ ~At(r, "register", "write")
  BY RequestTyped DEF IInv, IssueToken, Idle, At
<1>3. password[req[r].user] # None
  BY <1>2 DEF IInv, Linked, RequestRows, RequestLinked
<1>4. PICK s \in SessionIds :
             /\ \A x \in SessionIds \ {s} : Usable(x)' = Usable(x)
             /\ Usable(s)' # {}
             /\ req[r].op = "refresh" => s = token[req[r].token].session
             /\ req[r].op # "refresh" => s \in Unnamed
             /\ \A x \in SessionIds \ {s} : x \in Unnamed <=> x \in Unnamed'
             /\ s \notin Unnamed'
             /\ \E t \in Tokens : token[t] = None /\ token'[t] # None /\ token'[t].session = s
                                  /\ token'[t].user = req[r].user
  BY UsableIssued
<1>5. CASE req[r].op = "refresh"
  <2>1. req[r].token \in held /\ Live(req[r].token)
    BY <1>5 DEF Serial, SerialRequest, IssueToken
  <2>2. req[r].token \in Tokens
    BY <2>1 DEF IInv, TypeOK
  <2>3. Usable(s) # {} /\ s \notin Unnamed
    BY <1>4, <1>5, <2>1, <2>2 DEF Usable, Unnamed, Live
  <2>4. \A x \in SessionIds : x \in Unnamed' <=> x \in Unnamed
    BY <1>4, <2>3
  <2>5. \A x \in SessionIds : Usable(x)' # {} => Usable(x) # {}
    BY <1>4, <2>3
  <2>6. Life!Close
    BY <1>1, <2>4, <2>5, CloseStep
  <2> QED
    BY <2>6
<1>6. CASE req[r].op # "refresh"
  <2>1. SessionOf(s) = None
    BY <1>4, <1>6 DEF SessionOf
  <2>2. UserOf(s)' = req[r].user
    <3>1. TypeOK' /\ OneUser'
      BY <1>1, InvStep DEF IInv, Linked
    <3>2. PICK t \in Tokens : token'[t] # None /\ token'[t].session = s
                              /\ token'[t].user = req[r].user
      BY <1>4
    <3>3. \A u \in Users :
            (\E x \in Tokens : token'[x] # None /\ token'[x].session = s
                              /\ token'[x].user = u) <=> u = req[r].user
      BY <1>2, <3>1, <3>2 DEF OneUser
    <3> QED
      BY <1>2, <3>3 DEF UserOf
  <2>3. SessionOf(s)' = [user |-> req[r].user, open |-> TRUE]
    <3>1. (Usable(s)' # {}) = TRUE
      BY <1>4
    <3> QED
      BY <1>4, <2>2, <3>1 DEF SessionOf
  <2>4. ASSUME NEW x \in SessionIds \ {s}
        PROVE  SessionOf(x)' = SessionOf(x)
    <3>1. CASE x \in Unnamed
      BY <1>4, <3>1 DEF SessionOf
    <3>2. CASE x \notin Unnamed
      <4>1. UserOf(x)' = UserOf(x) /\ x \notin Unnamed' /\ Usable(x)' = Usable(x)
        BY <1>1, <1>4, <3>2, UserKept
      <4> QED
        BY <3>2, <4>1 DEF SessionOf
    <3> QED
      BY <3>1, <3>2
  <2>5. sess' = [sess EXCEPT ![s] = [user |-> req[r].user, open |-> TRUE]]
    BY <2>3, <2>4
  <2>6. sess[s] = None
    BY <2>1
  <2>7. Life!Open(s, req[r].user)
    BY <1>1, <1>3, <2>5, <2>6 DEF Life!Open
  <2> QED
    BY <1>2, <2>7
<1> QED
  BY <1>5, <1>6

(* A reset changes the password and ends the sessions of its user alone. *)
LEMMA ResetStep ==
    ASSUME IInv, NEW r \in Requests, WritePassword(r)
    PROVE  \E u \in Users : Life!Reset(u)
<1> DEFINE u == req[r].user
<1> DEFINE sess == [s \in SessionIds |-> SessionOf(s)]
<1> DEFINE S == {s \in SessionIds : sess[s] # None /\ sess[s].user = u}
<1>1. Next
  BY DEF Next, Write
<1>2. u \in Users /\ req[r] # Idle /\ ~At(r, "register", "write") /\ req[r].new = None
  BY RequestTyped DEF IInv, WritePassword, Idle, At
<1>3. password[u] # None
  BY <1>2 DEF IInv, Linked, RequestRows, RequestLinked
<1>4. \A s \in SessionIds : s \in Unnamed' <=> s \in Unnamed
  <2>1. \A q \in Requests : IssueToken(q) => UNCHANGED reset
    BY DEF IssueToken
  <2>2. \A t \in Tokens : token'[t] # None <=> token[t] # None
    <3>1. \A t \in Tokens : token[t] = None => token'[t] = None
      BY DEF WritePassword, Revoked
    <3> QED
      BY <1>1, <3>1, NextKeeps DEF TokensKept
  <2>3. \A t \in Tokens : token[t] # None => token'[t].session = token[t].session
    BY <1>1, NextKeeps DEF TokensKept
  <2> QED
    BY <2>2, <2>3 DEF Unnamed
<1>5. \A s \in SessionIds : s \notin Unnamed /\ UserOf(s) = u => Usable(s)' = {}
  <2> SUFFICES ASSUME NEW s \in SessionIds, s \notin Unnamed, UserOf(s) = u,
                      NEW t \in Tokens, Live(t)', token'[t].session = s
               PROVE  FALSE
    BY DEF Usable
  <2>1. token[t] # None
    BY DEF WritePassword, Revoked, Live
  <2>2. token[t].session = s
    BY <1>1, <2>1, NextKeeps DEF TokensKept
  <2>3. token[t].user = u
    BY <2>1, <2>2, UserOfToken DEF IInv, Linked
  <2>4. token'[t].revoked
    BY <2>1, <2>3, RowTyped, RevokedRow DEF WritePassword, Revoked, IInv
  <2> QED
    BY <2>4 DEF Live
<1>6. \A s \in SessionIds : s \notin Unnamed /\ UserOf(s) # u => Usable(s)' = Usable(s)
  <2> SUFFICES ASSUME NEW s \in SessionIds, s \notin Unnamed, UserOf(s) # u
               PROVE  Usable(s)' = Usable(s)
    OBVIOUS
  <2>1. ASSUME NEW t \in Tokens, token[t] # None, token[t].session = s
        PROVE  token'[t] = token[t]
    <3>1. token[t].user # u
      BY <2>1, UserOfToken DEF IInv, Linked
    <3> QED
      BY <2>1, <3>1 DEF WritePassword, Revoked
  <2>2. \A t \in Tokens : Live(t) /\ token[t].session = s <=> (Live(t) /\ token[t].session = s)'
    <3>1. \A t \in Tokens : token[t] # None => token'[t] # None /\ token'[t].session = token[t].session
      BY <1>1, NextKeeps DEF TokensKept
    <3>2. \A t \in Tokens : token[t] = None => token'[t] = None
      BY DEF WritePassword, Revoked
    <3> QED
      BY <2>1, <3>1, <3>2 DEF Live
  <2>3. \A q \in Requests : req'[q].new = req[q].new
    <3>1. req[r] \in Request
      BY DEF IInv, TypeOK
    <3> QED
      BY <3>1 DEF WritePassword, IInv, TypeOK, Request, Idle
  <2>4. held' = held
    BY DEF WritePassword
  <2> QED
    BY <2>2, <2>3, <2>4 DEF Usable
<1>7. ASSUME NEW s \in SessionIds
      PROVE  SessionOf(s)' = IF s \in S THEN [SessionOf(s) EXCEPT !.open = FALSE] ELSE SessionOf(s)
  <2>1. CASE s \in Unnamed
    <3>1. SessionOf(s) = None /\ SessionOf(s)' = None
      BY <1>4, <2>1 DEF SessionOf
    <3>2. s \notin S
      BY <3>1
    <3> QED
      BY <3>1, <3>2
  <2>2. CASE s \notin Unnamed
    <3>1. UserOf(s)' = UserOf(s) /\ s \notin Unnamed' /\ UserOf(s) \in Users
      BY <1>1, <2>2, UserKept
    <3>2. /\ SessionOf(s) = [user |-> UserOf(s), open |-> Usable(s) # {}]
          /\ SessionOf(s)' = [user |-> UserOf(s), open |-> Usable(s)' # {}]
      BY <2>2, <3>1 DEF SessionOf
    <3>3. SessionOf(s) \in {[user |-> UserOf(s), open |-> TRUE], [user |-> UserOf(s), open |-> FALSE]}
      <4>1. (Usable(s) # {}) = TRUE \/ (Usable(s) # {}) = FALSE
        OBVIOUS
      <4> QED
        BY <3>2, <4>1
    <3>4. SessionOf(s) # None /\ SessionOf(s).user = UserOf(s)
      <4>1. SessionOf(s).user = UserOf(s)
        BY <3>2
      <4>2. /\ [user |-> UserOf(s), open |-> TRUE] \in [user : Users, open : BOOLEAN]
            /\ [user |-> UserOf(s), open |-> FALSE] \in [user : Users, open : BOOLEAN]
        BY <3>1
      <4>3. None \notin [user : Users, open : BOOLEAN]
        BY SessionAssumption
      <4>4. SessionOf(s) # None
        BY <3>3, <4>2, <4>3
      <4> QED
        BY <4>1, <4>4
    <3>5. s \in S <=> UserOf(s) = u
      BY <3>4
    <3> HIDE DEF S, u
    <3>6. CASE UserOf(s) = u
      <4>1. (Usable(s)' # {}) = FALSE
        BY <1>5, <2>2, <3>6
      <4>2. SessionOf(s)' = [user |-> UserOf(s), open |-> FALSE]
        BY <3>2, <4>1
      <4> QED
        BY <3>1, <3>3, <3>5, <3>6, <4>2, SessionRecord
    <3>7. CASE UserOf(s) # u
      BY <1>6, <2>2, <3>2, <3>5, <3>7
    <3> QED
      BY <3>6, <3>7
  <2> QED
    BY <2>1, <2>2
<1>8. sess' = [s \in SessionIds |-> IF s \in S THEN [sess[s] EXCEPT !.open = FALSE] ELSE sess[s]]
  BY <1>7
<1>9. S = {s \in {x \in SessionIds : sess[x] # None} : sess[s].user = u}
  OBVIOUS
<1>10. Life!Reset(u)
  BY <1>3, <1>8, <1>9 DEF Life!Reset, Life!Ended, Life!Begun, WritePassword
<1> QED
  BY <1>2, <1>10

(* Where the others are idle every step is a step of SessionLife. *)
LEMMA LifeStep ==
    ASSUME IInv, Serial, Next
    PROVE  Life!Next
<1>1. CASE \E r \in Requests : WriteUser(r)
  BY <1>1, RegisterStep DEF Life!Next
<1>2. CASE \E r \in Requests : IssueToken(r)
  BY <1>2, IssueStep DEF Life!Next
<1>3. CASE \E r \in Requests : WritePassword(r)
  BY <1>3, ResetStep DEF Life!Next
<1>4. CASE \A r \in Requests : ~WriteUser(r) /\ ~IssueToken(r) /\ ~WritePassword(r)
  <2>1. UNCHANGED password
    BY <1>4, ReadKeeps DEF Next, Write, RefuseUser, RevokeOld, Logout, WriteReset, Reply, Fails,
                           Crash, ExpireToken, ExpireReset
  <2>2. \A s \in SessionIds : Usable(s)' \subseteq Usable(s)
    BY <1>4, UsableShrinks
  <2>3. \A s \in SessionIds : s \in Unnamed' <=> s \in Unnamed
    BY <1>4, UnnamedKept
  <2>4. Life!Close
    BY <2>1, <2>2, <2>3, CloseStep
  <2> QED
    BY <2>4 DEF Life!Next
<1> QED
  BY <1>1, <1>2, <1>3, <1>4

(* Until two requests overlap, the handlers implement SessionLife: a       *)
(* session that is over stays over, and a password changes only together   *)
(* with the end of the sessions of its user, whatever fails in between.    *)
THEOREM AloneSessions == AloneSpec => AloneImplementsSessionLife
<1>1. AloneInit => Life!Init
  BY DEF AloneInit, Init, Life!Init, SessionOf, Unnamed
<1>2. IInv /\ (alone => OneAtATime /\ Serial) /\ [AloneNext]_aloneVars =>
        [alone' => [Life!Next]_(Life!vars)]_aloneVars
  BY LifeStep DEF AloneNext, StaysAlone
<1> QED
  BY <1>1, <1>2, AloneInvariance, PTL DEF AloneSpec, AloneImplementsSessionLife
=============================================================================
