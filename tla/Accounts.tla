------------------------------ MODULE Accounts ------------------------------
(***************************************************************************)
(* Users and their refresh tokens: registration, logins, rotation, logout, *)
(* password reset, and what an administrator and the users themselves      *)
(* change.  An access token is a signed copy of the row it was issued from *)
(* and is not looked up again; a refresh token that has expired is one     *)
(* that is not presented any more.  A mechanic's login issues a cookie     *)
(* that no row backs, and changes nothing.                                 *)
(***************************************************************************)
EXTENDS Otp

\* ORM attributes: the UPDATE names the columns whose new value differs from
\* the one that was loaded, and there is none if no column does.
OrmUpdate(p, column, loaded, value) ==
  user' = IF loaded = value THEN user ELSE [user EXCEPT ![p][column] = value]

IssueTokens(by, p, parent, read) ==
  [user |-> p, by |-> by, parent |-> parent, active |-> TRUE,
   enabled |-> p \in Rows(user) => user[p].is_active, read |-> read, born |-> Now]

-----------------------------------------------------------------------------
(***************************************************************************)
(* Registration.                                                           *)
(***************************************************************************)
Register_Read(c) ==
  \E op \in {"register", "register_center"}, p \in Phones :
    /\ Ready(c, op)
    /\ p \notin Rows(user)
    /\ Reads(c, op, "write", p, Null, Null)
    /\ UNCHANGED <<redis, tables, guesses, admitted, log, scene>>

\* The unique phone refuses the second of two; the owner, the centre and the
\* owner's center_id are one transaction with the token.
Register_Write(c) ==
  LET f == req[c] p == req[c].key owner == f.op = "register_center" IN
  /\ At(c, {"register", "register_center"}, "write")
  /\ p \notin Rows(user)
  /\ user' = [user EXCEPT ![p] =
                [role |-> IF owner THEN "owner" ELSE "customer", is_active |-> TRUE,
                 password |-> f.id, center |-> IF owner THEN f.id ELSE Null,
                 profile |-> f.id, avatar |-> 0]]
  /\ token' = [token EXCEPT ![f.id] = IssueTokens("register", p, Null, f.read)]
  /\ Commits(c)
  /\ UNCHANGED <<redis, audit, content, device, feed, guesses, admitted, scene>>

-----------------------------------------------------------------------------
(***************************************************************************)
(* Logins.                                                                 *)
(***************************************************************************)
Authenticate_Disabled(p, password) ==
  /\ p \in Rows(user)
  /\ user[p].password = password

Authenticate(p, password) ==
  /\ p \in Rows(user)
  /\ user[p].password = password
  /\ user[p].is_active

Login_Read(c) ==
  \E p \in Phones, password \in Ids :
    /\ Ready(c, "login")
    /\ Authenticate(p, password)
    /\ Reads(c, "login", "write", p, password, Null)
    /\ UNCHANGED <<redis, tables, guesses, admitted, log, scene>>

Login_Write(c) ==
  LET f == req[c] IN
  /\ At(c, {"login"}, "write")
  /\ token' = [token EXCEPT ![f.id] = IssueTokens("login", f.key, Null, f.read)]
  /\ Commits(c)
  /\ UNCHANGED <<redis, user, audit, content, device, feed, guesses, admitted, scene>>

\* After the code is consumed: a phone that is not registered ends in 404.
\* Nothing asks whether the account is active.
OtpLogin(c) ==
  LET f == req[c] IN
  /\ At(c, {"otp_verify"}, "admit")
  /\ IF f.key \in Rows(user)
     THEN /\ token' = [token EXCEPT ![f.id] =
                         IssueTokens("otp_verify", f.key, Null, Len(log))]
          /\ Commits(c)
     ELSE Ends(c) /\ UNCHANGED token
  /\ UNCHANGED <<redis, user, audit, content, device, feed, guesses, admitted, scene>>

-----------------------------------------------------------------------------
(***************************************************************************)
(* Rotation and logout.                                                    *)
(***************************************************************************)
GetActiveRefresh(t) == t \in Rows(token) /\ token[t].active

RevokeRefresh(tokens, t) == [tokens EXCEPT ![t].active = FALSE]

RotateRefresh_Read(c) ==
  \E t \in Ids :
    /\ Ready(c, "refresh")
    /\ GetActiveRefresh(t)
    /\ user[token[t].user].is_active
    /\ Reads(c, "refresh", "write", t, Null, user[token[t].user])
    /\ UNCHANGED <<redis, tables, guesses, admitted, log, scene>>

\* revoke_refresh may find the token revoked by now; its count is not looked at.
RotateRefresh_Write(c) ==
  LET f == req[c] IN
  /\ At(c, {"refresh"}, "write")
  /\ token' = [RevokeRefresh(token, f.key) EXCEPT
                 ![f.id] = IssueTokens("refresh", token[f.key].user, f.key, f.read)]
  /\ Commits(c)
  /\ UNCHANGED <<redis, user, audit, content, device, feed, guesses, admitted, scene>>

Logout(c) ==
  \E t \in Rows(token) :
    /\ Ready(c, "logout")
    /\ token' = RevokeRefresh(token, t)
    /\ CommitsAtOnce("logout", t)
    /\ UNCHANGED <<redis, user, audit, content, device, feed, guesses, admitted, scene>>

-----------------------------------------------------------------------------
(***************************************************************************)
(* Password reset, once the code is consumed.                              *)
(***************************************************************************)
RevokeAllUserRefresh_Logins(p) ==
  [t \in Ids |-> IF t \in Rows(token) /\ token[t].user = p /\ token[t].parent = Null
                 THEN [token[t] EXCEPT !.active = FALSE] ELSE token[t]]

RevokeAllUserRefresh(p) ==
  [t \in Ids |-> IF t \in Rows(token) /\ token[t].user = p
                 THEN [token[t] EXCEPT !.active = FALSE] ELSE token[t]]

ResetPassword(c) ==
  LET f == req[c] IN
  /\ At(c, {"reset_confirm"}, "admit")
  /\ user' = [user EXCEPT ![f.key].password = f.id]
  /\ token' = RevokeAllUserRefresh(f.key)
  /\ Commits(c)
  /\ UNCHANGED <<redis, audit, content, device, feed, guesses, admitted, scene>>

-----------------------------------------------------------------------------
(***************************************************************************)
(* The administrator's changes, each with its audit row, and the users'.   *)
(***************************************************************************)
Record(p, column, before, after, read) ==
  audit' = Append(audit, [user |-> p, column |-> column, before |-> before,
                          after |-> after, read |-> read, at |-> Now])

AdminValues_Unvalidated(column) == IF column = "role" THEN {"owner", "guest"} ELSE BOOLEAN

\* The body's role is validated; any truth value is accepted for is_active.
AdminValues(column) == IF column = "role" THEN {"customer", "owner"} ELSE BOOLEAN
Column(op) == IF op = "change_role" THEN "role" ELSE "is_active"

AdminChange_Read(c) ==
  \E op \in {"change_role", "set_active"}, p \in Rows(user) :
    \E value \in AdminValues(Column(op)) :
      /\ Ready(c, op)
      /\ Reads(c, op, "write", p, value, user[p])
      /\ UNCHANGED <<redis, tables, guesses, admitted, log, scene>>

AdminChange_Write(c) ==
  LET f == req[c] column == Column(req[c].op) IN
  /\ At(c, {"change_role", "set_active"}, "write")
  /\ OrmUpdate(f.key, column, f.snap[column], f.args)
  /\ Record(f.key, column, f.snap[column], f.args, f.read)
  /\ Commits(c)
  /\ UNCHANGED <<redis, token, content, device, feed, guesses, admitted, scene>>

\* patch_me: one UPDATE of the columns it was given.
PatchMe(c) ==
  \E p \in Rows(user) :
    /\ Ready(c, "patch_me")
    /\ user' = [user EXCEPT ![p].profile = arrived + 1]
    /\ CommitsAtOnce("patch_me", p)
    /\ UNCHANGED <<redis, token, audit, content, device, feed, guesses, admitted, scene>>

SetAvatar_Read(c) ==
  \E p \in Rows(user) :
    /\ Ready(c, "set_avatar")
    /\ Reads(c, "set_avatar", "write", p, Null, user[p])
    /\ UNCHANGED <<redis, tables, guesses, admitted, log, scene>>

SetAvatar_Write_Row(c) ==
  /\ At(c, {"set_avatar"}, "write")
  /\ user' = [user EXCEPT ![req[c].key] = [req[c].snap EXCEPT !.avatar = req[c].id]]
  /\ Commits(c)
  /\ UNCHANGED <<redis, token, audit, content, device, feed, guesses, admitted, scene>>

SetAvatar_Write(c) ==
  LET f == req[c] IN
  /\ At(c, {"set_avatar"}, "write")
  /\ OrmUpdate(f.key, "avatar", f.snap.avatar, f.id)
  /\ Commits(c)
  /\ UNCHANGED <<redis, token, audit, content, device, feed, guesses, admitted, scene>>

AccountsNext(c) ==
  \/ Register_Read(c) \/ Register_Write(c)
  \/ Login_Read(c) \/ Login_Write(c) \/ OtpLogin(c)
  \/ RotateRefresh_Read(c) \/ RotateRefresh_Write(c) \/ Logout(c)
  \/ ResetPassword(c)
  \/ AdminChange_Read(c) \/ AdminChange_Write(c)
  \/ PatchMe(c) \/ SetAvatar_Read(c) \/ SetAvatar_Write(c)
=============================================================================
