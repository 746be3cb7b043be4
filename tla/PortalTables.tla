---------------------------- MODULE PortalTables ----------------------------
(***************************************************************************)
(* What the platform keeps of its users between requests: their rows and   *)
(* sessions in PostgreSQL, one-time passwords and cached pages in Redis.   *)
(*                                                                         *)
(* A request reads, and later writes and commits in one step, whatever     *)
(* others do in between.  A handler that calls Redis gives way at every    *)
(* call, so each call is a step.  A request that is refused (400 to 422)   *)
(* before it changed anything is no step; one that raises, or whose        *)
(* worker dies, ends with Abort: the database rolls back, Redis does not.  *)
(*                                                                         *)
(* Ghosts: `log` is the order of the commits; `disturbed` names what two   *)
(* requests had in hand at once, or what expired or was let go of in       *)
(* somebody's hands.                                                       *)
(***************************************************************************)
EXTENDS Integers, Sequences, FiniteSets

CONSTANTS
  Phones,                            \* users, by their unique phone
  Slugs, DeviceTokens,
  Sockets,                           \* WebSockets
  Clients,                           \* requests in flight at a time
  Scenes,                            \* bound: which kinds of request meet in a behaviour
  MaxAttempts,                       \* OTP_MAX_ATTEMPTS
  MaxReq,                            \* bound: requests
  Null

ASSUME PortalAssumption ==
  MaxAttempts \in Nat \ {0} /\ MaxReq \in Nat /\ Phones # {}

Ids == 0 .. MaxReq                   \* 0: what was there before
Roles == {"customer", "mechanic", "owner", "admin"}

VARIABLES
  otp, lock,                         \* otp:{phone}, otp:lock:{phone}
  user, token, audit,                \* users, refresh_tokens, audit_logs
  page, cache,                       \* content_pages, content:{kind}:{lang}
  device,                            \* devices
  sock, published,                   \* WebSockets, events of their channel
  req,                               \* per client: the request in flight
  arrived,                           \* requests so far
  guesses, admitted,                 \* per code: wrong guesses, requests let in
  log, disturbed, scene

redis == <<otp, lock>>
accounts == <<user, token, audit>>
content == <<page, cache>>
feed == <<sock, published>>
tables == <<accounts, content, device, feed>>
ghosts == <<arrived, guesses, admitted, log, disturbed, scene>>
vars == <<redis, tables, req, ghosts>>

\* The code is named by the request that issued it; Null in a record that
\* only a late count of attempts created.
OtpRecord == [code : Ids \cup {Null}, attempts : Nat, ttl : BOOLEAN]

\* Columns that requests write by themselves are named by the last writer.
User == [role : Roles, is_active : BOOLEAN, password : Ids,
         center : Ids \cup {Null}, profile : Ids, avatar : Ids]

\* A refresh token, by the request that issued it: what issued it, the token
\* it was rotated from, and (for the properties) whether the account was
\* active, when the request read and when it committed.
RefreshToken == [user : Phones, by : {"login", "otp_verify", "register", "refresh"},
                 parent : Ids \cup {Null}, active : BOOLEAN,
                 enabled : BOOLEAN, read : Nat, born : Nat]

AuditOf(column, values) == [user : Phones, column : {column}, before : values,
                            after : values, read : Nat, at : Nat]

ContentPage == [slug : Slugs, edit : Ids]
Device == [user : Phones, token : DeviceTokens, platform : Ids]

ASSUME RowAssumption ==
  Null \notin Ids /\ Null \notin OtpRecord /\ Null \notin User /\ Null \notin RefreshToken

Rows(table) == {k \in DOMAIN table : table[k] # Null}

-----------------------------------------------------------------------------
Idle == [op |-> "idle"]
InFlight == {c \in Clients : req[c] # Idle}
HasInHand(c, key) == req[c] # Idle /\ req[c].key = key
InHand(key) == \E c \in Clients : HasInHand(c, key)

Ready(c, op) == req[c] = Idle /\ arrived < MaxReq /\ op \in scene

\* A request for key has read: it keeps snap and goes on at step.
Reads(c, op, step, key, args, snap) ==
  /\ arrived' = arrived + 1
  /\ req' = [req EXCEPT ![c] = [op |-> op, id |-> arrived + 1, step |-> step,
                                key |-> key, args |-> args, snap |-> snap,
                                read |-> Len(log)]]
  /\ disturbed' = disturbed \cup {k \in {key} : InHand(k)}

\* The request goes on at its next call.
Continues(c, step) ==
  /\ req' = [req EXCEPT ![c].step = step, ![c].read = Len(log)]
  /\ UNCHANGED <<arrived, log, disturbed>>

Ends(c) ==
  /\ req' = [req EXCEPT ![c] = Idle]
  /\ UNCHANGED <<arrived, log, disturbed>>

\* The request commits and ends.
Commits(c) ==
  /\ req' = [req EXCEPT ![c] = Idle]
  /\ log' = Append(log, [id |-> req[c].id, op |-> req[c].op, key |-> req[c].key])
  /\ UNCHANGED <<arrived, disturbed>>

\* A request of a single statement: it arrives and commits.
CommitsAtOnce(op, key) ==
  /\ arrived' = arrived + 1
  /\ log' = Append(log, [id |-> arrived + 1, op |-> op, key |-> key])
  /\ UNCHANGED <<req, disturbed>>

Now == Len(log) + 1                  \* the commit being made

\* get_db, the except branch; a dying worker.
Abort(c) ==
  /\ req[c] # Idle
  /\ req' = [req EXCEPT ![c] = Idle]
  /\ disturbed' = disturbed \cup {req[c].key}
  /\ UNCHANGED <<redis, tables, arrived, guesses, admitted, log, scene>>
=============================================================================
