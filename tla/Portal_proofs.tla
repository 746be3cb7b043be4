---------------------------- MODULE Portal_proofs ----------------------------
(***************************************************************************)
(* Proofs about Portal for any number of phones, requests in flight, pages *)
(* and sockets, and whichever kinds of request meet: every safety property *)
(* that the run checks.                                                    *)
(*                                                                         *)
(* The argument.  A request that is under way is of its kind, has an id of *)
(* its own and read what is still there (Tables).  A token never becomes   *)
(* active again, and a rotation in flight read its token before whatever   *)
(* ended it.  A login in flight saw an active account, or its disabling is *)
(* in the log after the read.  A code is stored once, by the request that  *)
(* names it, and sits at one phone: records, comparisons, wrong guesses    *)
(* and admissions of it all come later (Codes).  What one request at a     *)
(* time had in hand goes through the steps of that request in order        *)
(* (Undisturbed).  What an administrator saw of a column is still there,   *)
(* or the trail says who overtook (Trail).                                 *)
(***************************************************************************)
EXTENDS Portal, TLAPS

OtpOps == Issues \cup Verifies
RegisterOps == {"register", "register_center"}
AdminOps == {"change_role", "set_active"}
WriteOps == RegisterOps \cup AdminOps \cup
  {"login", "refresh", "set_avatar", "upsert_page", "register_device"}
Ops == OtpOps \cup WriteOps \cup {"list_pages"}
AtOnceOps == {"logout", "patch_me", "publish"}

Keys == Phones \cup Slugs \cup Ids \cup {"pages", "channel"}
Entry == [id : Ids, op : Ops \cup AtOnceOps, key : Keys]
Letting == [id : Nat, upto : Nat]
AuditRow == AuditOf("role", Roles) \cup AuditOf("is_active", BOOLEAN)

\* What a request in flight is and keeps.
RequestOK(c) ==
  LET f == req[c] IN
  f # Idle =>
    /\ f = [op |-> f.op, id |-> f.id, step |-> f.step, key |-> f.key,
            args |-> f.args, snap |-> f.snap, read |-> f.read]
    /\ f.op \in Ops /\ f.id \in 1 .. arrived /\ f.read \in 0 .. Len(log)
    /\ f.op \in Issues => f.step \in {"clear", "store", "expire"}
    /\ f.op \in Verifies =>
         /\ f.step \in {"consume", "count", "discard", "lock", "admit"}
         /\ f.args \in Ids \cup {Null}
         /\ f.step = "consume" => f.args # Null
    /\ f.op \in WriteOps => f.step = "write"
    /\ f.op = "list_pages" => f.step = "fill"
    /\ f.op \in OtpOps \cup RegisterOps => f.key \in Phones
    /\ f.op \in AdminOps \cup {"login", "set_avatar", "register_device", "reset_confirm"} =>
         f.key \in Phones /\ user[f.key] \in User
    /\ f.op \in AdminOps => f.snap \in User /\ f.args \in AdminValues(Column(f.op))
    /\ f.op = "refresh" => f.key \in Ids /\ token[f.key] \in RefreshToken
    /\ f.op = "upsert_page" => f.key \in Slugs
    /\ f.op = "list_pages" => f.key = "pages"
    /\ f.op = "register_device" => f.args \in DeviceTokens

\* Requests have ids of their own, and tokens are of requests that are over.
UniqueIds ==
  /\ \A c, d \in Clients :
       c # d /\ req[c] # Idle /\ req[d] # Idle => req[c].id # req[d].id
  /\ \A t \in Ids : token[t] # Null =>
       t <= arrived /\ \A c \in Clients : req[c] # Idle => req[c].id # t

TokenRows ==
  \A t \in Ids : token[t] # Null =>
    /\ user[token[t].user] # Null
    /\ token[t].born \in 0 .. Len(log) /\ token[t].read \in 0 .. Len(log)
    /\ token[t].parent # Null => token[token[t].parent] # Null

Tables ==
  /\ TypeOK /\ DOMAIN req = Clients
  /\ log \in Seq(Entry)
  /\ audit \in Seq(AuditRow)
  /\ guesses \in [Ids -> Nat]
  /\ admitted \in [Ids -> SUBSET Letting]
  /\ published \subseteq Ids
  /\ \A c \in Clients : RequestOK(c)
  /\ UniqueIds /\ TokenRows

-----------------------------------------------------------------------------
(***************************************************************************)
(* The kinds of step.                                                      *)
(***************************************************************************)
\* A request arrives and reads.
ReadStep(c) ==
  \/ RequestOtp_CheckLock(c) \/ VerifyOtp_Compare(c)
  \/ Register_Read(c) \/ Login_Read(c) \/ RotateRefresh_Read(c)
  \/ AdminChange_Read(c) \/ SetAvatar_Read(c)
  \/ ListPages_Miss(c) \/ Upsert_Read(c) \/ RegisterDevice_Read(c)

\* A request goes on in Redis.
RedisStep(c) ==
  \/ RequestOtp_Clear(c) \/ RequestOtp_Store(c) \/ RequestOtp_Expire(c)
  \/ VerifyOtp_Count(c) \/ VerifyOtp_Discard(c) \/ VerifyOtp_Lock(c)
  \/ VerifyOtp_Consume(c)

\* A request writes to the database, or to the cache, and ends.
WriteStep(c) ==
  \/ Register_Write(c) \/ Login_Write(c) \/ OtpLogin(c) \/ RotateRefresh_Write(c)
  \/ ResetPassword(c) \/ AdminChange_Write(c) \/ SetAvatar_Write(c)
  \/ ListPages_Fill(c) \/ Upsert_Write(c) \/ RegisterDevice_Write(c)

\* A request of a single statement.
AtOnceStep(c) == Logout(c) \/ PatchMe(c) \/ Publish(c)

\* No request takes part.
OtherStep ==
  \/ CacheExpires \/ \E b \in Sockets : WsNext(b)

ExpiryStep == \E p \in Phones : OtpExpires(p) \/ LockExpires(p)

LEMMA StepCases ==
  ASSUME [Next]_vars
  PROVE  \/ \E c \in Clients : \/ ReadStep(c) \/ RedisStep(c) \/ WriteStep(c)
                               \/ AtOnceStep(c) \/ Abort(c)
         \/ ExpiryStep \/ OtherStep \/ UNCHANGED vars
  BY DEF Next, Handles, OtpNext, AccountsNext, LiveNext, ReadStep, RedisStep,
     WriteStep, AtOnceStep, ExpiryStep, OtherStep

Steps == {"clear", "consume", "count", "write", "fill"}

LEMMA ReadsOnly ==
  ASSUME NEW c \in Clients, ReadStep(c)
  PROVE  /\ \E op \in Ops, step \in Steps : \E key, args, snap :
              Ready(c, op) /\ Reads(c, op, step, key, args, snap)
         /\ UNCHANGED <<redis, tables, guesses, admitted, log, scene>>
<1> USE DEF Ops, OtpOps, WriteOps, RegisterOps, AdminOps, Issues, Verifies, Steps
<1>1. CASE RequestOtp_CheckLock(c)
  BY <1>1, Zenon DEF RequestOtp_CheckLock
<1>2. CASE VerifyOtp_Compare(c)
  BY <1>2 DEF VerifyOtp_Compare
<1>3. CASE Register_Read(c) \/ Login_Read(c) \/ RotateRefresh_Read(c)
  BY <1>3, Zenon DEF Register_Read, Login_Read, RotateRefresh_Read
<1>4. CASE AdminChange_Read(c) \/ SetAvatar_Read(c)
  BY <1>4, Zenon DEF AdminChange_Read, SetAvatar_Read
<1>5. CASE ListPages_Miss(c) \/ Upsert_Read(c) \/ RegisterDevice_Read(c)
  BY <1>5, Zenon DEF ListPages_Miss, Upsert_Read, RegisterDevice_Read
<1> QED  BY <1>1, <1>2, <1>3, <1>4, <1>5 DEF ReadStep

\* What a request that writes does besides its tables.
LEMMA WritesEnd ==
  ASSUME NEW c \in Clients, WriteStep(c)
  PROVE  /\ req[c] # Idle /\ req[c].step \in {"write", "fill", "admit"}
         /\ req' = [req EXCEPT ![c] = Idle]
         /\ UNCHANGED <<redis, guesses, admitted, arrived, disturbed>>
         /\ \/ log' = Append(log, [id |-> req[c].id, op |-> req[c].op, key |-> req[c].key])
            \/ UNCHANGED log /\ (ListPages_Fill(c) \/ OtpLogin(c))
<1> USE DEF At, Commits, Ends
<1>1. CASE Register_Write(c) \/ Login_Write(c)
  BY <1>1 DEF Register_Write, Login_Write
<1>2. CASE OtpLogin(c)
  BY <1>2 DEF OtpLogin
<1>3. CASE RotateRefresh_Write(c) \/ ResetPassword(c)
  BY <1>3 DEF RotateRefresh_Write, ResetPassword
<1>4. CASE AdminChange_Write(c) \/ SetAvatar_Write(c)
  BY <1>4 DEF AdminChange_Write, SetAvatar_Write
<1>5. CASE ListPages_Fill(c)
  BY <1>5 DEF ListPages_Fill
<1>6. CASE Upsert_Write(c) \/ RegisterDevice_Write(c)
  BY <1>6 DEF Upsert_Write, RegisterDevice_Write
<1> QED  BY <1>1, <1>2, <1>3, <1>4, <1>5, <1>6 DEF WriteStep

\* What a request of one statement does besides its tables.
LEMMA AtOnceCommits ==
  ASSUME NEW c \in Clients, AtOnceStep(c)
  PROVE  /\ arrived < MaxReq /\ arrived' = arrived + 1
         /\ UNCHANGED <<redis, guesses, admitted, req, disturbed>>
         /\ \E op \in AtOnceOps : \E key :
              log' = Append(log, [id |-> arrived + 1, op |-> op, key |-> key])
  BY DEF AtOnceStep, Logout, PatchMe, Publish, CommitsAtOnce, Ready, AtOnceOps

\* What a request in Redis leaves alone.
LEMMA RedisKeeps ==
  ASSUME NEW c \in Clients, RedisStep(c)
  PROVE  /\ UNCHANGED <<tables, arrived, log, disturbed>>
         /\ req[c] # Idle
         /\ \/ req' = [req EXCEPT ![c] = Idle]
            \/ \E step \in {"store", "expire", "discard", "lock", "admit"} :
                 req' = [req EXCEPT ![c].step = step, ![c].read = Len(log)]
<1> USE DEF At, Continues, Ends
<1>1. CASE RequestOtp_Clear(c) \/ RequestOtp_Store(c) \/ RequestOtp_Expire(c)
  BY <1>1, Zenon DEF RequestOtp_Clear, RequestOtp_Store, RequestOtp_Expire
<1>2. CASE VerifyOtp_Count(c)
  BY <1>2, Zenon DEF VerifyOtp_Count
<1>3. CASE VerifyOtp_Discard(c) \/ VerifyOtp_Lock(c) \/ VerifyOtp_Consume(c)
  BY <1>3, Zenon DEF VerifyOtp_Discard, VerifyOtp_Lock, VerifyOtp_Consume
<1> QED  BY <1>1, <1>2, <1>3 DEF RedisStep

-----------------------------------------------------------------------------
(***************************************************************************)
(* Types.                                                                  *)
(***************************************************************************)
\* What no request takes away: users, tokens, commits.
Stays ==
  /\ arrived' \in Nat /\ arrived' >= arrived
  /\ log' \in Seq(Entry) /\ Len(log') >= Len(log)
  /\ \A p \in Phones : user[p] \in User => user'[p] \in User
  /\ \A t \in Ids : token[t] \in RefreshToken =>
       /\ token'[t] \in RefreshToken
       /\ token'[t].user = token[t].user /\ token'[t].by = token[t].by
       /\ token'[t].parent = token[t].parent /\ token'[t].enabled = token[t].enabled
       /\ token'[t].read = token[t].read /\ token'[t].born = token[t].born
       /\ token'[t].active => token[t].active

LEMMA IdsAreNats == MaxReq \in Nat /\ Ids \subseteq Nat /\ \A n \in Nat : n <= MaxReq => n \in Ids
  BY PortalAssumption DEF Ids

\* A new entry of the log.
LEMMA LogGrows ==
  ASSUME log \in Seq(Entry), NEW e \in Entry, log' = Append(log, e)
  PROVE  /\ log' \in Seq(Entry) /\ Len(log') = Len(log) + 1 /\ Len(log) \in Nat
         /\ \A i \in 1 .. Len(log) : log'[i] = log[i]
         /\ log'[Len(log) + 1] = e
         /\ DOMAIN log' = 1 .. Len(log) + 1 /\ DOMAIN log = 1 .. Len(log)
  OBVIOUS

\* What a request keeps as it arrives.
LEMMA ArrivalOK ==
  ASSUME Tables, NEW c \in Clients, ReadStep(c)
  PROVE  RequestOK(c)'
<1> DEFINE f == req'[c]
<1>1. /\ TypeOK /\ c \in DOMAIN req /\ arrived \in Nat /\ log \in Seq(Entry)
      /\ Len(log) \in Nat
  BY PortalAssumption DEF Tables, TypeOK
<1>2. PICK op, step, key, args, snap :
        /\ op \in Ops /\ step \in Steps
        /\ Ready(c, op) /\ Reads(c, op, step, key, args, snap)
  BY ReadsOnly, Zenon
<1>3. /\ f = [op |-> op, id |-> arrived + 1, step |-> step, key |-> key,
              args |-> args, snap |-> snap, read |-> Len(log)]
      /\ arrived' = arrived + 1
  BY <1>1, <1>2 DEF Reads
<1>4. /\ f = [op |-> f.op, id |-> f.id, step |-> f.step, key |-> f.key,
              args |-> f.args, snap |-> f.snap, read |-> f.read]
      /\ f.op \in Ops /\ f.id \in 1 .. arrived' /\ f.read \in 0 .. Len(log')
  BY <1>1, <1>2, <1>3, ReadsOnly
<1>5. UNCHANGED <<user, token, log>>
  BY ReadsOnly DEF tables, accounts
<1> USE DEF Ops, OtpOps, WriteOps, RegisterOps, AdminOps, Issues, Verifies
<1>6. CASE RequestOtp_CheckLock(c)
  <2>1. \E p \in Phones : f.op \in Issues /\ f.step = "clear" /\ f.key = p
    BY <1>1, <1>6 DEF RequestOtp_CheckLock, Reads
  <2> QED  BY <1>4, <2>1 DEF RequestOK
<1>7. CASE VerifyOtp_Compare(c)
  <2>1. PICK vop \in Verifies, p \in Phones, guess \in {"right", "wrong"} :
          /\ KnowsPhone(vop, p) /\ Stored(p)
          /\ guess = "right" => otp[p].code # Null
          /\ Reads(c, vop, IF guess = "right" THEN "consume" ELSE "count",
                   p, otp[p].code, Null)
    BY <1>7 DEF VerifyOtp_Compare
  <2>2. /\ f.op = vop /\ f.key = p /\ f.args = otp[p].code
        /\ f.step = IF guess = "right" THEN "consume" ELSE "count"
    BY <1>1, <2>1 DEF Reads
  <2>3. otp[p].code \in Ids \cup {Null}
    BY <1>1, <2>1 DEF TypeOK, Stored, OtpRecord
  <2>4. vop = "reset_confirm" => user[p] \in User
    BY <1>1, <2>1 DEF KnowsPhone, Rows, TypeOK
  <2> QED  BY <1>4, <1>5, <2>1, <2>2, <2>3, <2>4 DEF RequestOK
<1>8. CASE Register_Read(c)
  <2>1. \E p \in Phones : f.op \in RegisterOps /\ f.step = "write" /\ f.key = p
    BY <1>1, <1>8 DEF Register_Read, Reads
  <2> QED  BY <1>4, <2>1 DEF RequestOK
<1>9. CASE Login_Read(c)
  <2>1. PICK p \in Phones : /\ f.op = "login" /\ f.step = "write" /\ f.key = p
                            /\ user[p] # Null
    BY <1>1, <1>9 DEF Login_Read, Reads, Authenticate, Rows
  <2> QED  BY <1>1, <1>4, <1>5, <2>1 DEF RequestOK, TypeOK
<1>10. CASE RotateRefresh_Read(c)
  <2>1. PICK t \in Ids : /\ f.op = "refresh" /\ f.step = "write" /\ f.key = t
                         /\ token[t] # Null
    BY <1>1, <1>10 DEF RotateRefresh_Read, Reads, GetActiveRefresh, Rows
  <2> QED  BY <1>1, <1>4, <1>5, <2>1 DEF RequestOK, TypeOK
<1>11. CASE AdminChange_Read(c)
  <2>1. PICK aop \in AdminOps, p \in Rows(user) :
          \E v \in AdminValues(Column(aop)) : Reads(c, aop, "write", p, v, user[p])
    BY <1>11 DEF AdminChange_Read
  <2>a. PICK value \in AdminValues(Column(aop)) :
          Reads(c, aop, "write", p, value, user[p])
    BY <2>1
  <2>2. p \in Phones /\ user[p] \in User
    BY <1>1, <2>1 DEF Rows, TypeOK
  <2>3. f.op = aop /\ f.step = "write" /\ f.key = p /\ f.args = value /\ f.snap = user[p]
    BY <1>1, <2>a DEF Reads
  <2> QED  BY <1>1, <1>4, <1>5, <2>1, <2>2, <2>3 DEF RequestOK
<1>12. CASE SetAvatar_Read(c) \/ RegisterDevice_Read(c)
  <2>1. PICK p \in Rows(user) :
          /\ f.key = p /\ f.step = "write"
          /\ f.op \in {"set_avatar", "register_device"}
          /\ f.op = "register_device" => f.args \in DeviceTokens
    BY <1>1, <1>12 DEF SetAvatar_Read, RegisterDevice_Read, Reads
  <2>2. p \in Phones /\ user[p] \in User
    BY <1>1, <2>1 DEF Rows, TypeOK
  <2> QED  BY <1>4, <1>5, <2>1, <2>2 DEF RequestOK
<1>13. CASE ListPages_Miss(c)
  <2>1. f.op = "list_pages" /\ f.step = "fill" /\ f.key = "pages"
    BY <1>1, <1>13 DEF ListPages_Miss, Reads
  <2> QED  BY <1>4, <2>1 DEF RequestOK
<1>14. CASE Upsert_Read(c)
  <2>1. \E slug \in Slugs : f.op = "upsert_page" /\ f.step = "write" /\ f.key = slug
    BY <1>1, <1>14 DEF Upsert_Read, Reads
  <2> QED  BY <1>4, <2>1 DEF RequestOK
<1> QED
  BY <1>6, <1>7, <1>8, <1>9, <1>10, <1>11, <1>12, <1>13, <1>14 DEF ReadStep

\* What stays is all that a request relies on while others go on.
LEMMA OthersKeep ==
  ASSUME Tables, Stays, NEW d \in Clients, req'[d] = req[d]
  PROVE  RequestOK(d)'
<1>1. SUFFICES ASSUME req[d] # Idle  PROVE RequestOK(d)'
  BY DEF RequestOK
<1>2. RequestOK(d) /\ arrived \in Nat /\ Len(log) \in Nat /\ Len(log') \in Nat
  BY PortalAssumption DEF Tables, TypeOK, Stays
<1>3. req[d].id \in 1 .. arrived' /\ req[d].read \in 0 .. Len(log')
  BY <1>1, <1>2 DEF RequestOK, Stays
<1> QED
  BY <1>1, <1>2, <1>3 DEF RequestOK, Stays

\* The token that a request brings as it commits.
Brings(c) ==
  LET f == req[c] IN
  /\ log' = Append(log, [id |-> f.id, op |-> f.op, key |-> f.key])
  /\ \E p \in Phones :
       /\ user'[p] \in User
       /\ \/ /\ f.op \in RegisterOps /\ user[p] = Null
             /\ token'[f.id] = IssueTokens("register", p, Null, f.read)
          \/ /\ f.op = "login" /\ p = f.key /\ user[p] \in User
             /\ token'[f.id] = IssueTokens("login", p, Null, f.read)
          \/ /\ f.op = "otp_verify" /\ user[p] \in User
             /\ token'[f.id] = IssueTokens("otp_verify", p, Null, Len(log))
          \/ /\ f.op = "refresh" /\ p = token[f.key].user /\ user[p] \in User
             /\ token'[f.id] = IssueTokens("refresh", p, f.key, f.read)

LEMMA IssuedType ==
  ASSUME Tables, NEW by \in {"login", "otp_verify", "register", "refresh"},
         NEW p \in Phones, NEW parent \in Ids \cup {Null}, NEW read \in Nat
  PROVE  /\ IssueTokens(by, p, parent, read) \in RefreshToken
         /\ IssueTokens(by, p, parent, read).user = p
         /\ IssueTokens(by, p, parent, read).by = by
         /\ IssueTokens(by, p, parent, read).parent = parent
         /\ IssueTokens(by, p, parent, read).read = read
         /\ IssueTokens(by, p, parent, read).born = Len(log) + 1
         /\ IssueTokens(by, p, parent, read).enabled
              = (p \in Rows(user) => user[p].is_active)
<1>1. Len(log) \in Nat
  BY DEF Tables
<1>2. (p \in Rows(user) => user[p].is_active) \in BOOLEAN
  OBVIOUS
<1> QED  BY <1>1, <1>2 DEF IssueTokens, RefreshToken, Now

\* The fields that a revocation leaves.
LEMMA Revoked ==
  ASSUME NEW r \in RefreshToken
  PROVE  LET s == [r EXCEPT !.active = FALSE] IN
         /\ s \in RefreshToken /\ ~s.active
         /\ s.user = r.user /\ s.by = r.by /\ s.parent = r.parent
         /\ s.enabled = r.enabled /\ s.read = r.read /\ s.born = r.born
  BY DEF RefreshToken

\* How a token of the table may change: not at all, or it is revoked.
Kept(t) ==
  \/ token'[t] = token[t]
  \/ token[t] \in RefreshToken /\ token'[t] = [token[t] EXCEPT !.active = FALSE]

LEMMA TokenWrites ==
  ASSUME Tables, NEW c \in Clients, WriteStep(c)
  PROVE  /\ token' \in [Ids -> RefreshToken \cup {Null}]
         /\ \A t \in Ids \ {req[c].id} : Kept(t)
         /\ Brings(c) \/ (req[c].id \in Ids /\ token'[req[c].id] = Null)
<1> DEFINE f == req[c]
<1>1. /\ TypeOK /\ token \in [Ids -> RefreshToken \cup {Null}]
      /\ user \in [Phones -> User \cup {Null}]
      /\ RequestOK(c) /\ req[c] # Idle /\ f.id \in Ids /\ token[f.id] = Null
      /\ f.read \in Nat /\ Null \notin Ids
  <2>1. RequestOK(c) /\ req[c] # Idle /\ arrived \in Nat /\ arrived <= MaxReq
    <3>1. arrived \in 0 .. MaxReq
      BY DEF Tables, TypeOK
    <3>2. RequestOK(c)
      BY DEF Tables
    <3>3. req[c] # Idle
      BY WritesEnd
    <3> QED  BY <3>1, <3>2, <3>3, PortalAssumption
  <2>2. f.id \in Ids
    BY <2>1, PortalAssumption DEF RequestOK, Ids
  <2> QED  BY <2>1, <2>2, RowAssumption DEF Tables, TypeOK, UniqueIds, RequestOK
<1>2. CASE Register_Write(c)
  <2>1. f.key \in Phones /\ f.op \in RegisterOps /\ user[f.key] = Null
    BY <1>1, <1>2 DEF Register_Write, At, RequestOK, RegisterOps, Rows
  <2> DEFINE row == [role |-> IF f.op = "register_center" THEN "owner" ELSE "customer",
                     is_active |-> TRUE, password |-> f.id,
                     center |-> IF f.op = "register_center" THEN f.id ELSE Null,
                     profile |-> f.id, avatar |-> 0]
  <2>0. user' = [user EXCEPT ![f.key] = row] /\ row \in User
    BY <1>1, <1>2, IdsAreNats DEF Register_Write, User, Roles
  <2> HIDE DEF row
  <2>2. user'[f.key] \in User
    BY <1>1, <2>0, <2>1
  <2>3. token' = [token EXCEPT ![f.id] = IssueTokens("register", f.key, Null, f.read)]
    BY <1>2 DEF Register_Write
  <2>4. log' = Append(log, [id |-> f.id, op |-> f.op, key |-> f.key])
    BY <1>2 DEF Register_Write, Commits
  <2>5. IssueTokens("register", f.key, Null, f.read) \in RefreshToken
    BY <1>1, <2>1, IssuedType
  <2> QED  BY <1>1, <2>1, <2>2, <2>3, <2>4, <2>5 DEF Brings, Kept
<1>3. CASE Login_Write(c)
  <2>1. f.key \in Phones /\ f.op = "login" /\ user[f.key] \in User
    BY <1>1, <1>3 DEF Login_Write, At, RequestOK
  <2>2. user' = user
    BY <1>3 DEF Login_Write
  <2>3. token' = [token EXCEPT ![f.id] = IssueTokens("login", f.key, Null, f.read)]
    BY <1>3 DEF Login_Write
  <2>4. log' = Append(log, [id |-> f.id, op |-> f.op, key |-> f.key])
    BY <1>3 DEF Login_Write, Commits
  <2>5. IssueTokens("login", f.key, Null, f.read) \in RefreshToken
    BY <1>1, <2>1, IssuedType
  <2> QED  BY <1>1, <2>1, <2>2, <2>3, <2>4, <2>5 DEF Brings, Kept
<1>4. CASE OtpLogin(c)
  <2>1. f.key \in Phones /\ f.op = "otp_verify" /\ user' = user
    BY <1>1, <1>4 DEF OtpLogin, At, RequestOK, OtpOps, Verifies
  <2>2. CASE f.key \in Rows(user)
    <3>1. user[f.key] \in User
      BY <1>1, <2>1, <2>2 DEF Rows
    <3>2. token' = [token EXCEPT ![f.id] =
                      IssueTokens("otp_verify", f.key, Null, Len(log))]
      BY <1>4, <2>2 DEF OtpLogin
    <3>3. log' = Append(log, [id |-> f.id, op |-> f.op, key |-> f.key])
      BY <1>4, <2>2 DEF OtpLogin, Commits
    <3>4. IssueTokens("otp_verify", f.key, Null, Len(log)) \in RefreshToken
      BY <1>1, <2>1, IssuedType DEF Tables
    <3> QED  BY <1>1, <2>1, <3>1, <3>2, <3>3, <3>4 DEF Brings, Kept
  <2>3. CASE f.key \notin Rows(user)
    BY <1>1, <1>4, <2>3 DEF OtpLogin, Kept
  <2> QED  BY <2>2, <2>3
<1>5. CASE RotateRefresh_Write(c)
  <2> DEFINE p == token[f.key].user
  <2>1. f.key \in Ids /\ f.op = "refresh" /\ token[f.key] \in RefreshToken
    BY <1>1, <1>5 DEF RotateRefresh_Write, At, RequestOK
  <2>2. p \in Phones /\ user[p] \in User /\ user' = user
    BY <1>1, <1>5, <2>1, RowAssumption DEF RotateRefresh_Write, RefreshToken, Tables, TokenRows
  <2>3. /\ token' = [[token EXCEPT ![f.key].active = FALSE] EXCEPT
                       ![f.id] = IssueTokens("refresh", p, f.key, f.read)]
        /\ log' = Append(log, [id |-> f.id, op |-> f.op, key |-> f.key])
    BY <1>5 DEF RotateRefresh_Write, RevokeRefresh, Commits
  <2>4. IssueTokens("refresh", p, f.key, f.read) \in RefreshToken
    BY <1>1, <2>1, <2>2, IssuedType
  <2> DEFINE new == IssueTokens("refresh", p, f.key, f.read)
             old == [token[f.key] EXCEPT !.active = FALSE]
  <2>5. old \in RefreshToken
    BY <2>1, Revoked
  <2>6. f.id # f.key
    BY <1>1, <2>1, RowAssumption
  <2>7. token' = [token EXCEPT ![f.key] = old, ![f.id] = new]
    BY <2>3
  <2> HIDE DEF new, old
  <2>8. /\ token'[f.id] = new /\ token'[f.key] = old
        /\ \A t \in Ids \ {f.id, f.key} : token'[t] = token[t]
        /\ token' \in [Ids -> RefreshToken \cup {Null}]
    BY <1>1, <2>1, <2>4, <2>5, <2>6, <2>7 DEF new
  <2>9. \A t \in Ids \ {f.id} : Kept(t)
    BY <2>1, <2>8 DEF Kept, old
  <2>10. Brings(c)
    BY <2>1, <2>2, <2>3, <2>8 DEF Brings, new
  <2> QED  BY <2>8, <2>9, <2>10
<1>6. CASE ResetPassword(c)
  <2>1. token' = [t \in Ids |-> IF t \in Rows(token) /\ token[t].user = f.key
                                THEN [token[t] EXCEPT !.active = FALSE] ELSE token[t]]
    BY <1>6 DEF ResetPassword, RevokeAllUserRefresh
  <2>2. \A t \in Rows(token) : /\ token[t] \in RefreshToken
                               /\ [token[t] EXCEPT !.active = FALSE] \in RefreshToken
    BY <1>1, Revoked DEF Rows
  <2> QED  BY <1>1, <2>1, <2>2 DEF Kept, Rows
<1>7. CASE \/ AdminChange_Write(c) \/ SetAvatar_Write(c) \/ ListPages_Fill(c)
           \/ Upsert_Write(c) \/ RegisterDevice_Write(c)
  <2>1. token' = token
    BY <1>7 DEF AdminChange_Write, SetAvatar_Write, ListPages_Fill, Upsert_Write,
       RegisterDevice_Write, accounts
  <2> QED  BY <1>1, <2>1 DEF Kept
<1> QED  BY <1>2, <1>3, <1>4, <1>5, <1>6, <1>7 DEF WriteStep

\* The rows of users, and the audit trail.
LEMMA UserWrites ==
  ASSUME Tables, NEW c \in Clients, WriteStep(c)
  PROVE  /\ user' \in [Phones -> User \cup {Null}]
         /\ \A p \in Phones : user[p] \in User => user'[p] \in User
         /\ audit' \in Seq(AuditRow)
<1> DEFINE f == req[c]
<1>1. /\ user \in [Phones -> User \cup {Null}] /\ audit \in Seq(AuditRow)
      /\ RequestOK(c) /\ f # Idle /\ f.id \in Ids /\ Len(log) \in Nat
  <2>1. RequestOK(c) /\ arrived \in 0 .. MaxReq /\ Len(log) \in Nat
        /\ user \in [Phones -> User \cup {Null}] /\ audit \in Seq(AuditRow)
    BY DEF Tables, TypeOK
  <2>2. f # Idle
    BY WritesEnd
  <2> QED  BY <2>1, <2>2, PortalAssumption DEF RequestOK, Ids
<1>2. CASE Register_Write(c)
  <2> DEFINE row == [role |-> IF f.op = "register_center" THEN "owner" ELSE "customer",
                     is_active |-> TRUE, password |-> f.id,
                     center |-> IF f.op = "register_center" THEN f.id ELSE Null,
                     profile |-> f.id, avatar |-> 0]
  <2>1. user' = [user EXCEPT ![f.key] = row] /\ row \in User /\ audit' = audit
    BY <1>1, <1>2, IdsAreNats DEF Register_Write, User, Roles
  <2> HIDE DEF row
  <2> QED  BY <1>1, <2>1
<1>3. CASE ResetPassword(c)
  <2>1. user[f.key] \in User /\ f.key \in Phones /\ audit' = audit
    BY <1>1, <1>3 DEF ResetPassword, At, RequestOK
  <2>2. [user[f.key] EXCEPT !.password = f.id] \in User
    BY <1>1, <2>1 DEF User
  <2>3. user' = [user EXCEPT ![f.key] = [user[f.key] EXCEPT !.password = f.id]]
    BY <1>3 DEF ResetPassword
  <2> QED  BY <1>1, <2>1, <2>2, <2>3
<1>4. CASE AdminChange_Write(c)
  <2> DEFINE col == Column(f.op)
  <2>1. /\ f.op \in AdminOps /\ f.key \in Phones /\ user[f.key] \in User
        /\ f.snap \in User /\ f.args \in AdminValues(col) /\ f.read \in Nat
    BY <1>1, <1>4 DEF AdminChange_Write, At, RequestOK, AdminOps
  <2>2. /\ user' = IF f.snap[col] = f.args THEN user
                   ELSE [user EXCEPT ![f.key] = [user[f.key] EXCEPT ![col] = f.args]]
        /\ audit' = Append(audit, [user |-> f.key, column |-> col, before |-> f.snap[col],
                                   after |-> f.args, read |-> f.read, at |-> Len(log) + 1])
    BY <1>4 DEF AdminChange_Write, OrmUpdate, Record, Now
  <2>3. CASE f.op = "change_role"
    <3>1. col = "role" /\ f.args \in Roles /\ f.snap[col] \in Roles
      BY <2>1, <2>3 DEF Column, AdminValues, User, Roles
    <3>2. [user[f.key] EXCEPT !["role"] = f.args] \in User
      BY <2>1, <3>1 DEF User
    <3>3. [user |-> f.key, column |-> col, before |-> f.snap[col], after |-> f.args,
           read |-> f.read, at |-> Len(log) + 1] \in AuditRow
      BY <1>1, <2>1, <3>1 DEF AuditRow, AuditOf
    <3> HIDE DEF col
    <3>4. user' \in [Phones -> User \cup {Null}]
      BY <1>1, <2>1, <2>2, <3>1, <3>2
    <3>5. \A p \in Phones : user[p] \in User => user'[p] \in User
      BY <1>1, <2>1, <2>2, <3>1, <3>2
    <3>6. audit' \in Seq(AuditRow)
      BY <1>1, <2>2, <3>3
    <3> QED  BY <3>4, <3>5, <3>6
  <2>4. CASE f.op = "set_active"
    <3>1. col = "is_active" /\ f.args \in BOOLEAN /\ f.snap[col] \in BOOLEAN
      BY <2>1, <2>4 DEF Column, AdminValues, User
    <3>2. [user[f.key] EXCEPT !["is_active"] = f.args] \in User
      BY <2>1, <3>1 DEF User
    <3>3. [user |-> f.key, column |-> col, before |-> f.snap[col], after |-> f.args,
           read |-> f.read, at |-> Len(log) + 1] \in AuditRow
      BY <1>1, <2>1, <3>1 DEF AuditRow, AuditOf
    <3> HIDE DEF col
    <3>4. user' \in [Phones -> User \cup {Null}]
      BY <1>1, <2>1, <2>2, <3>1, <3>2
    <3>5. \A p \in Phones : user[p] \in User => user'[p] \in User
      BY <1>1, <2>1, <2>2, <3>1, <3>2
    <3>6. audit' \in Seq(AuditRow)
      BY <1>1, <2>2, <3>3
    <3> QED  BY <3>4, <3>5, <3>6
  <2> QED  BY <2>1, <2>3, <2>4 DEF AdminOps
<1>5. CASE SetAvatar_Write(c)
  <2>1. user[f.key] \in User /\ f.key \in Phones /\ audit' = audit
    BY <1>1, <1>5 DEF SetAvatar_Write, At, RequestOK
  <2>2. [user[f.key] EXCEPT !["avatar"] = f.id] \in User
    BY <1>1, <2>1 DEF User
  <2>3. \/ user' = user
        \/ user' = [user EXCEPT ![f.key] = [user[f.key] EXCEPT !["avatar"] = f.id]]
    BY <1>5 DEF SetAvatar_Write, OrmUpdate
  <2>4. CASE user' = user
    BY <1>1, <2>1, <2>4
  <2>5. CASE user' = [user EXCEPT ![f.key] = [user[f.key] EXCEPT !["avatar"] = f.id]]
    BY <1>1, <2>1, <2>2, <2>5
  <2> QED  BY <2>3, <2>4, <2>5
<1>6. CASE \/ Login_Write(c) \/ OtpLogin(c) \/ RotateRefresh_Write(c)
           \/ ListPages_Fill(c) \/ Upsert_Write(c) \/ RegisterDevice_Write(c)
  <2>1. UNCHANGED <<user, audit>>
    BY <1>6 DEF Login_Write, OtpLogin, RotateRefresh_Write, ListPages_Fill,
       Upsert_Write, RegisterDevice_Write, accounts
  <2> QED  BY <1>1, <2>1
<1> QED  BY <1>2, <1>3, <1>4, <1>5, <1>6 DEF WriteStep

\* The pages, devices and feeds.
LEMMA ViewWrites ==
  ASSUME Tables, NEW c \in Clients, WriteStep(c)
  PROVE  /\ page' \subseteq ContentPage /\ device' \subseteq Device
         /\ UNCHANGED feed
<1> DEFINE f == req[c]
<1>1. /\ page \subseteq ContentPage /\ device \subseteq Device
      /\ RequestOK(c) /\ f # Idle /\ f.id \in Ids
  <2>1. RequestOK(c) /\ arrived \in 0 .. MaxReq
        /\ page \subseteq ContentPage /\ device \subseteq Device
    BY DEF Tables, TypeOK
  <2>2. f # Idle
    BY WritesEnd
  <2> QED  BY <2>1, <2>2, PortalAssumption DEF RequestOK, Ids
<1>2. CASE Upsert_Write(c)
  <2>1. f.key \in Slugs
    BY <1>1, <1>2 DEF Upsert_Write, At, RequestOK
  <2>2. [slug |-> f.key, edit |-> f.id] \in ContentPage
    BY <1>1, <2>1 DEF ContentPage
  <2>3. /\ page' \subseteq page \cup {[slug |-> f.key, edit |-> f.id]}
        /\ UNCHANGED <<device, feed>>
    BY <1>2 DEF Upsert_Write
  <2> QED  BY <1>1, <2>2, <2>3
<1>3. CASE RegisterDevice_Write(c)
  <2>1. f.key \in Phones /\ f.args \in DeviceTokens
    BY <1>1, <1>3 DEF RegisterDevice_Write, At, RequestOK
  <2>2. [user |-> f.key, token |-> f.args, platform |-> f.id] \in Device
    BY <1>1, <2>1 DEF Device
  <2>3. /\ device' \subseteq device \cup
             {[user |-> f.key, token |-> f.args, platform |-> f.id]}
        /\ UNCHANGED <<page, feed>>
    BY <1>3 DEF RegisterDevice_Write, content
  <2> QED  BY <1>1, <2>2, <2>3
<1>4. CASE \/ Register_Write(c) \/ Login_Write(c) \/ OtpLogin(c)
           \/ RotateRefresh_Write(c) \/ ResetPassword(c) \/ AdminChange_Write(c)
           \/ SetAvatar_Write(c) \/ ListPages_Fill(c)
  <2>1. UNCHANGED <<page, device, feed>>
    BY <1>4 DEF Register_Write, Login_Write, OtpLogin, RotateRefresh_Write,
       ResetPassword, AdminChange_Write, SetAvatar_Write, ListPages_Fill, content
  <2> QED  BY <1>1, <2>1
<1> QED  BY <1>2, <1>3, <1>4 DEF WriteStep

\* What is known of a request in flight.
LEMMA InHandFacts ==
  ASSUME Tables, NEW c \in Clients, req[c] # Idle
  PROVE  /\ RequestOK(c) /\ arrived \in Nat /\ arrived <= MaxReq /\ Len(log) \in Nat
         /\ req[c].id \in Ids /\ req[c].id \in 1 .. arrived
         /\ token[req[c].id] = Null
         /\ req[c].key \in Keys
         /\ c \in DOMAIN req
<1>1. RequestOK(c) /\ arrived \in 0 .. MaxReq /\ log \in Seq(Entry) /\ c \in DOMAIN req
  BY DEF Tables, TypeOK
<1>2. req[c].id \in Ids /\ req[c].id \in 1 .. arrived
  BY <1>1, PortalAssumption DEF RequestOK, Ids
<1>3. token[req[c].id] = Null
  BY <1>2 DEF Tables, UniqueIds
<1>4. req[c].key \in Keys
  BY <1>1 DEF RequestOK, Ops, OtpOps, WriteOps, RegisterOps, AdminOps, Issues, Verifies, Keys
<1> QED  BY <1>1, <1>2, <1>3, <1>4, PortalAssumption

\* A write takes nothing away.
LEMMA WriteStays ==
  ASSUME Tables, NEW c \in Clients, WriteStep(c)
  PROVE  Stays
<1> DEFINE f == req[c]
           e == [id |-> f.id, op |-> f.op, key |-> f.key]
<1>1. /\ f # Idle /\ RequestOK(c) /\ arrived \in Nat /\ f.id \in Ids /\ f.key \in Keys
      /\ token[f.id] = Null /\ log \in Seq(Entry) /\ Len(log) \in Nat
  BY WritesEnd, InHandFacts DEF Tables
<1>2. e \in Entry
  BY <1>1 DEF Entry, RequestOK
<1>3. arrived' = arrived /\ (log' = Append(log, e) \/ log' = log)
  BY WritesEnd
<1>4. log' \in Seq(Entry) /\ Len(log') >= Len(log)
  <2>1. CASE log' = log
    BY <1>1, <2>1
  <2>2. CASE log' = Append(log, e)
    <3> HIDE DEF e
    <3> QED  BY <1>1, <1>2, <2>2, LogGrows
  <2> QED  BY <1>3, <2>1, <2>2
<1>5. \A p \in Phones : user[p] \in User => user'[p] \in User
  BY UserWrites
<1>6. ASSUME NEW t \in Ids, token[t] \in RefreshToken
      PROVE  /\ token'[t] \in RefreshToken
             /\ token'[t].user = token[t].user /\ token'[t].by = token[t].by
             /\ token'[t].parent = token[t].parent /\ token'[t].enabled = token[t].enabled
             /\ token'[t].read = token[t].read /\ token'[t].born = token[t].born
             /\ token'[t].active => token[t].active
  <2>1. t # f.id
    BY <1>1, <1>6, RowAssumption
  <2>2. Kept(t)
    BY <2>1, TokenWrites
  <2>3. CASE token'[t] = token[t]
    BY <1>6, <2>3
  <2>4. CASE token'[t] = [token[t] EXCEPT !.active = FALSE]
    BY <1>6, <2>4, Revoked
  <2> QED  BY <2>2, <2>3, <2>4 DEF Kept
<1> QED  BY <1>1, <1>3, <1>4, <1>5, <1>6 DEF Stays

\* What requests of one statement do to the tables.
LEMMA AtOnceTypes ==
  ASSUME Tables, NEW c \in Clients, AtOnceStep(c)
  PROVE  /\ Stays
         /\ user' \in [Phones -> User \cup {Null}]
         /\ token' \in [Ids -> RefreshToken \cup {Null}]
         /\ \A t \in Ids : token[t] = Null => token'[t] = Null
         /\ UNCHANGED <<audit, page, device>>
         /\ sock' \in [Sockets -> Socket] /\ published' \subseteq Ids
         /\ \A b \in Sockets : sock'[b].owed \subseteq published'
<1>1. /\ user \in [Phones -> User \cup {Null}]
      /\ token \in [Ids -> RefreshToken \cup {Null}]
      /\ sock \in [Sockets -> Socket] /\ published \subseteq Ids
      /\ \A b \in Sockets : sock[b].owed \subseteq published
      /\ arrived \in 0 .. MaxReq /\ log \in Seq(Entry)
  BY DEF Tables, TypeOK
<1>2. arrived' = arrived + 1 /\ arrived + 1 \in Ids /\ arrived \in Nat /\ arrived' \in Nat
  BY <1>1, AtOnceCommits, PortalAssumption DEF Ids
<1>3. ASSUME NEW op \in AtOnceOps, NEW key \in Keys,
             log' = Append(log, [id |-> arrived + 1, op |-> op, key |-> key])
      PROVE  log' \in Seq(Entry) /\ Len(log') >= Len(log)
  <2> DEFINE e == [id |-> arrived + 1, op |-> op, key |-> key]
  <2>1. e \in Entry
    BY <1>2, <1>3 DEF Entry
  <2>2. log' = Append(log, e)
    BY <1>3
  <2> HIDE DEF e
  <2> QED  BY <1>1, <2>1, <2>2, LogGrows
<1>4. CASE Logout(c)
  <2>1. PICK t \in Rows(token) : /\ token' = [token EXCEPT ![t].active = FALSE]
                                 /\ CommitsAtOnce("logout", t)
                                 /\ UNCHANGED <<user, audit, page, device, sock, published>>
    BY <1>4 DEF Logout, RevokeRefresh, content, feed
  <2>2. t \in Ids /\ token[t] \in RefreshToken
    BY <1>1, <2>1 DEF Rows
  <2> DEFINE old == [token[t] EXCEPT !.active = FALSE]
  <2>3. /\ old \in RefreshToken /\ ~old.active
        /\ old.user = token[t].user /\ old.by = token[t].by
        /\ old.parent = token[t].parent /\ old.enabled = token[t].enabled
        /\ old.read = token[t].read /\ old.born = token[t].born
    BY <2>2, Revoked
  <2>4. token' = [token EXCEPT ![t] = old]
    BY <2>1
  <2>5. log' \in Seq(Entry) /\ Len(log') >= Len(log)
    BY <1>3, <2>1, <2>2 DEF CommitsAtOnce, AtOnceOps, Keys
  <2> HIDE DEF old
  <2>6. /\ token' \in [Ids -> RefreshToken \cup {Null}]
        /\ token'[t] = old /\ \A s \in Ids \ {t} : token'[s] = token[s]
    BY <1>1, <2>2, <2>3, <2>4
  <2>7. \A s \in Ids : token[s] = Null => token'[s] = Null
    BY <2>2, <2>6, RowAssumption
  <2>8. UNCHANGED <<user, audit, page, device, sock, published>>
    BY <2>1
  <2>9. Stays
    BY <1>2, <2>8, <2>2, <2>3, <2>5, <2>6 DEF Stays
  <2> QED  BY <1>1, <2>6, <2>7, <2>8, <2>9
<1>5. CASE PatchMe(c)
  <2>1. PICK p \in Rows(user) : /\ user' = [user EXCEPT ![p].profile = arrived + 1]
                                /\ CommitsAtOnce("patch_me", p)
                                /\ UNCHANGED <<token, audit, page, device, sock, published>>
    BY <1>5 DEF PatchMe, content, feed
  <2>2. p \in Phones /\ user[p] \in User
    BY <1>1, <2>1 DEF Rows
  <2> DEFINE row == [user[p] EXCEPT !.profile = arrived + 1]
  <2>3. row \in User
    BY <1>2, <2>2 DEF User
  <2>4. user' = [user EXCEPT ![p] = row]
    BY <2>1
  <2>5. log' \in Seq(Entry) /\ Len(log') >= Len(log)
    BY <1>3, <2>1, <2>2 DEF CommitsAtOnce, AtOnceOps, Keys
  <2> HIDE DEF row
  <2>6. /\ user' \in [Phones -> User \cup {Null}]
        /\ \A q \in Phones : user[q] \in User => user'[q] \in User
    BY <1>1, <2>2, <2>3, <2>4
  <2>7. Stays
    BY <1>2, <2>1, <2>5, <2>6 DEF Stays
  <2> QED  BY <1>1, <2>1, <2>6, <2>7
<1>6. CASE Publish(c)
  <2>1. /\ published' = published \cup {arrived + 1}
        /\ sock' = [b \in Sockets |->
                IF sock[b].state = "subscribed"
                THEN [sock[b] EXCEPT !.queue = Append(@, arrived + 1),
                                     !.owed = @ \cup {arrived + 1}]
                ELSE sock[b]]
        /\ CommitsAtOnce("publish", "channel")
        /\ UNCHANGED <<user, token, audit, page, device>>
    BY <1>6 DEF Publish, accounts, content
  <2>2. ASSUME NEW b \in Sockets
        PROVE  sock'[b] \in Socket /\ sock'[b].owed \subseteq published'
    <3> DEFINE s == [sock[b] EXCEPT !.queue = Append(@, arrived + 1),
                                    !.owed = @ \cup {arrived + 1}]
    <3>1. sock[b] \in Socket /\ sock[b].owed \subseteq published
      BY <1>1
    <3>2. s \in Socket /\ s.owed = sock[b].owed \cup {arrived + 1}
      <4>1. /\ sock[b].queue \in Seq(Ids)
            /\ Append(sock[b].queue, arrived + 1) \in Seq(Ids)
        BY <1>2, <3>1 DEF Socket
      <4>2. sock[b].owed \cup {arrived + 1} \in SUBSET Ids
        BY <1>2, <3>1 DEF Socket
      <4>3. s = [sock[b] EXCEPT !.queue = Append(sock[b].queue, arrived + 1),
                                !.owed = sock[b].owed \cup {arrived + 1}]
        OBVIOUS
      <4> DEFINE q == Append(sock[b].queue, arrived + 1)
                 w == sock[b].owed \cup {arrived + 1}
      <4> HIDE DEF q, w
      <4> QED  BY <3>1, <4>1, <4>2, <4>3 DEF Socket, q, w
    <3>3. sock'[b] = s \/ sock'[b] = sock[b]
      BY <2>1
    <3> HIDE DEF s
    <3> QED  BY <2>1, <3>1, <3>2, <3>3
  <2>3. sock' \in [Sockets -> Socket]
    <3>1. sock' = [b \in Sockets |-> sock'[b]]
      BY <2>1
    <3> QED  BY <2>2, <3>1
  <2>4. log' \in Seq(Entry) /\ Len(log') >= Len(log)
    BY <1>3, <2>1 DEF CommitsAtOnce, AtOnceOps, Keys
  <2>5. /\ published' = published \cup {arrived + 1}
        /\ UNCHANGED <<user, token, audit, page, device>>
    BY <2>1
  <2>6. Stays
    BY <1>2, <2>5, <2>4 DEF Stays
  <2> QED  BY <1>1, <1>2, <2>2, <2>3, <2>5, <2>6
<1> QED  BY <1>4, <1>5, <1>6 DEF AtOnceStep

\* The fields of a request's record.
LEMMA RecordFields ==
  ASSUME NEW f, NEW op, NEW id, NEW step, NEW key, NEW args, NEW snap, NEW read,
         f = [op |-> op, id |-> id, step |-> step, key |-> key, args |-> args,
              snap |-> snap, read |-> read]
  PROVE  /\ f.op = op /\ f.id = id /\ f.step = step /\ f.key = key
         /\ f.args = args /\ f.snap = snap /\ f.read = read
         /\ f = [op |-> f.op, id |-> f.id, step |-> f.step, key |-> f.key,
                 args |-> f.args, snap |-> f.snap, read |-> f.read]
<1>1. /\ f.op = op /\ f.id = id /\ f.step = step /\ f.key = key
      /\ f.args = args /\ f.snap = snap /\ f.read = read
  OBVIOUS
<1> QED  BY <1>1, Zenon

\* A request that goes on in Redis stays the request it is.
LEMMA Onwards ==
  ASSUME Tables, NEW c \in Clients, req[c] # Idle, NEW step,
         req' = [req EXCEPT ![c].step = step, ![c].read = Len(log)],
         UNCHANGED <<tables, arrived, log>>,
         req[c].op \in Issues => step \in {"store", "expire"},
         req[c].op \in Verifies => step \in {"discard", "lock", "admit"},
         req[c].op \in OtpOps
  PROVE  RequestOK(c)'
<1> DEFINE f == req[c]
           g == [op |-> f.op, id |-> f.id, step |-> step, key |-> f.key,
                 args |-> f.args, snap |-> f.snap, read |-> Len(log)]
<1>1. /\ RequestOK(c) /\ f # Idle /\ c \in DOMAIN req
      /\ arrived \in Nat /\ Len(log) \in Nat
  BY InHandFacts
<1>2. f = [op |-> f.op, id |-> f.id, step |-> f.step, key |-> f.key,
           args |-> f.args, snap |-> f.snap, read |-> f.read]
  BY <1>1 DEF RequestOK
<1>3. [f EXCEPT !.step = step, !.read = Len(log)] = g
  <2> DEFINE h == [f EXCEPT !.step = step, !.read = Len(log)]
  <2>1. f \in [op : {f.op}, id : {f.id}, step : {f.step}, key : {f.key},
               args : {f.args}, snap : {f.snap}, read : {f.read}]
    BY <1>2
  <2>2. h \in [op : {f.op}, id : {f.id}, step : {step}, key : {f.key},
               args : {f.args}, snap : {f.snap}, read : {Len(log)}]
    BY <2>1
  <2> HIDE DEF h
  <2>3. h = g
    BY <2>2
  <2> QED  BY <2>3 DEF h
<1>4. req'[c] = g
  <2> DEFINE h == [f EXCEPT !.step = step, !.read = Len(log)]
  <2>1. req' = [req EXCEPT ![c] = h]
    OBVIOUS
  <2> HIDE DEF h
  <2>2. req'[c] = h
    BY <1>1, <2>1
  <2> QED  BY <2>2, <1>3 DEF h
<1>5. UNCHANGED <<user, token, arrived, log>>
  BY DEF tables, accounts
<1>6. /\ req'[c].op = f.op /\ req'[c].id = f.id /\ req'[c].step = step
      /\ req'[c].key = f.key /\ req'[c].args = f.args /\ req'[c].snap = f.snap
      /\ req'[c].read = Len(log)
      /\ req'[c] = [op |-> req'[c].op, id |-> req'[c].id, step |-> req'[c].step,
                    key |-> req'[c].key, args |-> req'[c].args,
                    snap |-> req'[c].snap, read |-> req'[c].read]
  <2> DEFINE r == req'[c]
  <2>1. /\ r.op = f.op /\ r.id = f.id /\ r.step = step
        /\ r.key = f.key /\ r.args = f.args /\ r.snap = f.snap
        /\ r.read = Len(log)
        /\ r = [op |-> r.op, id |-> r.id, step |-> r.step, key |-> r.key,
                args |-> r.args, snap |-> r.snap, read |-> r.read]
    <3> HIDE DEF r
    <3>1. r = g
      BY <1>4 DEF r
    <3> QED  BY <3>1, RecordFields
  <2> QED  BY <2>1
<1> HIDE DEF g
<1> QED
  BY <1>1, <1>5, <1>6 DEF RequestOK, Ops, OtpOps, Issues, Verifies, WriteOps, RegisterOps,
     AdminOps

\* Requests in Redis: their records and counts.
LEMMA RedisTypes ==
  ASSUME Tables, NEW c \in Clients, RedisStep(c)
  PROVE  /\ otp' \in [Phones -> OtpRecord \cup {Null}] /\ lock' \subseteq Phones
         /\ guesses' \in [Ids -> Nat] /\ admitted' \in [Ids -> SUBSET Letting]
         /\ RequestOK(c)'
<1> DEFINE f == req[c]
           p == req[c].key
<1>1. /\ f # Idle /\ RequestOK(c) /\ f.id \in Ids /\ f.id \in Nat /\ arrived \in Nat
      /\ c \in DOMAIN req
      /\ otp \in [Phones -> OtpRecord \cup {Null}] /\ lock \subseteq Phones
      /\ guesses \in [Ids -> Nat] /\ admitted \in [Ids -> SUBSET Letting]
  BY RedisKeeps, InHandFacts, IdsAreNats DEF Tables, TypeOK
<1>2. f.op \in OtpOps /\ p \in Phones
  <2>1. f.op \in OtpOps
    BY DEF RedisStep, RequestOtp_Clear, RequestOtp_Store, RequestOtp_Expire,
       VerifyOtp_Count, VerifyOtp_Discard, VerifyOtp_Lock, VerifyOtp_Consume, At, OtpOps
  <2> QED  BY <1>1, <2>1 DEF RequestOK
<1>3. f.op \in Verifies => f.args \in Ids \cup {Null}
  BY <1>1 DEF RequestOK
<1>4. UNCHANGED <<tables, arrived, log>>
  BY RedisKeeps
<1>5. req'[c] = Idle => RequestOK(c)'
  BY DEF RequestOK
<1>6. Issues \cap Verifies = {}
  BY DEF Issues, Verifies
<1>7. otp[p] \in OtpRecord \cup {Null}
  BY <1>1, <1>2
<1>a. ASSUME Ends(c) PROVE RequestOK(c)'
  BY <1>1, <1>5, <1>a DEF Ends
<1>b. ASSUME NEW step \in {"store", "expire"}, f.op \in Issues, Continues(c, step)
      PROVE  RequestOK(c)'
  BY <1>1, <1>2, <1>4, <1>6, <1>b, Onwards DEF Continues
<1>d. ASSUME NEW step \in {"discard", "lock", "admit"}, f.op \in Verifies, Continues(c, step)
      PROVE  RequestOK(c)'
  BY <1>1, <1>2, <1>4, <1>6, <1>d, Onwards DEF Continues
<1>e. ASSUME NEW r \in OtpRecord \cup {Null}, otp' = [otp EXCEPT ![p] = r]
      PROVE  otp' \in [Phones -> OtpRecord \cup {Null}]
  BY <1>1, <1>2, <1>e
<1>8. CASE RequestOtp_Clear(c)
  <2>1. /\ otp' = [otp EXCEPT ![p] = Null] /\ f.op \in Issues /\ Continues(c, "store")
        /\ UNCHANGED <<lock, guesses, admitted>>
    BY <1>8 DEF RequestOtp_Clear, At
  <2> QED  BY <1>1, <1>b, <1>e, <2>1
<1>9. CASE RequestOtp_Store(c)
  <2> DEFINE r == [code |-> f.id, attempts |-> 0, ttl |-> otp[p] # Null /\ otp[p].ttl]
  <2>1. /\ otp' = [otp EXCEPT ![p] = r] /\ f.op \in Issues /\ Continues(c, "expire")
        /\ UNCHANGED <<lock, guesses, admitted>>
    BY <1>9 DEF RequestOtp_Store, At
  <2>2. (otp[p] # Null /\ otp[p].ttl) \in BOOLEAN
    OBVIOUS
  <2>3. r \in OtpRecord
    BY <1>1, <2>2 DEF OtpRecord
  <2> HIDE DEF r
  <2> QED  BY <1>1, <1>b, <1>e, <2>1, <2>3
<1>10. CASE RequestOtp_Expire(c)
  <2>1. /\ otp' = [otp EXCEPT ![p] = IF otp[p] = Null THEN Null
                                     ELSE [otp[p] EXCEPT !.ttl = TRUE]]
        /\ Ends(c) /\ UNCHANGED <<lock, guesses, admitted>>
    BY <1>10 DEF RequestOtp_Expire
  <2>2. otp[p] # Null => [otp[p] EXCEPT !.ttl = TRUE] \in OtpRecord
    BY <1>7 DEF OtpRecord
  <2> QED  BY <1>1, <1>a, <1>e, <2>1, <2>2
<1>11. CASE VerifyOtp_Count(c)
  <2>1. /\ otp' = [otp EXCEPT ![p] = Counted(otp[p])]
        /\ guesses' = [k \in Ids |-> guesses[k] + IF k = f.args THEN 1 ELSE 0]
        /\ Continues(c, "discard") \/ Ends(c)
        /\ f.op \in Verifies /\ UNCHANGED <<lock, admitted>>
    BY <1>11 DEF VerifyOtp_Count, At
  <2>2. Counted(otp[p]) \in OtpRecord
    <3>1. CASE otp[p] = Null
      BY <3>1 DEF Counted, OtpRecord
    <3>2. CASE otp[p] \in OtpRecord
      BY <3>2, RowAssumption DEF Counted, OtpRecord
    <3> QED  BY <1>7, <3>1, <3>2
  <2>3. guesses' \in [Ids -> Nat]
    BY <1>1, <2>1
  <2> QED  BY <1>1, <1>a, <1>d, <1>e, <2>1, <2>2, <2>3
<1>12. CASE VerifyOtp_Discard(c)
  <2>1. /\ otp' = [otp EXCEPT ![p] = Null] /\ f.op \in Verifies /\ Continues(c, "lock")
        /\ UNCHANGED <<lock, guesses, admitted>>
    BY <1>12 DEF VerifyOtp_Discard, At
  <2> QED  BY <1>1, <1>d, <1>e, <2>1
<1>13. CASE VerifyOtp_Lock(c)
  <2>1. lock' = lock \cup {p} /\ Ends(c) /\ UNCHANGED <<otp, guesses, admitted>>
    BY <1>13 DEF VerifyOtp_Lock
  <2> QED  BY <1>1, <1>2, <1>a, <2>1
<1>14. CASE VerifyOtp_Consume(c)
  <2>1. /\ otp' = [otp EXCEPT ![p] = Null] /\ f.op \in Verifies /\ Continues(c, "admit")
        /\ admitted' = [admitted EXCEPT ![f.args] = admitted[f.args] \cup {Admission(c)}]
        /\ f.step = "consume" /\ UNCHANGED <<lock, guesses>>
    BY <1>14 DEF VerifyOtp_Consume, At
  <2>2. f.args \in Ids
    BY <1>1, <2>1, <1>3 DEF RequestOK
  <2>3. Admission(c) \in Letting
    BY <1>1 DEF Admission, Letting
  <2>4. admitted' \in [Ids -> SUBSET Letting]
    <3> DEFINE w == admitted[f.args] \cup {Admission(c)}
    <3>1. w \in SUBSET Letting
      BY <1>1, <2>2, <2>3
    <3>2. admitted' = [admitted EXCEPT ![f.args] = w]
      BY <2>1
    <3> HIDE DEF w
    <3> QED  BY <1>1, <2>2, <3>1, <3>2
  <2> QED  BY <1>1, <1>d, <1>e, <2>1, <2>4
<1> QED  BY <1>8, <1>9, <1>10, <1>11, <1>12, <1>13, <1>14 DEF RedisStep

\* The steps in which no request writes or goes on.
LEMMA OtherTypes ==
  ASSUME Tables, OtherStep
  PROVE  /\ sock' \in [Sockets -> Socket]
         /\ \A b \in Sockets : sock'[b].owed \subseteq published'
         /\ UNCHANGED <<redis, accounts, page, device, published, req, ghosts>>
<1>1. /\ sock \in [Sockets -> Socket]
      /\ \A b \in Sockets : sock[b].owed \subseteq published
  BY DEF Tables, TypeOK
<1>2. CASE CacheExpires
  BY <1>1, <1>2 DEF CacheExpires, feed
<1>3. ASSUME NEW b \in Sockets, WsNext(b)
      PROVE  /\ sock' \in [Sockets -> Socket]
             /\ \A s \in Sockets : sock'[s].owed \subseteq published'
             /\ UNCHANGED <<redis, accounts, page, device, published, req, ghosts>>
  <2>1. UNCHANGED <<redis, accounts, page, device, published, req, ghosts>>
    BY <1>3 DEF WsNext, WsConnect, WsSubscribe, WsForward, WsCut, WsClose, WsDisconnect,
       content
  <2>2. sock[b] \in Socket
    BY <1>1
  <2>3. \E s \in Socket : s.owed = sock[b].owed /\ sock' = [sock EXCEPT ![b] = s]
    <3>1. CASE WsConnect(b) \/ WsSubscribe(b)
      <4>1. PICK st \in {"ready", "subscribed"} : sock' = [sock EXCEPT ![b].state = st]
        BY <3>1 DEF WsConnect, WsSubscribe
      <4>2. /\ [sock[b] EXCEPT !.state = st] \in Socket
            /\ [sock[b] EXCEPT !.state = st].owed = sock[b].owed
        BY <2>2 DEF Socket
      <4> QED  BY <4>1, <4>2
    <3>2. CASE WsForward(b)
      <4> DEFINE q == Tail(sock[b].queue)
                 r == sock[b].received \cup {Head(sock[b].queue)}
                 s == [sock[b] EXCEPT !.queue = q, !.received = r]
      <4>1. sock' = [sock EXCEPT ![b] = s]
        BY <3>2 DEF WsForward
      <4>2. sock[b].queue \in Seq(Ids) /\ sock[b].queue # << >> /\ sock[b].received \subseteq Ids
        BY <2>2, <3>2 DEF Socket, WsForward
      <4>3. q \in Seq(Ids) /\ Head(sock[b].queue) \in Ids
        BY <4>2
      <4>4. r \in SUBSET Ids
        BY <4>2, <4>3
      <4> HIDE DEF q, r
      <4>5. s \in Socket /\ s.owed = sock[b].owed
        BY <2>2, <4>3, <4>4 DEF Socket
      <4> QED  BY <4>1, <4>5
    <3>3. CASE WsCut(b) \/ WsClose(b) \/ WsDisconnect(b)
      <4>1. PICK st \in {"cut", "closed"} :
              sock' = [sock EXCEPT ![b] = [sock[b] EXCEPT !.state = st, !.queue = << >>]]
        BY <3>3 DEF WsCut, WsClose, WsDisconnect
      <4>2. << >> \in Seq(Ids)
        OBVIOUS
      <4>3. /\ [sock[b] EXCEPT !.state = st, !.queue = << >>] \in Socket
            /\ [sock[b] EXCEPT !.state = st, !.queue = << >>].owed = sock[b].owed
        BY <2>2, <4>2 DEF Socket
      <4> QED  BY <4>1, <4>3
    <3> QED  BY <1>3, <3>1, <3>2, <3>3 DEF WsNext
  <2>4. PICK s \in Socket : s.owed = sock[b].owed /\ sock' = [sock EXCEPT ![b] = s]
    BY <2>3
  <2>5. /\ sock' \in [Sockets -> Socket]
        /\ \A x \in Sockets : sock'[x].owed = sock[x].owed
    BY <1>1, <2>4
  <2> QED  BY <1>1, <2>1, <2>5
<1> QED  BY <1>2, <1>3 DEF OtherStep

LEMMA ExpiryTypes ==
  ASSUME Tables, ExpiryStep
  PROVE  /\ otp' \in [Phones -> OtpRecord \cup {Null}] /\ lock' \subseteq Phones
         /\ UNCHANGED <<tables, req, arrived, guesses, admitted, log>>
<1>1. otp \in [Phones -> OtpRecord \cup {Null}] /\ lock \subseteq Phones
  BY DEF Tables, TypeOK
<1>2. ASSUME NEW p \in Phones, OtpExpires(p)
      PROVE  /\ otp' = [otp EXCEPT ![p] = Null]
             /\ UNCHANGED <<lock, tables, req, arrived, guesses, admitted, log>>
  BY <1>2 DEF OtpExpires
<1>3. ASSUME NEW p \in Phones, LockExpires(p)
      PROVE  /\ lock' = lock \ {p}
             /\ UNCHANGED <<otp, tables, req, arrived, guesses, admitted, log>>
  BY <1>3 DEF LockExpires, ghosts
<1>4. PICK p \in Phones : OtpExpires(p) \/ LockExpires(p)
  BY DEF ExpiryStep
<1>5. CASE OtpExpires(p)
  <2>1. otp' = [otp EXCEPT ![p] = Null]
    BY <1>2, <1>5
  <2>2. UNCHANGED <<lock, tables, req, arrived, guesses, admitted, log>>
    BY <1>2, <1>5
  <2>3. otp' \in [Phones -> OtpRecord \cup {Null}]
    BY <1>1, <2>1
  <2> QED  BY <1>1, <2>2, <2>3
<1>6. CASE LockExpires(p)
  <2>1. lock' = lock \ {p}
    BY <1>3, <1>6
  <2>2. UNCHANGED <<otp, tables, req, arrived, guesses, admitted, log>>
    BY <1>3, <1>6
  <2> QED  BY <1>1, <2>1, <2>2
<1> QED  BY <1>4, <1>5, <1>6

\* Where nobody touches users, tokens and the log, all of it stays.
LEMMA Untouched ==
  ASSUME Tables, UNCHANGED <<user, token, log>>, arrived' \in Nat, arrived' >= arrived
  PROVE  Stays
<1>1. log \in Seq(Entry)
  BY DEF Tables
<1>2. Len(log) \in Nat
  BY <1>1
<1> QED  BY <1>1, <1>2 DEF Stays

\* Ids stay unique while requests go on or end, and new tokens are of those
\* that end.
LEMMA StillUnique ==
  ASSUME Tables, arrived' \in Nat, arrived' >= arrived,
         \A d \in Clients : req'[d] = Idle \/ (req[d] # Idle /\ req'[d].id = req[d].id),
         \A t \in Ids : token'[t] # Null =>
           \/ token[t] # Null
           \/ \E d \in Clients : req[d] # Idle /\ t = req[d].id /\ req'[d] = Idle
  PROVE  UniqueIds'
<1>1. UniqueIds /\ arrived \in Nat
  BY PortalAssumption DEF Tables, TypeOK
<1>2. ASSUME NEW t \in Ids, token'[t] # Null
      PROVE  t <= arrived' /\ \A d \in Clients : req'[d] # Idle => req'[d].id # t
  <2>1. CASE token[t] # Null
    BY <1>1, <2>1, IdsAreNats DEF UniqueIds
  <2>2. CASE \E d \in Clients : req[d] # Idle /\ t = req[d].id /\ req'[d] = Idle
    <3>1. PICK d \in Clients : req[d] # Idle /\ t = req[d].id /\ req'[d] = Idle
      BY <2>2
    <3>2. t \in 1 .. arrived
      BY <3>1, InHandFacts
    <3> QED  BY <1>1, <3>1, <3>2 DEF UniqueIds
  <2> QED  BY <1>2, <2>1, <2>2
<1> QED  BY <1>1, <1>2 DEF UniqueIds

\* A row of tokens that was there keeps its place.
LEMMA RowStays ==
  ASSUME Tables, Stays, token' \in [Ids -> RefreshToken \cup {Null}],
         NEW t \in Ids, token[t] # Null
  PROVE  /\ user'[token'[t].user] # Null
         /\ token'[t].born \in 0 .. Len(log') /\ token'[t].read \in 0 .. Len(log')
         /\ token'[t].parent # Null => token'[token'[t].parent] # Null
<1>1. /\ token \in [Ids -> RefreshToken \cup {Null}] /\ user \in [Phones -> User \cup {Null}]
      /\ TokenRows /\ Len(log) \in Nat /\ Len(log') \in Nat
  BY DEF Tables, TypeOK, Stays
<1>2. token[t] \in RefreshToken
  BY <1>1
<1>3. token[t].user \in Phones /\ token[t].parent \in Ids \cup {Null}
  BY <1>2 DEF RefreshToken
<1>4. /\ token'[t].user = token[t].user /\ token'[t].parent = token[t].parent
      /\ token'[t].born = token[t].born /\ token'[t].read = token[t].read
  BY <1>2 DEF Stays
<1>5. user'[token[t].user] \in User
  BY <1>1, <1>3 DEF TokenRows, Stays
<1>6. token[t].parent # Null => token'[token[t].parent] \in RefreshToken
  BY <1>1, <1>3 DEF TokenRows, Stays
<1>7. token[t].born \in 0 .. Len(log') /\ token[t].read \in 0 .. Len(log')
  BY <1>1 DEF TokenRows, Stays
<1> QED  BY <1>4, <1>5, <1>6, <1>7, RowAssumption

LEMMA TokenRowsKept ==
  ASSUME Tables, Stays, token' \in [Ids -> RefreshToken \cup {Null}],
         \A t \in Ids : token[t] = Null => token'[t] = Null
  PROVE  TokenRows'
<1>1. SUFFICES ASSUME NEW t \in Ids, token'[t] # Null
               PROVE  /\ user'[token'[t].user] # Null
                      /\ token'[t].born \in 0 .. Len(log') /\ token'[t].read \in 0 .. Len(log')
                      /\ token'[t].parent # Null => token'[token'[t].parent] # Null
  BY DEF TokenRows
<1> QED  BY <1>1, RowStays

\* The row of a token that a request brings.
LEMMA RowIsNew ==
  ASSUME Tables, NEW c \in Clients, WriteStep(c), Stays, Brings(c)
  PROVE  LET t == req[c].id IN
         /\ user'[token'[t].user] # Null
         /\ token'[t].born \in 0 .. Len(log') /\ token'[t].read \in 0 .. Len(log')
         /\ token'[t].parent # Null => token'[token'[t].parent] # Null
<1> DEFINE f == req[c]
           e == [id |-> f.id, op |-> f.op, key |-> f.key]
<1>1. /\ f # Idle /\ RequestOK(c) /\ f.id \in Ids /\ f.key \in Keys
      /\ log \in Seq(Entry) /\ Len(log) \in Nat
  BY WritesEnd, InHandFacts DEF Tables
<1>2. e \in Entry /\ f.read \in 0 .. Len(log)
  BY <1>1 DEF Entry, RequestOK
<1>3. Len(log') = Len(log) + 1
  <2>1. log' = Append(log, e)
    BY DEF Brings
  <2> HIDE DEF e
  <2> QED  BY <1>1, <1>2, <2>1, LogGrows
<1>4. PICK p \in Phones :
       /\ user'[p] \in User
       /\ \/ /\ f.op \in RegisterOps /\ user[p] = Null
             /\ token'[f.id] = IssueTokens("register", p, Null, f.read)
          \/ /\ f.op = "login" /\ p = f.key /\ user[p] \in User
             /\ token'[f.id] = IssueTokens("login", p, Null, f.read)
          \/ /\ f.op = "otp_verify" /\ user[p] \in User
             /\ token'[f.id] = IssueTokens("otp_verify", p, Null, Len(log))
          \/ /\ f.op = "refresh" /\ p = token[f.key].user /\ user[p] \in User
             /\ token'[f.id] = IssueTokens("refresh", p, f.key, f.read)
  BY DEF Brings
<1>5. /\ token'[f.id].user = p /\ token'[f.id].born = Len(log) + 1
      /\ token'[f.id].read \in {f.read, Len(log)}
      /\ token'[f.id].parent = Null \/ (f.op = "refresh" /\ token'[f.id].parent = f.key)
  BY <1>4 DEF IssueTokens, Now
<1>6. f.op = "refresh" => token'[f.key] \in RefreshToken
  BY <1>1 DEF RequestOK, Stays
<1> QED  BY <1>1, <1>2, <1>3, <1>4, <1>5, <1>6, RowAssumption

-----------------------------------------------------------------------------
(***************************************************************************)
(* The tables and the requests in flight, step by step.                    *)
(***************************************************************************)
LEMMA ReadTables ==
  ASSUME Tables, NEW c \in Clients, ReadStep(c)
  PROVE  Tables' /\ Stays
<1>1. /\ TypeOK /\ UniqueIds /\ TokenRows /\ DOMAIN req = Clients
      /\ arrived \in Nat /\ arrived \in 0 .. MaxReq
  BY PortalAssumption DEF Tables, TypeOK
<1>2. /\ UNCHANGED <<redis, tables, guesses, admitted, log>>
  BY ReadsOnly
<1>3. PICK op \in Ops, step \in Steps : \E key, args, snap :
        Ready(c, op) /\ Reads(c, op, step, key, args, snap)
  BY ReadsOnly
<1>4. PICK key, args, snap : Ready(c, op) /\ Reads(c, op, step, key, args, snap)
  BY <1>3
<1>5. /\ arrived < MaxReq /\ arrived' = arrived + 1 /\ DOMAIN req' = Clients
      /\ req'[c].id = arrived + 1
      /\ \A d \in Clients \ {c} : req'[d] = req[d]
  BY <1>1, <1>4 DEF Ready, Reads
<1>6. Stays
  BY <1>1, <1>2, <1>5, Untouched DEF tables, accounts
<1>7. \A d \in Clients : RequestOK(d)'
  BY <1>5, <1>6, ArrivalOK, OthersKeep
<1>8. UniqueIds'
  <2>1. \A d \in Clients \ {c} : req[d] # Idle => req[d].id \in 1 .. arrived
    BY InHandFacts
  <2>2. UNCHANGED token
    BY <1>2 DEF tables, accounts
  <2> QED  BY <1>1, <1>5, <2>1, <2>2, IdsAreNats DEF UniqueIds
<1>9. UNCHANGED <<user, token, audit, page, device, sock, published, otp, lock,
                  guesses, admitted, log>>
  BY <1>2 DEF redis, tables, accounts, content, feed
<1>10. TokenRows'
  BY <1>1, <1>6, <1>9, TokenRowsKept DEF TypeOK
<1>11. TypeOK'
  BY <1>1, <1>5, <1>9, PortalAssumption DEF TypeOK
<1> QED  BY <1>5, <1>6, <1>7, <1>8, <1>9, <1>10, <1>11 DEF Tables

LEMMA RedisTables ==
  ASSUME Tables, NEW c \in Clients, RedisStep(c)
  PROVE  Tables' /\ Stays
<1>1. /\ TypeOK /\ UniqueIds /\ TokenRows /\ DOMAIN req = Clients
      /\ arrived \in Nat
  BY PortalAssumption DEF Tables, TypeOK
<1>2. UNCHANGED <<tables, arrived, log>> /\ req[c] # Idle
  BY RedisKeeps
<1>3. /\ DOMAIN req' = Clients /\ \A d \in Clients \ {c} : req'[d] = req[d]
      /\ req'[c] = Idle \/ req'[c].id = req[c].id
  <2>1. CASE req' = [req EXCEPT ![c] = Idle]
    BY <1>1, <2>1
  <2>2. ASSUME NEW step, req' = [req EXCEPT ![c].step = step, ![c].read = Len(log)]
        PROVE  /\ DOMAIN req' = Clients /\ \A d \in Clients \ {c} : req'[d] = req[d]
               /\ req'[c].id = req[c].id
    <3>1. DOMAIN req' = Clients /\ \A d \in Clients \ {c} : req'[d] = req[d]
      BY <1>1, <2>2
    <3>2. req'[c].id = req[c].id
      <4>1. req'[c] = [req[c] EXCEPT !.step = step, !.read = Len(log)]
        BY <1>1, <2>2
      <4>2. RequestOK(c)
        BY InHandFacts, <1>2
      <4> QED  BY <1>2, <4>1, <4>2 DEF RequestOK
    <3> QED  BY <3>1, <3>2
  <2> QED  BY <2>1, <2>2, RedisKeeps
<1>4. Stays
  BY <1>1, <1>2, Untouched DEF tables, accounts
<1>5. \A d \in Clients : RequestOK(d)'
  BY <1>3, <1>4, RedisTypes, OthersKeep
<1>6. UNCHANGED <<user, token, audit, page, device, sock, published, arrived, log>>
  BY <1>2 DEF tables, accounts, content, feed
<1>7. UniqueIds'
  BY <1>1, <1>2, <1>3, <1>6, StillUnique
<1>8. TokenRows'
  BY <1>1, <1>4, <1>6, TokenRowsKept DEF TypeOK
<1>9. TypeOK'
  BY <1>1, <1>6, RedisTypes DEF TypeOK
<1> QED  BY <1>3, <1>4, <1>5, <1>6, <1>7, <1>8, <1>9, RedisTypes DEF Tables

LEMMA WriteTables ==
  ASSUME Tables, NEW c \in Clients, WriteStep(c)
  PROVE  Tables' /\ Stays
<1>1. /\ TypeOK /\ TokenRows /\ DOMAIN req = Clients /\ arrived \in Nat
      /\ guesses \in [Ids -> Nat] /\ admitted \in [Ids -> SUBSET Letting]
      /\ published \subseteq Ids /\ token \in [Ids -> RefreshToken \cup {Null}]
  BY PortalAssumption DEF Tables, TypeOK
<1>2. /\ req[c] # Idle /\ req' = [req EXCEPT ![c] = Idle]
      /\ UNCHANGED <<redis, guesses, admitted, arrived>>
  BY WritesEnd
<1>3. /\ DOMAIN req' = Clients /\ req'[c] = Idle
      /\ \A d \in Clients \ {c} : req'[d] = req[d]
  BY <1>1, <1>2
<1>4. Stays
  BY WriteStays
<1>5. \A d \in Clients : RequestOK(d)'
  <2>1. RequestOK(c)'
    BY <1>3 DEF RequestOK
  <2> QED  BY <1>3, <1>4, <2>1, OthersKeep
<1>6. \A t \in Ids : t # req[c].id /\ token'[t] # Null => token[t] # Null
  BY TokenWrites, RowAssumption DEF Kept
<1>7. UniqueIds'
  BY <1>1, <1>2, <1>3, <1>6, StillUnique
<1>8. TokenRows'
  <2>1. SUFFICES ASSUME NEW t \in Ids, token'[t] # Null
                 PROVE  /\ user'[token'[t].user] # Null
                        /\ token'[t].born \in 0 .. Len(log') /\ token'[t].read \in 0 .. Len(log')
                        /\ token'[t].parent # Null => token'[token'[t].parent] # Null
    BY DEF TokenRows
  <2>2. CASE t # req[c].id
    BY <1>4, <1>6, <2>1, <2>2, RowStays, TokenWrites
  <2>3. CASE t = req[c].id
    BY <1>4, <2>1, <2>3, RowIsNew, TokenWrites
  <2> QED  BY <2>2, <2>3
<1>9. UNCHANGED <<sock, published, otp, lock>>
  BY <1>2, ViewWrites DEF redis, feed
<1>10. audit' \in Seq(AuditRow)
  BY UserWrites
<1>11. TypeOK'
  <2>1. \A i \in DOMAIN audit' :
          \/ audit'[i].column = "role" /\ audit'[i] \in AuditOf("role", Roles)
          \/ audit'[i].column = "is_active" /\ audit'[i] \in AuditOf("is_active", BOOLEAN)
    BY <1>10 DEF AuditRow, AuditOf
  <2> QED  BY <1>1, <1>2, <1>9, <2>1, UserWrites, TokenWrites, ViewWrites DEF TypeOK
<1> QED  BY <1>1, <1>2, <1>3, <1>4, <1>5, <1>7, <1>8, <1>9, <1>10, <1>11 DEF Tables, Stays

LEMMA AtOnceTables ==
  ASSUME Tables, NEW c \in Clients, AtOnceStep(c)
  PROVE  Tables' /\ Stays
<1>1. /\ TypeOK /\ DOMAIN req = Clients /\ arrived \in Nat /\ arrived \in 0 .. MaxReq
      /\ guesses \in [Ids -> Nat] /\ admitted \in [Ids -> SUBSET Letting]
      /\ audit \in Seq(AuditRow)
  BY PortalAssumption DEF Tables, TypeOK
<1>2. /\ arrived < MaxReq /\ arrived' = arrived + 1
      /\ UNCHANGED <<redis, guesses, admitted, req>>
  BY AtOnceCommits
<1>3. Stays
  BY AtOnceTypes
<1>4. \A d \in Clients : RequestOK(d)'
  BY <1>2, <1>3, OthersKeep
<1>5. UniqueIds'
  BY <1>1, <1>2, AtOnceTypes, StillUnique
<1>6. TokenRows'
  BY <1>3, AtOnceTypes, TokenRowsKept
<1>7. UNCHANGED <<otp, lock, audit, page, device>>
  BY <1>2, AtOnceTypes DEF redis
<1>8. TypeOK'
  BY <1>1, <1>2, <1>7, AtOnceTypes, PortalAssumption DEF TypeOK
<1> QED  BY <1>1, <1>2, <1>3, <1>4, <1>5, <1>6, <1>7, <1>8, AtOnceTypes DEF Tables, Stays

LEMMA OtherTables ==
  ASSUME Tables, OtherStep \/ ExpiryStep \/ UNCHANGED vars \/ \E c \in Clients : Abort(c)
  PROVE  Tables' /\ Stays
<1>1. /\ TypeOK /\ DOMAIN req = Clients /\ arrived \in Nat
      /\ otp \in [Phones -> OtpRecord \cup {Null}] /\ lock \subseteq Phones
      /\ sock \in [Sockets -> Socket]
      /\ \A b \in Sockets : sock[b].owed \subseteq published
  BY PortalAssumption DEF Tables, TypeOK
<1>2. /\ UNCHANGED <<user, token, audit, page, device, published, arrived, guesses,
                     admitted, log>>
      /\ otp' \in [Phones -> OtpRecord \cup {Null}] /\ lock' \subseteq Phones
      /\ sock' \in [Sockets -> Socket]
      /\ \A b \in Sockets : sock'[b].owed \subseteq published'
  <2>1. CASE OtherStep
    BY <1>1, <2>1, OtherTypes DEF redis, accounts, ghosts
  <2>2. CASE ExpiryStep
    BY <1>1, <2>2, ExpiryTypes DEF tables, accounts, content, feed
  <2>3. CASE UNCHANGED vars \/ \E c \in Clients : Abort(c)
    BY <1>1, <2>3 DEF Abort, vars, redis, tables, accounts, content, feed, ghosts
  <2> QED  BY <2>1, <2>2, <2>3
<1>3. DOMAIN req' = Clients /\ \A d \in Clients : req'[d] \in {Idle, req[d]}
  <2>1. CASE OtherStep \/ ExpiryStep \/ UNCHANGED vars
    <3>1. UNCHANGED req
      BY <2>1, OtherTypes, ExpiryTypes DEF vars
    <3> QED  BY <1>1, <3>1
  <2>2. ASSUME NEW c \in Clients, Abort(c)
        PROVE  DOMAIN req' = Clients /\ \A d \in Clients : req'[d] \in {Idle, req[d]}
    BY <1>1, <2>2 DEF Abort
  <2> QED  BY <2>1, <2>2
<1>4. Stays
  BY <1>1, <1>2, Untouched
<1>5. \A d \in Clients : RequestOK(d)'
  <2>1. ASSUME NEW d \in Clients, req'[d] = Idle PROVE RequestOK(d)'
    BY <2>1 DEF RequestOK
  <2> QED  BY <1>3, <1>4, <2>1, OthersKeep
<1>6. UniqueIds'
  BY <1>1, <1>2, <1>3, StillUnique
<1>7. TokenRows'
  BY <1>1, <1>2, <1>4, TokenRowsKept DEF TypeOK
<1>8. TypeOK'
  BY <1>1, <1>2 DEF TypeOK
<1> QED  BY <1>2, <1>3, <1>4, <1>5, <1>6, <1>7, <1>8 DEF Tables

LEMMA TablesStep ==
  ASSUME Tables, [Next]_vars
  PROVE  Tables' /\ Stays
BY StepCases, ReadTables, RedisTables, WriteTables, AtOnceTables, OtherTables

LEMMA TablesInit == Init => Tables
<1> SUFFICES ASSUME Init PROVE Tables
  OBVIOUS
<1> DEFINE p == CHOOSE x \in Phones : TRUE
           rec == [code |-> 0, attempts |-> 0, ttl |-> TRUE]
           row == [role |-> "customer", is_active |-> TRUE, password |-> 0,
                   center |-> Null, profile |-> 0, avatar |-> 0]
           tok == [user |-> p, by |-> "login", parent |-> Null, active |-> TRUE,
                   enabled |-> TRUE, read |-> 0, born |-> 0]
<1>1. p \in Phones /\ 0 \in Ids /\ Ids \subseteq Nat /\ MaxReq \in Nat
  BY PortalAssumption DEF Ids
<1>2. rec \in OtpRecord /\ row \in User /\ tok \in RefreshToken
  BY <1>1 DEF OtpRecord, User, Roles, RefreshToken
<1>3. /\ otp = [x \in Phones |-> IF x = p THEN rec ELSE Null]
      /\ user = [x \in Phones |-> IF x = p THEN row ELSE Null]
      /\ token = [t \in Ids |-> IF t = 0 THEN tok ELSE Null]
  BY DEF Init
<1>4. tok.user = p /\ tok.read = 0 /\ tok.born = 0 /\ tok.parent = Null
  OBVIOUS
<1> HIDE DEF p, rec, row, tok
<1>5. /\ otp \in [Phones -> OtpRecord \cup {Null}]
      /\ user \in [Phones -> User \cup {Null}]
      /\ token \in [Ids -> RefreshToken \cup {Null}]
  BY <1>2, <1>3
<1>6. /\ lock = {} /\ audit = << >> /\ page = {} /\ device = {} /\ published = {}
      /\ sock = [b \in Sockets |-> NoSocket] /\ req = [c \in Clients |-> Idle]
      /\ arrived = 0 /\ log = << >>
      /\ guesses = [k \in Ids |-> 0] /\ admitted = [k \in Ids |-> {}]
  BY DEF Init
<1>7. NoSocket \in Socket /\ NoSocket.owed = {}
  BY DEF NoSocket, Socket
<1>8. TypeOK
  BY <1>1, <1>5, <1>6, <1>7 DEF TypeOK
<1>9. \A c \in Clients : req[c] = Idle
  BY <1>6
<1>10. \A c \in Clients : RequestOK(c)
  BY <1>9 DEF RequestOK
<1>11. UniqueIds
  BY <1>1, <1>3, <1>6, <1>9 DEF UniqueIds
<1>12. TokenRows
  <2>1. Len(log) = 0
    BY <1>6
  <2> QED  BY <1>1, <1>2, <1>3, <1>4, <2>1, RowAssumption DEF TokenRows
<1>13. log \in Seq(Entry) /\ audit \in Seq(AuditRow)
  BY <1>6
<1> QED  BY <1>6, <1>8, <1>10, <1>11, <1>12, <1>13 DEF Tables

LEMMA TablesInvariant == Spec => []Tables
<1>1. Tables /\ [Next]_vars => Tables'
  BY TablesStep
<1> QED  BY TablesInit, <1>1, PTL DEF Spec

\* Every table, Redis record, commit and request is of its kind, for any
\* number of phones, requests in flight, pages, devices and sockets.
THEOREM PortalTypeCorrect == Spec => []TypeOK
<1>1. Tables => TypeOK
  BY DEF Tables
<1> QED  BY TablesInvariant, <1>1, PTL

-----------------------------------------------------------------------------
(***************************************************************************)
(* Pages and devices.                                                      *)
(***************************************************************************)
\* Who writes pages and devices.
LEMMA ViewsKept ==
  ASSUME Tables, [Next]_vars
  PROVE  \/ UNCHANGED <<page, device>>
         \/ \E c \in Clients : Upsert_Write(c) \/ RegisterDevice_Write(c)
<1>1. ASSUME NEW c \in Clients, ReadStep(c) PROVE UNCHANGED <<page, device>>
  BY <1>1, ReadsOnly DEF tables, content
<1>2. ASSUME NEW c \in Clients, RedisStep(c) PROVE UNCHANGED <<page, device>>
  BY <1>2, RedisKeeps DEF tables, content
<1>3. ASSUME NEW c \in Clients, WriteStep(c), ~Upsert_Write(c), ~RegisterDevice_Write(c)
      PROVE  UNCHANGED <<page, device>>
  BY <1>3 DEF WriteStep, Register_Write, Login_Write, OtpLogin, RotateRefresh_Write,
     ResetPassword, AdminChange_Write, SetAvatar_Write, ListPages_Fill, content
<1>4. ASSUME NEW c \in Clients, AtOnceStep(c) PROVE UNCHANGED <<page, device>>
  BY <1>4, AtOnceTypes
<1>5. ASSUME NEW c \in Clients, Abort(c) PROVE UNCHANGED <<page, device>>
  BY <1>5 DEF Abort, tables, content
<1>6. ASSUME ExpiryStep \/ OtherStep \/ UNCHANGED vars PROVE UNCHANGED <<page, device>>
  BY <1>6, ExpiryTypes, OtherTypes DEF vars, tables, content
<1> QED  BY StepCases, <1>1, <1>2, <1>3, <1>4, <1>5, <1>6

\* One page per slug and one device per user and token, although every
\* request looks before it inserts: the unique key stops the second.
THEOREM RowsStayUnique == Spec => []RowsHaveUniqueKeys
<1>1. Init => RowsHaveUniqueKeys
  BY DEF Init, RowsHaveUniqueKeys
<1>2. ASSUME Tables, RowsHaveUniqueKeys, [Next]_vars
      PROVE  RowsHaveUniqueKeys'
  <2>1. ASSUME NEW c \in Clients, Upsert_Write(c) PROVE RowsHaveUniqueKeys'
    <3> DEFINE new == [slug |-> req[c].key, edit |-> req[c].id]
    <3>1. /\ page' \subseteq page \cup {new} /\ device' = device
          /\ \A x \in page' : x = new \/ x.slug # new.slug
      BY <2>1 DEF Upsert_Write, GetBySlug, UniqueKeyAllows
    <3> HIDE DEF new
    <3> QED  BY <1>2, <3>1 DEF RowsHaveUniqueKeys
  <2>2. ASSUME NEW c \in Clients, RegisterDevice_Write(c) PROVE RowsHaveUniqueKeys'
    <3> DEFINE new == [user |-> req[c].key, token |-> req[c].args, platform |-> req[c].id]
    <3>1. /\ device' \subseteq device \cup {new} /\ page' = page
          /\ \A x \in device' : x = new \/ x.user # new.user \/ x.token # new.token
      BY <2>2 DEF RegisterDevice_Write, DeviceRows, UniqueKeyAllows, content
    <3> HIDE DEF new
    <3> QED  BY <1>2, <3>1 DEF RowsHaveUniqueKeys
  <2>3. CASE UNCHANGED <<page, device>>
    BY <1>2, <2>3 DEF RowsHaveUniqueKeys
  <2> QED  BY <1>2, <2>1, <2>2, <2>3, ViewsKept
<1> QED  BY <1>1, <1>2, TablesInvariant, PTL DEF Spec

-----------------------------------------------------------------------------
(***************************************************************************)
(* Commits, users and tokens, whoever makes the step.                      *)
(***************************************************************************)
EntryOf(c) == [id |-> req[c].id, op |-> req[c].op, key |-> req[c].key]

\* The log grows at its end, by the entry of who commits.
LEMMA LogStep ==
  ASSUME Tables, [Next]_vars
  PROVE  \/ log' = log
         \/ \E e \in Entry :
              /\ log' = Append(log, e)
              /\ \E c \in Clients :
                   \/ WriteStep(c) /\ e = EntryOf(c)
                   \/ Logout(c) /\ \E t \in Rows(token) :
                        /\ e = [id |-> arrived + 1, op |-> "logout", key |-> t]
                        /\ token' = RevokeRefresh(token, t)
                   \/ (PatchMe(c) \/ Publish(c)) /\ e.op \in {"patch_me", "publish"}
<1>1. ASSUME NEW c \in Clients, ReadStep(c) PROVE log' = log
  BY <1>1, ReadsOnly
<1>2. ASSUME NEW c \in Clients, RedisStep(c) PROVE log' = log
  BY <1>2, RedisKeeps
<1>3. ASSUME NEW c \in Clients, WriteStep(c), log' # log
      PROVE  \E e \in Entry : log' = Append(log, e) /\ e = EntryOf(c)
  <2>1. log' = Append(log, EntryOf(c))
    BY <1>3, WritesEnd DEF EntryOf
  <2>2. /\ RequestOK(c) /\ req[c] # Idle /\ req[c].id \in Ids /\ req[c].key \in Keys
    BY <1>3, WritesEnd, InHandFacts
  <2>3. EntryOf(c) \in Entry
    BY <2>2 DEF Entry, EntryOf, RequestOK
  <2> QED  BY <2>1, <2>3
<1>4. arrived \in 0 .. MaxReq /\ token \in [Ids -> RefreshToken \cup {Null}]
  BY DEF Tables, TypeOK
<1>5. ASSUME NEW c \in Clients, Logout(c)
      PROVE  \E e \in Entry : /\ log' = Append(log, e)
                              /\ \E t \in Rows(token) :
                                  /\ e = [id |-> arrived + 1, op |-> "logout", key |-> t]
                                  /\ token' = RevokeRefresh(token, t)
  <2>1. PICK t \in Rows(token) : /\ token' = RevokeRefresh(token, t)
                                 /\ CommitsAtOnce("logout", t)
    BY <1>5 DEF Logout
  <2>2. arrived < MaxReq
    BY <1>5 DEF Logout, Ready
  <2>3. arrived + 1 \in Ids /\ t \in Ids
    BY <1>4, <2>2, PortalAssumption DEF Ids, Rows
  <2> DEFINE e == [id |-> arrived + 1, op |-> "logout", key |-> t]
  <2>4. log' = Append(log, e)
    BY <2>1 DEF CommitsAtOnce
  <2>5. e \in Entry
    BY <2>3 DEF Entry, AtOnceOps, Keys
  <2> QED  BY <2>1, <2>4, <2>5
<1>6. ASSUME NEW c \in Clients, PatchMe(c) \/ Publish(c)
      PROVE  \E e \in Entry : log' = Append(log, e) /\ e.op \in {"patch_me", "publish"}
  <2>1. PICK op \in {"patch_me", "publish"}, key \in Phones \cup {"channel"} :
          CommitsAtOnce(op, key) /\ arrived < MaxReq
    BY <1>6 DEF PatchMe, Publish, Ready, Rows, Tables, TypeOK
  <2>2. arrived + 1 \in Ids
    BY <1>4, <2>1, PortalAssumption DEF Ids
  <2> DEFINE e == [id |-> arrived + 1, op |-> op, key |-> key]
  <2>3. log' = Append(log, e)
    BY <2>1 DEF CommitsAtOnce
  <2>4. e \in Entry /\ e.op = op
    BY <2>2 DEF Entry, AtOnceOps, Keys
  <2> QED  BY <2>3, <2>4
<1>7. ASSUME NEW c \in Clients, Abort(c) PROVE log' = log
  BY <1>7 DEF Abort
<1>8. ASSUME ExpiryStep \/ OtherStep \/ UNCHANGED vars PROVE log' = log
  BY <1>8, ExpiryTypes, OtherTypes DEF vars, ghosts
<1> QED
  BY StepCases, <1>1, <1>2, <1>3, <1>5, <1>6, <1>7, <1>8 DEF AtOnceStep

\* What the log holds it keeps.
LEMMA LogKept ==
  ASSUME Tables, [Next]_vars
  PROVE  /\ Len(log) \in Nat /\ Len(log') \in {Len(log), Len(log) + 1}
         /\ DOMAIN log = 1 .. Len(log) /\ DOMAIN log' = 1 .. Len(log')
         /\ \A i \in 1 .. Len(log) : log'[i] = log[i]
<1>1. log \in Seq(Entry)
  BY DEF Tables
<1>2. CASE log' = log
  BY <1>1, <1>2
<1>3. ASSUME NEW e \in Entry, log' = Append(log, e)
      PROVE  /\ Len(log') = Len(log) + 1 /\ DOMAIN log' = 1 .. Len(log')
             /\ \A i \in 1 .. Len(log) : log'[i] = log[i]
  BY <1>1, <1>3
<1>4. Len(log) \in Nat /\ DOMAIN log = 1 .. Len(log)
  BY <1>1
<1> QED  BY <1>2, <1>3, <1>4, LogStep

\* An administrator's change of a column leaves the others.
LEMMA OtherColumnKept ==
  ASSUME Tables, NEW p \in Phones, user[p] \in User, NEW col \in {"role", "is_active"},
         NEW c \in Clients, AdminChange_Write(c),
         Column(req[c].op) # col \/ req[c].key # p
  PROVE  user'[p][col] = user[p][col]
<1>0. user \in [Phones -> User \cup {Null}]
  BY DEF Tables, TypeOK
<1> DEFINE f == req[c]
           oc == Column(f.op)
<1>1. \/ user' = user
      \/ user' = [user EXCEPT ![f.key] = [user[f.key] EXCEPT ![oc] = f.args]]
  BY DEF AdminChange_Write, OrmUpdate
<1>2. oc \in {"role", "is_active"}
  BY DEF Column
<1> HIDE DEF oc
<1>3. CASE f.key = p
  <2> DEFINE r == [user[p] EXCEPT ![oc] = f.args]
  <2>1. oc # col
    BY <1>3 DEF oc
  <2>2. r[col] = user[p][col]
    BY <1>2, <2>1 DEF User
  <2>3. user' = user \/ user' = [user EXCEPT ![p] = r]
    BY <1>1, <1>3
  <2> HIDE DEF r
  <2> QED  BY <1>0, <2>2, <2>3
<1>4. CASE f.key # p
  BY <1>0, <1>1, <1>4
<1> QED  BY <1>3, <1>4

\* Only an administrator's change of a column changes it.
LEMMA ColumnKept ==
  ASSUME Tables, [Next]_vars, NEW p \in Phones, user[p] \in User,
         NEW col \in {"role", "is_active"}
  PROVE  \/ user'[p][col] = user[p][col]
         \/ \E c \in Clients : /\ AdminChange_Write(c)
                               /\ Column(req[c].op) = col /\ req[c].key = p
<1>1. user \in [Phones -> User \cup {Null}]
  BY DEF Tables, TypeOK
<1>2. ASSUME NEW c \in Clients, ReadStep(c) PROVE user' = user
  BY <1>2, ReadsOnly DEF tables, accounts
<1>3. ASSUME NEW c \in Clients, RedisStep(c) PROVE user' = user
  BY <1>3, RedisKeeps DEF tables, accounts
<1>4. ASSUME NEW c \in Clients, Register_Write(c) PROVE user'[p] = user[p]
  <2>1. user[req[c].key] = Null \/ req[c].key \notin Phones
    BY <1>1, <1>4 DEF Register_Write, Rows
  <2>2. \E row : user' = [user EXCEPT ![req[c].key] = row]
    BY <1>4, Zenon DEF Register_Write
  <2> QED  BY <1>1, <2>1, <2>2, RowAssumption
<1>5. ASSUME NEW q, NEW other \in {"password", "profile", "avatar"}, NEW v,
             user' = [user EXCEPT ![q] = [user[q] EXCEPT ![other] = v]]
      PROVE  user'[p][col] = user[p][col]
  <2>1. CASE q = p
    <3> DEFINE r == [user[p] EXCEPT ![other] = v]
    <3>1. r[col] = user[p][col]
      BY DEF User
    <3>2. user' = [user EXCEPT ![p] = r]
      BY <1>5, <2>1
    <3> HIDE DEF r
    <3> QED  BY <1>1, <3>1, <3>2
  <2>2. CASE q # p
    BY <1>1, <1>5, <2>2
  <2> QED  BY <2>1, <2>2
<1>6. ASSUME NEW c \in Clients, ResetPassword(c)
      PROVE  user'[p][col] = user[p][col]
  <2>1. user' = [user EXCEPT ![req[c].key] = [user[req[c].key] EXCEPT !["password"] = req[c].id]]
    BY <1>6 DEF ResetPassword
  <2> QED  BY <1>5, <2>1
<1>7. ASSUME NEW c \in Clients, SetAvatar_Write(c)
      PROVE  user'[p][col] = user[p][col]
  <2>1. \/ user' = user
        \/ user' = [user EXCEPT ![req[c].key] = [user[req[c].key] EXCEPT !["avatar"] = req[c].id]]
    BY <1>7 DEF SetAvatar_Write, OrmUpdate
  <2> QED  BY <1>5, <2>1
<1>8. ASSUME NEW c \in Clients, PatchMe(c)
      PROVE  user'[p][col] = user[p][col]
  <2>1. PICK q \in Rows(user) :
          user' = [user EXCEPT ![q] = [user[q] EXCEPT !["profile"] = arrived + 1]]
    BY <1>8 DEF PatchMe
  <2> QED  BY <1>5, <2>1
<1>9. ASSUME NEW c \in Clients, AdminChange_Write(c),
             Column(req[c].op) # col \/ req[c].key # p
      PROVE  user'[p][col] = user[p][col]
  BY <1>9, OtherColumnKept
<1>10. ASSUME NEW c \in Clients,
              \/ Login_Write(c) \/ OtpLogin(c) \/ RotateRefresh_Write(c) \/ ListPages_Fill(c)
              \/ Upsert_Write(c) \/ RegisterDevice_Write(c) \/ Logout(c) \/ Publish(c)
              \/ Abort(c)
       PROVE  user' = user
  BY <1>10 DEF Login_Write, OtpLogin, RotateRefresh_Write, ListPages_Fill, Upsert_Write,
     RegisterDevice_Write, Logout, Publish, Abort, tables, accounts
<1>11. ASSUME ExpiryStep \/ OtherStep \/ UNCHANGED vars PROVE user' = user
  BY <1>11, ExpiryTypes, OtherTypes DEF vars, tables, accounts
<1> QED
  BY StepCases, <1>2, <1>3, <1>4, <1>6, <1>7, <1>8, <1>9, <1>10, <1>11
     DEF WriteStep, AtOnceStep

\* A request in flight is another only if it arrives or goes on in Redis.
LEMMA ReqStep ==
  ASSUME Tables, [Next]_vars, NEW d \in Clients
  PROVE  req'[d] \in {req[d], Idle} \/ ReadStep(d) \/ RedisStep(d)
<1>1. DOMAIN req = Clients
  BY DEF Tables
<1>2. ASSUME NEW c \in Clients, ReadStep(c) PROVE c = d \/ req'[d] = req[d]
  BY <1>1, <1>2, ReadsOnly DEF Reads
<1>3. ASSUME NEW c \in Clients, RedisStep(c) PROVE c = d \/ req'[d] = req[d]
  <2>1. CASE req' = [req EXCEPT ![c] = Idle]
    BY <1>1, <2>1
  <2>2. ASSUME NEW step, req' = [req EXCEPT ![c].step = step, ![c].read = Len(log)]
        PROVE  c = d \/ req'[d] = req[d]
    BY <1>1, <2>2
  <2> QED  BY <1>3, <2>1, <2>2, RedisKeeps
<1>4. ASSUME NEW c \in Clients, WriteStep(c) \/ Abort(c)
      PROVE  req'[d] \in {req[d], Idle}
  <2>1. req' = [req EXCEPT ![c] = Idle]
    BY <1>4, WritesEnd DEF Abort
  <2> QED  BY <1>1, <2>1
<1>5. ASSUME NEW c \in Clients, AtOnceStep(c) PROVE req' = req
  BY <1>5, AtOnceCommits
<1>6. ASSUME ExpiryStep \/ OtherStep \/ UNCHANGED vars PROVE req' = req
  BY <1>6, ExpiryTypes, OtherTypes DEF vars
<1> QED  BY StepCases, <1>2, <1>3, <1>4, <1>5, <1>6

\* A request that goes on in Redis is one of a code.
LEMMA RedisOp ==
  ASSUME Tables, NEW c \in Clients, RedisStep(c), req'[c] # Idle
  PROVE  req'[c].op = req[c].op /\ req[c].op \in OtpOps
<1>1. req[c].op \in OtpOps /\ req[c] # Idle /\ c \in DOMAIN req /\ RequestOK(c)
  BY InHandFacts DEF RedisStep, RequestOtp_Clear, RequestOtp_Store, RequestOtp_Expire,
     VerifyOtp_Count, VerifyOtp_Discard, VerifyOtp_Lock, VerifyOtp_Consume, At, OtpOps
<1>2. PICK step : req' = [req EXCEPT ![c].step = step, ![c].read = Len(log)]
  <2>1. req' # [req EXCEPT ![c] = Idle]
    BY <1>1
  <2> QED  BY <2>1, RedisKeeps
<1>3. req'[c] = [req[c] EXCEPT !.step = step, !.read = Len(log)]
  BY <1>1, <1>2
<1> QED  BY <1>1, <1>3 DEF RequestOK

\* A token that was not there is of a request that commits.
LEMMA NewToken ==
  ASSUME Tables, [Next]_vars, NEW t \in Ids, token[t] = Null, token'[t] # Null
  PROVE  \E c \in Clients : WriteStep(c) /\ t = req[c].id /\ Brings(c)
<1>1. ASSUME NEW c \in Clients, ReadStep(c) PROVE token' = token
  BY <1>1, ReadsOnly DEF tables, accounts
<1>2. ASSUME NEW c \in Clients, RedisStep(c) PROVE token' = token
  BY <1>2, RedisKeeps DEF tables, accounts
<1>3. ASSUME NEW c \in Clients, WriteStep(c) PROVE t = req[c].id /\ Brings(c)
  BY <1>3, TokenWrites, RowAssumption DEF Kept
<1>4. ASSUME NEW c \in Clients, Abort(c) PROVE token' = token
  BY <1>4 DEF Abort, tables, accounts
<1>5. ASSUME ExpiryStep \/ OtherStep \/ UNCHANGED vars PROVE token' = token
  BY <1>5, ExpiryTypes, OtherTypes DEF vars, tables, accounts
<1> QED  BY StepCases, <1>1, <1>2, <1>3, <1>4, <1>5, AtOnceTypes

\* What a new token says.
LEMMA Brought ==
  ASSUME Tables, NEW c \in Clients, WriteStep(c), Brings(c)
  PROVE  LET t == req[c].id s == token'[req[c].id] IN
         /\ s \in RefreshToken /\ s.born = Len(log) + 1
         /\ \/ req[c].op \in RegisterOps /\ s.enabled /\ s.parent = Null
            \/ /\ req[c].op = "login" /\ s.user = req[c].key /\ s.read = req[c].read
               /\ user[s.user] \in User /\ s.enabled = user[s.user].is_active
               /\ s.parent = Null
            \/ s.by = "otp_verify" /\ s.parent = Null
            \/ /\ req[c].op = "refresh" /\ s.user = token[req[c].key].user
               /\ s.read = req[c].read /\ s.parent = req[c].key
               /\ user[s.user] \in User /\ s.enabled = user[s.user].is_active
<1> DEFINE f == req[c]
<1>1. /\ f # Idle /\ RequestOK(c) /\ f.id \in Ids /\ Len(log) \in Nat
      /\ user \in [Phones -> User \cup {Null}] /\ token[f.id] = Null
      /\ token' \in [Ids -> RefreshToken \cup {Null}]
  BY WritesEnd, InHandFacts, TokenWrites DEF Tables, TypeOK
<1>2. PICK p \in Phones :
       \/ /\ f.op \in RegisterOps /\ user[p] = Null
          /\ token'[f.id] = IssueTokens("register", p, Null, f.read)
       \/ /\ f.op = "login" /\ p = f.key /\ user[p] \in User
          /\ token'[f.id] = IssueTokens("login", p, Null, f.read)
       \/ /\ f.op = "otp_verify" /\ user[p] \in User
          /\ token'[f.id] = IssueTokens("otp_verify", p, Null, Len(log))
       \/ /\ f.op = "refresh" /\ p = token[f.key].user /\ user[p] \in User
          /\ token'[f.id] = IssueTokens("refresh", p, f.key, f.read)
  BY DEF Brings
<1>3. p \in Rows(user) <=> user[p] # Null
  BY <1>1 DEF Rows
<1>4. f.read \in Nat /\ Len(log) \in Nat /\ Null \in Ids \cup {Null}
  BY <1>1 DEF RequestOK
<1>5. f.op = "refresh" => f.key \in Ids
  BY <1>1 DEF RequestOK
<1> DEFINE s == token'[f.id]
<1>10. ASSUME NEW by \in {"login", "otp_verify", "register", "refresh"},
              NEW parent \in Ids \cup {Null}, NEW read \in Nat,
              s = IssueTokens(by, p, parent, read)
       PROVE  /\ s \in RefreshToken /\ s.born = Len(log) + 1
              /\ s.user = p /\ s.by = by /\ s.parent = parent /\ s.read = read
              /\ s.enabled = (p \in Rows(user) => user[p].is_active)
  BY <1>10, IssuedType
<1> HIDE DEF s
<1>11. user[p] \in User => p \in Rows(user) /\ user[p].is_active \in BOOLEAN
  BY <1>3, RowAssumption DEF User
<1>6. CASE /\ f.op \in RegisterOps /\ user[p] = Null
           /\ s = IssueTokens("register", p, Null, f.read)
  <2>1. /\ s \in RefreshToken /\ s.born = Len(log) + 1 /\ s.parent = Null
        /\ s.enabled = (p \in Rows(user) => user[p].is_active)
    BY <1>4, <1>6, <1>10
  <2>2. s.enabled
    BY <1>3, <1>6, <2>1
  <2> QED  BY <1>6, <2>1, <2>2 DEF s
<1>7. CASE /\ f.op = "login" /\ p = f.key /\ user[p] \in User
           /\ s = IssueTokens("login", p, Null, f.read)
  <2>1. /\ s \in RefreshToken /\ s.born = Len(log) + 1 /\ s.parent = Null
        /\ s.user = p /\ s.read = f.read
        /\ s.enabled = (p \in Rows(user) => user[p].is_active)
    BY <1>4, <1>7, <1>10
  <2>2. s.enabled = user[p].is_active
    BY <1>7, <1>11, <2>1
  <2> QED  BY <1>7, <2>1, <2>2 DEF s
<1>8. CASE /\ f.op = "otp_verify" /\ user[p] \in User
           /\ s = IssueTokens("otp_verify", p, Null, Len(log))
  <2>1. /\ s \in RefreshToken /\ s.born = Len(log) + 1 /\ s.parent = Null
        /\ s.by = "otp_verify"
    BY <1>4, <1>8, <1>10
  <2> QED  BY <1>8, <2>1 DEF s
<1>9. CASE /\ f.op = "refresh" /\ p = token[f.key].user /\ user[p] \in User
           /\ s = IssueTokens("refresh", p, f.key, f.read)
  <2>1. /\ s \in RefreshToken /\ s.born = Len(log) + 1 /\ s.parent = f.key
        /\ s.user = p /\ s.read = f.read
        /\ s.enabled = (p \in Rows(user) => user[p].is_active)
    BY <1>4, <1>5, <1>9, <1>10
  <2>2. s.enabled = user[p].is_active
    BY <1>9, <1>11, <2>1
  <2> QED  BY <1>9, <2>1, <2>2 DEF s
<1> QED  BY <1>2, <1>6, <1>7, <1>8, <1>9 DEF s

-----------------------------------------------------------------------------
(***************************************************************************)
(* Disabled accounts.                                                      *)
(***************************************************************************)
\* p's account is active, or was disabled after r.
ActiveSince(p, r) ==
  \/ user[p].is_active
  \/ \E i \in r + 1 .. Len(log) : log[i].op = "set_active" /\ log[i].key = p

\* Who logs in or renews a session was seen active.
Holder(c) == IF req[c].op = "login" THEN req[c].key ELSE token[req[c].key].user

SeenActive ==
  \A c \in Clients : req[c] # Idle /\ req[c].op \in {"login", "refresh"} =>
    ActiveSince(Holder(c), req[c].read)

LEMMA StillActiveSince ==
  ASSUME Tables, [Next]_vars, NEW p \in Phones, user[p] \in User,
         NEW r \in Nat, r <= Len(log), ActiveSince(p, r)
  PROVE  ActiveSince(p, r)'
<1>1. CASE \E i \in r + 1 .. Len(log) : log[i].op = "set_active" /\ log[i].key = p
  BY <1>1, LogKept DEF ActiveSince
<1>2. CASE user[p].is_active /\ user'[p]["is_active"] = user[p]["is_active"]
  BY <1>2 DEF ActiveSince
<1>3. CASE \E c \in Clients : /\ AdminChange_Write(c)
                              /\ Column(req[c].op) = "is_active" /\ req[c].key = p
  <2>1. PICK c \in Clients : /\ AdminChange_Write(c)
                             /\ Column(req[c].op) = "is_active" /\ req[c].key = p
    BY <1>3
  <2>2. req[c].op = "set_active"
    BY <2>1 DEF AdminChange_Write, At, Column
  <2>3. log' = Append(log, EntryOf(c))
    BY <2>1 DEF AdminChange_Write, Commits, EntryOf
  <2>4. EntryOf(c).op = "set_active" /\ EntryOf(c).key = p
    BY <2>1, <2>2 DEF EntryOf
  <2>5. log \in Seq(Entry) /\ WriteStep(c)
    BY <2>1 DEF Tables, WriteStep
  <2>6. Len(log') = Len(log) + 1 /\ log'[Len(log) + 1] = EntryOf(c) /\ Len(log) \in Nat
    BY <2>3, <2>5
  <2> QED  BY <2>4, <2>6 DEF ActiveSince
<1> QED  BY <1>1, <1>2, <1>3, ColumnKept DEF ActiveSince

LEMMA HolderKnown ==
  ASSUME Tables, NEW c \in Clients, req[c] # Idle, req[c].op \in {"login", "refresh"}
  PROVE  Holder(c) \in Phones /\ user[Holder(c)] \in User
         /\ req[c].read \in Nat /\ req[c].read <= Len(log)
<1>1. /\ RequestOK(c) /\ user \in [Phones -> User \cup {Null}] /\ Len(log) \in Nat
      /\ TokenRows
  BY InHandFacts DEF Tables, TypeOK
<1>2. req[c].read \in 0 .. Len(log)
  BY <1>1 DEF RequestOK
<1>3. CASE req[c].op = "login"
  BY <1>1, <1>2, <1>3 DEF RequestOK, Holder
<1>4. CASE req[c].op = "refresh"
  <2>1. req[c].key \in Ids /\ token[req[c].key] \in RefreshToken
    BY <1>1, <1>4 DEF RequestOK
  <2>2. token[req[c].key].user \in Phones
    BY <2>1 DEF RefreshToken
  <2>3. user[token[req[c].key].user] # Null
    BY <1>1, <2>1, RowAssumption DEF TokenRows
  <2> QED  BY <1>1, <1>2, <1>4, <2>2, <2>3 DEF Holder
<1> QED  BY <1>3, <1>4

LEMMA SeenActiveStep ==
  ASSUME Tables, SeenActive, [Next]_vars
  PROVE  SeenActive'
<1>1. SUFFICES ASSUME NEW c \in Clients, req'[c] # Idle,
                      req'[c].op \in {"login", "refresh"}
               PROVE  ActiveSince(Holder(c), req[c].read)'
  BY DEF SeenActive
<1>2. CASE req'[c] = req[c]
  <2>1. ActiveSince(Holder(c), req[c].read)
    BY <1>1, <1>2 DEF SeenActive
  <2>2. /\ Holder(c) \in Phones /\ user[Holder(c)] \in User
        /\ req[c].read \in Nat /\ req[c].read <= Len(log)
    BY <1>1, <1>2, HolderKnown
  <2>3. Holder(c)' = Holder(c)
    <3>1. CASE req[c].op = "login"
      BY <1>2, <3>1 DEF Holder
    <3>2. CASE req[c].op = "refresh"
      <4>1. RequestOK(c)
        BY <1>1, <1>2, InHandFacts
      <4>2. req[c].key \in Ids /\ token[req[c].key] \in RefreshToken
        BY <1>1, <1>2, <3>2, <4>1 DEF RequestOK
      <4>3. token'[req[c].key].user = token[req[c].key].user
        BY <4>2, TablesStep DEF Stays
      <4> QED  BY <1>2, <3>2, <4>3 DEF Holder
    <3> QED  BY <1>1, <1>2, <3>1, <3>2
  <2>4. ActiveSince(Holder(c), req[c].read)' <=>
          \/ user'[Holder(c)].is_active
          \/ \E i \in req[c].read + 1 .. Len(log') :
               log'[i].op = "set_active" /\ log'[i].key = Holder(c)
    BY <1>2, <2>3 DEF ActiveSince
  <2> DEFINE p == Holder(c)
             r == req[c].read
  <2> HIDE DEF p, r
  <2>5. ActiveSince(p, r) /\ p \in Phones /\ user[p] \in User /\ r \in Nat /\ r <= Len(log)
    BY <2>1, <2>2 DEF p, r
  <2>6. \/ user'[p].is_active
        \/ \E i \in r + 1 .. Len(log') : log'[i].op = "set_active" /\ log'[i].key = p
    <3>1. CASE \E i \in r + 1 .. Len(log) : log[i].op = "set_active" /\ log[i].key = p
      BY <2>5, <3>1, LogKept
    <3>2. CASE user[p].is_active
      BY <2>5, <3>2, StillActiveSince DEF ActiveSince
    <3> QED  BY <2>5, <3>1, <3>2 DEF ActiveSince
  <2> QED  BY <2>4, <2>6 DEF p, r
<1>3. CASE ReadStep(c)
  <2>1. UNCHANGED <<user, token, log>>
    BY <1>3, ReadsOnly DEF tables, accounts
  <2>2. c \in DOMAIN req
    BY DEF Tables
  <2>3. CASE Login_Read(c)
    <3>1. PICK p \in Phones : user[p].is_active /\ req'[c].op = "login" /\ req'[c].key = p
      BY <2>2, <2>3 DEF Login_Read, Authenticate, Reads
    <3> QED  BY <2>1, <3>1 DEF ActiveSince, Holder
  <2>4. CASE RotateRefresh_Read(c)
    <3>1. PICK t \in Ids : /\ user[token[t].user].is_active
                           /\ req'[c].op = "refresh" /\ req'[c].key = t
      BY <2>2, <2>4 DEF RotateRefresh_Read, Reads
    <3> QED  BY <2>1, <3>1 DEF ActiveSince, Holder
  <2>5. CASE ~Login_Read(c) /\ ~RotateRefresh_Read(c)
    <3>1. req'[c].op \notin {"login", "refresh"}
      BY <1>3, <2>2, <2>5 DEF ReadStep, RequestOtp_CheckLock, VerifyOtp_Compare,
         Register_Read, AdminChange_Read, SetAvatar_Read, ListPages_Miss, Upsert_Read,
         RegisterDevice_Read, Reads, Issues, Verifies
    <3> QED  BY <1>1, <3>1
  <2> QED  BY <2>3, <2>4, <2>5
<1>4. CASE RedisStep(c)
  BY <1>1, <1>4, RedisOp DEF OtpOps, Issues, Verifies
<1> QED  BY <1>1, <1>2, <1>3, <1>4, ReqStep

\* Before anything happened nothing had been read.
LEMMA NoRequestYet ==
  ASSUME Init
  PROVE  /\ \A c \in Clients : req[c] = Idle
         /\ log = << >> /\ Len(log) = 0 /\ DOMAIN log = {}
         /\ arrived = 0 /\ disturbed = {} /\ lock = {}
         /\ \A k \in Ids : guesses[k] = 0 /\ admitted[k] = {}
         /\ \A t \in Ids : token[t] # Null => token[t].enabled
  BY DEF Init

\* A session that begins on a disabled account begins with an SMS code, or
\* the account was being disabled, however the requests overlap: authenticate
\* and rotate_refresh read is_active and nothing holds it until they commit.
THEOREM NoSessionWhileDisabled == Spec => []DisabledAccountsGetNoSession
<1> DEFINE I == Tables /\ SeenActive /\ DisabledAccountsGetNoSession
<1>1. Init => SeenActive /\ DisabledAccountsGetNoSession
  <2> SUFFICES ASSUME Init PROVE SeenActive /\ DisabledAccountsGetNoSession
    OBVIOUS
  <2>1. SeenActive
    BY NoRequestYet DEF SeenActive
  <2>2. DOMAIN token = Ids
    BY TablesInit DEF Tables, TypeOK
  <2> QED  BY <2>1, <2>2, NoRequestYet DEF DisabledAccountsGetNoSession, Rows
<1>2. ASSUME I, [Next]_vars
      PROVE  I'
  <2>1. Tables' /\ Stays /\ SeenActive'
    BY <1>2, TablesStep, SeenActiveStep
  <2>2. /\ token \in [Ids -> RefreshToken \cup {Null}]
        /\ token' \in [Ids -> RefreshToken \cup {Null}]
    BY <1>2, <2>1 DEF Tables, TypeOK
  <2>3. ASSUME NEW t \in Ids, token'[t] # Null
        PROVE  \/ token'[t].enabled
               \/ token'[t].by = "otp_verify"
               \/ \E i \in token'[t].read + 1 .. token'[t].born - 1 :
                    log'[i].op = "set_active" /\ log'[i].key = token'[t].user
    <3>1. CASE token[t] # Null
      <4>1. token[t] \in RefreshToken /\ t \in Rows(token)
        BY <2>2, <3>1 DEF Rows
      <4>2. /\ token'[t].user = token[t].user /\ token'[t].by = token[t].by
            /\ token'[t].enabled = token[t].enabled
            /\ token'[t].read = token[t].read /\ token'[t].born = token[t].born
        BY <2>1, <4>1 DEF Stays
      <4>3. token[t].born \in 0 .. Len(log) /\ token[t].read \in 0 .. Len(log)
        BY <1>2, <3>1 DEF Tables, TokenRows
      <4>4. \A i \in token[t].read + 1 .. token[t].born - 1 : log'[i] = log[i]
        BY <1>2, <4>3, LogKept
      <4> QED  BY <1>2, <4>1, <4>2, <4>4 DEF DisabledAccountsGetNoSession
    <3>2. CASE token[t] = Null
      <4>1. PICK c \in Clients : WriteStep(c) /\ t = req[c].id /\ Brings(c)
        BY <1>2, <2>3, <3>2, NewToken
      <4> DEFINE s == token'[t]
      <4>2. /\ s \in RefreshToken /\ s.born = Len(log) + 1
            /\ \/ s.enabled
               \/ s.by = "otp_verify"
               \/ /\ req[c].op \in {"login", "refresh"} /\ s.user = Holder(c)
                  /\ s.read = req[c].read /\ s.enabled = user[s.user].is_active
        BY <1>2, <4>1, Brought DEF Holder
      <4> HIDE DEF s
      <4>3. CASE s.enabled \/ s.by = "otp_verify"
        BY <4>3 DEF s
      <4>4. CASE /\ req[c].op \in {"login", "refresh"} /\ s.user = Holder(c)
                 /\ s.read = req[c].read /\ s.enabled = user[s.user].is_active
        <5>1. req[c] # Idle
          BY <4>1, WritesEnd
        <5>2. ActiveSince(Holder(c), req[c].read)
          BY <1>2, <4>4, <5>1 DEF SeenActive
        <5>3. req[c].read \in Nat /\ req[c].read <= Len(log) /\ Len(log) \in Nat
          BY <1>2, <4>4, <5>1, HolderKnown, LogKept
        <5>4. \A i \in s.read + 1 .. Len(log) : log'[i] = log[i]
          BY <1>2, <4>4, <5>3, LogKept
        <5>5. s.read + 1 .. Len(log) = s.read + 1 .. s.born - 1
          BY <4>2, <4>4, <5>3
        <5>6. \/ s.enabled
              \/ \E i \in s.read + 1 .. s.born - 1 :
                   log'[i].op = "set_active" /\ log'[i].key = s.user
          BY <4>4, <5>2, <5>4, <5>5 DEF ActiveSince
        <5> QED  BY <5>6 DEF s
      <4> QED  BY <4>2, <4>3, <4>4
    <3> QED  BY <3>1, <3>2
  <2>4. DisabledAccountsGetNoSession'
    BY <2>2, <2>3 DEF DisabledAccountsGetNoSession, Rows
  <2> QED  BY <1>2, <2>1, <2>4
<1>3. I => DisabledAccountsGetNoSession
  OBVIOUS
<1> HIDE DEF I
<1>4. Init => I
  BY <1>1, TablesInit DEF I
<1> QED  BY <1>2, <1>3, <1>4, PTL DEF Spec

-----------------------------------------------------------------------------
(***************************************************************************)
(* Sessions that ended.                                                    *)
(***************************************************************************)
\* A rotation in flight read its token before whatever ended it.
RotatesBeforeEnd ==
  \A c \in Clients : req[c] # Idle /\ req[c].op = "refresh" =>
    \A i \in DOMAIN log : EndedBy(req[c].key, i) => req[c].read < i

\* The write behind an entry of the log.
LEMMA RefreshWrites ==
  ASSUME NEW c \in Clients, WriteStep(c), req[c].op = "refresh"
  PROVE  RotateRefresh_Write(c)
BY DEF WriteStep, Register_Write, Login_Write, OtpLogin, ResetPassword, AdminChange_Write,
   SetAvatar_Write, ListPages_Fill, Upsert_Write, RegisterDevice_Write, At

LEMMA ResetWrites ==
  ASSUME NEW c \in Clients, WriteStep(c), req[c].op = "reset_confirm"
  PROVE  ResetPassword(c)
BY DEF WriteStep, Register_Write, Login_Write, OtpLogin, RotateRefresh_Write,
   AdminChange_Write, SetAvatar_Write, ListPages_Fill, Upsert_Write, RegisterDevice_Write, At

\* A commit that ends a session leaves its token revoked.
LEMMA EndRevokes ==
  ASSUME Tables, [Next]_vars, NEW t \in Ids, token[t] # Null,
         NEW i, i = Len(log) + 1, Len(log') = i, EndedBy(t, i)'
  PROVE  ~token'[t].active
<1>1. /\ token \in [Ids -> RefreshToken \cup {Null}] /\ token[t] \in RefreshToken
      /\ log \in Seq(Entry) /\ Len(log) \in Nat
  BY DEF Tables, TypeOK
<1>2. [token[t] EXCEPT !.active = FALSE].active = FALSE
  BY <1>1, Revoked
<1>3. token'[t].user = token[t].user
  BY <1>1, TablesStep DEF Stays
<1>4. PICK e \in Entry :
        /\ log' = Append(log, e)
        /\ \E c \in Clients :
             \/ WriteStep(c) /\ e = EntryOf(c)
             \/ Logout(c) /\ \E u \in Rows(token) :
                  /\ e = [id |-> arrived + 1, op |-> "logout", key |-> u]
                  /\ token' = RevokeRefresh(token, u)
             \/ (PatchMe(c) \/ Publish(c)) /\ e.op \in {"patch_me", "publish"}
  BY <1>1, LogStep
<1>5. log'[i] = e
  BY <1>1, <1>4, LogGrows
<1>6. \/ e.op \in {"logout", "refresh"} /\ e.key = t
      \/ e.op = "reset_confirm" /\ e.key = token[t].user
  BY <1>3, <1>5 DEF EndedBy
<1>7. ASSUME NEW c \in Clients, WriteStep(c), e = EntryOf(c)
      PROVE  ~token'[t].active
  <2>1. e.op = req[c].op /\ e.key = req[c].key
    BY <1>7 DEF EntryOf
  <2>2. req[c] # Idle /\ RequestOK(c) /\ token[req[c].id] = Null
    BY <1>7, WritesEnd, InHandFacts
  <2>3. e.op # "logout"
    BY <2>1, <2>2 DEF RequestOK, Ops, OtpOps, WriteOps, RegisterOps, AdminOps, Issues, Verifies
  <2>4. CASE e.op = "refresh" /\ e.key = t
    <3>1. RotateRefresh_Write(c)
      BY <1>7, <2>1, <2>4, RefreshWrites
    <3> DEFINE new == IssueTokens("refresh", token[t].user, t, req[c].read)
               old == [token[t] EXCEPT !.active = FALSE]
    <3>2. token' = [[token EXCEPT ![t] = old] EXCEPT ![req[c].id] = new]
      BY <2>1, <2>4, <3>1 DEF RotateRefresh_Write, RevokeRefresh
    <3>3. old.active = FALSE
      BY <1>2
    <3> HIDE DEF new, old
    <3>4. req[c].id # t
      BY <2>2
    <3> QED  BY <1>1, <3>2, <3>3, <3>4
  <2>5. CASE e.op = "reset_confirm" /\ e.key = token[t].user
    <3>1. ResetPassword(c)
      BY <1>7, <2>1, <2>5, ResetWrites
    <3>2. token' = [u \in Ids |-> IF u \in Rows(token) /\ token[u].user = req[c].key
                                  THEN [token[u] EXCEPT !.active = FALSE] ELSE token[u]]
      BY <3>1 DEF ResetPassword, RevokeAllUserRefresh
    <3>3. t \in Rows(token)
      BY <1>1 DEF Rows
    <3>4. token'[t] = [token[t] EXCEPT !.active = FALSE]
      BY <2>1, <2>5, <3>2, <3>3
    <3> QED  BY <1>2, <3>4
  <2> QED  BY <1>6, <2>3, <2>4, <2>5
<1>8. ASSUME NEW u \in Rows(token), e = [id |-> arrived + 1, op |-> "logout", key |-> u],
             token' = RevokeRefresh(token, u)
      PROVE  ~token'[t].active
  <2>1. u = t
    BY <1>6, <1>8
  <2> DEFINE old == [token[t] EXCEPT !.active = FALSE]
  <2>2. token' = [token EXCEPT ![t] = old]
    BY <1>8, <2>1 DEF RevokeRefresh
  <2>3. old.active = FALSE
    BY <1>2
  <2> HIDE DEF old
  <2> QED  BY <1>1, <2>2, <2>3
<1>9. e.op \notin {"patch_me", "publish"}
  BY <1>6
<1> QED  BY <1>4, <1>7, <1>8, <1>9

\* What ended a session ended it before, or does so now.
LEMMA EndsOnce ==
  ASSUME Tables, [Next]_vars, NEW t \in Ids, token[t] # Null,
         NEW i \in DOMAIN log', EndedBy(t, i)'
  PROVE  \/ i \in DOMAIN log /\ EndedBy(t, i)
         \/ i = Len(log) + 1 /\ ~token'[t].active
<1>1. token[t] \in RefreshToken
  BY DEF Tables, TypeOK
<1>2. token'[t].user = token[t].user /\ token'[t].born = token[t].born
  BY <1>1, TablesStep DEF Stays
<1>3. CASE i \in DOMAIN log
  <2>1. log'[i] = log[i]
    BY <1>3, LogKept
  <2> QED  BY <1>2, <1>3, <2>1 DEF EndedBy
<1>4. CASE i \notin DOMAIN log
  <2>1. i = Len(log) + 1 /\ Len(log') = Len(log) + 1
    BY <1>4, LogKept
  <2> QED  BY <2>1, EndRevokes
<1> QED  BY <1>3, <1>4

LEMMA RotatesBeforeEndStep ==
  ASSUME Tables, EndedSessionsStayEnded, RotatesBeforeEnd, [Next]_vars
  PROVE  RotatesBeforeEnd'
<1>1. SUFFICES ASSUME NEW c \in Clients, req'[c] # Idle, req'[c].op = "refresh",
                      NEW i \in DOMAIN log', NEW t, t = req'[c].key, EndedBy(t, i)'
               PROVE  req'[c].read < i
  <2>1. ASSUME NEW c \in Clients, NEW i \in DOMAIN log', EndedBy(req[c].key, i)',
               NEW t, t = req'[c].key
        PROVE  EndedBy(t, i)'
    BY <2>1 DEF EndedBy
  <2> QED  BY <2>1 DEF RotatesBeforeEnd
<1>2. CASE req'[c] = req[c]
  <2>1. /\ RequestOK(c) /\ req[c].key \in Ids /\ token[req[c].key] # Null
        /\ req[c].read \in 0 .. Len(log) /\ Len(log) \in Nat
    BY <1>1, <1>2, InHandFacts, RowAssumption DEF RequestOK
  <2>2. t = req[c].key /\ t \in Ids /\ token[t] # Null
    BY <1>1, <1>2, <2>1
  <2>3. (i \in DOMAIN log /\ EndedBy(t, i)) \/ i = Len(log) + 1
    BY <1>1, <2>2, EndsOnce
  <2>4. CASE i \in DOMAIN log /\ EndedBy(t, i)
    BY <1>1, <1>2, <2>2, <2>4 DEF RotatesBeforeEnd
  <2>5. CASE i = Len(log) + 1
    BY <1>2, <2>1, <2>5
  <2> QED  BY <2>3, <2>4, <2>5
<1>3. CASE ReadStep(c)
  <2>1. UNCHANGED <<token, log>> /\ c \in DOMAIN req
    BY <1>3, ReadsOnly DEF tables, accounts, Tables
  <2>2. RotateRefresh_Read(c)
    BY <1>1, <1>3, <2>1 DEF ReadStep, RequestOtp_CheckLock, VerifyOtp_Compare,
       Register_Read, Login_Read, AdminChange_Read, SetAvatar_Read, ListPages_Miss,
       Upsert_Read, RegisterDevice_Read, Reads, Issues, Verifies
  <2>3. t \in Rows(token) /\ token[t].active
    BY <1>1, <2>1, <2>2 DEF RotateRefresh_Read, Reads, GetActiveRefresh
  <2>4. EndedBy(t, i) /\ i \in DOMAIN log
    BY <1>1, <2>1, <2>3 DEF EndedBy
  <2> QED  BY <2>3, <2>4 DEF EndedSessionsStayEnded
<1>4. CASE RedisStep(c)
  BY <1>1, <1>4, RedisOp DEF OtpOps, Issues, Verifies
<1> QED  BY <1>1, <1>2, <1>3, <1>4, ReqStep

\* "Every existing refresh cookie must die": a logout, a rotation or a reset
\* leaves the session revoked for good, and what was rotated from it was read
\* before its end, by a rotation that overlapped.
THEOREM SessionsStayEnded == Spec => []EndedSessionsStayEnded
<1> DEFINE I == Tables /\ EndedSessionsStayEnded /\ RotatesBeforeEnd
<1>1. Init => EndedSessionsStayEnded /\ RotatesBeforeEnd
  BY NoRequestYet DEF EndedSessionsStayEnded, RotatesBeforeEnd
<1>2. ASSUME I, [Next]_vars
      PROVE  I'
  <2>1. Tables' /\ Stays /\ RotatesBeforeEnd'
    BY <1>2, TablesStep, RotatesBeforeEndStep
  <2>2. /\ token \in [Ids -> RefreshToken \cup {Null}]
        /\ token' \in [Ids -> RefreshToken \cup {Null}]
    BY <1>2, <2>1 DEF Tables, TypeOK
  <2>5. Len(log) \in Nat /\ \A i \in DOMAIN log' : i \in Nat /\ i <= Len(log) + 1
    <3>1. ASSUME NEW n \in Nat, NEW m \in {n, n + 1}, NEW i \in 1 .. m
          PROVE  i \in Nat /\ i <= n + 1
      BY <3>1
    <3> QED  BY <1>2, <3>1, LogKept
  <2>3. ASSUME NEW t \in Ids, token'[t] # Null, NEW i \in DOMAIN log', EndedBy(t, i)'
        PROVE  ~token'[t].active /\ \A s \in Ids :
                 token'[s] # Null /\ token'[s].parent = t => token'[s].read < i
    <3>0. i \in Nat /\ i <= Len(log) + 1 /\ Len(log) \in Nat
      BY <2>3, <2>5
    <3>1. token[t] # Null
      <4>1. SUFFICES ASSUME token[t] = Null PROVE FALSE
        OBVIOUS
      <4>2. token'[t].born = Len(log) + 1
        BY <1>2, <2>3, <4>1, NewToken, Brought
      <4>3. i > token'[t].born
        BY <2>3 DEF EndedBy
      <4> QED  BY <3>0, <4>2, <4>3
    <3>2. token[t] \in RefreshToken /\ t \in Rows(token)
      BY <2>2, <3>1 DEF Rows
    <3>3. \/ i \in DOMAIN log /\ EndedBy(t, i)
          \/ i = Len(log) + 1 /\ ~token'[t].active
      BY <1>2, <2>3, <3>1, EndsOnce
    <3>4. ~token'[t].active
      BY <1>2, <2>1, <3>2, <3>3 DEF EndedSessionsStayEnded, Stays
    <3>5. ASSUME NEW s \in Ids, token'[s] # Null, token'[s].parent = t
          PROVE  token'[s].read < i
      <4>1. CASE token[s] # Null
        <5>1. token[s] \in RefreshToken /\ s \in Rows(token)
          BY <2>2, <4>1 DEF Rows
        <5>2. token'[s].parent = token[s].parent /\ token'[s].read = token[s].read
          BY <2>1, <5>1 DEF Stays
        <5>3. token[s].read \in 0 .. Len(log)
          BY <1>2, <4>1 DEF Tables, TokenRows
        <5>4. i \in DOMAIN log /\ EndedBy(t, i) => token[s].read < i
          BY <1>2, <3>2, <3>5, <5>1, <5>2 DEF EndedSessionsStayEnded
        <5>5. i = Len(log) + 1 => token[s].read < i
          BY <2>5, <5>3
        <5> QED  BY <3>3, <5>2, <5>4, <5>5
      <4>2. CASE token[s] = Null
        <5>1. PICK c \in Clients : WriteStep(c) /\ s = req[c].id /\ Brings(c)
          BY <1>2, <3>5, <4>2, NewToken
        <5>2. req[c] # Idle /\ RequestOK(c) /\ req[c].read \in 0 .. Len(log)
          BY <1>2, <5>1, WritesEnd, InHandFacts DEF RequestOK
        <5>3. t # Null
          BY RowAssumption
        <5> DEFINE r == token'[s]
        <5>4. \/ r.parent = Null
              \/ req[c].op = "refresh" /\ r.read = req[c].read /\ r.parent = req[c].key
          BY <1>2, <5>1, Brought
        <5>5. req[c].op = "refresh" /\ r.read = req[c].read /\ t = req[c].key
          BY <3>5, <5>3, <5>4
        <5> HIDE DEF r
        <5>6. i \in DOMAIN log /\ EndedBy(t, i) => r.read < i
          BY <1>2, <5>2, <5>5 DEF RotatesBeforeEnd
        <5>7. i = Len(log) + 1 => r.read < i
          BY <2>5, <5>2, <5>5
        <5>8. r.read < i
          BY <3>3, <5>6, <5>7
        <5> QED  BY <5>8 DEF r
      <4> QED  BY <4>1, <4>2
    <3> QED  BY <3>4, <3>5
  <2>4. EndedSessionsStayEnded'
    BY <2>2, <2>3 DEF EndedSessionsStayEnded, Rows
  <2> QED  BY <1>2, <2>1, <2>4
<1>3. I => EndedSessionsStayEnded
  OBVIOUS
<1> HIDE DEF I
<1>4. Init => I
  BY <1>1, TablesInit DEF I
<1> QED  BY <1>2, <1>3, <1>4, PTL DEF Spec

-----------------------------------------------------------------------------
(***************************************************************************)
(* Codes.                                                                  *)
(***************************************************************************)
IsCodeOf(k, p) == otp[p] # Null /\ otp[p].code = k

\* The request for a code has not stored it yet; the request compares a code.
Issuing(c) == req[c] # Idle /\ req[c].op \in Issues /\ req[c].step \in {"clear", "store"}
Comparing(c) == req[c] # Idle /\ req[c].op \in Verifies

Unseen(k) ==
  /\ \A p \in Phones : ~IsCodeOf(k, p)
  /\ \A c \in Clients : Comparing(c) => req[c].args # k
  /\ guesses[k] = 0 /\ admitted[k] = {}

\* Nobody knows a code before the request for it has stored it.
CodesAreIssued ==
  \A k \in Ids :
    k > arrived \/ (\E c \in Clients : Issuing(c) /\ req[c].id = k) => Unseen(k)

\* A code that is stored is stored at one phone, admitted nobody and counted
\* its wrong guesses.
CodesAreStored ==
  \A p \in Phones, k \in Ids : IsCodeOf(k, p) =>
    /\ admitted[k] = {} /\ guesses[k] <= otp[p].attempts
    /\ \A q \in Phones : IsCodeOf(k, q) => q = p
    /\ \A c \in Clients : Comparing(c) /\ req[c].args = k => req[c].key = p

\* Who may still be let in by a code that let in another overlapped with it.
LatecomersOverlapped ==
  \A k \in Ids : \A a \in admitted[k] :
    /\ a.id <= arrived
    /\ \A c \in Clients :
         At(c, Verifies, "consume") /\ req[c].args = k => req[c].id <= a.upto

Codes == CodesAreIssued /\ CodesAreStored /\ LatecomersOverlapped /\ CodeAdmitsOnce

\* The request goes on, or ends.
Goes(c) ==
  \/ req'[c] = Idle
  \/ /\ req[c] # Idle
     /\ req'[c].id = req[c].id /\ req'[c].op = req[c].op
     /\ req'[c].key = req[c].key /\ req'[c].args = req[c].args
     /\ req'[c].step \in {"clear", "store"} => req[c].step \in {"clear", "store"}
     /\ req'[c].step = "consume" => req[c].step = "consume"

LEMMA GoesOn ==
  ASSUME Tables, NEW c \in Clients, req[c] # Idle, NEW step, Continues(c, step)
  PROVE  /\ req'[c] # Idle /\ req'[c].step = step
         /\ req'[c].id = req[c].id /\ req'[c].op = req[c].op
         /\ req'[c].key = req[c].key /\ req'[c].args = req[c].args
         /\ \A d \in Clients : d # c => req'[d] = req[d]
         /\ UNCHANGED <<arrived, log, disturbed>>
<1>1. c \in DOMAIN req /\ RequestOK(c) /\ DOMAIN req = Clients
  BY InHandFacts DEF Tables
<1>2. /\ req' = [req EXCEPT ![c].step = step, ![c].read = Len(log)]
      /\ UNCHANGED <<arrived, log, disturbed>>
  BY DEF Continues
<1>3. req'[c] = [req[c] EXCEPT !.step = step, !.read = Len(log)]
  BY <1>1, <1>2
<1>4. /\ req'[c].step = step /\ req'[c].id = req[c].id /\ req'[c].op = req[c].op
      /\ req'[c].key = req[c].key /\ req'[c].args = req[c].args
  BY <1>1, <1>3 DEF RequestOK
<1>5. req'[c] # Idle
  BY <1>1, <1>4 DEF RequestOK, Idle, Ops, OtpOps, WriteOps, RegisterOps, AdminOps,
     Issues, Verifies
<1>6. \A d \in Clients : d # c => req'[d] = req[d]
  BY <1>1, <1>2
<1> QED  BY <1>2, <1>4, <1>5, <1>6

LEMMA GoesAway ==
  ASSUME Tables, NEW c \in Clients, req' = [req EXCEPT ![c] = Idle]
  PROVE  req'[c] = Idle /\ \A d \in Clients : d # c => req'[d] = req[d]
BY DEF Tables

\* Nothing is stored, counted or admitted, and nobody arrives to compare or
\* to issue a code.
Quiet ==
  /\ UNCHANGED <<guesses, admitted>>
  /\ arrived' \in Nat /\ arrived' >= arrived
  /\ \A p \in Phones : otp'[p] # Null =>
       otp[p] # Null /\ otp'[p].code = otp[p].code /\ otp'[p].attempts = otp[p].attempts
  /\ \A c \in Clients : Goes(c)

LEMMA QuietCodes ==
  ASSUME Tables, Codes, Quiet
  PROVE  Codes'
<1>1. \A k \in Ids, p \in Phones : IsCodeOf(k, p)' => IsCodeOf(k, p)
  BY DEF IsCodeOf, Quiet
<1>2. \A c \in Clients : Comparing(c)' =>
        Comparing(c) /\ req'[c].args = req[c].args /\ req'[c].key = req[c].key
  BY DEF Comparing, Quiet, Goes
<1>3. \A c \in Clients : Issuing(c)' => Issuing(c) /\ req'[c].id = req[c].id
  BY DEF Issuing, Quiet, Goes
<1>4. \A c \in Clients : At(c, Verifies, "consume")' =>
        /\ At(c, Verifies, "consume")
        /\ req'[c].args = req[c].args /\ req'[c].id = req[c].id
  BY DEF At, Quiet, Goes
<1>5. arrived \in Nat /\ \A k \in Ids : k \in Nat
  BY IdsAreNats DEF Tables, TypeOK
<1>6. CodesAreIssued'
  <2>1. ASSUME NEW k \in Ids, Unseen(k) PROVE Unseen(k)'
    BY <1>1, <1>2, <2>1 DEF Unseen, Quiet
  <2>2. ASSUME NEW k \in Ids,
               k > arrived' \/ (\E c \in Clients : Issuing(c)' /\ req'[c].id = k)
        PROVE  k > arrived \/ (\E c \in Clients : Issuing(c) /\ req[c].id = k)
    BY <1>3, <1>5, <2>2 DEF Quiet
  <2> QED  BY <2>1, <2>2 DEF Codes, CodesAreIssued
<1>7. CodesAreStored'
  <2>1. ASSUME NEW p \in Phones, NEW k \in Ids, IsCodeOf(k, p)'
        PROVE  /\ admitted'[k] = {} /\ guesses'[k] <= otp'[p].attempts
               /\ \A q \in Phones : IsCodeOf(k, q)' => q = p
               /\ \A c \in Clients : Comparing(c)' /\ req'[c].args = k => req'[c].key = p
    <3>1. IsCodeOf(k, p) /\ otp'[p].attempts = otp[p].attempts
      BY <1>1, <2>1 DEF Quiet, IsCodeOf
    <3> QED  BY <1>1, <1>2, <3>1 DEF Codes, CodesAreStored, Quiet
  <2> QED  BY <2>1 DEF CodesAreStored
<1>8. LatecomersOverlapped'
  <2>1. ASSUME NEW k \in Ids, NEW a \in admitted'[k]
        PROVE  /\ a.id <= arrived'
               /\ \A c \in Clients :
                    At(c, Verifies, "consume")' /\ req'[c].args = k => req'[c].id <= a.upto
    <3>1. a \in admitted[k] /\ a.id \in Nat
      BY <2>1 DEF Quiet, Tables, Letting
    <3>2. a.id <= arrived'
      BY <1>5, <3>1 DEF Quiet, Codes, LatecomersOverlapped
    <3> QED  BY <1>4, <3>1, <3>2 DEF Codes, LatecomersOverlapped
  <2> QED  BY <2>1 DEF LatecomersOverlapped, At
<1>9. CodeAdmitsOnce'
  BY DEF Quiet, Codes, CodeAdmitsOnce
<1> QED  BY <1>6, <1>7, <1>8, <1>9 DEF Codes

\* A request arrives: the one for a code has an id of its own, the one that
\* compares has found the code it compares with.
LEMMA ArrivalCodes ==
  ASSUME Tables, Codes, NEW c \in Clients, ReadStep(c)
  PROVE  Codes'
<1>1. /\ UNCHANGED <<otp, guesses, admitted, log>> /\ arrived' = arrived + 1
      /\ arrived \in Nat /\ req[c] = Idle /\ c \in DOMAIN req
      /\ \A k \in Ids : k \in Nat
  BY ReadsOnly, IdsAreNats DEF redis, Ready, Reads, Tables, TypeOK
<1>2. /\ \A d \in Clients : d # c => req'[d] = req[d]
      /\ req'[c].id = arrived + 1
  BY <1>1, ReadsOnly DEF Reads, Tables
<1>3. req'[c].op \in Issues \/ req'[c].op \in Verifies \/ (~Issuing(c)' /\ ~Comparing(c)')
  BY DEF Issuing, Comparing
<1>4. ASSUME Comparing(c)'
      PROVE  /\ req'[c].key \in Phones /\ otp[req'[c].key] # Null
             /\ req'[c].args = otp[req'[c].key].code
  <2>1. VerifyOtp_Compare(c)
    BY <1>1, <1>4 DEF ReadStep, Comparing, RequestOtp_CheckLock, Register_Read, Login_Read,
       RotateRefresh_Read, AdminChange_Read, SetAvatar_Read, ListPages_Miss, Upsert_Read,
       RegisterDevice_Read, Reads, Issues, Verifies
  <2> QED  BY <1>1, <2>1 DEF VerifyOtp_Compare, Reads, Stored
<1>5. \A k \in Ids, p \in Phones : IsCodeOf(k, p)' <=> IsCodeOf(k, p)
  BY <1>1 DEF IsCodeOf
<1>6. ASSUME NEW d \in Clients, NEW k \in Ids, Comparing(d)', req'[d].args = k
      PROVE  \/ d # c /\ Comparing(d) /\ req[d].args = k /\ req'[d].key = req[d].key
             \/ d = c /\ IsCodeOf(k, req'[d].key) /\ req'[d].key \in Phones
  BY <1>2, <1>4, <1>6 DEF Comparing, IsCodeOf
<1>7. CodesAreIssued'
  <2>1. ASSUME NEW k \in Ids,
               k > arrived' \/ (\E d \in Clients : Issuing(d)' /\ req'[d].id = k)
        PROVE  k > arrived \/ (\E d \in Clients : Issuing(d) /\ req[d].id = k)
    BY <1>1, <1>2, <2>1 DEF Issuing
  <2>2. ASSUME NEW k \in Ids, Unseen(k) PROVE Unseen(k)'
    BY <1>1, <1>5, <1>6, <2>2 DEF Unseen
  <2> QED  BY <2>1, <2>2 DEF Codes, CodesAreIssued
<1>8. CodesAreStored'
  <2>1. ASSUME NEW p \in Phones, NEW k \in Ids, IsCodeOf(k, p)
        PROVE  /\ admitted'[k] = {} /\ guesses'[k] <= otp'[p].attempts
               /\ \A q \in Phones : IsCodeOf(k, q)' => q = p
               /\ \A d \in Clients : Comparing(d)' /\ req'[d].args = k => req'[d].key = p
    BY <1>1, <1>5, <1>6, <2>1 DEF Codes, CodesAreStored
  <2> QED  BY <1>5, <2>1 DEF CodesAreStored
<1>9. LatecomersOverlapped'
  <2>1. ASSUME NEW k \in Ids, NEW a \in admitted[k]
        PROVE  a.id <= arrived'
    <3>1. a.id \in Nat
      BY <2>1 DEF Tables, Letting
    <3> QED  BY <1>1, <2>1, <3>1 DEF Codes, LatecomersOverlapped
  <2>2. ASSUME NEW k \in Ids, NEW a \in admitted[k], NEW d \in Clients,
               At(d, Verifies, "consume")', req'[d].args = k
        PROVE  req'[d].id <= a.upto
    <3>1. Comparing(d)'
      BY <2>2 DEF At, Comparing
    <3>2. d # c
      BY <1>6, <2>2, <3>1 DEF Codes, CodesAreStored
    <3>3. At(d, Verifies, "consume") /\ req[d].args = k /\ req'[d].id = req[d].id
      BY <1>2, <2>2, <3>2 DEF At
    <3> QED  BY <2>2, <3>3 DEF Codes, LatecomersOverlapped
  <2> QED  BY <1>1, <2>1, <2>2 DEF LatecomersOverlapped, At
<1>10. CodeAdmitsOnce'
  BY <1>1 DEF Codes, CodeAdmitsOnce
<1> QED  BY <1>7, <1>8, <1>9, <1>10 DEF Codes

\* The code of a request is stored.
LEMMA StoreCodes ==
  ASSUME Tables, Codes, NEW c \in Clients, RequestOtp_Store(c)
  PROVE  Codes'
<1> DEFINE n == req[c].id
           p == req[c].key
           r == [code |-> n, attempts |-> 0, ttl |-> otp[p] # Null /\ otp[p].ttl]
<1>1. /\ req[c] # Idle /\ req[c].op \in Issues /\ req[c].step = "store"
      /\ Continues(c, "expire") /\ UNCHANGED <<guesses, admitted>>
      /\ otp' = [otp EXCEPT ![p] = r]
  BY DEF RequestOtp_Store, At
<1>2. /\ RequestOK(c) /\ n \in Ids /\ n \in 1 .. arrived /\ arrived \in Nat
      /\ \A k \in Ids : k \in Nat
  BY <1>1, InHandFacts, IdsAreNats
<1>3. /\ req'[c].step = "expire" /\ req'[c].op = req[c].op
      /\ \A d \in Clients : d # c => req'[d] = req[d]
      /\ arrived' = arrived
  BY <1>1, GoesOn
<1>4. Issues \cap Verifies = {}
  BY DEF Issues, Verifies
<1>5. p \in Phones /\ DOMAIN otp = Phones
  BY <1>1, <1>2 DEF RequestOK, OtpOps, Tables, TypeOK
<1>6. Unseen(n)
  BY <1>1, <1>2 DEF Codes, CodesAreIssued, Issuing
<1>7. r.code = n /\ r.attempts = 0
  OBVIOUS
<1> HIDE DEF r, n, p
<1>8. \A k \in Ids, q \in Phones : IsCodeOf(k, q)' =>
        \/ q = p /\ k = n /\ otp'[q].attempts = 0
        \/ q # p /\ IsCodeOf(k, q) /\ otp'[q] = otp[q] /\ k # n
  <2>1. ASSUME NEW k \in Ids, NEW q \in Phones, IsCodeOf(k, q)', q = p
        PROVE  k = n /\ otp'[q].attempts = 0
    BY <1>1, <1>5, <1>7, <2>1 DEF IsCodeOf
  <2>2. ASSUME NEW k \in Ids, NEW q \in Phones, IsCodeOf(k, q)', q # p
        PROVE  IsCodeOf(k, q) /\ otp'[q] = otp[q]
    BY <1>1, <1>5, <2>2 DEF IsCodeOf
  <2>3. \A q \in Phones : ~IsCodeOf(n, q)
    BY <1>6 DEF Unseen
  <2> QED  BY <2>1, <2>2, <2>3
<1>9. \A d \in Clients : Comparing(d)' => Comparing(d) /\ req'[d] = req[d]
  BY <1>1, <1>3, <1>4 DEF Comparing
<1>10. \A d \in Clients : At(d, Verifies, "consume")' =>
         At(d, Verifies, "consume") /\ req'[d] = req[d]
  BY <1>1, <1>3, <1>4 DEF At
<1>11. \A d \in Clients : Issuing(d)' => Issuing(d) /\ req'[d].id = req[d].id /\ req[d].id # n
  BY <1>1, <1>3 DEF Issuing, Tables, UniqueIds, n
<1>12. CodesAreIssued'
  <2>1. ASSUME NEW k \in Ids,
               k > arrived' \/ (\E d \in Clients : Issuing(d)' /\ req'[d].id = k)
        PROVE  k # n /\ (k > arrived \/ (\E d \in Clients : Issuing(d) /\ req[d].id = k))
    BY <1>2, <1>3, <1>11, <2>1 
  <2>2. ASSUME NEW k \in Ids, Unseen(k), k # n PROVE Unseen(k)'
    BY <1>1, <1>8, <1>9, <2>2 DEF Unseen
  <2> QED  BY <2>1, <2>2 DEF Codes, CodesAreIssued
<1>13. CodesAreStored'
  <2>1. ASSUME NEW q \in Phones, NEW k \in Ids, IsCodeOf(k, q)'
        PROVE  /\ admitted'[k] = {} /\ guesses'[k] <= otp'[q].attempts
               /\ \A x \in Phones : IsCodeOf(k, x)' => x = q
               /\ \A d \in Clients : Comparing(d)' /\ req'[d].args = k => req'[d].key = q
    <3>1. CASE q = p /\ k = n /\ otp'[q].attempts = 0
      <4>1. admitted'[k] = {} /\ guesses'[k] <= otp'[q].attempts
        BY <1>1, <1>6, <3>1 DEF Unseen
      <4>2. \A d \in Clients : Comparing(d)' => req'[d].args # k
        BY <1>6, <1>9, <3>1 DEF Unseen
      <4> QED  BY <1>8, <2>1, <3>1, <4>1, <4>2
    <3>2. CASE q # p /\ IsCodeOf(k, q) /\ otp'[q] = otp[q] /\ k # n
      BY <1>1, <1>8, <1>9, <3>2 DEF Codes, CodesAreStored
    <3> QED  BY <1>8, <2>1, <3>1, <3>2
  <2> QED  BY <2>1 DEF CodesAreStored
<1>14. LatecomersOverlapped' /\ CodeAdmitsOnce'
  BY <1>1, <1>3, <1>10 DEF Codes, LatecomersOverlapped, CodeAdmitsOnce, At
<1> QED  BY <1>12, <1>13, <1>14 DEF Codes

\* A wrong guess is counted, with the record of the code it was compared
\* with if that one is still there.
LEMMA CountCodes ==
  ASSUME Tables, Codes, NEW c \in Clients, VerifyOtp_Count(c)
  PROVE  Codes'
<1> DEFINE p == req[c].key
           n == req[c].args
           r == Counted(otp[p])
<1>1. /\ req[c] # Idle /\ req[c].op \in Verifies
      /\ Continues(c, "discard") \/ Ends(c)
      /\ otp' = [otp EXCEPT ![p] = r]
      /\ guesses' = [k \in Ids |-> guesses[k] + IF k = n THEN 1 ELSE 0]
      /\ admitted' = admitted
  BY DEF VerifyOtp_Count, At
<1>2. /\ RequestOK(c) /\ c \in DOMAIN req /\ DOMAIN req = Clients
      /\ otp \in [Phones -> OtpRecord \cup {Null}] /\ guesses \in [Ids -> Nat]
  BY <1>1, InHandFacts DEF Tables, TypeOK
<1>3. p \in Phones /\ Comparing(c)
  BY <1>1, <1>2 DEF RequestOK, OtpOps, Comparing
<1>4. \/ otp[p] = Null /\ r.code = Null
      \/ otp[p] # Null /\ r.code = otp[p].code /\ r.attempts = otp[p].attempts + 1
         /\ otp[p].attempts \in Nat
  <2>1. CASE otp[p] = Null
    BY <2>1 DEF Counted
  <2>2. CASE otp[p] # Null
    <3>1. otp[p] \in OtpRecord
      BY <1>2, <1>3, <2>2
    <3> QED  BY <2>2, <3>1 DEF Counted, OtpRecord
  <2> QED  BY <2>1, <2>2
<1> HIDE DEF r, p, n
<1>5. /\ arrived' = arrived
      /\ \A d \in Clients : d # c => req'[d] = req[d]
      /\ req'[c] = Idle \/ (/\ req'[c].op = req[c].op /\ req'[c].key = req[c].key
                            /\ req'[c].args = req[c].args /\ req'[c].step = "discard")
  <2>1. CASE Continues(c, "discard")
    BY <1>1, <2>1, GoesOn
  <2>2. CASE Ends(c)
    BY <1>2, <2>2 DEF Ends
  <2> QED  BY <1>1, <2>1, <2>2
<1>6. Issues \cap Verifies = {}
  BY DEF Issues, Verifies
<1>7. \A d \in Clients : Comparing(d)' =>
        Comparing(d) /\ req'[d].args = req[d].args /\ req'[d].key = req[d].key
  BY <1>1, <1>5 DEF Comparing
<1>8. \A d \in Clients : Issuing(d)' => Issuing(d) /\ req'[d].id = req[d].id
  BY <1>1, <1>5, <1>6 DEF Issuing
<1>9. \A d \in Clients : At(d, Verifies, "consume")' =>
        At(d, Verifies, "consume") /\ req'[d] = req[d]
  BY <1>5 DEF At
<1>10. \A k \in Ids, q \in Phones : IsCodeOf(k, q)' =>
         /\ IsCodeOf(k, q)
         /\ \/ q = p /\ otp'[q].attempts = otp[q].attempts + 1 /\ otp[q].attempts \in Nat
            \/ q # p /\ otp'[q] = otp[q]
  <2>1. ASSUME NEW k \in Ids, NEW q \in Phones, IsCodeOf(k, q)', q = p
        PROVE  /\ IsCodeOf(k, q)
               /\ otp'[q].attempts = otp[q].attempts + 1 /\ otp[q].attempts \in Nat
    <3>1. otp'[p] = r /\ r.code = k /\ k # Null
      BY <1>1, <1>2, <1>3, <2>1, RowAssumption DEF IsCodeOf
    <3> QED  BY <1>4, <2>1, <3>1 DEF IsCodeOf
  <2>2. ASSUME NEW k \in Ids, NEW q \in Phones, IsCodeOf(k, q)', q # p
        PROVE  IsCodeOf(k, q) /\ otp'[q] = otp[q]
    BY <1>1, <1>2, <2>2 DEF IsCodeOf
  <2> QED  BY <2>1, <2>2
<1>11. \A k \in Ids : guesses'[k] = IF k = n THEN guesses[k] + 1 ELSE guesses[k]
  BY <1>1, <1>2
<1>12. CodesAreIssued'
  <2>1. ASSUME NEW k \in Ids, Unseen(k) PROVE Unseen(k)'
    <3>1. k # n
      BY <1>3, <2>1 DEF Unseen, n
    <3> QED  BY <1>1, <1>7, <1>10, <1>11, <2>1, <3>1 DEF Unseen
  <2> QED  BY <1>5, <1>8, <2>1 DEF Codes, CodesAreIssued
<1>13. CodesAreStored'
  <2>1. ASSUME NEW q \in Phones, NEW k \in Ids, IsCodeOf(k, q)'
        PROVE  /\ admitted'[k] = {} /\ guesses'[k] <= otp'[q].attempts
               /\ \A x \in Phones : IsCodeOf(k, x)' => x = q
               /\ \A d \in Clients : Comparing(d)' /\ req'[d].args = k => req'[d].key = q
    <3>1. IsCodeOf(k, q) /\ guesses[k] \in Nat /\ guesses[k] <= otp[q].attempts
      BY <1>2, <1>10, <2>1 DEF Codes, CodesAreStored
    <3>2. guesses'[k] <= otp'[q].attempts
      <4>1. CASE k = n
        <5>1. q = p
          BY <1>3, <3>1, <4>1 DEF Codes, CodesAreStored, n, p
        <5> QED  BY <1>10, <1>11, <2>1, <3>1, <4>1, <5>1
      <4>2. CASE k # n
        BY <1>10, <1>11, <2>1, <3>1, <4>2
      <4> QED  BY <4>1, <4>2
    <3> QED  BY <1>1, <1>7, <1>10, <3>1, <3>2 DEF Codes, CodesAreStored
  <2> QED  BY <2>1 DEF CodesAreStored
<1>14. LatecomersOverlapped' /\ CodeAdmitsOnce'
  BY <1>1, <1>5, <1>9 DEF Codes, LatecomersOverlapped, CodeAdmitsOnce, At
<1> QED  BY <1>12, <1>13, <1>14 DEF Codes

\* A code lets its request in and is deleted.
LEMMA ConsumeCodes ==
  ASSUME Tables, Codes, NEW c \in Clients, VerifyOtp_Consume(c)
  PROVE  Codes'
<1> DEFINE p == req[c].key
           n == req[c].args
           a == Admission(c)
<1>1. /\ req[c] # Idle /\ req[c].op \in Verifies /\ req[c].step = "consume"
      /\ Continues(c, "admit")
      /\ otp' = [otp EXCEPT ![p] = Null]
      /\ admitted' = [admitted EXCEPT ![n] = admitted[n] \cup {a}]
      /\ guesses' = guesses
  BY DEF VerifyOtp_Consume, At
<1>2. /\ RequestOK(c) /\ DOMAIN otp = Phones /\ admitted \in [Ids -> SUBSET Letting]
      /\ arrived \in Nat /\ req[c].id \in 1 .. arrived
  BY <1>1, InHandFacts DEF Tables, TypeOK
<1>3. p \in Phones /\ n \in Ids /\ Comparing(c) /\ At(c, Verifies, "consume")
  BY <1>1, <1>2 DEF RequestOK, OtpOps, Comparing, At
<1>4. a.id = req[c].id /\ a.upto = arrived
  BY DEF Admission
<1>5. /\ arrived' = arrived
      /\ \A d \in Clients : d # c => req'[d] = req[d]
      /\ req'[c].op = req[c].op /\ req'[c].key = req[c].key
      /\ req'[c].args = req[c].args /\ req'[c].step = "admit"
  BY <1>1, GoesOn
<1>6. Issues \cap Verifies = {}
  BY DEF Issues, Verifies
<1> HIDE DEF p, n, a
<1>7. \A d \in Clients : Comparing(d)' =>
        Comparing(d) /\ req'[d].args = req[d].args /\ req'[d].key = req[d].key
  BY <1>1, <1>5 DEF Comparing
<1>8. \A d \in Clients : Issuing(d)' => Issuing(d) /\ req'[d].id = req[d].id
  BY <1>1, <1>5, <1>6 DEF Issuing
<1>9. \A d \in Clients : At(d, Verifies, "consume")' =>
        At(d, Verifies, "consume") /\ req'[d] = req[d]
  BY <1>5 DEF At
<1>10. \A k \in Ids, q \in Phones : IsCodeOf(k, q)' =>
         IsCodeOf(k, q) /\ q # p /\ otp'[q] = otp[q]
  BY <1>1, <1>2, <1>3 DEF IsCodeOf
<1>11. \A k \in Ids : admitted'[k] = IF k = n THEN admitted[k] \cup {a} ELSE admitted[k]
  BY <1>1, <1>2, <1>3
<1>12. CodesAreIssued'
  <2>1. ASSUME NEW k \in Ids, Unseen(k) PROVE Unseen(k)'
    <3>1. k # n
      BY <1>3, <2>1 DEF Unseen, n
    <3> QED  BY <1>1, <1>7, <1>10, <1>11, <2>1, <3>1 DEF Unseen
  <2> QED  BY <1>5, <1>8, <2>1 DEF Codes, CodesAreIssued
<1>13. CodesAreStored'
  <2>1. ASSUME NEW q \in Phones, NEW k \in Ids, IsCodeOf(k, q)'
        PROVE  /\ admitted'[k] = {} /\ guesses'[k] <= otp'[q].attempts
               /\ \A x \in Phones : IsCodeOf(k, x)' => x = q
               /\ \A d \in Clients : Comparing(d)' /\ req'[d].args = k => req'[d].key = q
    <3>1. IsCodeOf(k, q) /\ q # p /\ otp'[q] = otp[q]
      BY <1>10, <2>1
    <3>2. k # n
      BY <1>3, <3>1 DEF Codes, CodesAreStored, n, p
    <3> QED  BY <1>1, <1>7, <1>10, <1>11, <3>1, <3>2 DEF Codes, CodesAreStored
  <2> QED  BY <2>1 DEF CodesAreStored
<1>14. \A d \in Clients : req[d] # Idle => req[d].id \in Nat /\ req[d].id <= arrived
  BY InHandFacts, IdsAreNats
<1>15. LatecomersOverlapped'
  <2>1. ASSUME NEW k \in Ids, NEW b \in admitted'[k]
        PROVE  /\ b.id <= arrived'
               /\ \A d \in Clients :
                    At(d, Verifies, "consume")' /\ req'[d].args = k => req'[d].id <= b.upto
    <3>1. b \in admitted[k] \/ b = a
      BY <1>11, <2>1
    <3>2. CASE b \in admitted[k]
      BY <1>5, <1>9, <3>2 DEF Codes, LatecomersOverlapped
    <3>3. CASE b = a
      <4>1. b.id <= arrived'
        BY <1>1, <1>4, <1>5, <1>14, <3>3
      <4>2. ASSUME NEW d \in Clients, At(d, Verifies, "consume")'
            PROVE  req'[d].id <= b.upto
        <5>1. req[d] # Idle /\ req'[d] = req[d]
          BY <1>9, <4>2 DEF At
        <5> QED  BY <1>4, <1>14, <3>3, <5>1
      <4> QED  BY <4>1, <4>2
    <3> QED  BY <3>1, <3>2, <3>3
  <2> QED  BY <2>1 DEF LatecomersOverlapped, At
<1>16. CodeAdmitsOnce'
  <2>1. ASSUME NEW k \in Ids, NEW x \in admitted'[k], NEW y \in admitted'[k], x.id < y.id
        PROVE  y.id <= x.upto
    <3>1. CASE x \in admitted[k] /\ y \in admitted[k]
      BY <2>1, <3>1 DEF Codes, CodeAdmitsOnce
    <3>2. CASE x \in admitted[k] /\ y = a /\ k = n
      BY <1>3, <1>4, <3>2 DEF Codes, LatecomersOverlapped, n
    <3>3. CASE x = a /\ y \in admitted[k]
      BY <1>4, <3>3 DEF Codes, LatecomersOverlapped
    <3>4. CASE x = a /\ y = a
      BY <1>2, <1>4, <2>1, <3>4
    <3> QED  BY <1>11, <2>1, <3>1, <3>2, <3>3, <3>4
  <2> QED  BY <2>1 DEF CodeAdmitsOnce
<1> QED  BY <1>12, <1>13, <1>15, <1>16 DEF Codes

\* Every other step is quiet.
LEMMA QuietSteps ==
  ASSUME Tables, [Next]_vars
  PROVE  \/ Quiet
         \/ \E c \in Clients : \/ ReadStep(c) \/ RequestOtp_Store(c)
                               \/ VerifyOtp_Count(c) \/ VerifyOtp_Consume(c)
<1>1. /\ arrived \in Nat /\ arrived' \in Nat /\ arrived' >= arrived
      /\ DOMAIN req = Clients /\ otp \in [Phones -> OtpRecord \cup {Null}]
  BY TablesStep, PortalAssumption DEF Tables, TypeOK, Stays
<1>2. ASSUME UNCHANGED <<otp, guesses, admitted>>,
             req' = req \/ \E c \in Clients : req' = [req EXCEPT ![c] = Idle]
      PROVE  Quiet
  <2>1. \A d \in Clients : Goes(d)
    BY <1>1, <1>2 DEF Goes
  <2> QED  BY <1>1, <1>2, <2>1 DEF Quiet
<1>3. ASSUME NEW c \in Clients, WriteStep(c) PROVE Quiet
  BY <1>2, <1>3, WritesEnd DEF redis
<1>4. ASSUME NEW c \in Clients, Abort(c) PROVE Quiet
  BY <1>2, <1>4 DEF Abort, redis
<1>5. ASSUME NEW c \in Clients, AtOnceStep(c) PROVE Quiet
  BY <1>2, <1>5, AtOnceCommits DEF redis
<1>6. ASSUME OtherStep \/ UNCHANGED vars PROVE Quiet
  BY <1>2, <1>6, OtherTypes DEF vars, redis, ghosts
<1>7. ASSUME ExpiryStep PROVE Quiet
  <2>1. PICK p \in Phones : OtpExpires(p) \/ LockExpires(p)
    BY <1>7 DEF ExpiryStep
  <2>2. UNCHANGED <<req, guesses, admitted>>
        /\ (otp' = otp \/ otp' = [otp EXCEPT ![p] = Null])
    BY <2>1 DEF OtpExpires, LockExpires, ghosts
  <2> QED  BY <1>1, <2>2 DEF Quiet, Goes
<1>8. ASSUME NEW c \in Clients, NEW step \in {"store", "expire", "discard", "lock", "admit"},
             req[c] # Idle, Continues(c, step) \/ Ends(c),
             step = "store" => req[c].step = "clear"
      PROVE  \A d \in Clients : Goes(d)
  <2>1. CASE Continues(c, step)
    BY <1>8, <2>1, GoesOn DEF Goes
  <2>2. CASE Ends(c)
    BY <1>1, <2>2 DEF Goes, Ends
  <2> QED  BY <1>8, <2>1, <2>2
<1>9. ASSUME NEW c \in Clients, RequestOtp_Clear(c) PROVE Quiet
  <2>1. \A d \in Clients : Goes(d)
    BY <1>8, <1>9 DEF RequestOtp_Clear, At
  <2>2. otp' = [otp EXCEPT ![req[c].key] = Null] /\ UNCHANGED <<guesses, admitted>>
    BY <1>9 DEF RequestOtp_Clear
  <2> QED  BY <1>1, <2>1, <2>2 DEF Quiet
<1>10. ASSUME NEW c \in Clients, RequestOtp_Expire(c) PROVE Quiet
  <2>1. \A d \in Clients : Goes(d)
    BY <1>1, <1>10 DEF RequestOtp_Expire, At, Ends, Goes
  <2> DEFINE p == req[c].key
             r == IF otp[p] = Null THEN Null ELSE [otp[p] EXCEPT !.ttl = TRUE]
  <2>2. otp' = [otp EXCEPT ![p] = r] /\ UNCHANGED <<guesses, admitted>>
    BY <1>10 DEF RequestOtp_Expire
  <2>3. p \in Phones => r = Null \/ (otp[p] # Null /\ r.code = otp[p].code
                                     /\ r.attempts = otp[p].attempts)
    BY <1>1 DEF OtpRecord
  <2> HIDE DEF r
  <2> QED  BY <1>1, <2>1, <2>2, <2>3 DEF Quiet
<1>11. ASSUME NEW c \in Clients, VerifyOtp_Discard(c) PROVE Quiet
  <2>1. \A d \in Clients : Goes(d)
    BY <1>8, <1>11 DEF VerifyOtp_Discard, At
  <2>2. otp' = [otp EXCEPT ![req[c].key] = Null] /\ UNCHANGED <<guesses, admitted>>
    BY <1>11 DEF VerifyOtp_Discard
  <2> QED  BY <1>1, <2>1, <2>2 DEF Quiet
<1>12. ASSUME NEW c \in Clients, VerifyOtp_Lock(c) PROVE Quiet
  BY <1>1, <1>2, <1>12 DEF VerifyOtp_Lock, Ends
<1> QED
  BY StepCases, <1>3, <1>4, <1>5, <1>6, <1>7, <1>9, <1>10, <1>11, <1>12 DEF RedisStep

LEMMA CodesStep ==
  ASSUME Tables, Codes, [Next]_vars
  PROVE  Codes'
BY QuietSteps, QuietCodes, ArrivalCodes, StoreCodes, CountCodes, ConsumeCodes

LEMMA CodesInit == Init => Codes
<1> SUFFICES ASSUME Init PROVE Codes
  OBVIOUS
<1>1. /\ \A c \in Clients : req[c] = Idle
      /\ arrived = 0 /\ \A k \in Ids : guesses[k] = 0 /\ admitted[k] = {}
      /\ \A k \in Ids : k \in Nat
  BY NoRequestYet, IdsAreNats
<1>2. PICK o : \A k \in Ids, p \in Phones :
        IsCodeOf(k, p) => k = 0 /\ p = o /\ otp[p].attempts = 0
  <2> DEFINE h == CHOOSE x \in Phones : TRUE
             r == [code |-> 0, attempts |-> 0, ttl |-> TRUE]
  <2>1. otp = [x \in Phones |-> IF x = h THEN r ELSE Null]
    BY DEF Init
  <2>2. r.code = 0 /\ r.attempts = 0
    OBVIOUS
  <2> HIDE DEF h, r
  <2>3. \A k \in Ids, p \in Phones : IsCodeOf(k, p) => k = 0 /\ p = h /\ otp[p].attempts = 0
    BY <2>1, <2>2 DEF IsCodeOf
  <2> QED  BY <2>3
<1>3. CodesAreIssued
  BY <1>1, <1>2 DEF CodesAreIssued, Unseen, Issuing, Comparing
<1>4. CodesAreStored
  <2>1. ASSUME NEW p \in Phones, NEW k \in Ids, IsCodeOf(k, p)
        PROVE  /\ admitted[k] = {} /\ guesses[k] <= otp[p].attempts
               /\ \A q \in Phones : IsCodeOf(k, q) => q = p
    BY <1>1, <1>2, <2>1
  <2> QED  BY <1>1, <2>1 DEF CodesAreStored, Comparing
<1>5. LatecomersOverlapped /\ CodeAdmitsOnce
  BY <1>1 DEF LatecomersOverlapped, CodeAdmitsOnce
<1> QED  BY <1>3, <1>4, <1>5 DEF Codes

LEMMA CodesInvariant == Spec => []Codes
<1>1. Tables /\ Codes /\ [Next]_vars => Codes'
  BY CodesStep
<1> QED  BY CodesInit, <1>1, TablesInvariant, PTL DEF Spec

\* "Consume immediately so it can't be reused": whoever a code lets in second
\* had arrived before it was deleted, whatever else was under way.
THEOREM CodesAdmitOnce == Spec => []CodeAdmitsOnce
<1>1. Codes => CodeAdmitsOnce
  BY DEF Codes
<1> QED  BY CodesInvariant, <1>1, PTL

-----------------------------------------------------------------------------
(***************************************************************************)
(* What one request at a time has in hand.                                 *)
(***************************************************************************)
Alone(p) == \A c, d \in Clients : HasInHand(c, p) /\ HasInHand(d, p) => c = d

\* A record is whole, except in the middle of the request that stores it and
\* of the one that is about to discard it.
Whole(p) ==
  otp[p] # Null =>
    /\ otp[p].code # Null /\ p \notin lock
    /\ otp[p].ttl \/ \E c \in Clients : HasInHand(c, p) /\ At(c, Issues, "expire")
    /\ \/ otp[p].attempts < MaxAttempts
       \/ \E c \in Clients : HasInHand(c, p) /\ At(c, Verifies, "discard")

\* What a request relies on at its next call.
Relies(c, p) ==
  /\ At(c, Issues, "clear") \/ At(c, Issues, "store") => p \notin lock
  /\ At(c, Issues, "store") \/ At(c, Verifies, "lock") => otp[p] = Null
  /\ At(c, Verifies, "count") \/ At(c, Verifies, "consume") => otp[p] # Null

InOrder(p) ==
  Alone(p) /\ Whole(p) /\ \A c \in Clients : HasInHand(c, p) => Relies(c, p)

Undisturbed == \A p \in Phones : p \in disturbed \/ InOrder(p)

\* Nothing happens to p's record.
Elsewhere(p) ==
  /\ otp'[p] = otp[p] /\ (p \in lock' => p \in lock)
  /\ \A c \in Clients : HasInHand(c, p) \/ HasInHand(c, p)' => req'[c] = req[c]

LEMMA ElsewhereInOrder ==
  ASSUME NEW p \in Phones, InOrder(p), Elsewhere(p)
  PROVE  InOrder(p)'
<1>1. \A c \in Clients : HasInHand(c, p)' <=> HasInHand(c, p)
  BY DEF Elsewhere, HasInHand
<1>2. \A c \in Clients : HasInHand(c, p) => \A ops, step :
        At(c, ops, step)' <=> At(c, ops, step)
  BY DEF Elsewhere, At
<1>3. Alone(p)'
  BY <1>1 DEF InOrder, Alone
<1>4. Whole(p)'
  BY <1>1, <1>2 DEF InOrder, Whole, Elsewhere
<1>5. \A c \in Clients : HasInHand(c, p)' => Relies(c, p)'
  BY <1>1, <1>2 DEF InOrder, Relies, Elsewhere
<1> QED  BY <1>3, <1>4, <1>5 DEF InOrder

\* A request that goes on where it was alone stays alone.
LEMMA StaysAlone ==
  ASSUME NEW p \in Phones, InOrder(p), NEW c \in Clients, HasInHand(c, p),
         \A d \in Clients : d # c => req'[d] = req[d],
         Whole(p)', HasInHand(c, p)' => Relies(c, p)'
  PROVE  InOrder(p)'
<1>1. \A d \in Clients : HasInHand(d, p)' => d = c
  BY DEF InOrder, Alone, HasInHand
<1> QED  BY <1>1 DEF InOrder, Alone

\* A request arrives where no other is under way.
LEMMA ArrivesInOrder ==
  ASSUME Tables, NEW c \in Clients, ReadStep(c), NEW p \in Phones, InOrder(p),
         p \notin disturbed'
  PROVE  InOrder(p)'
<1>1. PICK op, step, key, args, snap : Ready(c, op) /\ Reads(c, op, step, key, args, snap)
  BY ReadsOnly, Zenon
<1>2. /\ req[c] = Idle /\ c \in DOMAIN req /\ DOMAIN req = Clients
      /\ UNCHANGED <<otp, lock>>
  BY <1>1, ReadsOnly DEF Ready, Tables, redis
<1>3. /\ req'[c].key = key /\ \A d \in Clients : d # c => req'[d] = req[d]
      /\ disturbed' = disturbed \cup {k \in {key} : InHand(k)}
  BY <1>1, <1>2 DEF Reads
<1>4. CASE key # p
  <2>1. Elsewhere(p)
    BY <1>2, <1>3, <1>4 DEF Elsewhere, HasInHand
  <2> QED  BY <2>1, ElsewhereInOrder
<1>5. CASE key = p
  <2>1. \A d \in Clients : ~HasInHand(d, p)
    BY <1>3, <1>5 DEF InHand
  <2>2. \A d \in Clients : HasInHand(d, p)' => d = c
    BY <1>3, <2>1 DEF HasInHand
  <2>3. Alone(p)' /\ Whole(p)'
    BY <1>2, <2>1, <2>2 DEF Alone, Whole, InOrder
  <2>4. Relies(c, p)'
    <3>1. At(c, Issues, "clear")' \/ At(c, Issues, "store")' => p \notin lock
      <4>1. SUFFICES ASSUME req'[c].op \in Issues PROVE p \notin lock
        BY DEF At
      <4>2. RequestOtp_CheckLock(c)
        BY <1>2, <4>1 DEF ReadStep, VerifyOtp_Compare, Register_Read, Login_Read,
           RotateRefresh_Read, AdminChange_Read, SetAvatar_Read, ListPages_Miss,
           Upsert_Read, RegisterDevice_Read, Reads, Issues, Verifies
      <4>3. req'[c].key \notin lock
        BY <1>2, <4>2 DEF RequestOtp_CheckLock, Reads
      <4> QED  BY <1>3, <1>5, <4>3
    <3>2. ~At(c, Issues, "store")' /\ ~At(c, Verifies, "lock")'
      <4>1. req'[c].step \in Steps
        BY <1>2, ReadsOnly DEF Reads
      <4>2. req'[c].op \in Issues => req'[c].step # "store"
        BY <4>1 DEF Steps
      <4> QED  BY <4>1, <4>2 DEF At, Steps
    <3>3. At(c, Verifies, "count")' \/ At(c, Verifies, "consume")' => otp[p] # Null
      <4>1. SUFFICES ASSUME req'[c].op \in Verifies PROVE otp[p] # Null
        BY DEF At
      <4>2. VerifyOtp_Compare(c)
        BY <1>2, <4>1 DEF ReadStep, RequestOtp_CheckLock, Register_Read, Login_Read,
           RotateRefresh_Read, AdminChange_Read, SetAvatar_Read, ListPages_Miss,
           Upsert_Read, RegisterDevice_Read, Reads, Issues, Verifies
      <4>3. otp[req'[c].key] # Null
        BY <1>2, <4>2 DEF VerifyOtp_Compare, Stored, Reads
      <4> QED  BY <1>3, <1>5, <4>3
    <3> QED  BY <1>2, <3>1, <3>2, <3>3 DEF Relies
  <2> QED  BY <2>2, <2>3, <2>4 DEF InOrder
<1> QED  BY <1>4, <1>5

\* A request goes on in Redis.
LEMMA RedisInOrder ==
  ASSUME Tables, NEW c \in Clients, RedisStep(c), NEW p \in Phones, InOrder(p)
  PROVE  InOrder(p)'
<1> DEFINE f == req[c]
<1>1. /\ f # Idle /\ RequestOK(c) /\ DOMAIN req = Clients
      /\ otp \in [Phones -> OtpRecord \cup {Null}]
      /\ Issues \cap Verifies = {} /\ MaxAttempts \in Nat /\ MaxAttempts > 0
  <2>1. f # Idle /\ RequestOK(c)
    BY RedisKeeps, InHandFacts
  <2>2. Issues \cap Verifies = {}
    BY DEF Issues, Verifies
  <2> QED  BY <2>1, <2>2, PortalAssumption DEF Tables, TypeOK
<1>2. f.key \in Phones
  <2>1. f.op \in OtpOps
    BY DEF RedisStep, RequestOtp_Clear, RequestOtp_Store, RequestOtp_Expire,
       VerifyOtp_Count, VerifyOtp_Discard, VerifyOtp_Lock, VerifyOtp_Consume, At, OtpOps
  <2> QED  BY <1>1, <2>1 DEF RequestOK
<1>3. ASSUME NEW step, Continues(c, step)
      PROVE  /\ req'[c] # Idle /\ req'[c].step = step /\ req'[c].op = f.op
             /\ req'[c].key = f.key
             /\ \A d \in Clients : d # c => req'[d] = req[d]
  BY <1>1, <1>3, GoesOn
<1>4. ASSUME Ends(c)
      PROVE  req'[c] = Idle /\ \A d \in Clients : d # c => req'[d] = req[d]
  BY <1>1, <1>4 DEF Ends
<1>5. (\E step : Continues(c, step)) \/ Ends(c)
  BY Zenon DEF RedisStep, RequestOtp_Clear, RequestOtp_Store, RequestOtp_Expire,
     VerifyOtp_Count, VerifyOtp_Discard, VerifyOtp_Lock, VerifyOtp_Consume
<1>6. CASE f.key # p
  <2>1. \/ lock' = lock /\ \E r : otp' = [otp EXCEPT ![f.key] = r]
        \/ otp' = otp /\ lock' = lock \cup {f.key}
    BY Zenon DEF RedisStep, RequestOtp_Clear, RequestOtp_Store, RequestOtp_Expire,
       VerifyOtp_Count, VerifyOtp_Discard, VerifyOtp_Lock, VerifyOtp_Consume
  <2>2. otp'[p] = otp[p] /\ (p \in lock' => p \in lock)
    BY <1>1, <1>6, <2>1
  <2>3. \A d \in Clients : HasInHand(d, p) \/ HasInHand(d, p)' => req'[d] = req[d]
    BY <1>3, <1>4, <1>5, <1>6 DEF HasInHand
  <2> QED  BY <2>2, <2>3, ElsewhereInOrder DEF Elsewhere
<1>7. CASE f.key = p
  <2>1. HasInHand(c, p) /\ Relies(c, p)
    BY <1>1, <1>7 DEF HasInHand, InOrder
  <2>2. \A d \in Clients : HasInHand(d, p) => d = c
    BY <2>1 DEF InOrder, Alone
  <2>3. ASSUME Whole(p)', HasInHand(c, p)' => Relies(c, p)'
        PROVE  InOrder(p)'
    BY <1>3, <1>4, <1>5, <2>1, <2>3, StaysAlone
  <2>4. HasInHand(c, p)' => req'[c].key = p
    BY DEF HasInHand
  <2>5. CASE RequestOtp_Clear(c)
    <3>1. /\ otp'[p] = Null /\ lock' = lock /\ Continues(c, "store") /\ p \notin lock
          /\ f.op \in Issues
      BY <1>1, <1>7, <2>1, <2>5 DEF RequestOtp_Clear, Relies, At
    <3> QED  BY <1>1, <1>3, <2>3, <3>1 DEF Whole, Relies, At
  <2>6. CASE RequestOtp_Store(c)
    <3> DEFINE r == [code |-> f.id, attempts |-> 0, ttl |-> otp[p] # Null /\ otp[p].ttl]
    <3>1. /\ otp' = [otp EXCEPT ![p] = r] /\ lock' = lock /\ Continues(c, "expire")
          /\ p \notin lock /\ f.op \in Issues
      BY <1>7, <2>1, <2>6 DEF RequestOtp_Store, Relies, At
    <3>2. f.id # Null /\ r.code = f.id /\ r.attempts = 0
      BY <1>1, InHandFacts, RowAssumption
    <3> HIDE DEF r
    <3>3. otp'[p].code # Null /\ otp'[p].attempts = 0
      BY <1>1, <3>1, <3>2
    <3>4. HasInHand(c, p)' /\ At(c, Issues, "expire")'
      BY <1>3, <1>7, <3>1 DEF HasInHand, At
    <3>5. Whole(p)'
      BY <1>1, <3>1, <3>3, <3>4 DEF Whole
    <3>6. Relies(c, p)'
      BY <1>1, <1>3, <3>1 DEF Relies, At
    <3> QED  BY <2>3, <3>5, <3>6
  <2>7. CASE RequestOtp_Expire(c)
    <3> DEFINE r == IF otp[p] = Null THEN Null ELSE [otp[p] EXCEPT !.ttl = TRUE]
    <3>1. /\ otp' = [otp EXCEPT ![p] = r] /\ lock' = lock /\ Ends(c) /\ f.op \in Issues
      BY <1>7, <2>7 DEF RequestOtp_Expire, At
    <3>2. otp[p] # Null => /\ r.ttl /\ r.code = otp[p].code
                           /\ r.attempts = otp[p].attempts
      BY <1>1, <1>7, <1>2 DEF OtpRecord
    <3>3. otp[p] = Null => r = Null
      OBVIOUS
    <3> HIDE DEF r
    <3>4. otp[p] # Null => otp[p].attempts < MaxAttempts
      BY <1>1, <2>2, <3>1 DEF InOrder, Whole, At
    <3>5. Whole(p)'
      BY <1>1, <3>1, <3>2, <3>3, <3>4 DEF Whole, InOrder
    <3> QED  BY <1>4, <2>3, <3>1, <3>5 DEF HasInHand
  <2>8. CASE VerifyOtp_Count(c)
    <3> DEFINE r == Counted(otp[p])
    <3>1. /\ otp' = [otp EXCEPT ![p] = r] /\ lock' = lock /\ f.op \in Verifies
          /\ IF otp'[p].attempts >= MaxAttempts THEN Continues(c, "discard") ELSE Ends(c)
          /\ otp[p] # Null /\ f.step = "count"
      BY <1>7, <2>1, <2>8 DEF VerifyOtp_Count, Relies, At
    <3>2. r.code = otp[p].code /\ r.ttl = otp[p].ttl /\ r.attempts \in Nat
      BY <1>1, <1>2, <1>7, <3>1 DEF Counted, OtpRecord
    <3> HIDE DEF r
    <3>3. otp[p].code # Null /\ p \notin lock /\ otp[p].ttl
      BY <1>1, <2>2, <3>1 DEF InOrder, Whole, At
    <3>4. /\ otp'[p].code # Null /\ p \notin lock' /\ otp'[p].ttl
          /\ otp'[p].attempts \in Nat
      BY <1>1, <3>1, <3>2, <3>3
    <3>5. CASE otp'[p].attempts >= MaxAttempts
      <4>1. HasInHand(c, p)' /\ At(c, Verifies, "discard")'
        BY <1>3, <1>7, <3>1, <3>5 DEF HasInHand, At
      <4>2. Whole(p)'
        BY <3>4, <4>1 DEF Whole
      <4>3. Relies(c, p)'
        BY <1>1, <1>3, <3>1, <3>5 DEF Relies, At
      <4> QED  BY <2>3, <4>2, <4>3
    <3>6. CASE ~(otp'[p].attempts >= MaxAttempts)
      <4>1. Whole(p)'
        BY <1>1, <3>4, <3>6 DEF Whole
      <4> QED  BY <1>4, <2>3, <3>1, <3>6, <4>1 DEF HasInHand
    <3> QED  BY <3>5, <3>6
  <2>9. CASE VerifyOtp_Discard(c)
    <3>1. /\ otp'[p] = Null /\ lock' = lock /\ Continues(c, "lock") /\ f.op \in Verifies
      BY <1>1, <1>7, <2>9 DEF VerifyOtp_Discard, At
    <3> QED  BY <1>1, <1>3, <2>3, <3>1 DEF Whole, Relies, At
  <2>10. CASE VerifyOtp_Lock(c)
    <3>1. otp' = otp /\ otp[p] = Null /\ Ends(c)
      BY <2>1, <2>10 DEF VerifyOtp_Lock, Relies
    <3> QED  BY <1>4, <2>3, <3>1 DEF Whole, HasInHand
  <2>11. CASE VerifyOtp_Consume(c)
    <3>1. /\ otp'[p] = Null /\ lock' = lock /\ Continues(c, "admit") /\ f.op \in Verifies
      BY <1>1, <1>7, <2>11 DEF VerifyOtp_Consume, At
    <3> QED  BY <1>1, <1>3, <2>3, <3>1 DEF Whole, Relies, At
  <2> QED  BY <2>5, <2>6, <2>7, <2>8, <2>9, <2>10, <2>11 DEF RedisStep
<1> QED  BY <1>6, <1>7

\* A request writes and ends, having left Redis.
LEMMA WriteInOrder ==
  ASSUME Tables, NEW c \in Clients, WriteStep(c), NEW p \in Phones, InOrder(p)
  PROVE  InOrder(p)'
<1>1. /\ UNCHANGED <<otp, lock>> /\ req[c] # Idle
      /\ req[c].step \in {"write", "fill", "admit"}
      /\ req'[c] = Idle /\ \A d \in Clients : d # c => req'[d] = req[d]
  BY WritesEnd DEF redis, Tables
<1>2. \A d \in Clients : HasInHand(d, p)' => HasInHand(d, p) /\ req'[d] = req[d]
  BY <1>1 DEF HasInHand
<1>3. \A d \in Clients : At(d, Issues, "expire") \/ At(d, Verifies, "discard") =>
        d # c /\ req'[d] = req[d]
  BY <1>1 DEF At
<1>4. Whole(p)'
  BY <1>1, <1>3 DEF Whole, InOrder, HasInHand, At
<1>5. Alone(p)' /\ \A d \in Clients : HasInHand(d, p)' => Relies(d, p)'
  BY <1>1, <1>2 DEF InOrder, Alone, Relies, At
<1> QED  BY <1>4, <1>5 DEF InOrder

LEMMA UndisturbedStep ==
  ASSUME Tables, Undisturbed, [Next]_vars
  PROVE  Undisturbed'
<1>1. SUFFICES ASSUME NEW p \in Phones, p \notin disturbed'
               PROVE  InOrder(p)'
  BY DEF Undisturbed
<1>2. disturbed \subseteq disturbed'
  <2>1. \A c \in Clients : ReadStep(c) => disturbed \subseteq disturbed'
    BY ReadsOnly DEF Reads
  <2>2. \A c \in Clients : RedisStep(c) \/ WriteStep(c) \/ AtOnceStep(c) =>
          disturbed' = disturbed
    BY RedisKeeps, WritesEnd, AtOnceCommits
  <2>3. \A c \in Clients : Abort(c) => disturbed \subseteq disturbed'
    BY DEF Abort
  <2>4. ExpiryStep => disturbed \subseteq disturbed'
    BY DEF ExpiryStep, OtpExpires, LockExpires, ghosts
  <2>5. OtherStep \/ UNCHANGED vars => disturbed' = disturbed
    BY OtherTypes DEF vars, ghosts
  <2> QED  BY StepCases, <2>1, <2>2, <2>3, <2>4, <2>5
<1>3. InOrder(p) /\ DOMAIN req = Clients
  BY <1>1, <1>2 DEF Undisturbed, Tables
<1>4. ASSUME NEW c \in Clients, ReadStep(c) PROVE InOrder(p)'
  BY <1>1, <1>3, <1>4, ArrivesInOrder
<1>5. ASSUME NEW c \in Clients, RedisStep(c) PROVE InOrder(p)'
  BY <1>3, <1>5, RedisInOrder
<1>6. ASSUME NEW c \in Clients, WriteStep(c) PROVE InOrder(p)'
  BY <1>3, <1>6, WriteInOrder
<1>7. ASSUME NEW c \in Clients, Abort(c) PROVE InOrder(p)'
  <2>1. req[c].key # p
    BY <1>1, <1>7 DEF Abort
  <2>2. /\ UNCHANGED <<otp, lock>> /\ req'[c] = Idle
        /\ \A d \in Clients : d # c => req'[d] = req[d]
    BY <1>3, <1>7 DEF Abort, redis
  <2>3. Elsewhere(p)
    BY <2>1, <2>2 DEF Elsewhere, HasInHand
  <2> QED  BY <1>3, <2>3, ElsewhereInOrder
<1>8. ASSUME UNCHANGED <<otp, req>>, lock' \subseteq lock PROVE InOrder(p)'
  BY <1>3, <1>8, ElsewhereInOrder DEF Elsewhere
<1>9. ASSUME NEW c \in Clients, AtOnceStep(c) PROVE InOrder(p)'
  BY <1>8, <1>9, AtOnceCommits DEF redis
<1>10. ASSUME OtherStep \/ UNCHANGED vars PROVE InOrder(p)'
  BY <1>8, <1>10, OtherTypes DEF vars, redis
<1>11. ASSUME NEW q \in Phones, LockExpires(q) PROVE InOrder(p)'
  BY <1>8, <1>11 DEF LockExpires
<1>12. ASSUME NEW q \in Phones, OtpExpires(q) PROVE InOrder(p)'
  <2>1. /\ otp' = [otp EXCEPT ![q] = Null] /\ UNCHANGED <<lock, req>>
        /\ disturbed' = disturbed \cup {k \in {q} : InHand(k)}
        /\ DOMAIN otp = Phones
    BY <1>12 DEF OtpExpires, Tables, TypeOK
  <2>2. CASE q # p
    <3>1. Elsewhere(p)
      BY <2>1, <2>2 DEF Elsewhere
    <3> QED  BY <1>3, <3>1, ElsewhereInOrder
  <2>3. CASE q = p
    <3>1. \A c \in Clients : ~HasInHand(c, p)'
      BY <1>1, <2>1, <2>3 DEF InHand, HasInHand
    <3>2. otp'[p] = Null
      BY <2>1, <2>3
    <3> QED  BY <3>1, <3>2 DEF InOrder, Alone, Whole
  <2> QED  BY <2>2, <2>3
<1> QED
  BY StepCases, <1>4, <1>5, <1>6, <1>7, <1>9, <1>10, <1>11, <1>12 DEF ExpiryStep

LEMMA UndisturbedInit == Init => Undisturbed
<1> SUFFICES ASSUME Init, NEW p \in Phones PROVE InOrder(p)
  BY DEF Undisturbed
<1>1. \A c \in Clients : ~HasInHand(c, p)
  BY NoRequestYet DEF HasInHand
<1> DEFINE h == CHOOSE x \in Phones : TRUE
           r == [code |-> 0, attempts |-> 0, ttl |-> TRUE]
<1>2. otp = [x \in Phones |-> IF x = h THEN r ELSE Null] /\ lock = {}
  BY DEF Init
<1>3. r.code = 0 /\ r.attempts = 0 /\ r.ttl /\ 0 # Null
  BY RowAssumption, PortalAssumption DEF Ids
<1> HIDE DEF h, r
<1>4. Whole(p)
  BY <1>2, <1>3, PortalAssumption DEF Whole
<1> QED  BY <1>1, <1>4 DEF InOrder, Alone

LEMMA UndisturbedInvariant == Spec => []Undisturbed
<1>1. Tables /\ Undisturbed /\ [Next]_vars => Undisturbed'
  BY UndisturbedStep
<1> QED  BY UndisturbedInit, <1>1, TablesInvariant, PTL DEF Spec

\* A wrong guess that was answered is in the record of its code, however the
\* requests overlap: HINCRBY counts where the code is.  And a record at the
\* limit is about to go, unless requests met over it or one died.
THEOREM GuessesAreCounted == Spec => []WrongGuessesAreCounted
<1>1. Tables /\ Codes /\ Undisturbed => WrongGuessesAreCounted
  <2> SUFFICES ASSUME Tables, Codes, Undisturbed, NEW p \in Rows(otp)
               PROVE  /\ otp[p].code # Null => guesses[otp[p].code] <= otp[p].attempts
                      /\ otp[p].attempts >= MaxAttempts => InHand(p) \/ p \in disturbed
    BY DEF WrongGuessesAreCounted
  <2>1. p \in Phones /\ otp[p] # Null /\ otp[p] \in OtpRecord
    BY DEF Rows, Tables, TypeOK
  <2>2. otp[p].code # Null => guesses[otp[p].code] <= otp[p].attempts
    BY <2>1 DEF Codes, CodesAreStored, IsCodeOf, OtpRecord
  <2>3. otp[p].attempts >= MaxAttempts => InHand(p) \/ p \in disturbed
    BY <2>1, PortalAssumption DEF Undisturbed, InOrder, Whole, InHand, OtpRecord
  <2> QED  BY <2>2, <2>3
<1> QED  BY <1>1, TablesInvariant, CodesInvariant, UndisturbedInvariant, PTL

\* Between requests a phone's record is a code with an expiry that no lock
\* hides: half a record is left only by requests that met over it or died.
THEOREM OtpRecordsAreWhole == Spec => []OtpRecordIsWhole
<1>1. Tables /\ Undisturbed => OtpRecordIsWhole
  BY DEF OtpRecordIsWhole, Undisturbed, InOrder, Whole, InHand, Rows, Tables, TypeOK
<1> QED  BY <1>1, TablesInvariant, UndisturbedInvariant, PTL

-----------------------------------------------------------------------------
(***************************************************************************)
(* The audit trail.                                                        *)
(***************************************************************************)
SameColumn(e, d) == d.user = e.user /\ d.column = e.column

\* No other change of the column was committed while e was decided.
IsClean(e) ==
  \A i \in DOMAIN audit :
    SameColumn(e, audit[i]) => audit[i].at <= e.read \/ audit[i].at >= e.at

Later(i, j) == j \in DOMAIN audit /\ j > i /\ SameColumn(audit[i], audit[j])
IsLast(i) == \A j \in DOMAIN audit : ~Later(i, j)
Follows(i, n) == Later(i, n) /\ \A j \in DOMAIN audit : Later(i, j) => n <= j

\* The request is about to change the column of the entry.
Decides(c, e) ==
  /\ req[c] # Idle /\ req[c].op \in AdminOps
  /\ e.user = req[c].key /\ e.column = Column(req[c].op)

EntriesOK ==
  \A i \in DOMAIN audit :
    /\ audit[i].at \in 1 .. Len(log)
    /\ user[audit[i].user] \in User
    /\ IsLast(i) \/ \E n \in DOMAIN audit : Follows(i, n)

LastIsShown ==
  \A i \in DOMAIN audit :
    IsLast(i) /\ IsClean(audit[i]) => user[audit[i].user][audit[i].column] = audit[i].after

\* What an administrator saw is still there, or was overtaken.
SeenOrOvertaken ==
  \A c \in Clients : req[c] # Idle /\ req[c].op \in AdminOps =>
    \/ user[req[c].key][Column(req[c].op)] = req[c].snap[Column(req[c].op)]
    \/ \E i \in DOMAIN audit : Decides(c, audit[i]) /\ audit[i].at > req[c].read

SeenIsLast ==
  \A c \in Clients, i \in DOMAIN audit :
    /\ Decides(c, audit[i]) /\ IsLast(i) /\ IsClean(audit[i])
    /\ audit[i].at <= req[c].read
    => req[c].snap[Column(req[c].op)] = audit[i].after

NextStartsThere ==
  \A i, n \in DOMAIN audit :
    Follows(i, n) /\ IsClean(audit[i]) /\ audit[n].read >= audit[i].at =>
      audit[n].before = audit[i].after

Trail == EntriesOK /\ LastIsShown /\ SeenOrOvertaken /\ SeenIsLast /\ NextStartsThere

LEMMA AuditKept ==
  ASSUME Tables, [Next]_vars, \A c \in Clients : ~AdminChange_Write(c)
  PROVE  audit' = audit
<1>1. ASSUME NEW c \in Clients, ReadStep(c) PROVE audit' = audit
  BY <1>1, ReadsOnly DEF tables, accounts
<1>2. ASSUME NEW c \in Clients, RedisStep(c) PROVE audit' = audit
  BY <1>2, RedisKeeps DEF tables, accounts
<1>3. ASSUME NEW c \in Clients, WriteStep(c) PROVE audit' = audit
  BY <1>3 DEF WriteStep, Register_Write, Login_Write, OtpLogin, RotateRefresh_Write,
     ResetPassword, SetAvatar_Write, ListPages_Fill, Upsert_Write, RegisterDevice_Write,
     accounts
<1>4. ASSUME NEW c \in Clients, AtOnceStep(c) PROVE audit' = audit
  BY <1>4 DEF AtOnceStep, Logout, PatchMe, Publish, accounts
<1>5. ASSUME NEW c \in Clients, Abort(c) PROVE audit' = audit
  BY <1>5 DEF Abort, tables, accounts
<1>6. ASSUME ExpiryStep \/ OtherStep \/ UNCHANGED vars PROVE audit' = audit
  BY <1>6, ExpiryTypes, OtherTypes DEF vars, tables, accounts
<1> QED  BY StepCases, <1>1, <1>2, <1>3, <1>4, <1>5, <1>6

\* An entry is about a column of a user.
LEMMA EntryFields ==
  ASSUME Tables, NEW i \in DOMAIN audit
  PROVE  /\ audit[i].user \in Phones /\ audit[i].column \in {"role", "is_active"}
         /\ audit[i].at \in Nat /\ audit[i].read \in Nat /\ i \in Nat
<1>1. audit \in Seq(AuditRow) /\ Len(log) \in Nat
  BY LogKept DEF Tables
<1>2. audit[i] \in AuditRow /\ i \in Nat
  BY <1>1
<1> QED  BY <1>2 DEF AuditRow, AuditOf

\* No column changes: what requests saw stays as it was.
LEMMA TrailKept ==
  ASSUME Tables, Trail, [Next]_vars, \A c \in Clients : ~AdminChange_Write(c)
  PROVE  Trail'
<1>1. /\ audit' = audit /\ Stays /\ Len(log) \in Nat /\ Len(log') \in Nat
      /\ Len(log') >= Len(log)
  BY AuditKept, TablesStep, LogKept DEF Stays
<1>2. ASSUME NEW p \in Phones, user[p] \in User, NEW col \in {"role", "is_active"}
      PROVE  user'[p][col] = user[p][col]
  BY <1>2, ColumnKept
<1>3. \A i \in DOMAIN audit : \A j : Later(i, j)' <=> Later(i, j)
  BY <1>1 DEF Later, SameColumn
<1>4. \A i \in DOMAIN audit : IsLast(i)' <=> IsLast(i)
  BY <1>1, <1>3 DEF IsLast
<1>5. \A i, n \in DOMAIN audit : Follows(i, n)' <=> Follows(i, n)
  BY <1>1, <1>3 DEF Follows
<1>6. \A i \in DOMAIN audit : IsClean(audit[i])' <=> IsClean(audit[i])
  BY <1>1 DEF IsClean
<1>7. EntriesOK'
  <2>1. ASSUME NEW i \in DOMAIN audit
        PROVE  /\ audit[i].at \in 1 .. Len(log')
               /\ user'[audit[i].user] \in User
               /\ IsLast(i)' \/ \E n \in DOMAIN audit : Follows(i, n)'
    <3>1. audit[i].at \in 1 .. Len(log) /\ user[audit[i].user] \in User
      BY <2>1 DEF Trail, EntriesOK
    <3>2. user'[audit[i].user] \in User
      BY <1>1, <2>1, <3>1, EntryFields DEF Stays
    <3>3. IsLast(i) \/ \E n \in DOMAIN audit : Follows(i, n)
      BY <2>1 DEF Trail, EntriesOK
    <3> QED  BY <1>1, <1>4, <1>5, <2>1, <3>1, <3>2, <3>3
  <2> QED  BY <1>1, <2>1 DEF EntriesOK
<1>8. LastIsShown'
  <2>1. ASSUME NEW i \in DOMAIN audit
        PROVE  user'[audit[i].user][audit[i].column] = user[audit[i].user][audit[i].column]
    BY <1>2, <2>1, EntryFields DEF Trail, EntriesOK
  <2> QED  BY <1>1, <1>4, <1>6, <2>1 DEF Trail, LastIsShown
<1>9. NextStartsThere'
  BY <1>1, <1>5, <1>6 DEF Trail, NextStartsThere
<1>10. ASSUME NEW c \in Clients, req'[c] # Idle, req'[c].op \in AdminOps
       PROVE  \/ req'[c] = req[c]
              \/ /\ UNCHANGED <<user, log>> /\ req'[c].read = Len(log)
                 /\ req'[c].key \in Phones /\ user[req'[c].key] \in User
                 /\ req'[c].snap = user[req'[c].key]
  <2>1. CASE ReadStep(c)
    <3>1. c \in DOMAIN req /\ UNCHANGED <<user, log>> /\ user \in [Phones -> User \cup {Null}]
      BY <2>1, ReadsOnly DEF Tables, TypeOK, tables, accounts
    <3>2. AdminChange_Read(c)
      BY <1>10, <2>1, <3>1 DEF ReadStep, RequestOtp_CheckLock, VerifyOtp_Compare,
         Register_Read, Login_Read, RotateRefresh_Read, SetAvatar_Read, ListPages_Miss,
         Upsert_Read, RegisterDevice_Read, Reads, Issues, Verifies, AdminOps
    <3>3. PICK p \in Rows(user) : /\ req'[c].key = p /\ req'[c].snap = user[p]
                                  /\ req'[c].read = Len(log)
      BY <3>1, <3>2 DEF AdminChange_Read, Reads
    <3> QED  BY <3>1, <3>3 DEF Rows
  <2>2. CASE RedisStep(c)
    BY <1>10, <2>2, RedisOp DEF AdminOps, OtpOps, Issues, Verifies
  <2> QED  BY <1>10, <2>1, <2>2, ReqStep
<1>11. ASSUME NEW c \in Clients, req[c] # Idle, req[c].op \in AdminOps
       PROVE  /\ req[c].key \in Phones /\ user[req[c].key] \in User
              /\ Column(req[c].op) \in {"role", "is_active"}
  BY <1>11, InHandFacts DEF RequestOK, Column
<1>12. SeenOrOvertaken'
  <2>1. ASSUME NEW c \in Clients, req'[c] # Idle, req'[c].op \in AdminOps
        PROVE  \/ user'[req'[c].key][Column(req'[c].op)] = req'[c].snap[Column(req'[c].op)]
               \/ \E i \in DOMAIN audit : Decides(c, audit[i])' /\ audit[i].at > req'[c].read
    <3>1. CASE req'[c] = req[c]
      <4>1. \A i \in DOMAIN audit : Decides(c, audit[i])' <=> Decides(c, audit[i])
        BY <1>1, <3>1 DEF Decides
      <4>2. user'[req[c].key][Column(req[c].op)] = user[req[c].key][Column(req[c].op)]
        BY <1>2, <1>11, <2>1, <3>1
      <4> QED  BY <2>1, <3>1, <4>1, <4>2 DEF Trail, SeenOrOvertaken
    <3> QED  BY <1>10, <2>1, <3>1
  <2> QED  BY <1>1, <2>1 DEF SeenOrOvertaken
<1>13. SeenIsLast'
  <2>1. ASSUME NEW c \in Clients, NEW i \in DOMAIN audit, Decides(c, audit[i])', IsLast(i),
               IsClean(audit[i]), audit[i].at <= req'[c].read
        PROVE  req'[c].snap[Column(req'[c].op)] = audit[i].after
    <3>1. /\ req'[c] # Idle /\ req'[c].op \in AdminOps
          /\ audit[i].user = req'[c].key /\ audit[i].column = Column(req'[c].op)
      BY <1>1, <2>1 DEF Decides
    <3>2. CASE req'[c] = req[c]
      BY <2>1, <3>1, <3>2 DEF Trail, SeenIsLast, Decides
    <3>3. CASE req'[c].snap = user[req'[c].key]
      BY <2>1, <3>1, <3>3 DEF Trail, LastIsShown
    <3> QED  BY <1>10, <3>1, <3>2, <3>3
  <2> QED  BY <1>1, <1>4, <1>6, <2>1 DEF SeenIsLast
<1> QED  BY <1>7, <1>8, <1>9, <1>12, <1>13 DEF Trail

\* An administrator's change is committed: the column and its entry.
LEMMA TrailGrows ==
  ASSUME Tables, Trail, [Next]_vars, NEW c \in Clients, AdminChange_Write(c)
  PROVE  Trail'
<1> DEFINE f == req[c]
           p == req[c].key
           col == Column(req[c].op)
           s == req[c].snap[col]
           v == req[c].args
           e == [user |-> p, column |-> col, before |-> s, after |-> v,
                 read |-> f.read, at |-> Len(log) + 1]
<1>0. PICK N \in Nat : N = Len(audit) + 1
  BY DEF Tables
<1>1. /\ f # Idle /\ f.op \in AdminOps /\ WriteStep(c)
      /\ user' = IF s = v THEN user ELSE [user EXCEPT ![p] = [user[p] EXCEPT ![col] = v]]
      /\ audit' = Append(audit, e)
      /\ log' = Append(log, [id |-> f.id, op |-> f.op, key |-> f.key])
      /\ req' = [req EXCEPT ![c] = Idle]
  BY DEF AdminChange_Write, At, AdminOps, OrmUpdate, Record, Now, Commits, WriteStep
<1>2. /\ RequestOK(c) /\ DOMAIN req = Clients /\ audit \in Seq(AuditRow)
      /\ user \in [Phones -> User \cup {Null}] /\ log \in Seq(Entry)
      /\ Stays /\ Tables'
  BY <1>1, InHandFacts, TablesStep DEF Tables, TypeOK
<1>3. /\ p \in Phones /\ user[p] \in User /\ col \in {"role", "is_active"}
      /\ f.read \in 0 .. Len(log) /\ Len(log) \in Nat
  BY <1>1, <1>2 DEF RequestOK, Column
<1>4. /\ e.user = p /\ e.column = col /\ e.before = s /\ e.after = v
      /\ e.read = f.read /\ e.at = Len(log) + 1
  OBVIOUS
<1>5. Len(log') = Len(log) + 1
  BY <1>1, <1>2
<1>6. user'[p][col] = IF s = v THEN user[p][col] ELSE v
  <2> DEFINE r == [user[p] EXCEPT ![col] = v]
  <2>1. r[col] = v
    BY <1>3 DEF User
  <2>2. user' = IF s = v THEN user ELSE [user EXCEPT ![p] = r]
    BY <1>1
  <2> HIDE DEF r, s, v
  <2> QED  BY <1>2, <1>3, <2>1, <2>2
<1>7. ASSUME NEW q \in Phones, user[q] \in User, NEW other \in {"role", "is_active"},
             q # p \/ other # col
      PROVE  user'[q][other] = user[q][other]
  BY <1>7, OtherColumnKept
<1>8. \A d \in Clients : d # c => req'[d] = req[d]
  BY <1>1, <1>2
<1>9. req'[c] = Idle
  BY <1>1, <1>2
<1>10. /\ DOMAIN audit = 1 .. N - 1 /\ DOMAIN audit' = 1 .. N /\ N \in Nat /\ N >= 1
       /\ audit'[N] = e /\ \A i \in 1 .. N - 1 : audit'[i] = audit[i]
  <2>0. Len(audit) \in Nat /\ N = Len(audit) + 1
    BY <1>0, <1>2
  <2>1. e \in AuditRow
    <3>1. audit' \in Seq(AuditRow)
      BY <1>2 DEF Tables
    <3>2. audit'[N] = e /\ N \in DOMAIN audit'
      <4> HIDE DEF e
      <4> QED  BY <1>1, <1>2, <2>0
    <3> HIDE DEF e
    <3> QED  BY <3>1, <3>2
  <2> HIDE DEF e
  <2> QED  BY <1>1, <1>2, <2>0, <2>1
<1> HIDE DEF p, col, s, v, e
<1>11. \A i \in 1 .. N - 1 : /\ i \in DOMAIN audit /\ i \in DOMAIN audit' /\ i < N /\ i \in Nat
                             /\ audit'[i] = audit[i] /\ audit[i].at \in Nat
                             /\ audit[i].at <= Len(log)
  BY <1>3, <1>10 DEF Trail, EntriesOK
<1>12. \A i \in DOMAIN audit' : i = N \/ i \in 1 .. N - 1
  BY <1>10
<1>13. \A i, j \in 1 .. N - 1 : Later(i, j)' <=> Later(i, j)
  BY <1>11 DEF Later, SameColumn
<1>14. \A i \in 1 .. N - 1 : Later(i, N)' <=> SameColumn(audit[i], e)
  BY <1>10, <1>11 DEF Later, SameColumn
<1>15. \A j : ~Later(N, j)'
  BY <1>10 DEF Later
<1>16. \A i \in 1 .. N - 1 : IsLast(i)' <=> IsLast(i) /\ ~SameColumn(audit[i], e)
  <2>1. ASSUME NEW i \in 1 .. N - 1, IsLast(i)'
        PROVE  IsLast(i) /\ ~SameColumn(audit[i], e)
    BY <1>10, <1>11, <1>13, <1>14, <2>1 DEF IsLast
  <2>2. ASSUME NEW i \in 1 .. N - 1, IsLast(i), ~SameColumn(audit[i], e)
        PROVE  IsLast(i)'
    BY <1>10, <1>11, <1>12, <1>13, <1>14, <2>2 DEF IsLast
  <2> QED  BY <2>1, <2>2
<1>17. \A i, n \in 1 .. N - 1 : Follows(i, n)' <=> Follows(i, n)
  <2>1. ASSUME NEW i \in 1 .. N - 1, NEW n \in 1 .. N - 1, Follows(i, n)'
        PROVE  Follows(i, n)
    BY <1>10, <1>11, <1>13, <2>1 DEF Follows
  <2>2. ASSUME NEW i \in 1 .. N - 1, NEW n \in 1 .. N - 1, Follows(i, n)
        PROVE  Follows(i, n)'
    <3>1. n < N /\ n \in Nat
      BY <1>11, <2>2
    <3>2. n <= N
      BY <1>10, <3>1
    <3> QED  BY <1>11, <1>12, <1>13, <2>2, <3>2 DEF Follows
  <2> QED  BY <2>1, <2>2
<1>18. \A i \in 1 .. N - 1 : Follows(i, N)' <=> IsLast(i) /\ SameColumn(audit[i], e)
  <2>1. ASSUME NEW i \in 1 .. N - 1, Follows(i, N)'
        PROVE  IsLast(i) /\ SameColumn(audit[i], e)
    <3>1. SameColumn(audit[i], e)
      BY <1>14, <2>1 DEF Follows
    <3>2. ASSUME NEW j \in 1 .. N - 1, Later(i, j) PROVE FALSE
      <4>1. Later(i, j)' /\ j \in DOMAIN audit'
        BY <1>11, <1>13, <2>1, <3>2
      <4>2. N <= j
        BY <2>1, <4>1 DEF Follows
      <4> QED  BY <1>10, <1>11, <4>2
    <3> QED  BY <1>10, <3>1, <3>2 DEF IsLast
  <2>2. ASSUME NEW i \in 1 .. N - 1, IsLast(i), SameColumn(audit[i], e)
        PROVE  Follows(i, N)'
    <3>1. \A j \in DOMAIN audit' : Later(i, j)' => j = N
      BY <1>11, <1>12, <1>13, <2>2 DEF IsLast
    <3>2. N <= N
      BY <1>10
    <3> QED  BY <1>14, <2>2, <3>1, <3>2 DEF Follows
  <2> QED  BY <2>1, <2>2
<1>19. \A i \in 1 .. N - 1 : IsClean(audit[i])' <=> IsClean(audit[i])
  <2>1. ASSUME NEW i \in 1 .. N - 1, IsClean(audit[i])' PROVE IsClean(audit[i])
    BY <1>10, <1>11, <2>1 DEF IsClean, SameColumn
  <2>2. ASSUME NEW i \in 1 .. N - 1, IsClean(audit[i]) PROVE IsClean(audit[i])'
    <3>1. audit'[N].at >= audit[i].at
      BY <1>3, <1>4, <1>10, <1>11
    <3> QED  BY <1>10, <1>11, <1>12, <2>2, <3>1 DEF IsClean, SameColumn
  <2> QED  BY <2>1, <2>2
<1>20. EntriesOK'
  <2>1. ASSUME NEW i \in 1 .. N - 1
        PROVE  /\ audit'[i].at \in 1 .. Len(log')
               /\ user'[audit'[i].user] \in User
               /\ IsLast(i)' \/ \E n \in DOMAIN audit' : Follows(i, n)'
    <3>1. audit[i].at \in 1 .. Len(log) /\ user[audit[i].user] \in User
      BY <1>11 DEF Trail, EntriesOK
    <3>2. user'[audit[i].user] \in User
      BY <1>2, <1>11, <3>1, EntryFields DEF Stays
    <3>3. audit[i].at \in 1 .. Len(log')
      BY <1>3, <1>5, <3>1
    <3>4. IsLast(i) \/ \E n \in 1 .. N - 1 : Follows(i, n)
      BY <1>10, <1>11 DEF Trail, EntriesOK
    <3>5. N \in DOMAIN audit'
      BY <1>10
    <3> QED  BY <1>11, <1>16, <1>17, <1>18, <3>2, <3>3, <3>4, <3>5
  <2>2. /\ audit'[N].at \in 1 .. Len(log') /\ user'[audit'[N].user] \in User /\ IsLast(N)'
    <3>1. audit'[N].at \in 1 .. Len(log')
      BY <1>3, <1>4, <1>5, <1>10
    <3>2. user'[audit'[N].user] \in User
      BY <1>2, <1>3, <1>4, <1>10 DEF Stays
    <3> QED  BY <1>15, <3>1, <3>2 DEF IsLast
  <2> QED  BY <1>12, <2>1, <2>2 DEF EntriesOK
<1>21. ASSUME IsClean(audit[N])'
       PROVE  user[p][col] = s
  <2>1. ASSUME NEW i \in DOMAIN audit, Decides(c, audit[i]) PROVE audit[i].at <= f.read
    <3>1. SameColumn(e, audit[i])
      BY <1>4, <2>1 DEF SameColumn, Decides, p, col
    <3>2. i \in 1 .. N - 1
      BY <1>10, <2>1
    <3>3. audit[i].at <= e.read \/ audit[i].at >= e.at
      BY <1>10, <1>11, <1>21, <3>1, <3>2 DEF IsClean, SameColumn
    <3> QED  BY <1>3, <1>4, <1>11, <3>2, <3>3
  <2>2. ASSUME NEW i \in DOMAIN audit, Decides(c, audit[i]) PROVE ~(audit[i].at > f.read)
    <3>1. audit[i].at \in Nat
      BY EntryFields
    <3> QED  BY <1>3, <2>1, <2>2, <3>1
  <2> QED  BY <1>1, <2>2 DEF Trail, SeenOrOvertaken, p, col, s
<1>22. LastIsShown'
  <2>1. ASSUME NEW i \in 1 .. N - 1, IsLast(i)', IsClean(audit[i])'
        PROVE  user'[audit'[i].user][audit'[i].column] = audit'[i].after
    <3>1. IsLast(i) /\ IsClean(audit[i]) /\ i \in DOMAIN audit
          /\ (audit[i].user # p \/ audit[i].column # col)
      BY <1>4, <1>11, <1>16, <1>19, <2>1 DEF SameColumn
    <3>2. user[audit[i].user][audit[i].column] = audit[i].after
      BY <3>1 DEF Trail, LastIsShown
    <3>3. /\ audit[i].user \in Phones /\ user[audit[i].user] \in User
          /\ audit[i].column \in {"role", "is_active"}
      BY <3>1, EntryFields DEF Trail, EntriesOK
    <3>4. user'[audit[i].user][audit[i].column] = user[audit[i].user][audit[i].column]
      BY <1>7, <3>1, <3>3
    <3> QED  BY <1>11, <3>2, <3>4
  <2>2. ASSUME IsClean(audit[N])'
        PROVE  user'[audit'[N].user][audit'[N].column] = audit'[N].after
    BY <1>4, <1>6, <1>10, <1>21, <2>2
  <2> QED  BY <1>12, <2>1, <2>2 DEF LastIsShown
<1>23. ASSUME NEW d \in Clients, req'[d] # Idle, req'[d].op \in AdminOps
       PROVE  /\ d # c /\ req'[d] = req[d] /\ req[d].read \in 0 .. Len(log)
              /\ req[d].key \in Phones /\ user[req[d].key] \in User
              /\ Column(req[d].op) \in {"role", "is_active"}
  <2>1. d # c /\ req'[d] = req[d]
    BY <1>8, <1>9, <1>23
  <2>2. RequestOK(d)
    BY <1>23, <2>1, InHandFacts
  <2> QED  BY <1>23, <2>1, <2>2 DEF RequestOK, Column
<1>24. SeenOrOvertaken'
  <2>1. ASSUME NEW d \in Clients, req'[d] # Idle, req'[d].op \in AdminOps
        PROVE  \/ user'[req[d].key][Column(req[d].op)] = req[d].snap[Column(req[d].op)]
               \/ \E i \in DOMAIN audit' : Decides(d, audit[i])' /\ audit'[i].at > req[d].read
    <3>1. CASE req[d].key = p /\ Column(req[d].op) = col
      <4>1. Decides(d, audit[N])'
        BY <1>4, <1>10, <1>23, <2>1, <3>1 DEF Decides
      <4>2. audit'[N].at > req[d].read /\ N \in DOMAIN audit'
        BY <1>3, <1>4, <1>10, <1>23, <2>1
      <4> QED  BY <4>1, <4>2
    <3>2. CASE req[d].key # p \/ Column(req[d].op) # col
      <4>1. user'[req[d].key][Column(req[d].op)] = user[req[d].key][Column(req[d].op)]
        BY <1>7, <1>23, <2>1, <3>2
      <4>2. \A i \in 1 .. N - 1 : Decides(d, audit[i])' <=> Decides(d, audit[i])
        BY <1>11, <1>23, <2>1 DEF Decides
      <4> QED  BY <1>10, <1>11, <1>23, <2>1, <4>1, <4>2 DEF Trail, SeenOrOvertaken
    <3> QED  BY <3>1, <3>2
  <2> QED  BY <1>23, <2>1 DEF SeenOrOvertaken
<1>25. SeenIsLast'
  <2>1. ASSUME NEW d \in Clients, NEW i \in DOMAIN audit', Decides(d, audit[i])', IsLast(i)',
               IsClean(audit[i])', audit'[i].at <= req'[d].read
        PROVE  req'[d].snap[Column(req'[d].op)] = audit'[i].after
    <3>1. d # c /\ req'[d] = req[d] /\ req[d].read \in 0 .. Len(log)
      BY <1>23, <2>1 DEF Decides
    <3>2. i # N
      <4>1. audit'[N].at = Len(log) + 1
        BY <1>4, <1>10
      <4> QED  BY <1>3, <2>1, <3>1, <4>1
    <3>3. i \in 1 .. N - 1
      BY <1>12, <2>1, <3>2
    <3>4. Decides(d, audit[i]) /\ IsLast(i) /\ IsClean(audit[i]) /\ audit[i].at <= req[d].read
      BY <1>11, <1>16, <1>19, <2>1, <3>1, <3>3 DEF Decides
    <3> QED  BY <1>11, <3>1, <3>3, <3>4 DEF Trail, SeenIsLast
  <2> QED  BY <2>1 DEF SeenIsLast
<1>26. NextStartsThere'
  <2>1. ASSUME NEW i \in 1 .. N - 1, NEW n \in 1 .. N - 1, Follows(i, n)',
               IsClean(audit[i])', audit'[n].read >= audit'[i].at
        PROVE  audit'[n].before = audit'[i].after
    BY <1>11, <1>17, <1>19, <2>1 DEF Trail, NextStartsThere
  <2>2. ASSUME NEW i \in 1 .. N - 1, Follows(i, N)', IsClean(audit[i])',
               audit'[N].read >= audit'[i].at
        PROVE  audit'[N].before = audit'[i].after
    <3>1. IsLast(i) /\ SameColumn(audit[i], e) /\ IsClean(audit[i]) /\ i \in DOMAIN audit
      BY <1>11, <1>18, <1>19, <2>2
    <3>2. Decides(c, audit[i])
      BY <1>1, <1>4, <3>1 DEF Decides, SameColumn, p, col
    <3>3. audit[i].at <= f.read
      BY <1>3, <1>4, <1>10, <1>11, <2>2
    <3>4. s = audit[i].after
      BY <3>1, <3>2, <3>3 DEF Trail, SeenIsLast, s, col
    <3> QED  BY <1>4, <1>10, <1>11, <3>4
  <2>3. \A n \in DOMAIN audit' : ~Follows(N, n)'
    BY <1>15 DEF Follows
  <2> QED  BY <1>12, <2>1, <2>2, <2>3 DEF NextStartsThere
<1> QED  BY <1>20, <1>22, <1>24, <1>25, <1>26 DEF Trail

LEMMA TrailInvariant == Spec => []Trail
<1>1. Init => Trail
  <2>1. Init => audit = << >> /\ \A c \in Clients : req[c] = Idle
    BY DEF Init
  <2>2. DOMAIN << >> = {}
    OBVIOUS
  <2> QED
    BY <2>1, <2>2 DEF Trail, EntriesOK, LastIsShown, SeenOrOvertaken, SeenIsLast,
       NextStartsThere
<1>2. Tables /\ Trail /\ [Next]_vars => Trail'
  BY TrailKept, TrailGrows
<1> QED  BY <1>1, <1>2, TablesInvariant, PTL DEF Spec

\* Where changes of a column do not overlap, each entry of the audit trail
\* starts from where the one before ended and the last is what the row shows:
\* no request writes role or is_active without an entry.
THEOREM TrailTellsColumns == Spec => []AuditTellsColumn
<1>1. Tables /\ Trail => AuditTellsColumn
  <2> SUFFICES ASSUME Tables, Trail, NEW i \in DOMAIN audit, IsClean(audit[i])
               PROVE  LET later == {j \in DOMAIN audit : j > i /\ SameColumn(audit[i], audit[j])} IN
                      IF later = {} THEN user[audit[i].user][audit[i].column] = audit[i].after
                      ELSE LET n == CHOOSE j \in later : \A l \in later : j <= l IN
                           audit[n].read >= audit[i].at => audit[n].before = audit[i].after
    BY Zenon DEF AuditTellsColumn, IsClean, SameColumn
  <2> DEFINE later == {j \in DOMAIN audit : j > i /\ SameColumn(audit[i], audit[j])}
             n == CHOOSE j \in later : \A l \in later : j <= l
  <2>1. \A j : j \in later <=> Later(i, j)
    BY DEF Later
  <2>2. CASE later = {}
    <3>1. IsLast(i)
      BY <2>1, <2>2 DEF IsLast
    <3> QED  BY <2>2, <3>1 DEF Trail, LastIsShown
  <2>3. CASE later # {}
    <3>1. ~IsLast(i)
      BY <2>1, <2>3 DEF IsLast
    <3>2. PICK m \in DOMAIN audit : Follows(i, m)
      BY <3>1 DEF Trail, EntriesOK
    <3>3. m \in later /\ \A l \in later : m <= l
      BY <2>1, <3>2 DEF Follows, Later
    <3> HIDE DEF later
    <3>4. n \in later /\ \A l \in later : n <= l
      BY <3>3
    <3> HIDE DEF n
    <3>5. n \in DOMAIN audit /\ Follows(i, n)
      BY <2>1, <3>4 DEF Follows, Later
    <3>6. audit[n].read >= audit[i].at => audit[n].before = audit[i].after
      BY <3>5 DEF Trail, NextStartsThere
    <3> QED  BY <2>3, <3>6 DEF n, later
  <2> QED  BY <2>2, <2>3
<1> QED  BY <1>1, TablesInvariant, TrailInvariant, PTL
=============================================================================
