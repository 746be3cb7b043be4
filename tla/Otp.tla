-------------------------------- MODULE Otp --------------------------------
(***************************************************************************)
(* One-time passwords: a hash per phone in Redis with the code and the     *)
(* number of wrong attempts, which expires by itself, and a lock after too *)
(* many attempts.  Every Redis call is a step; none of them watches what   *)
(* other requests do to the record in between.                             *)
(***************************************************************************)
EXTENDS PortalTables

Issues == {"otp_request", "reset_request"}
Verifies == {"otp_verify", "reset_confirm"}

At(c, ops, step) == req[c] # Idle /\ req[c].op \in ops /\ req[c].step = step

\* password/reset answers an unknown phone alike, and does nothing more.
KnowsPhone(op, p) ==
  op \in {"reset_request", "reset_confirm"} => p \in Rows(user)

-----------------------------------------------------------------------------
(***************************************************************************)
(* request_otp: EXISTS lock, DEL, HSET, EXPIRE.  The SMS is best effort and *)
(* changes nothing.                                                        *)
(***************************************************************************)
RequestOtp_CheckLock(c) ==
  \E op \in Issues, p \in Phones :
    /\ Ready(c, op) /\ KnowsPhone(op, p)
    /\ p \notin lock
    /\ Reads(c, op, "clear", p, Null, Null)
    /\ UNCHANGED <<redis, tables, guesses, admitted, log, scene>>

RequestOtp_Clear(c) ==
  /\ At(c, Issues, "clear")
  /\ otp' = [otp EXCEPT ![req[c].key] = Null]
  /\ Continues(c, "store")
  /\ UNCHANGED <<lock, tables, guesses, admitted, scene>>

\* HSET into a record another request stored meanwhile keeps its expiry.
RequestOtp_Store(c) ==
  LET p == req[c].key IN
  /\ At(c, Issues, "store")
  /\ otp' = [otp EXCEPT ![p] = [code |-> req[c].id, attempts |-> 0,
                                ttl |-> otp[p] # Null /\ otp[p].ttl]]
  /\ Continues(c, "expire")
  /\ UNCHANGED <<lock, tables, guesses, admitted, scene>>

\* EXPIRE of a key that is gone does nothing.
RequestOtp_Expire(c) ==
  LET p == req[c].key IN
  /\ At(c, Issues, "expire")
  /\ otp' = [otp EXCEPT ![p] = IF @ = Null THEN Null ELSE [@ EXCEPT !.ttl = TRUE]]
  /\ Ends(c)
  /\ UNCHANGED <<lock, tables, guesses, admitted, scene>>

-----------------------------------------------------------------------------
(***************************************************************************)
(* verify_otp: HGETALL, then HINCRBY for a wrong code (and at the limit    *)
(* DEL and SETEX of the lock), or DEL for the right one.                   *)
(***************************************************************************)
Stored(p) == otp[p] # Null

VerifyOtp_Compare(c) ==
  \E op \in Verifies, p \in Phones, guess \in {"right", "wrong"} :
    /\ Ready(c, op) /\ KnowsPhone(op, p)
    /\ Stored(p)
    /\ guess = "right" => otp[p].code # Null
    /\ Reads(c, op, IF guess = "right" THEN "consume" ELSE "count", p, otp[p].code, Null)
    /\ UNCHANGED <<redis, tables, guesses, admitted, log, scene>>

Counted_Anew(r) == IF r = Null THEN [code |-> Null, attempts |-> 1, ttl |-> FALSE]
                   ELSE [r EXCEPT !.attempts = 1]

\* HINCRBY counts in whatever record is there; where there is none it makes
\* one, of nothing but the count, that never expires.
Counted(r) == IF r = Null THEN [code |-> Null, attempts |-> 1, ttl |-> FALSE]
              ELSE [r EXCEPT !.attempts = @ + 1]

VerifyOtp_Count(c) ==
  LET p == req[c].key IN
  /\ At(c, Verifies, "count")
  /\ otp' = [otp EXCEPT ![p] = Counted(@)]
  /\ guesses' = [k \in Ids |-> guesses[k] + IF k = req[c].args THEN 1 ELSE 0]
  /\ IF otp'[p].attempts >= MaxAttempts THEN Continues(c, "discard") ELSE Ends(c)
  /\ UNCHANGED <<lock, tables, admitted, scene>>

VerifyOtp_Discard_Not(c) ==
  /\ At(c, Verifies, "discard")
  /\ Continues(c, "lock")
  /\ UNCHANGED <<redis, tables, guesses, admitted, scene>>

VerifyOtp_Discard(c) ==
  /\ At(c, Verifies, "discard")
  /\ otp' = [otp EXCEPT ![req[c].key] = Null]
  /\ Continues(c, "lock")
  /\ UNCHANGED <<lock, tables, guesses, admitted, scene>>

VerifyOtp_Lock(c) ==
  /\ At(c, Verifies, "lock")
  /\ lock' = lock \cup {req[c].key}
  /\ Ends(c)
  /\ UNCHANGED <<otp, tables, guesses, admitted, scene>>

\* Who is let in, and the latest request that had arrived by then.
Admission(c) == [id |-> req[c].id, upto |-> arrived]

VerifyOtp_Consume_Keeps(c) ==
  /\ At(c, Verifies, "consume")
  /\ admitted' = [admitted EXCEPT ![req[c].args] = @ \cup {Admission(c)}]
  /\ Continues(c, "admit")
  /\ UNCHANGED <<redis, tables, guesses, scene>>

VerifyOtp_Consume(c) ==
  /\ At(c, Verifies, "consume")
  /\ otp' = [otp EXCEPT ![req[c].key] = Null]
  /\ admitted' = [admitted EXCEPT ![req[c].args] = @ \cup {Admission(c)}]
  /\ Continues(c, "admit")
  /\ UNCHANGED <<lock, tables, guesses, scene>>

-----------------------------------------------------------------------------
\* Redis: a key with an expiry ends, also while a request relies on it.
OtpExpires(p) ==
  /\ "expiry" \in scene
  /\ otp[p] # Null /\ otp[p].ttl
  /\ otp' = [otp EXCEPT ![p] = Null]
  /\ disturbed' = disturbed \cup {k \in {p} : InHand(k)}
  /\ UNCHANGED <<lock, tables, req, arrived, guesses, admitted, log, scene>>

LockExpires(p) ==
  /\ "expiry" \in scene
  /\ p \in lock
  /\ lock' = lock \ {p}
  /\ UNCHANGED <<otp, tables, req, ghosts>>

OtpNext(c) ==
  \/ RequestOtp_CheckLock(c) \/ RequestOtp_Clear(c)
  \/ RequestOtp_Store(c) \/ RequestOtp_Expire(c)
  \/ VerifyOtp_Compare(c) \/ VerifyOtp_Count(c)
  \/ VerifyOtp_Discard(c) \/ VerifyOtp_Lock(c) \/ VerifyOtp_Consume(c)
=============================================================================
