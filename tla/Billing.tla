------------------------------ MODULE Billing ------------------------------
(***************************************************************************)
(* Subscription payments: app/modules/billing and the provider adapters    *)
(* app/integrations/payme.py and click.py.  An owner checks a plan out,    *)
(* providers deliver the outcome (again when they got no answer, and from  *)
(* several connections), and a paid payment buys its centre the plan.      *)
(*                                                                         *)
(* Each handler slot is a webhook request on a worker process of its own:  *)
(* what two requests of ONE worker do to each other is in ServiceDesk.     *)
(* As there, reads see the last commit, an UPDATE waits for its row lock   *)
(* and the transaction is committed after the answer was sent.             *)
(*                                                                         *)
(* Read-only calls (CheckPerformTransaction, CheckTransaction, Prepare)    *)
(* and calls refused for their credentials, amount or unknown payment      *)
(* change nothing and are left out.                                        *)
(***************************************************************************)
EXTENDS Integers, FiniteSets

CONSTANTS
  Payments,   \* payment rows
  Centers,    \* service centres
  Plans,      \* subscription plans
  Refs,       \* the providers' transaction ids
  Handlers,   \* concurrent webhook requests
  Duration,   \* duration_days of each plan
  Faults,     \* what may fail: subset of {"database", "worker", "owner"}
  MaxCalls,   \* bound: requests per handler slot
  MaxTime,    \* bound: the clock
  Null        \* SQL NULL, "no row", "nobody"

ASSUME BillingAssumption ==
  /\ Duration \in [Plans -> Nat]
  /\ MaxCalls \in Nat
  /\ MaxTime \in Nat
  /\ Null \notin Nat
  /\ Null \notin Refs
  /\ Null \notin Plans
  /\ Null \notin Handlers

VARIABLES
  payment,   \* committed payments row, Null before checkout
  center,    \* committed subscription of each centre, Null once removed
  notices,   \* committed "billing.paid" inbox rows of each payment
  rowlock,   \* holder of each payment's row lock
  centerlock,\* holder of each centre's row lock
  call,      \* per handler: the request it serves
  calls,     \* per handler: requests served so far
  now,       \* the clock
  told,      \* answers the providers were given
  lost       \* payments whose transaction failed after the answer

vars == <<payment, center, notices, rowlock, centerlock, call, calls, now,
          told, lost>>

Time == 0 .. MaxTime

Row == [center : Centers, plan : Plans, status : {"pending", "paid", "failed"},
        ref : Refs \cup {Null}, paid_at : Time \cup {Null}]

Subscription == [plan : Plans \cup {Null}, until : Nat \cup {Null}]

ASSUME BillingRows == Null \notin Row /\ Null \notin Subscription

Outcomes == {"created", "paid", "failed"}

Stages == {"idle",
           "attaching",   \* CreateTransaction: about to store the reference
           "extending",   \* apply_webhook: about to UPDATE the centre
           "writing",     \* apply_webhook: about to flush the payment
           "answering",   \* handler done, answer not sent
           "failing",     \* handler raised, rollback not run
           "closing"}     \* answer sent, commit started in a pool thread

\* The payment and reference delivered, the outcome, the row that was read
\* and when, the uncommitted payment row and subscription.
Call == [stage : Stages, pay : Payments \cup {Null}, ref : Refs \cup {Null},
         outcome : Outcomes \cup {Null}, snap : Row \cup {Null},
         at : Time \cup {Null}, row : Row \cup {Null},
         sub : Subscription \cup {Null}]

Idle == [stage |-> "idle", pay |-> Null, ref |-> Null, outcome |-> Null,
         snap |-> Null, at |-> Null, row |-> Null, sub |-> Null]

Failing == [Idle EXCEPT !.stage = "failing"]

Init ==
  /\ payment = [p \in Payments |-> Null]
  /\ center = [c \in Centers |-> [plan |-> Null, until |-> Null]]
  /\ notices = [p \in Payments |-> 0]
  /\ rowlock = [p \in Payments |-> Null]
  /\ centerlock = [c \in Centers |-> Null]
  /\ call = [h \in Handlers |-> Idle]
  /\ calls = [h \in Handlers |-> 0]
  /\ now = 0
  /\ told = {}
  /\ lost = {}

-----------------------------------------------------------------------------
(***************************************************************************)
(* Checkout and the centre's owner.                                        *)
(***************************************************************************)
\* checkout_subscription: one INSERT of a new row, which nothing can race.
Checkout(p, c, plan) ==
  /\ payment[p] = Null
  /\ center[c] # Null
  /\ payment' = [payment EXCEPT ![p] =
       [center |-> c, plan |-> plan, status |-> "pending",
        ref |-> Null, paid_at |-> Null]]
  /\ UNCHANGED <<center, notices, rowlock, centerlock, call, calls, now,
                 told, lost>>

\* The owner deletes the centre; payments.target_id is no foreign key.
RemoveCenter(c) ==
  /\ "owner" \in Faults
  /\ center[c] # Null /\ centerlock[c] = Null
  /\ center' = [center EXCEPT ![c] = Null]
  /\ UNCHANGED <<payment, notices, rowlock, centerlock, call, calls, now,
                 told, lost>>

-----------------------------------------------------------------------------
(***************************************************************************)
(* What the handlers decide on the row they read.                          *)
(***************************************************************************)
Ready(h) == call[h].stage = "idle" /\ calls[h] < MaxCalls

Accept(h, next) ==
  /\ calls' = [calls EXCEPT ![h] = @ + 1]
  /\ call' = [call EXCEPT ![h] = next]
  /\ UNCHANGED <<payment, center, notices, rowlock, centerlock, now,
                 told, lost>>

\* apply_webhook returns at once: the payment is final for this outcome.
Settled_FailedOnly(row, outcome) ==
  row.status = "failed" /\ outcome = "failed"

Settled_Attached(row, outcome) ==
  \/ row.status = "paid"
  \/ row.status = "failed" /\ outcome = "failed"
  \/ row.status = "pending" /\ row.ref # Null

Settled(row, outcome) ==
  \/ row.status = "paid"
  \/ row.status = "failed" /\ outcome = "failed"

Mismatch_Never(row, ref) == FALSE

Mismatch(row, ref) == row.ref # Null /\ row.ref # ref

\* CreateTransaction: attach the reference unless one is attached.
CreateTransaction(h, p, ref) ==
  LET row == payment[p]
      next(stage) == [Idle EXCEPT !.stage = stage, !.pay = p, !.ref = ref,
                                  !.outcome = "created", !.snap = row,
                                  !.at = now]
  IN /\ Ready(h) /\ row # Null
     /\ ~Mismatch(row, ref)   \* else an error envelope, nothing changes
     /\ Accept(h, next(IF row.ref = Null THEN "attaching" ELSE "answering"))

\* apply_webhook down to its first write.
ApplyWebhook(h, p, ref, outcome) ==
  LET row == payment[p]
      next(stage) == [Idle EXCEPT !.stage = stage, !.pay = p, !.ref = ref,
                                  !.outcome = outcome, !.snap = row,
                                  !.at = now]
  IN /\ Ready(h) /\ row # Null
     /\ \/ Settled(row, outcome) /\ Accept(h, next("answering"))
        \/ /\ ~Settled(row, outcome)
           /\ Mismatch(row, ref)
           /\ Accept(h, Failing)
        \/ /\ ~Settled(row, outcome)
           /\ ~Mismatch(row, ref)
           /\ Accept(h, next(IF outcome = "paid" /\ center[row.center] # Null
                             THEN "extending" ELSE "writing"))

\* Payme finds the payment by the reference it attached ...
PerformTransaction(h, ref) ==
  \E p \in Payments :
    /\ payment[p] # Null /\ payment[p].ref = ref
    /\ ApplyWebhook(h, p, ref, "paid")

CancelTransaction(h, ref) ==
  \E p \in Payments :
    /\ payment[p] # Null /\ payment[p].ref = ref
    /\ ApplyWebhook(h, p, ref, "failed")

\* ... Click (and the manual webhook) by its id, with a reference of its own.
Complete(h, p, ref, outcome) == ApplyWebhook(h, p, ref, outcome)

-----------------------------------------------------------------------------
(***************************************************************************)
(* The writes of a transaction, in the order of the flushes: the centre's  *)
(* row first, then the payment's.                                          *)
(***************************************************************************)
\* The UPDATE of the centre waits for the centre's row lock.
MayExtend(h) ==
  call[h].stage = "extending" /\ centerlock[call[h].snap.center] = Null

\* centers_repo.update_fields: plan and end of the subscription, counted
\* from the clock.
ExtendCenter(h) ==
  LET f == call[h]
      c == f.snap.center
  IN /\ MayExtend(h)
     /\ \/ /\ center[c] = Null     \* removed since: the UPDATE finds no row
           /\ call' = [call EXCEPT ![h].stage = "writing"]
           /\ UNCHANGED centerlock
        \/ /\ center[c] # Null
           /\ call' = [call EXCEPT
                ![h].stage = "writing",
                ![h].sub = [plan |-> f.snap.plan,
                            until |-> f.at + Duration[f.snap.plan]]]
           /\ centerlock' = [centerlock EXCEPT ![c] = h]
     /\ UNCHANGED <<payment, center, notices, rowlock, calls, now,
                    told, lost>>

\* external_ref is unique.  The reference is another payment's ...
Taken(p, ref) ==
  \E q \in Payments \ {p} : payment[q] # Null /\ payment[q].ref = ref

\* ... or may become that when a transaction in flight commits: wait for it.
Contended(p, ref) ==
  \E g \in Handlers :
    /\ call[g].row # Null /\ call[g].pay # p
    /\ call[g].row.ref = ref
    /\ payment[call[g].pay].ref # ref

\* The flush of the payment waits for its row lock and, when it brings a
\* reference that is nobody's yet, for whoever is about to take it.
MayWrite(h) ==
  LET f == call[h] IN
  /\ f.stage \in {"attaching", "writing"}
  /\ rowlock[f.pay] = Null
  /\ f.snap.ref # f.ref /\ Contended(f.pay, f.ref) => Taken(f.pay, f.ref)

\* The UPDATE names the columns the handler changed on the row it READ; the
\* others are whatever the row holds when its lock is granted.
Flushed_FirstStamp(cur, f) ==
  [cur EXCEPT
     !.status = IF f.outcome = "created" THEN @ ELSE f.outcome,
     !.ref = IF f.snap.ref # f.ref THEN f.ref ELSE @,
     !.paid_at = IF f.outcome = "paid" /\ @ = Null THEN f.at ELSE @]

Flushed_StampsAll(cur, f) ==
  [cur EXCEPT
     !.status = IF f.outcome = "created" THEN @ ELSE f.outcome,
     !.ref = IF f.snap.ref # f.ref THEN f.ref ELSE @,
     !.paid_at = IF f.outcome # "created" THEN f.at ELSE @]

Flushed_Created(cur, f) ==
  [cur EXCEPT
     !.status = f.outcome,
     !.ref = IF f.snap.ref # f.ref THEN f.ref ELSE @,
     !.paid_at = IF f.outcome = "paid" THEN f.at ELSE @]

Flushed(cur, f) ==
  [cur EXCEPT
     !.status = IF f.outcome = "created" THEN @ ELSE f.outcome,
     !.ref = IF f.snap.ref # f.ref THEN f.ref ELSE @,
     !.paid_at = IF f.outcome = "paid" THEN f.at ELSE @]

WritePayment(h) ==
  LET f == call[h]
      p == f.pay
  IN /\ MayWrite(h)
     /\ ~(f.snap.ref # f.ref /\ Taken(p, f.ref))
     /\ rowlock' = [rowlock EXCEPT ![p] = h]
     /\ call' = [call EXCEPT ![h].stage = "answering",
                             ![h].row = Flushed(payment[p], f)]
     /\ UNCHANGED <<payment, center, notices, centerlock, calls, now,
                    told, lost>>

\* The flush violates the unique constraint: 500.
ViolatesUnique(h) ==
  LET f == call[h] IN
  /\ MayWrite(h)
  /\ f.snap.ref # f.ref /\ Taken(f.pay, f.ref)
  /\ call' = [call EXCEPT ![h] = Failing]
  /\ UNCHANGED <<payment, center, notices, rowlock, centerlock, calls, now,
                 told, lost>>

Answer(h) ==
  LET f == call[h] IN
  /\ f.stage = "answering"
  /\ told' = told \cup {<<f.outcome, f.pay>>}
  /\ call' = [call EXCEPT ![h].stage = "closing"]
  /\ UNCHANGED <<payment, center, notices, rowlock, centerlock, calls, now,
                 lost>>

-----------------------------------------------------------------------------
(***************************************************************************)
(* The end of a request, failures and the clock.                           *)
(***************************************************************************)
ReleaseRows_Kept(h) == UNCHANGED rowlock

ReleaseRows(h) ==
  rowlock' = [p \in Payments |-> IF rowlock[p] = h THEN Null ELSE rowlock[p]]

ReleaseCenters(h) ==
  centerlock' = [c \in Centers |->
                   IF centerlock[c] = h THEN Null ELSE centerlock[c]]

Commit(h) ==
  LET f == call[h] IN
  /\ f.stage = "closing"
  /\ payment' = IF f.row = Null THEN payment
                ELSE [payment EXCEPT ![f.pay] = f.row]
  /\ center' = IF f.sub = Null THEN center
               ELSE [center EXCEPT ![f.snap.center] = f.sub]
  /\ notices' = IF f.row # Null /\ f.outcome = "paid"
                THEN [notices EXCEPT ![f.pay] = @ + 1] ELSE notices
  /\ ReleaseRows(h) /\ ReleaseCenters(h)
  /\ call' = [call EXCEPT ![h] = Idle]
  /\ UNCHANGED <<calls, now, told, lost>>

Rollback(h) ==
  /\ call[h].stage = "failing"
  /\ ReleaseRows(h) /\ ReleaseCenters(h)
  /\ call' = [call EXCEPT ![h] = Idle]
  /\ UNCHANGED <<payment, center, notices, calls, now, told, lost>>

\* A transaction that fails once its answer is out.
Lost(h) ==
  lost' = IF call[h].stage = "closing" /\ call[h].row # Null
          THEN lost \cup {call[h].pay} ELSE lost

\* The connection breaks under a statement or the commit.
DatabaseFails(h) ==
  /\ "database" \in Faults
  /\ call[h].stage \notin {"idle", "failing"}
  /\ Lost(h)
  /\ ReleaseRows(h) /\ ReleaseCenters(h)
  /\ call' = [call EXCEPT ![h] = Failing]
  /\ UNCHANGED <<payment, center, notices, calls, now, told>>

\* The worker process dies: nothing runs the rollback, the server does.
WorkerDies(h) ==
  /\ "worker" \in Faults
  /\ call[h].stage # "idle"
  /\ Lost(h)
  /\ ReleaseRows(h) /\ ReleaseCenters(h)
  /\ call' = [call EXCEPT ![h] = Idle]
  /\ UNCHANGED <<payment, center, notices, calls, now, told>>

Tick ==
  /\ now < MaxTime
  /\ now' = now + 1
  /\ UNCHANGED <<payment, center, notices, rowlock, centerlock, call, calls,
                 told, lost>>

\* A provider calls; it may repeat any call it ever made.
Arrive(h) ==
  \E ref \in Refs :
    \/ \E p \in Payments : CreateTransaction(h, p, ref)
    \/ PerformTransaction(h, ref)
    \/ CancelTransaction(h, ref)
    \/ \E p \in Payments, outcome \in {"paid", "failed"} :
         Complete(h, p, ref, outcome)

\* The program's own steps for a call it has accepted.
Proceed(h) ==
  \/ ExtendCenter(h) \/ WritePayment(h) \/ ViolatesUnique(h)
  \/ Answer(h) \/ Commit(h) \/ Rollback(h)

Next ==
  \/ \E p \in Payments, c \in Centers, plan \in Plans : Checkout(p, c, plan)
  \/ \E c \in Centers : RemoveCenter(c)
  \/ \E h \in Handlers : Arrive(h) \/ Proceed(h)
  \/ \E h \in Handlers : DatabaseFails(h) \/ WorkerDies(h)
  \/ Tick

Spec == Init /\ [][Next]_vars

-----------------------------------------------------------------------------
\* Every variable holds values of its kind.
TypeOK ==
  /\ payment \in [Payments -> Row \cup {Null}]
  /\ center \in [Centers -> Subscription \cup {Null}]
  /\ notices \in [Payments -> Nat]
  /\ rowlock \in [Payments -> Handlers \cup {Null}]
  /\ centerlock \in [Centers -> Handlers \cup {Null}]
  /\ call \in [Handlers -> Call]
  /\ calls \in [Handlers -> 0 .. MaxCalls]
  /\ now \in Time
  /\ told \subseteq Outcomes \X Payments
  /\ lost \subseteq Payments

(***************************************************************************)
(* What holds however deliveries overlap, repeat and fail.                 *)
(***************************************************************************)
\* A centre's subscription is always one that a recorded payment bought: its
\* plan, and its duration from the moment that payment was marked paid.  The
\* two rows are written under two locks in one transaction.
Buys(p, c) ==
  /\ payment[p] # Null
  /\ payment[p].center = c
  /\ payment[p].paid_at # Null
  /\ center[c] = [plan |-> payment[p].plan,
                  until |-> payment[p].paid_at + Duration[payment[p].plan]]

SubscriptionBacked ==
  \A c \in Centers :
    center[c] # Null /\ center[c].until # Null =>
      \E p \in Payments : Buys(p, c)

\* The payer has a notice exactly when the payment was ever recorded paid.
PaidIsNoticed ==
  \A p \in Payments :
    payment[p] # Null => (payment[p].paid_at # Null <=> notices[p] > 0)

\* A payment that a provider was told is paid is recorded, or its commit is
\* running, or a transaction of it failed after the answer was out: there is
\* no other way to lose one.
AnsweredPaidIsRecorded ==
  \A p \in Payments : <<"paid", p>> \in told =>
    \/ payment[p].paid_at # Null
    \/ p \in lost
    \/ \E h \in Handlers : call[h].stage = "closing" /\ call[h].pay = p

\* Nobody waits for a row lock or a unique reference for ever: while a call
\* is in flight, one of them can go on (the guards of Proceed's actions; a
\* handler that is done, or raised, waits for nobody).  The centre is locked
\* before the payment and the payment before its reference.
CanProceed(h) ==
  \/ MayExtend(h) \/ MayWrite(h)
  \/ call[h].stage \in {"answering", "closing", "failing"}

SomeoneProceeds ==
  (\E h \in Handlers : call[h].stage # "idle") =>
    \E h \in Handlers : CanProceed(h)

\* A paid payment is final to every call that reads it paid, however often
\* its outcome is delivered again, cancelled or failed: only a call that read
\* it before it was paid can rewrite the row or write another notice.
PaidYieldsToStaleRead ==
  [][\A p \in Payments :
       /\ payment[p] # Null /\ payment[p].status = "paid"
       /\ <<payment'[p], notices'[p]>> # <<payment[p], notices[p]>>
       => \E h \in Handlers : /\ call[h].pay = p /\ call[h].stage = "closing"
                             /\ call[h].snap.status # "paid"]_vars

\* A transaction of the provider stays attached to the payment it created or
\* finalised, unless a call replaces it that read the payment without one.
RefYieldsToStaleRead ==
  [][\A p \in Payments :
       /\ payment[p] # Null /\ payment[p].ref # Null
       /\ payment'[p].ref # payment[p].ref
       => \E h \in Handlers : /\ call[h].pay = p /\ call[h].stage = "closing"
                             /\ call[h].snap.ref = Null]_vars

(***************************************************************************)
(* What the code's comments claim and the code does not do.                *)
(***************************************************************************)
\* "Webhook handling is idempotent": one notice a payment at most.
NotifiedOnce == \A p \in Payments : notices[p] <= 1

\* "CancelTransaction - refund / cancel": what a provider is answered is the
\* status of the payment as the answering transaction sees it.
AnswerIsStatus ==
  \A h \in Handlers :
    call[h].stage = "closing" /\ call[h].outcome \in {"paid", "failed"} =>
      LET seen == IF call[h].row # Null THEN call[h].row ELSE call[h].snap
      IN seen.status = call[h].outcome
=============================================================================
