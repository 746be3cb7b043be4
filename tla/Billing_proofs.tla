--------------------------- MODULE Billing_proofs ---------------------------
(***************************************************************************)
(* Proofs about Billing for any number of payments, centres, plans,        *)
(* references, overlapping calls and clock values, with every fault        *)
(* allowed.                                                                *)
(*                                                                         *)
(* The argument.  A call that has flushed a row holds its lock, so what    *)
(* it will commit is the committed row with its own columns changed; the   *)
(* same for the centre.  A payment keeps its centre and plan, and its      *)
(* reference and its stamp once it has them, so what a call read stays     *)
(* true of the row in these respects.  And a call that pays without        *)
(* extending a subscription has seen the centre gone, for good.            *)
(***************************************************************************)
EXTENDS Billing, TLAPS

Active == Stages \ {"idle", "failing"}

\* A paid row has the reference and the time of its payment.
Stamped(row) == row.status = "paid" => row.ref # Null /\ row.paid_at # Null

\* cur is what became of old: the same purchase, nothing taken back.
Since(old, cur) ==
  /\ cur.center = old.center /\ cur.plan = old.plan
  /\ old.ref # Null => cur.ref # Null
  /\ old.paid_at # Null => cur.paid_at # Null

\* The call has rows to write, or has written them.
Writes(f) == f.stage \in {"attaching", "extending", "writing"} \/ f.row # Null

\* What a call is at each stage, whatever the tables hold.
PathOK(f) ==
  /\ f.stage \in Active =>
       /\ f.pay \in Payments /\ f.ref \in Refs /\ f.outcome \in Outcomes
       /\ f.snap \in Row /\ f.at \in Time
       /\ Stamped(f.snap)
  /\ f.stage \notin {"answering", "closing"} => f.row = Null
  /\ f.stage \notin {"writing", "answering", "closing"} => f.sub = Null
  /\ f.stage = "attaching" => f.outcome = "created"
  /\ f.stage = "extending" => f.outcome = "paid"
  /\ f.stage = "writing" => f.outcome # "created"
  /\ Writes(f) =>
       /\ f.snap.ref \in {Null, f.ref}
       /\ IF f.outcome = "created" THEN f.snap.ref = Null
                                   ELSE f.snap.status # "paid"
  /\ ~Writes(f) =>
       /\ f.sub = Null
       /\ f.stage \in Active /\ f.outcome = "paid" => f.snap.paid_at # Null

\* What it read is still true of its payment.
Current(h) ==
  call[h].stage \in Active =>
    /\ payment[call[h].pay] # Null
    /\ Since(call[h].snap, payment[call[h].pay])

\* What it has flushed is the committed row with its changes, under its lock.
HoldsRow(h) ==
  call[h].row # Null =>
    /\ rowlock[call[h].pay] = h
    /\ call[h].row = Flushed(payment[call[h].pay], call[h])

Bought(f) == [plan |-> f.snap.plan, until |-> f.at + Duration[f.snap.plan]]

HoldsCenter(h) ==
  /\ call[h].sub # Null =>
       /\ call[h].outcome = "paid"
       /\ centerlock[call[h].snap.center] = h
       /\ center[call[h].snap.center] # Null
       /\ call[h].sub = Bought(call[h])
  /\ /\ call[h].outcome = "paid" /\ call[h].sub = Null
     /\ call[h].stage = "writing" \/ call[h].row # Null
     => center[call[h].snap.center] = Null

CallsOK ==
  \A h \in Handlers : PathOK(call[h]) /\ Current(h) /\ HoldsRow(h) /\ HoldsCenter(h)

PaymentsOK ==
  \A p \in Payments : IF payment[p] = Null THEN notices[p] = 0 ELSE Stamped(payment[p])

\* Whoever was told "paid" told of a call that pays, or has paid, the row.
ToldOK ==
  \A p \in Payments : <<"paid", p>> \in told =>
    /\ payment[p] # Null
    /\ \/ payment[p].paid_at # Null
       \/ p \in lost
       \/ \E h \in Handlers :
            call[h].stage = "closing" /\ call[h].pay = p /\ call[h].outcome = "paid"

Ledger == TypeOK /\ CallsOK /\ PaymentsOK

-----------------------------------------------------------------------------
(***************************************************************************)
(* Lemmas about rows and calls.                                            *)
(***************************************************************************)
LEMMA Nulls == /\ Null \notin Row /\ Null \notin Subscription /\ Null \notin Refs
               /\ Null \notin Handlers /\ Null \notin Plans /\ Null \notin Time
  BY BillingAssumption, BillingRows DEF Time

\* The row that a flush leaves: the same purchase, stamped if it is paid.
LEMMA FlushedRow ==
  ASSUME NEW cur \in Row, NEW f \in Call, PathOK(f), Writes(f),
         f.stage \in Active, Since(f.snap, cur), Stamped(cur)
  PROVE  /\ Flushed(cur, f) \in Row
         /\ Since(cur, Flushed(cur, f))
         /\ Stamped(Flushed(cur, f))
         /\ Flushed(cur, f).paid_at = IF f.outcome = "paid" THEN f.at ELSE cur.paid_at
         /\ Flushed(cur, f).ref = IF f.snap.ref # f.ref THEN f.ref ELSE cur.ref
<1> DEFINE st == IF f.outcome = "created" THEN cur.status ELSE f.outcome
           rf == IF f.snap.ref # f.ref THEN f.ref ELSE cur.ref
           pa == IF f.outcome = "paid" THEN f.at ELSE cur.paid_at
           r == [cur EXCEPT !.status = st, !.ref = rf, !.paid_at = pa]
<1>1. /\ f.ref \in Refs /\ f.outcome \in Outcomes /\ f.snap \in Row /\ f.at \in Time
  BY DEF PathOK
<1>2. /\ cur.status \in {"pending", "paid", "failed"} /\ cur.ref \in Refs \cup {Null}
      /\ cur.paid_at \in Time \cup {Null}
  BY DEF Row
<1>3. st \in {"pending", "paid", "failed"}
  BY <1>1, <1>2 DEF Outcomes
<1>4. rf \in Refs \cup {Null} /\ pa \in Time \cup {Null}
  BY <1>1, <1>2
<1>5. cur.ref # Null => rf # Null
  BY <1>1, Nulls
<1>6. cur.paid_at # Null => pa # Null
  BY <1>1, Nulls
<1>7. st = "paid" => rf # Null /\ pa # Null
  <2>1. CASE f.outcome = "created"
    <3>1. f.snap.ref = Null
      BY <2>1 DEF PathOK
    <3>2. QED  BY <2>1, <3>1, <1>1, <1>6, Nulls DEF Stamped
  <2>2. CASE f.outcome = "paid"
    <3>1. f.snap.ref = f.ref => cur.ref # Null
      BY <1>1, Nulls DEF Since
    <3>2. QED  BY <2>2, <3>1, <1>1, Nulls
  <2>3. CASE f.outcome = "failed"
    BY <2>3
  <2>4. QED  BY <2>1, <2>2, <2>3, <1>1 DEF Outcomes
<1>8. Flushed(cur, f) = r
  BY DEF Flushed
<1> HIDE DEF st, rf, pa
<1>9. /\ r \in Row /\ r.center = cur.center /\ r.plan = cur.plan
      /\ r.status = st /\ r.ref = rf /\ r.paid_at = pa
  BY <1>3, <1>4 DEF Row
<1>10. /\ pa = IF f.outcome = "paid" THEN f.at ELSE cur.paid_at
       /\ rf = IF f.snap.ref # f.ref THEN f.ref ELSE cur.ref
  BY DEF pa, rf
<1> HIDE DEF r
<1>11. QED  BY <1>5, <1>6, <1>7, <1>8, <1>9, <1>10 DEF Since, Stamped

\* A call stays a call when its stage changes, and the rows it holds.
LEMMA StageType ==
  ASSUME NEW f \in Call, NEW st \in Stages
  PROVE  [f EXCEPT !.stage = st] \in Call
  BY DEF Call

LEMMA IdleType == Idle \in Call /\ Failing \in Call
  BY DEF Idle, Failing, Call, Stages

LEMMA IdlePath == PathOK(Idle) /\ PathOK(Failing)
  BY DEF Idle, Failing, PathOK, Writes, Active

\* What a call is when its handler reaches the first write, or answers.
Arrived(f) ==
  /\ f \in Call /\ PathOK(f)
  /\ f.stage \in {"attaching", "extending", "writing", "answering"}
  /\ f.row = Null /\ f.sub = Null
  /\ payment[f.pay] = f.snap
  /\ f.outcome = "paid" /\ f.stage = "writing" => center[f.snap.center] = Null

LEMMA CreateArrives ==
  ASSUME TypeOK, PaymentsOK, NEW h \in Handlers, NEW p \in Payments,
         NEW ref \in Refs, CreateTransaction(h, p, ref)
  PROVE  Ready(h) /\ \E f : Accept(h, f) /\ Arrived(f)
<1> DEFINE st == IF payment[p].ref = Null THEN "attaching" ELSE "answering"
           f == [Idle EXCEPT !.stage = st, !.pay = p, !.ref = ref,
                             !.outcome = "created", !.snap = payment[p], !.at = now]
<1>1. Ready(h) /\ Accept(h, f) /\ payment[p] # Null
  BY DEF CreateTransaction
<1>2. payment[p] \in Row /\ now \in Time /\ Stamped(payment[p])
  BY <1>1 DEF TypeOK, PaymentsOK
<1>3. st \in {"attaching", "answering"} /\ (st = "attaching" => payment[p].ref = Null)
  OBVIOUS
<1> HIDE DEF st
<1>4. /\ f \in Call /\ f.stage = st /\ f.pay = p /\ f.ref = ref
      /\ f.outcome = "created" /\ f.snap = payment[p] /\ f.at = now
      /\ f.row = Null /\ f.sub = Null
  BY <1>2, <1>3 DEF Call, Idle, Stages, Outcomes
<1> HIDE DEF f
<1>5. Arrived(f)
  BY <1>2, <1>3, <1>4 DEF Arrived, PathOK, Writes, Active, Stages, Outcomes
<1>6. QED  BY <1>1, <1>5

LEMMA WebhookArrives ==
  ASSUME TypeOK, PaymentsOK, NEW h \in Handlers, NEW p \in Payments,
         NEW ref \in Refs, NEW o \in {"paid", "failed"}, ApplyWebhook(h, p, ref, o)
  PROVE  Ready(h) /\ \E f : Accept(h, f) /\ (f = Failing \/ Arrived(f))
<1> DEFINE f(st) == [Idle EXCEPT !.stage = st, !.pay = p, !.ref = ref,
                                 !.outcome = o, !.snap = payment[p], !.at = now]
           st == IF o = "paid" /\ center[payment[p].center] # Null
                 THEN "extending" ELSE "writing"
<1>1. Ready(h) /\ payment[p] # Null
  BY DEF ApplyWebhook
<1>2. payment[p] \in Row /\ now \in Time /\ Stamped(payment[p])
  BY <1>1 DEF TypeOK, PaymentsOK
<1>3. ASSUME NEW s \in {"extending", "writing", "answering"}
      PROVE  /\ f(s) \in Call /\ f(s).stage = s /\ f(s).pay = p /\ f(s).ref = ref
             /\ f(s).outcome = o /\ f(s).snap = payment[p] /\ f(s).at = now
             /\ f(s).row = Null /\ f(s).sub = Null
  BY <1>2 DEF Call, Idle, Stages, Outcomes
<1>4. CASE Settled(payment[p], o) /\ Accept(h, f("answering"))
  <2>1. o = "paid" => payment[p].paid_at # Null
    BY <1>2, <1>4 DEF Settled, Stamped
  <2> HIDE DEF f
  <2>2. Arrived(f("answering"))
    BY <1>2, <1>3, <2>1 DEF Arrived, PathOK, Writes, Active, Stages, Outcomes
  <2>3. QED  BY <1>1, <1>4, <2>2
<1>5. CASE Accept(h, Failing)
  BY <1>1, <1>5
<1>6. CASE /\ ~Settled(payment[p], o) /\ ~Mismatch(payment[p], ref)
           /\ Accept(h, f(st))
  <2>1. payment[p].status # "paid" /\ payment[p].ref \in {Null, ref}
    BY <1>6 DEF Settled, Mismatch
  <2>2. /\ st \in {"extending", "writing"} /\ (st = "extending" => o = "paid")
        /\ (st = "writing" /\ o = "paid" => center[payment[p].center] = Null)
    OBVIOUS
  <2> HIDE DEF f, st
  <2>3. Arrived(f(st))
    BY <1>2, <1>3, <2>1, <2>2 DEF Arrived, PathOK, Writes, Active, Stages, Outcomes
  <2>4. QED  BY <1>1, <1>6, <2>3
<1>7. QED
  BY <1>4, <1>5, <1>6 DEF ApplyWebhook

\* However a request arrives, it is refused or it has only read.
LEMMA ArrivalCases ==
  ASSUME TypeOK, PaymentsOK, NEW h \in Handlers, Arrive(h)
  PROVE  Ready(h) /\ \E f : Accept(h, f) /\ (f = Failing \/ Arrived(f))
<1>1. PICK ref \in Refs : \/ (\E p \in Payments : CreateTransaction(h, p, ref))
                           \/ PerformTransaction(h, ref)
                           \/ CancelTransaction(h, ref)
                           \/ \E p \in Payments, o \in {"paid", "failed"} :
                                Complete(h, p, ref, o)
  BY DEF Arrive
<1>2. CASE \E p \in Payments : CreateTransaction(h, p, ref)
  BY <1>2, CreateArrives
<1>3. CASE \E p \in Payments, o \in {"paid", "failed"} : ApplyWebhook(h, p, ref, o)
  BY <1>3, WebhookArrives
<1>4. QED
  BY <1>1, <1>2, <1>3 DEF PerformTransaction, CancelTransaction, Complete

-----------------------------------------------------------------------------
(***************************************************************************)
(* The steps of a call.                                                    *)
(***************************************************************************)
\* Only Checkout, RemoveCenter and Commit change the committed rows; a step
\* of one call leaves the others.
Steps(h) ==
  \/ Arrive(h) \/ ExtendCenter(h) \/ WritePayment(h) \/ ViolatesUnique(h)
  \/ Answer(h) \/ Rollback(h) \/ DatabaseFails(h) \/ WorkerDies(h)

LEMMA StepsWriteNothing ==
  ASSUME TypeOK, PaymentsOK, NEW h \in Handlers, Steps(h)
  PROVE  /\ UNCHANGED <<payment, center, notices, now>>
         /\ \A g \in Handlers \ {h} : call'[g] = call[g]
<1>1. CASE Arrive(h)
  BY <1>1, ArrivalCases DEF Accept, TypeOK
<1>2. CASE ExtendCenter(h)
  BY <1>2 DEF ExtendCenter, TypeOK
<1>3. CASE WritePayment(h)
  BY <1>3 DEF WritePayment, TypeOK
<1>4. CASE ViolatesUnique(h)
  BY <1>4 DEF ViolatesUnique, TypeOK
<1>5. CASE Answer(h)
  BY <1>5 DEF Answer, TypeOK
<1>6. CASE Rollback(h)
  BY <1>6 DEF Rollback, TypeOK
<1>7. CASE DatabaseFails(h)
  BY <1>7 DEF DatabaseFails, TypeOK
<1>8. CASE WorkerDies(h)
  BY <1>8 DEF WorkerDies, TypeOK
<1>9. QED
  BY <1>1, <1>2, <1>3, <1>4, <1>5, <1>6, <1>7, <1>8 DEF Steps

LEMMA NextCases ==
  ASSUME [Next]_vars
  PROVE  \/ \E p \in Payments, c \in Centers, plan \in Plans : Checkout(p, c, plan)
         \/ \E c \in Centers : RemoveCenter(c)
         \/ \E h \in Handlers : Steps(h) \/ Commit(h)
         \/ Tick
         \/ UNCHANGED vars
  BY DEF Next, Proceed, Steps

\* What a call that writes or has written knows.
LEMMA CallFacts ==
  ASSUME TypeOK, CallsOK, NEW h \in Handlers, call[h].stage \in Active
  PROVE  /\ call[h] \in Call /\ call[h].pay \in Payments /\ call[h].ref \in Refs
         /\ call[h].outcome \in Outcomes /\ call[h].snap \in Row
         /\ call[h].snap.center \in Centers /\ call[h].snap.plan \in Plans
         /\ call[h].at \in Time
         /\ payment[call[h].pay] \in Row
         /\ Since(call[h].snap, payment[call[h].pay])
<1>1. PathOK(call[h]) /\ Current(h) /\ call[h] \in Call
  BY DEF CallsOK, TypeOK
<1>2. call[h].pay \in Payments /\ call[h].snap \in Row
  BY <1>1 DEF PathOK
<1>3. payment[call[h].pay] \in Row
  BY <1>1, <1>2 DEF Current, TypeOK
<1>4. QED  BY <1>1, <1>2, <1>3 DEF PathOK, Current, Row

LEMMA HeldIsActive ==
  ASSUME CallsOK, NEW h \in Handlers
  PROVE  /\ call[h].row # Null => call[h].stage \in {"answering", "closing"}
         /\ call[h].sub # Null => call[h].stage \in {"writing", "answering", "closing"}
         /\ {"writing", "answering", "closing"} \subseteq Active
  BY DEF CallsOK, PathOK, Active, Stages

LEMMA TypeStep ==
  ASSUME Ledger, [Next]_vars
  PROVE  TypeOK'
<1> USE DEF Ledger
<1>1. ASSUME NEW p \in Payments, NEW c \in Centers, NEW plan \in Plans,
             Checkout(p, c, plan)
      PROVE  TypeOK'
  <2> DEFINE r == [center |-> c, plan |-> plan, status |-> "pending",
                   ref |-> Null, paid_at |-> Null]
  <2>1. r \in Row
    BY DEF Row
  <2>2. payment' = [payment EXCEPT ![p] = r]
    BY <1>1 DEF Checkout
  <2> HIDE DEF r
  <2>3. QED  BY <1>1, <2>1, <2>2 DEF Checkout, TypeOK
<1>2. ASSUME NEW c \in Centers, RemoveCenter(c)
      PROVE  TypeOK'
  BY <1>2 DEF RemoveCenter, TypeOK
<1>3. ASSUME NEW h \in Handlers, Arrive(h)
      PROVE  TypeOK'
  <2>1. PICK f : Accept(h, f) /\ (f = Failing \/ Arrived(f))
    BY <1>3, ArrivalCases
  <2>2. f \in Call
    BY <2>1, IdleType DEF Arrived
  <2>3. calls[h] + 1 \in 0 .. MaxCalls
    BY <1>3, ArrivalCases, BillingAssumption DEF Ready, TypeOK
  <2>4. QED  BY <2>1, <2>2, <2>3 DEF Accept, TypeOK
<1>4. ASSUME NEW h \in Handlers, ExtendCenter(h)
      PROVE  TypeOK'
  <2> DEFINE s == [plan |-> call[h].snap.plan,
                   until |-> call[h].at + Duration[call[h].snap.plan]]
  <2>1. call[h] \in Call /\ call[h].snap.center \in Centers /\ s \in Subscription
    <3>1. call[h].stage \in Active
      BY <1>4 DEF ExtendCenter, MayExtend, Active, Stages
    <3>2. QED
      BY <3>1, CallFacts, BillingAssumption DEF Subscription, Time
  <2> DEFINE f == [call[h] EXCEPT !.stage = "writing", !.sub = s]
  <2> HIDE DEF s
  <2>2. f \in Call
    BY <2>1 DEF Call, Stages
  <2> HIDE DEF f
  <2>3. CASE call' = [call EXCEPT ![h].stage = "writing"] /\ UNCHANGED centerlock
    <3>1. [call[h] EXCEPT !.stage = "writing"] \in Call
      BY <2>1, StageType DEF Stages
    <3>2. QED  BY <1>4, <2>3, <3>1 DEF ExtendCenter, TypeOK
  <2>4. CASE /\ call' = [call EXCEPT ![h] = f]
             /\ centerlock' = [centerlock EXCEPT ![call[h].snap.center] = h]
    BY <1>4, <2>1, <2>2, <2>4 DEF ExtendCenter, TypeOK
  <2>5. QED  BY <1>4, <2>3, <2>4 DEF ExtendCenter, f, s
<1>5. ASSUME NEW h \in Handlers, WritePayment(h)
      PROVE  TypeOK'
  <2> DEFINE r == Flushed(payment[call[h].pay], call[h])
             f == [call[h] EXCEPT !.stage = "answering", !.row = r]
  <2>1. call[h].stage \in Active /\ Writes(call[h])
    BY <1>5 DEF WritePayment, MayWrite, Active, Stages, Writes
  <2>2. call[h] \in Call /\ call[h].pay \in Payments
    BY <2>1, CallFacts
  <2>3. r \in Row
    BY <2>1, CallFacts, FlushedRow, Nulls DEF CallsOK, PaymentsOK
  <2> HIDE DEF r
  <2>4. f \in Call
    BY <2>2, <2>3 DEF Call, Stages
  <2> HIDE DEF f
  <2>5. call' = [call EXCEPT ![h] = f]
    BY <1>5 DEF WritePayment, f, r
  <2>6. QED  BY <1>5, <2>2, <2>4, <2>5 DEF WritePayment, TypeOK
<1>6. ASSUME NEW h \in Handlers, ViolatesUnique(h)
      PROVE  TypeOK'
  BY <1>6, IdleType DEF ViolatesUnique, TypeOK
<1>7. ASSUME NEW h \in Handlers, Answer(h)
      PROVE  TypeOK'
  <2>1. call[h].stage \in Active
    BY <1>7 DEF Answer, Active, Stages
  <2>2. [call[h] EXCEPT !.stage = "closing"] \in Call
    BY <2>1, CallFacts, StageType DEF Stages
  <2>3. <<call[h].outcome, call[h].pay>> \in Outcomes \X Payments
    BY <2>1, CallFacts
  <2>4. QED  BY <1>7, <2>2, <2>3 DEF Answer, TypeOK
<1>8. ASSUME NEW h \in Handlers, Commit(h)
      PROVE  TypeOK'
  <2>1. call[h].stage \in Active
    BY <1>8 DEF Commit, Active, Stages
  <2>2. /\ call[h].pay \in Payments /\ call[h].snap.center \in Centers
        /\ call[h].row \in Row \cup {Null} /\ call[h].sub \in Subscription \cup {Null}
    BY <2>1, CallFacts DEF Call
  <2>3. /\ payment' \in [Payments -> Row \cup {Null}]
        /\ center' \in [Centers -> Subscription \cup {Null}]
        /\ notices' \in [Payments -> Nat]
    BY <1>8, <2>2 DEF Commit, TypeOK
  <2>4. QED
    BY <1>8, <2>3, IdleType DEF Commit, ReleaseRows, ReleaseCenters, TypeOK
<1>9. ASSUME NEW h \in Handlers, Rollback(h)
      PROVE  TypeOK'
  BY <1>9, IdleType DEF Rollback, ReleaseRows, ReleaseCenters, TypeOK
<1>10. ASSUME NEW h \in Handlers, DatabaseFails(h) \/ WorkerDies(h)
       PROVE  TypeOK'
  <2>1. lost' \subseteq Payments
    <3>1. Lost(h)
      BY <1>10 DEF DatabaseFails, WorkerDies
    <3>2. call[h].stage = "closing" => call[h].pay \in Payments
      BY CallFacts DEF Active, Stages
    <3>3. QED  BY <3>1, <3>2 DEF Lost, TypeOK
  <2>2. QED
    BY <1>10, <2>1, IdleType DEF DatabaseFails, WorkerDies, ReleaseRows,
       ReleaseCenters, TypeOK
<1>11. CASE Tick
  BY <1>11, BillingAssumption DEF Tick, Time, TypeOK
<1>12. CASE UNCHANGED vars
  BY <1>12 DEF vars, TypeOK
<1>13. QED
  BY <1>1, <1>2, <1>3, <1>4, <1>5, <1>6, <1>7, <1>8, <1>9, <1>10, <1>11, <1>12,
     NextCases DEF Steps

-----------------------------------------------------------------------------
(***************************************************************************)
(* What a commit does, and that nothing is taken back.                     *)
(***************************************************************************)
LEMMA CommittedRow ==
  ASSUME Ledger, NEW h \in Handlers, call[h].row # Null
  PROVE  LET f == call[h] IN
         /\ f.stage \in {"answering", "closing"}
         /\ f.pay \in Payments /\ payment[f.pay] \in Row /\ rowlock[f.pay] = h
         /\ f.row \in Row
         /\ Since(payment[f.pay], f.row)
         /\ Stamped(f.row)
         /\ f.row.paid_at = IF f.outcome = "paid" THEN f.at ELSE payment[f.pay].paid_at
         /\ f.row.ref = IF f.snap.ref # f.ref THEN f.ref ELSE payment[f.pay].ref
<1> USE DEF Ledger
<1>1. /\ call[h].stage \in {"answering", "closing"} /\ call[h].stage \in Active
      /\ Writes(call[h])
  BY HeldIsActive DEF Writes
<1>2. /\ PathOK(call[h]) /\ rowlock[call[h].pay] = h
      /\ call[h].row = Flushed(payment[call[h].pay], call[h])
  BY DEF CallsOK, HoldsRow
<1>3. /\ call[h] \in Call /\ call[h].pay \in Payments
      /\ payment[call[h].pay] \in Row
      /\ Since(call[h].snap, payment[call[h].pay])
  BY <1>1, CallFacts
<1>4. Stamped(payment[call[h].pay])
  BY <1>3, Nulls DEF PaymentsOK
<1>5. QED  BY <1>1, <1>2, <1>3, <1>4, FlushedRow

LEMMA SinceItself == \A row : Since(row, row)
  BY DEF Since

LEMMA SinceTwice ==
  ASSUME NEW a, NEW b, NEW c, Since(a, b), Since(b, c)
  PROVE  Since(a, c)
  BY DEF Since

\* No step takes a payment, its reference or its stamp away.
LEMMA RowsGrow ==
  ASSUME Ledger, [Next]_vars, NEW p \in Payments, payment[p] # Null
  PROVE  payment'[p] # Null /\ Since(payment[p], payment'[p])
<1> USE DEF Ledger
<1>1. ASSUME NEW q \in Payments, NEW c \in Centers, NEW plan \in Plans,
             Checkout(q, c, plan)
      PROVE  payment'[p] = payment[p]
  BY <1>1 DEF Checkout, TypeOK
<1>2. ASSUME NEW h \in Handlers, Commit(h)
      PROVE  payment'[p] # Null /\ Since(payment[p], payment'[p])
  <2>1. CASE call[h].row # Null /\ call[h].pay = p
    <3>1. payment'[p] = call[h].row
      BY <1>2, <2>1 DEF Commit, TypeOK
    <3>2. QED  BY <2>1, <3>1, CommittedRow, Nulls
  <2>2. CASE ~(call[h].row # Null /\ call[h].pay = p)
    <3>1. payment'[p] = payment[p]
      BY <1>2, <2>2 DEF Commit, TypeOK
    <3>2. QED  BY <3>1, SinceItself
  <2>3. QED  BY <2>1, <2>2
<1>3. ASSUME payment'[p] = payment[p]
      PROVE  payment'[p] # Null /\ Since(payment[p], payment'[p])
  BY <1>3, SinceItself
<1>4. QED
  BY <1>1, <1>2, <1>3, NextCases, StepsWriteNothing DEF RemoveCenter, Tick, vars

LEMMA PaymentsStep ==
  ASSUME Ledger, [Next]_vars
  PROVE  PaymentsOK'
<1> USE DEF Ledger
<1>1. ASSUME NEW p \in Payments, NEW c \in Centers, NEW plan \in Plans,
             Checkout(p, c, plan)
      PROVE  PaymentsOK'
  <2> DEFINE r == [center |-> c, plan |-> plan, status |-> "pending",
                   ref |-> Null, paid_at |-> Null]
  <2>1. Stamped(r) /\ r \in Row
    BY DEF Stamped, Row
  <2> HIDE DEF r
  <2>2. payment' = [payment EXCEPT ![p] = r] /\ notices' = notices
    BY <1>1 DEF Checkout, r
  <2>3. QED  BY <2>1, <2>2, Nulls DEF PaymentsOK, TypeOK
<1>2. ASSUME NEW h \in Handlers, Commit(h)
      PROVE  PaymentsOK'
  <2> SUFFICES ASSUME NEW p \in Payments
               PROVE  IF payment'[p] = Null THEN notices'[p] = 0
                                            ELSE Stamped(payment'[p])
    BY DEF PaymentsOK
  <2>1. CASE call[h].row # Null /\ call[h].pay = p
    <3>1. payment'[p] = call[h].row
      BY <1>2, <2>1 DEF Commit, TypeOK
    <3>2. QED  BY <2>1, <3>1, CommittedRow, Nulls
  <2>2. CASE ~(call[h].row # Null /\ call[h].pay = p)
    <3>1. payment'[p] = payment[p] /\ notices'[p] = notices[p]
      BY <1>2, <2>2 DEF Commit, TypeOK
    <3>2. QED  BY <3>1 DEF PaymentsOK
  <2>3. QED  BY <2>1, <2>2
<1>3. ASSUME UNCHANGED <<payment, notices>>
      PROVE  PaymentsOK'
  BY <1>3 DEF PaymentsOK
<1>4. QED
  BY <1>1, <1>2, <1>3, NextCases, StepsWriteNothing DEF RemoveCenter, Tick, vars

-----------------------------------------------------------------------------
(***************************************************************************)
(* Every call stays as its stage requires.                                 *)
(***************************************************************************)
CallOK(h) == PathOK(call[h]) /\ Current(h) /\ HoldsRow(h) /\ HoldsCenter(h)

\* A call is not disturbed by a step of others that leaves it the rows it
\* has locked and does not bring a centre back.
LEMMA Undisturbed ==
  ASSUME Ledger, [Next]_vars, NEW g \in Handlers, call'[g] = call[g],
         call[g].row # Null =>
           /\ rowlock'[call[g].pay] = g
           /\ payment'[call[g].pay] = payment[call[g].pay],
         call[g].sub # Null =>
           /\ centerlock'[call[g].snap.center] = g
           /\ center'[call[g].snap.center] # Null,
         \A c \in Centers : center[c] = Null => center'[c] = Null
  PROVE  CallOK(g)'
<1> USE DEF Ledger
<1>1. PathOK(call[g])'
  BY DEF CallsOK, PathOK, Writes
<1>2. Current(g)'
  <2> SUFFICES ASSUME call[g].stage \in Active
               PROVE  /\ payment'[call[g].pay] # Null
                      /\ Since(call[g].snap, payment'[call[g].pay])
    BY DEF Current
  <2>1. /\ call[g].pay \in Payments /\ payment[call[g].pay] # Null
        /\ Since(call[g].snap, payment[call[g].pay])
    BY CallFacts, Nulls
  <2>2. QED  BY <2>1, RowsGrow, SinceTwice
<1>3. HoldsRow(g)'
  <2> SUFFICES ASSUME call[g].row # Null
               PROVE  /\ rowlock'[call[g].pay] = g
                      /\ call[g].row = Flushed(payment'[call[g].pay], call[g])
    BY DEF HoldsRow, Flushed
  <2>1. QED  BY DEF CallsOK, HoldsRow
<1>4. HoldsCenter(g)'
  <2>1. call[g].stage = "writing" \/ call[g].row # Null => call[g].snap.center \in Centers
    BY CallFacts, HeldIsActive
  <2>2. QED  BY <2>1 DEF CallsOK, HoldsCenter, Bought
<1>5. QED  BY <1>1, <1>2, <1>3, <1>4 DEF CallOK

\* Whose locks a step may touch.
LEMMA OthersKeepLocks ==
  ASSUME Ledger, NEW h \in Handlers, NEW g \in Handlers \ {h}, Steps(h) \/ Commit(h)
  PROVE  /\ call'[g] = call[g]
         /\ call[g].row # Null => rowlock'[call[g].pay] = g
         /\ call[g].sub # Null => centerlock'[call[g].snap.center] = g
<1> USE DEF Ledger
<1>1. call[g].row # Null => call[g].pay \in Payments /\ rowlock[call[g].pay] = g
  BY CommittedRow
<1>2. call[g].sub # Null => /\ call[g].snap.center \in Centers
                            /\ centerlock[call[g].snap.center] = g
  BY CallFacts, HeldIsActive DEF CallsOK, HoldsCenter
<1>3. call'[g] = call[g]
  BY StepsWriteNothing DEF Commit, TypeOK
<1>4. CASE UNCHANGED <<rowlock, centerlock>>
  BY <1>1, <1>2, <1>3, <1>4
<1>5. CASE ReleaseRows(h) /\ ReleaseCenters(h)
  BY <1>1, <1>2, <1>3, <1>5 DEF ReleaseRows, ReleaseCenters
<1>6. CASE ExtendCenter(h)
  BY <1>1, <1>2, <1>3, <1>6, Nulls DEF ExtendCenter, MayExtend, TypeOK
<1>7. CASE WritePayment(h)
  BY <1>1, <1>2, <1>3, <1>7, Nulls DEF WritePayment, MayWrite, TypeOK
<1>8. QED
  BY <1>4, <1>5, <1>6, <1>7, ArrivalCases
     DEF Steps, Accept, ViolatesUnique, Answer, Rollback, DatabaseFails, WorkerDies, Commit

LEMMA EndedOK ==
  ASSUME NEW h, call'[h] \in {Idle, Failing}
  PROVE  CallOK(h)'
<1>1. PathOK(call[h])'
  BY IdlePath DEF PathOK, Writes, Active, Stages
<1>2. call'[h].stage \in {"idle", "failing"} /\ call'[h].row = Null /\ call'[h].sub = Null
  BY DEF Idle, Failing
<1>3. QED
  BY <1>1, <1>2 DEF CallOK, Current, HoldsRow, HoldsCenter, Active

\* A call's own step leaves it in order.
LEMMA OwnStep ==
  ASSUME Ledger, NEW h \in Handlers, Steps(h)
  PROVE  CallOK(h)'
<1> USE DEF Ledger
<1> DEFINE f == call[h]
<1>1. UNCHANGED <<payment, center>> /\ CallOK(h)
  BY StepsWriteNothing DEF CallsOK, CallOK
<1>2. CASE Arrive(h)
  <2>1. PICK e : Accept(h, e) /\ (e = Failing \/ Arrived(e))
    BY <1>2, ArrivalCases
  <2>2. call'[h] = e
    BY <2>1 DEF Accept, TypeOK
  <2>3. CASE e = Failing
    BY <2>2, <2>3, EndedOK
  <2>4. CASE Arrived(e)
    <3>1. /\ PathOK(e) /\ e.row = Null /\ e.sub = Null /\ payment[e.pay] = e.snap
          /\ e.snap \in Row
          /\ (e.outcome = "paid" /\ e.stage = "writing" => center[e.snap.center] = Null)
      BY <2>4 DEF Arrived, PathOK, Active, Stages
    <3>2. PathOK(call[h])'
      BY <2>2, <3>1 DEF PathOK, Writes
    <3>3. Current(h)'
      BY <1>1, <2>2, <3>1, SinceItself, Nulls DEF Current
    <3>4. HoldsRow(h)' /\ HoldsCenter(h)'
      BY <1>1, <2>2, <3>1 DEF HoldsRow, HoldsCenter
    <3>5. QED  BY <3>2, <3>3, <3>4 DEF CallOK
  <2>5. QED  BY <2>1, <2>3, <2>4
<1>3. CASE ExtendCenter(h)
  <2> DEFINE s == [plan |-> f.snap.plan, until |-> f.at + Duration[f.snap.plan]]
  <2>1. f.stage = "extending" /\ f.stage \in Active
    BY <1>3 DEF ExtendCenter, MayExtend, Active, Stages
  <2>2. /\ f \in Call /\ f.snap.center \in Centers /\ f.pay \in Payments
    BY <2>1, CallFacts
  <2>3. f.row = Null /\ f.sub = Null /\ f.outcome = "paid"
    BY <1>1, <2>1 DEF CallOK, PathOK
  <2> DEFINE e == call'[h]
  <2>4. /\ e.stage = "writing" /\ e.row = Null
        /\ e.pay = f.pay /\ e.ref = f.ref /\ e.outcome = f.outcome
        /\ e.snap = f.snap /\ e.at = f.at
        /\ \/ e.sub = Null /\ center[f.snap.center] = Null
           \/ /\ e.sub = s /\ center[f.snap.center] # Null
              /\ centerlock'[f.snap.center] = h
    <3>1. CASE /\ center[f.snap.center] = Null
               /\ call' = [call EXCEPT ![h].stage = "writing"]
      <4>1. e = [f EXCEPT !.stage = "writing"]
        BY <3>1 DEF TypeOK
      <4>2. QED  BY <2>2, <2>3, <3>1, <4>1 DEF Call
    <3>2. CASE /\ center[f.snap.center] # Null
               /\ call' = [call EXCEPT ![h].stage = "writing", ![h].sub = s]
               /\ centerlock' = [centerlock EXCEPT ![f.snap.center] = h]
      <4> HIDE DEF s
      <4>1. e = [f EXCEPT !.stage = "writing", !.sub = s]
        BY <3>2 DEF TypeOK
      <4>2. centerlock'[f.snap.center] = h
        BY <2>2, <3>2 DEF TypeOK
      <4> HIDE DEF e, f
      <4>3. QED  BY <2>2, <2>3, <3>2, <4>1, <4>2 DEF Call
    <3>3. QED  BY <1>3, <3>1, <3>2 DEF ExtendCenter
  <2>5. PathOK(call[h])'
    <3>1. PathOK(f)
      BY <1>1 DEF CallOK
    <3> HIDE DEF f, s
    <3>2. QED  BY <2>1, <2>3, <2>4, <3>1 DEF PathOK, Writes, Active, Stages
  <2>6. Current(h)'
    BY <1>1, <2>1, <2>4 DEF CallOK, Current
  <2>7. HoldsRow(h)' /\ HoldsCenter(h)'
    <3>1. HoldsRow(h)'
      BY <2>4 DEF HoldsRow
    <3>2. s = Bought(call[h])'
      BY <2>4 DEF Bought
    <3>3. s # Null
      BY <2>1, CallFacts, BillingAssumption, Nulls DEF Subscription, Time
    <3> HIDE DEF s
    <3>4. HoldsCenter(h)'
      BY <1>1, <2>3, <2>4, <3>2, <3>3 DEF HoldsCenter
    <3>5. QED  BY <3>1, <3>4
  <2>8. QED  BY <2>5, <2>6, <2>7 DEF CallOK
<1>4. CASE WritePayment(h)
  <2> DEFINE r == Flushed(payment[f.pay], f)
  <2>1. f.stage \in {"attaching", "writing"} /\ f.stage \in Active /\ Writes(f)
    BY <1>4 DEF WritePayment, MayWrite, Active, Stages, Writes
  <2>2. f \in Call /\ f.pay \in Payments /\ r \in Row /\ PathOK(f) /\ payment[f.pay] \in Row
    BY <1>1, <2>1, CallFacts, FlushedRow, Nulls DEF PaymentsOK, CallOK
  <2> HIDE DEF r
  <2> DEFINE e == call'[h]
  <2>3. /\ e.stage = "answering" /\ e.row = r /\ e.sub = f.sub
        /\ e.pay = f.pay /\ e.ref = f.ref /\ e.outcome = f.outcome
        /\ e.snap = f.snap /\ e.at = f.at
    <3>1. e = [f EXCEPT !.stage = "answering", !.row = r]
      BY <1>4 DEF WritePayment, TypeOK, r
    <3> HIDE DEF e, f
    <3>2. QED  BY <2>2, <3>1 DEF Call
  <2>4. rowlock'[f.pay] = h /\ UNCHANGED centerlock
    BY <1>4, <2>2 DEF WritePayment, TypeOK
  <2>5. r = Flushed(payment[e.pay], e)
    BY <2>3 DEF r, Flushed
  <2>6. PathOK(call[h])'
    <3> HIDE DEF f
    <3>1. QED  BY <2>1, <2>2, <2>3, Nulls DEF PathOK, Writes, Active, Stages
  <2>7. Current(h)'
    BY <1>1, <2>1, <2>3 DEF CallOK, Current
  <2>8. HoldsRow(h)'
    <3>1. payment'[e.pay] = payment[e.pay]
      BY <1>1
    <3>2. r = Flushed(payment'[e.pay], e)
      BY <2>5, <3>1
    <3>3. QED  BY <2>3, <2>4, <3>2 DEF HoldsRow, Flushed
  <2>9. HoldsCenter(h)'
    <3>1. HoldsCenter(h)
      BY <1>1 DEF CallOK
    <3>2. f.outcome = "paid" => f.stage = "writing"
      BY <2>1, <2>2 DEF PathOK
    <3>3. QED
      BY <1>1, <2>3, <2>4, <3>1, <3>2 DEF HoldsCenter, Bought
  <2>10. QED  BY <2>6, <2>7, <2>8, <2>9 DEF CallOK
<1>5. CASE Answer(h)
  <2>1. f.stage = "answering" /\ f.stage \in Active
    BY <1>5 DEF Answer, Active, Stages
  <2>2. f \in Call /\ f.pay \in Payments
    BY <2>1, CallFacts
  <2>3. PICK e : /\ call'[h] = e
                 /\ e.stage = "closing" /\ e.row = f.row /\ e.sub = f.sub
                 /\ e.pay = f.pay /\ e.ref = f.ref /\ e.outcome = f.outcome
                 /\ e.snap = f.snap /\ e.at = f.at
    BY <1>5, <2>2 DEF Answer, TypeOK, Call
  <2>4. UNCHANGED <<rowlock, centerlock>>
    BY <1>5 DEF Answer
  <2>5. PathOK(call[h])'
    <3>1. PathOK(f)
      BY <1>1 DEF CallOK
    <3> HIDE DEF f
    <3>2. QED  BY <2>1, <2>3, <3>1 DEF PathOK, Writes, Active, Stages
  <2>6. Current(h)'
    BY <1>1, <2>1, <2>3 DEF CallOK, Current
  <2>7. HoldsRow(h)'
    <3>1. f.row # Null => f.row = Flushed(payment[f.pay], f)
      BY <1>1 DEF CallOK, HoldsRow
    <3>2. Flushed(payment'[e.pay], e) = Flushed(payment[f.pay], f)
      BY <1>1, <2>3 DEF Flushed
    <3>3. f.row # Null => rowlock'[f.pay] = h
      BY <1>1, <2>4 DEF CallOK, HoldsRow
    <3>4. QED  BY <2>3, <3>1, <3>2, <3>3 DEF HoldsRow, Flushed
  <2>8. HoldsCenter(h)'
    BY <1>1, <2>1, <2>3, <2>4 DEF CallOK, HoldsCenter, Bought
  <2>9. QED  BY <2>5, <2>6, <2>7, <2>8 DEF CallOK
<1>6. CASE ViolatesUnique(h) \/ Rollback(h) \/ DatabaseFails(h) \/ WorkerDies(h)
  <2>1. call'[h] \in {Idle, Failing}
    BY <1>6 DEF ViolatesUnique, Rollback, DatabaseFails, WorkerDies, TypeOK
  <2>2. QED  BY <2>1, EndedOK
<1>7. QED
  BY <1>2, <1>3, <1>4, <1>5, <1>6 DEF Steps

LEMMA CallsStep ==
  ASSUME Ledger, [Next]_vars
  PROVE  CallsOK'
<1> USE DEF Ledger
<1> SUFFICES ASSUME NEW g \in Handlers PROVE CallOK(g)'
  BY DEF CallsOK, CallOK
<1>0. /\ call[g].row # Null => call[g].pay \in Payments /\ rowlock[call[g].pay] = g
                               /\ payment[call[g].pay] # Null
      /\ call[g].sub # Null => /\ call[g].snap.center \in Centers
                               /\ centerlock[call[g].snap.center] = g
                               /\ center[call[g].snap.center] # Null
  BY CommittedRow, CallFacts, HeldIsActive, Nulls DEF CallsOK, HoldsCenter
<1>1. ASSUME NEW p \in Payments, NEW c \in Centers, NEW plan \in Plans,
             Checkout(p, c, plan)
      PROVE  CallOK(g)'
  <2>1. call' = call /\ rowlock' = rowlock /\ centerlock' = centerlock /\ center' = center
    BY <1>1 DEF Checkout
  <2>2. call[g].row # Null => payment'[call[g].pay] = payment[call[g].pay]
    BY <1>0, <1>1 DEF Checkout, TypeOK
  <2>3. QED  BY <1>0, <2>1, <2>2, Undisturbed
<1>2. ASSUME NEW c \in Centers, RemoveCenter(c)
      PROVE  CallOK(g)'
  <2>1. call' = call /\ rowlock' = rowlock /\ centerlock' = centerlock /\ payment' = payment
    BY <1>2 DEF RemoveCenter
  <2>2. call[g].sub # Null => center'[call[g].snap.center] # Null
    BY <1>0, <1>2, Nulls DEF RemoveCenter, TypeOK
  <2>3. \A d \in Centers : center[d] = Null => center'[d] = Null
    BY <1>2 DEF RemoveCenter, TypeOK
  <2>4. QED  BY <1>0, <2>1, <2>2, <2>3, Undisturbed
<1>3. ASSUME NEW h \in Handlers, Steps(h)
      PROVE  CallOK(g)'
  <2>1. CASE h = g
    BY <1>3, <2>1, OwnStep
  <2>2. CASE h # g
    <3>1. UNCHANGED <<payment, center>>
      BY <1>3, StepsWriteNothing
    <3>2. /\ call'[g] = call[g]
          /\ call[g].row # Null => rowlock'[call[g].pay] = g
          /\ call[g].sub # Null => centerlock'[call[g].snap.center] = g
      BY <1>3, <2>2, OthersKeepLocks
    <3>3. QED  BY <1>0, <3>1, <3>2, Undisturbed
  <2>3. QED  BY <2>1, <2>2
<1>4. ASSUME NEW h \in Handlers, Commit(h)
      PROVE  CallOK(g)'
  <2>1. CASE h = g
    BY <1>4, <2>1, EndedOK DEF Commit, TypeOK
  <2>2. CASE h # g
    <3>1. /\ call'[g] = call[g]
          /\ call[g].row # Null => rowlock'[call[g].pay] = g
          /\ call[g].sub # Null => centerlock'[call[g].snap.center] = g
      BY <1>4, <2>2, OthersKeepLocks
    <3>2. call[g].row # Null => payment'[call[g].pay] = payment[call[g].pay]
      <4>1. call[h].row # Null => rowlock[call[h].pay] = h
        BY CommittedRow
      <4>2. QED  BY <1>0, <1>4, <2>2, <4>1 DEF Commit, TypeOK
    <3>3. call[h].sub # Null => /\ call[h].snap.center \in Centers
                                /\ center[call[h].snap.center] # Null
      BY CallFacts, HeldIsActive DEF CallsOK, HoldsCenter
    <3>4. /\ \A d \in Centers : center[d] = Null => center'[d] = Null
          /\ \A d \in Centers : center[d] # Null => center'[d] # Null
      BY <1>4, <3>3 DEF Commit, TypeOK
    <3>5. QED  BY <1>0, <3>1, <3>2, <3>4, Undisturbed
  <2>3. QED  BY <2>1, <2>2
<1>5. CASE Tick \/ UNCHANGED vars
  <2>1. UNCHANGED <<call, rowlock, centerlock, payment, center>>
    BY <1>5 DEF Tick, vars
  <2>2. QED  BY <1>0, <2>1, Undisturbed
<1>6. QED
  BY <1>1, <1>2, <1>3, <1>4, <1>5, NextCases

-----------------------------------------------------------------------------
(***************************************************************************)
(* The invariant, and what follows from it.                                *)
(***************************************************************************)
LEMMA LedgerInit == Init => Ledger
<1> SUFFICES ASSUME Init PROVE Ledger
  OBVIOUS
<1>1. TypeOK
  BY IdleType, BillingAssumption DEF Init, TypeOK, Time, Subscription
<1>2. CallsOK
  BY IdlePath DEF Init, CallsOK, Current, HoldsRow, HoldsCenter, Active, Idle
<1>3. PaymentsOK
  BY DEF Init, PaymentsOK
<1>4. QED  BY <1>1, <1>2, <1>3 DEF Ledger

LEMMA LedgerStep == Ledger /\ [Next]_vars => Ledger'
  BY TypeStep, CallsStep, PaymentsStep DEF Ledger

LEMMA LedgerInvariant == Spec => []Ledger
<1>1. QED  BY LedgerInit, LedgerStep, PTL DEF Spec

\* Every variable holds values of its kind.
THEOREM BillingTypeCorrect == Spec => []TypeOK
<1>1. Ledger => TypeOK
  BY DEF Ledger
<1>2. QED  BY <1>1, LedgerInvariant, PTL

\* The step that changes a recorded payment, or its notices, is the commit of
\* a call that flushed it.
LEMMA OnlyCommitRecords ==
  ASSUME Ledger, [Next]_vars, NEW p \in Payments, payment[p] # Null,
         <<payment'[p], notices'[p]>> # <<payment[p], notices[p]>>
  PROVE  \E h \in Handlers : /\ Commit(h) /\ call[h].row # Null /\ call[h].pay = p
                            /\ payment'[p] = call[h].row
<1> USE DEF Ledger
<1>1. ASSUME NEW q \in Payments, NEW c \in Centers, NEW plan \in Plans,
             Checkout(q, c, plan)
      PROVE  FALSE
  BY <1>1 DEF Checkout, TypeOK
<1>2. PICK h \in Handlers : Commit(h)
  BY <1>1, NextCases, StepsWriteNothing DEF RemoveCenter, Tick, vars
<1>3. call[h].row # Null /\ call[h].pay = p
  BY <1>2 DEF Commit, TypeOK
<1>4. payment'[p] = call[h].row
  BY <1>2, <1>3 DEF Commit, TypeOK
<1>5. QED  BY <1>2, <1>3, <1>4

\* A paid payment is final to every call that reads it paid: apply_webhook
\* returns early on it, and CreateTransaction finds its reference.
THEOREM PaidIsFinal == Spec => PaidYieldsToStaleRead
<1> DEFINE Yields(p) ==
      /\ payment[p] # Null /\ payment[p].status = "paid"
      /\ <<payment'[p], notices'[p]>> # <<payment[p], notices[p]>>
      => \E h \in Handlers : /\ call[h].pay = p /\ call[h].stage = "closing"
                            /\ call[h].snap.status # "paid"
<1>1. ASSUME Ledger, [Next]_vars, NEW p \in Payments PROVE Yields(p)
  <2> SUFFICES ASSUME payment[p] # Null,
                      <<payment'[p], notices'[p]>> # <<payment[p], notices[p]>>
               PROVE  \E h \in Handlers : /\ call[h].pay = p /\ call[h].stage = "closing"
                                         /\ call[h].snap.status # "paid"
    OBVIOUS
  <2>1. PICK h \in Handlers : Commit(h) /\ call[h].row # Null /\ call[h].pay = p
    BY <1>1, OnlyCommitRecords
  <2>2. call[h].stage = "closing" /\ call[h].stage \in Active /\ Writes(call[h])
    BY <2>1 DEF Commit, Active, Stages, Writes
  <2>3. PathOK(call[h])
    BY <1>1 DEF Ledger, CallsOK
  <2>4. call[h].snap.status # "paid"
    BY <2>2, <2>3 DEF PathOK, Stamped
  <2>5. QED  BY <2>1, <2>2, <2>4
<1>2. Ledger /\ [Next]_vars => [\A p \in Payments : Yields(p)]_vars
  BY <1>1
<1> HIDE DEF Yields
<1>3. Spec => [][\A p \in Payments : Yields(p)]_vars
  BY <1>2, LedgerInvariant, PTL DEF Spec
<1>4. QED  BY <1>3 DEF PaidYieldsToStaleRead, Yields

\* A provider's transaction stays with its payment, unless a call replaces it
\* that read the payment without one (payme.py's CreateTransaction).
THEOREM ReferenceIsKept == Spec => RefYieldsToStaleRead
<1> DEFINE Yields(p) ==
      /\ payment[p] # Null /\ payment[p].ref # Null
      /\ payment'[p].ref # payment[p].ref
      => \E h \in Handlers : /\ call[h].pay = p /\ call[h].stage = "closing"
                            /\ call[h].snap.ref = Null
<1>1. ASSUME Ledger, [Next]_vars, NEW p \in Payments PROVE Yields(p)
  <2> SUFFICES ASSUME payment[p] # Null, payment'[p].ref # payment[p].ref
               PROVE  \E h \in Handlers : /\ call[h].pay = p /\ call[h].stage = "closing"
                                         /\ call[h].snap.ref = Null
    OBVIOUS
  <2>1. PICK h \in Handlers : /\ Commit(h) /\ call[h].row # Null /\ call[h].pay = p
                              /\ payment'[p] = call[h].row
    BY <1>1, OnlyCommitRecords
  <2>2. call[h].stage = "closing" /\ Writes(call[h])
    BY <2>1 DEF Commit, Writes
  <2>3. PathOK(call[h])
    BY <1>1 DEF Ledger, CallsOK
  <2>4. call[h].snap.ref # call[h].ref
    BY <1>1, <2>1, CommittedRow
  <2>5. QED  BY <2>1, <2>2, <2>3, <2>4 DEF PathOK
<1>2. Ledger /\ [Next]_vars => [\A p \in Payments : Yields(p)]_vars
  BY <1>1
<1> HIDE DEF Yields
<1>3. Spec => [][\A p \in Payments : Yields(p)]_vars
  BY <1>2, LedgerInvariant, PTL DEF Spec
<1>4. QED  BY <1>3 DEF RefYieldsToStaleRead, Yields

-----------------------------------------------------------------------------
(***************************************************************************)
(* The subscription, the notice and the answer.                            *)
(***************************************************************************)
\* A commit that pays extends the centre too, or the centre is gone.
LEMMA CommitPays ==
  ASSUME Ledger, NEW h \in Handlers, Commit(h), call[h].row # Null
  PROVE  /\ payment'[call[h].pay] = call[h].row
         /\ call[h].row.center = call[h].snap.center
         /\ call[h].row.plan = call[h].snap.plan
         /\ call[h].outcome = "paid" =>
              IF call[h].sub = Null THEN center[call[h].snap.center] = Null
              ELSE center'[call[h].snap.center] = Bought(call[h])
<1> USE DEF Ledger
<1>1. call[h].stage \in Active /\ call[h].stage = "closing"
  BY DEF Commit, Active, Stages
<1>2. /\ call[h].pay \in Payments /\ call[h].snap.center \in Centers
      /\ Since(call[h].snap, payment[call[h].pay])
      /\ Since(payment[call[h].pay], call[h].row)
  BY <1>1, CallFacts, CommittedRow
<1>3. payment'[call[h].pay] = call[h].row
  BY <1>2 DEF Commit, TypeOK
<1>4. HoldsCenter(h)
  BY DEF CallsOK
<1>5. call[h].sub # Null => center'[call[h].snap.center] = call[h].sub
  BY <1>2 DEF Commit, TypeOK
<1>6. QED  BY <1>2, <1>3, <1>4, <1>5 DEF Since, HoldsCenter

LEMMA BackedStep ==
  ASSUME Ledger, SubscriptionBacked, [Next]_vars
  PROVE  SubscriptionBacked'
<1> USE DEF Ledger
<1> SUFFICES ASSUME NEW c \in Centers, center'[c] # Null, center'[c].until # Null
             PROVE  \E p \in Payments : Buys(p, c)'
  BY DEF SubscriptionBacked
<1>1. ASSUME NEW h \in Handlers, Commit(h), call[h].sub # Null,
             call[h].snap.center = c
      PROVE  \E p \in Payments : Buys(p, c)'
  <2>1. call[h].row # Null /\ call[h].stage \in Active
    BY <1>1 DEF CallsOK, PathOK, Writes, Commit, Active, Stages
  <2>2. call[h].outcome = "paid"
    BY <1>1 DEF CallsOK, HoldsCenter
  <2>3. /\ call[h].pay \in Payments /\ call[h].row \in Row
        /\ call[h].row.paid_at = call[h].at /\ call[h].at # Null
    BY <2>1, <2>2, CommittedRow, CallFacts, Nulls
  <2>4. /\ payment'[call[h].pay] = call[h].row /\ call[h].row.center = c
        /\ call[h].row.plan = call[h].snap.plan
        /\ center'[c] = Bought(call[h])
    BY <1>1, <2>1, <2>2, CommitPays
  <2>5. PICK p \in Payments : p = call[h].pay
    BY <2>3
  <2>6. Buys(p, c)'
    BY <2>3, <2>4, <2>5, Nulls DEF Buys, Bought
  <2>7. QED  BY <2>6
<1>2. ASSUME center'[c] = center[c],
             \A h \in Handlers : Commit(h) =>
               ~(call[h].sub # Null /\ call[h].snap.center = c)
      PROVE  \E p \in Payments : Buys(p, c)'
  <2>1. PICK p \in Payments : Buys(p, c)
    BY <1>2 DEF SubscriptionBacked
  <2>2. payment[p] # Null /\ payment[p].paid_at # Null /\ payment[p].center = c
    BY <2>1 DEF Buys
  <2>3. payment'[p] # Null /\ Since(payment[p], payment'[p])
    BY <2>2, RowsGrow
  <2>4. payment'[p].paid_at = payment[p].paid_at
    <3>1. CASE <<payment'[p], notices'[p]>> = <<payment[p], notices[p]>>
      BY <3>1
    <3>2. CASE <<payment'[p], notices'[p]>> # <<payment[p], notices[p]>>
      <4>1. PICK h \in Handlers : /\ Commit(h) /\ call[h].row # Null /\ call[h].pay = p
                                  /\ payment'[p] = call[h].row
        BY <2>2, <3>2, OnlyCommitRecords
      <4>2. call[h].row.center = c
        BY <2>2, <2>3, <4>1 DEF Since
      <4>3. call[h].outcome # "paid"
        BY <1>2, <4>1, <4>2, CommitPays
      <4>4. QED  BY <4>1, <4>3, CommittedRow
    <3>3. QED  BY <3>1, <3>2
  <2>5. Buys(p, c)'
    BY <1>2, <2>1, <2>2, <2>3, <2>4 DEF Buys, Since
  <2>6. QED  BY <2>5
<1>3. CASE \E h \in Handlers : Commit(h)
  <2>1. PICK h \in Handlers : Commit(h)
    BY <1>3
  <2>2. CASE call[h].sub # Null /\ call[h].snap.center = c
    BY <1>1, <2>1, <2>2
  <2>3. CASE ~(call[h].sub # Null /\ call[h].snap.center = c)
    <3>1. center'[c] = center[c]
      BY <2>1, <2>3 DEF Commit, TypeOK
    <3>2. ASSUME NEW g \in Handlers, Commit(g)
          PROVE  ~(call[g].sub # Null /\ call[g].snap.center = c)
      <4>1. CASE g = h
        BY <2>3, <4>1
      <4>2. CASE g # h
        <5>1. call'[g] = call[g] /\ call'[g] = Idle
          BY <2>1, <3>2, <4>2 DEF Commit, TypeOK
        <5>2. QED  BY <3>2, <5>1 DEF Idle, Commit
      <4>3. QED  BY <4>1, <4>2
    <3>3. QED  BY <1>2, <3>1, <3>2
  <2>4. QED  BY <2>2, <2>3
<1>4. CASE ~(\E h \in Handlers : Commit(h))
  <2>1. center'[c] = center[c]
    <3>1. ASSUME NEW d \in Centers, RemoveCenter(d)
          PROVE  center'[c] = center[c]
      BY <3>1 DEF RemoveCenter, TypeOK
    <3>2. QED
      BY <1>4, <3>1, NextCases, StepsWriteNothing DEF Checkout, Tick, vars
  <2>2. QED  BY <1>2, <1>4, <2>1
<1>5. QED  BY <1>3, <1>4

\* A centre's subscription is always one that a recorded payment bought:
\* update_fields and the payment's flush of apply_webhook stand or fall together.
THEOREM SubscriptionsArePaidFor == Spec => []SubscriptionBacked
<1>1. Init => SubscriptionBacked
  BY DEF Init, SubscriptionBacked
<1>2. Ledger /\ SubscriptionBacked /\ [Next]_vars => SubscriptionBacked'
  BY BackedStep
<1>3. QED  BY <1>1, <1>2, LedgerInvariant, PTL DEF Spec

LEMMA NoticedStep ==
  ASSUME Ledger, PaidIsNoticed, [Next]_vars
  PROVE  PaidIsNoticed'
<1> USE DEF Ledger
<1> SUFFICES ASSUME NEW p \in Payments, payment'[p] # Null
             PROVE  payment'[p].paid_at # Null <=> notices'[p] > 0
  BY DEF PaidIsNoticed
<1>1. CASE payment[p] = Null
  <2>1. ASSUME NEW q \in Payments, NEW c \in Centers, NEW plan \in Plans,
               Checkout(q, c, plan)
        PROVE  payment'[p].paid_at = Null /\ notices'[p] = notices[p]
    <3>1. p = q
      BY <1>1, <2>1 DEF Checkout, TypeOK
    <3>2. QED  BY <2>1, <3>1 DEF Checkout, TypeOK
  <2>2. ASSUME NEW h \in Handlers, Commit(h)
        PROVE  FALSE
    <3>1. call[h].row # Null => call[h].pay # p
      BY <1>1, CommittedRow, Nulls
    <3>2. QED  BY <1>1, <2>2, <3>1 DEF Commit, TypeOK
  <2>3. notices[p] = 0
    BY <1>1 DEF PaymentsOK
  <2>4. QED
    BY <1>1, <2>1, <2>2, <2>3, NextCases, StepsWriteNothing DEF RemoveCenter, Tick, vars
<1>2. CASE payment[p] # Null /\ <<payment'[p], notices'[p]>> = <<payment[p], notices[p]>>
  BY <1>2 DEF PaidIsNoticed
<1>3. CASE payment[p] # Null /\ <<payment'[p], notices'[p]>> # <<payment[p], notices[p]>>
  <2>1. PICK h \in Handlers : /\ Commit(h) /\ call[h].row # Null /\ call[h].pay = p
                              /\ payment'[p] = call[h].row
    BY <1>3, OnlyCommitRecords
  <2>2. CASE call[h].outcome = "paid"
    <3>1. call[h].stage \in Active
      BY <2>1 DEF Commit, Active, Stages
    <3>2. payment'[p].paid_at # Null
      BY <2>1, <2>2, <3>1, CommittedRow, CallFacts, Nulls
    <3>3. notices'[p] = notices[p] + 1 /\ notices[p] \in Nat
      BY <2>1, <2>2 DEF Commit, TypeOK
    <3>4. QED  BY <3>2, <3>3
  <2>3. CASE call[h].outcome # "paid"
    <3>1. payment'[p].paid_at = payment[p].paid_at
      BY <2>1, <2>3, CommittedRow
    <3>2. notices'[p] = notices[p]
      BY <2>1, <2>3 DEF Commit
    <3>3. QED  BY <1>3, <3>1, <3>2 DEF PaidIsNoticed
  <2>4. QED  BY <2>2, <2>3
<1>4. QED  BY <1>1, <1>2, <1>3

\* The payer has a notice exactly when the payment was ever recorded paid.
THEOREM PayersAreNoticed == Spec => []PaidIsNoticed
<1>1. Init => PaidIsNoticed
  BY DEF Init, PaidIsNoticed
<1>2. Ledger /\ PaidIsNoticed /\ [Next]_vars => PaidIsNoticed'
  BY NoticedStep
<1>3. QED  BY <1>1, <1>2, LedgerInvariant, PTL DEF Spec

-----------------------------------------------------------------------------
Pays(h, p) == call[h].stage = "closing" /\ call[h].pay = p /\ call[h].outcome = "paid"

\* What becomes of a call that told "paid": it commits the row, or its loss is
\* on record, or the row was paid before it came.
LEMMA ToldEnds ==
  ASSUME Ledger, NEW h \in Handlers, NEW p \in Payments, Pays(h, p),
         Commit(h) \/ DatabaseFails(h) \/ WorkerDies(h)
  PROVE  /\ payment'[p] # Null
         /\ payment'[p].paid_at # Null \/ p \in lost'
<1> USE DEF Ledger
<1>1. call[h].stage \in Active /\ call[h].pay = p /\ call[h].outcome = "paid"
  BY DEF Pays, Active, Stages
<1>2. /\ payment[p] \in Row /\ Since(call[h].snap, payment[p])
  BY <1>1, CallFacts
<1>3. [Next]_vars
  BY DEF Next, Proceed
<1>4. payment'[p] # Null /\ Since(payment[p], payment'[p])
  BY <1>2, <1>3, RowsGrow, Nulls
<1>5. CASE call[h].row = Null
  <2>1. call[h].snap.paid_at # Null
    BY <1>1, <1>5 DEF CallsOK, PathOK, Writes, Pays
  <2>2. QED  BY <1>2, <1>4, <2>1 DEF Since
<1>6. CASE call[h].row # Null
  <2>1. CASE Commit(h)
    BY <1>1, <1>4, <1>6, <2>1, CommitPays, CommittedRow, CallFacts, Nulls
  <2>2. CASE DatabaseFails(h) \/ WorkerDies(h)
    BY <1>4, <1>6, <2>2 DEF DatabaseFails, WorkerDies, Lost, Pays
  <2>3. QED  BY <2>1, <2>2
<1>7. QED  BY <1>5, <1>6

LEMMA ToldStep ==
  ASSUME Ledger, ToldOK, [Next]_vars
  PROVE  ToldOK'
<1> USE DEF Ledger
<1> SUFFICES ASSUME NEW p \in Payments, <<"paid", p>> \in told'
             PROVE  /\ payment'[p] # Null
                    /\ \/ payment'[p].paid_at # Null
                       \/ p \in lost'
                       \/ \E h \in Handlers : Pays(h, p)'
  BY DEF ToldOK, Pays
<1>1. lost \subseteq lost'
  BY NextCases, ArrivalCases
     DEF Checkout, RemoveCenter, Steps, Accept, ExtendCenter, WritePayment,
         ViolatesUnique, Answer, Rollback, DatabaseFails, WorkerDies, Lost, Commit,
         Tick, vars
<1>2. CASE <<"paid", p>> \in told
  <2>1. /\ payment[p] # Null
        /\ payment[p].paid_at # Null \/ p \in lost \/ \E h \in Handlers : Pays(h, p)
    BY <1>2 DEF ToldOK, Pays
  <2>2. payment'[p] # Null /\ Since(payment[p], payment'[p])
    BY <2>1, RowsGrow
  <2>3. CASE payment[p].paid_at # Null \/ p \in lost
    BY <1>1, <2>2, <2>3 DEF Since
  <2>4. ASSUME NEW h \in Handlers, Pays(h, p)
        PROVE  payment'[p].paid_at # Null \/ p \in lost' \/ Pays(h, p)'
    <3>1. CASE Commit(h) \/ DatabaseFails(h) \/ WorkerDies(h)
      BY <2>4, <3>1, ToldEnds
    <3>2. CASE call'[h] = call[h]
      BY <2>4, <3>2 DEF Pays
    <3>3. ASSUME ~(Commit(h) \/ DatabaseFails(h) \/ WorkerDies(h))
          PROVE  call'[h] = call[h]
      <4>1. call[h].stage = "closing"
        BY <2>4 DEF Pays
      <4>2. ASSUME NEW g \in Handlers, Steps(g) \/ Commit(g)
            PROVE  call'[h] = call[h]
        <5>1. CASE g = h
          BY <3>3, <4>1, <4>2, <5>1, ArrivalCases
             DEF Steps, Ready, ExtendCenter, MayExtend, WritePayment, ViolatesUnique, MayWrite,
                 Answer, Rollback
        <5>2. CASE g # h
          BY <4>2, <5>2, OthersKeepLocks
        <5>3. QED  BY <5>1, <5>2
      <4>3. QED
        BY <4>2, NextCases DEF Checkout, RemoveCenter, Tick, vars
    <3>4. QED  BY <3>1, <3>2, <3>3
  <2>5. QED  BY <2>1, <2>2, <2>3, <2>4
<1>3. CASE <<"paid", p>> \notin told
  <2>1. PICK h \in Handlers : Answer(h) /\ call[h].outcome = "paid" /\ call[h].pay = p
    <3>1. ASSUME NEW h \in Handlers, Answer(h)
          PROVE  call[h].outcome = "paid" /\ call[h].pay = p
      BY <1>3, <3>1 DEF Answer
    <3>2. \E h \in Handlers : Answer(h)
      BY <1>3, NextCases, ArrivalCases
         DEF Checkout, RemoveCenter, Steps, Accept, ExtendCenter, WritePayment,
             ViolatesUnique, Rollback, DatabaseFails, WorkerDies, Commit, Tick, vars
    <3>3. QED  BY <3>1, <3>2
  <2>2. call[h].stage \in Active
    BY <2>1 DEF Answer, Active, Stages
  <2>3. call[h] \in Call /\ payment[p] \in Row
    BY <2>1, <2>2, CallFacts
  <2>4. Pays(h, p)'
    BY <2>1, <2>3 DEF Answer, TypeOK, Call, Pays
  <2>5. payment' = payment
    BY <2>1 DEF Answer
  <2>6. QED  BY <2>3, <2>4, <2>5, Nulls
<1>4. QED  BY <1>2, <1>3

\* A payment that a provider was told is paid is recorded, or its commit is
\* running, or its transaction failed once the answer was out (deps.py's
\* get_db commits after the response).
THEOREM AnsweredPaymentsAreRecorded == Spec => []AnsweredPaidIsRecorded
<1>1. Init => ToldOK
  BY DEF Init, ToldOK
<1>2. Ledger /\ ToldOK /\ [Next]_vars => ToldOK'
  BY ToldStep
<1>3. ToldOK => AnsweredPaidIsRecorded
  BY DEF ToldOK, AnsweredPaidIsRecorded
<1>4. QED  BY <1>1, <1>2, <1>3, LedgerInvariant, PTL DEF Spec

-----------------------------------------------------------------------------
(***************************************************************************)
(* Nobody waits for ever.  A lock is held by the call that has written the *)
(* row, so a payment's lock is held by a call that is past its last wait,  *)
(* and a centre's by a call that waits for a payment at most.              *)
(***************************************************************************)
OwnsRow(h, p) == call[h].row # Null /\ call[h].pay = p

\* A flush that is refused leaves its transaction open until the rollback.
OwnsCenter(h, c) ==
  \/ call[h].sub # Null /\ call[h].snap.center = c
  \/ call[h].stage = "failing"

LocksOwned ==
  /\ \A p \in Payments : rowlock[p] # Null => OwnsRow(rowlock[p], p)
  /\ \A c \in Centers : centerlock[c] # Null => OwnsCenter(centerlock[c], c)

\* What a step of a call does to the locks: it takes none from others, and
\* those it has after it are its own.
LEMMA LocksOfStep ==
  ASSUME Ledger, LocksOwned, NEW h \in Handlers, Steps(h) \/ Commit(h)
  PROVE  /\ \A p \in Payments : rowlock'[p] # Null =>
              IF rowlock'[p] = h THEN OwnsRow(h, p)' ELSE rowlock'[p] = rowlock[p]
         /\ \A c \in Centers : centerlock'[c] # Null =>
              IF centerlock'[c] = h THEN OwnsCenter(h, c)' ELSE centerlock'[c] = centerlock[c]
<1> USE DEF Ledger
<1>1. /\ call[h] \in Call
      /\ rowlock \in [Payments -> Handlers \cup {Null}]
      /\ centerlock \in [Centers -> Handlers \cup {Null}]
      /\ h # Null
  BY BillingAssumption DEF TypeOK
<1>2. /\ call[h].row # Null => call[h].stage \in {"answering", "closing"}
      /\ call[h].sub # Null => call[h].stage \in {"writing", "answering", "closing"}
  BY HeldIsActive
<1>3. /\ \A p \in Payments : rowlock[p] = h => OwnsRow(h, p)
      /\ \A c \in Centers : centerlock[c] = h => OwnsCenter(h, c)
  BY <1>1 DEF LocksOwned
<1>4. CASE Arrive(h)
  <2>1. call[h].stage = "idle" /\ UNCHANGED <<rowlock, centerlock>>
    BY <1>4, ArrivalCases DEF Ready, Accept
  <2>2. /\ \A p \in Payments : rowlock[p] # h
        /\ \A c \in Centers : centerlock[c] # h
    BY <1>2, <1>3, <2>1 DEF OwnsRow, OwnsCenter
  <2>3. QED  BY <2>1, <2>2
<1>5. CASE ExtendCenter(h)
  <2> DEFINE z == call[h].snap.center
             s == [plan |-> call[h].snap.plan,
                   until |-> call[h].at + Duration[call[h].snap.plan]]
  <2>1. call[h].stage = "extending" /\ UNCHANGED rowlock
    BY <1>5 DEF ExtendCenter, MayExtend
  <2>2. \A p \in Payments : rowlock[p] # h
    BY <1>2, <1>3, <2>1 DEF OwnsRow
  <2>3. \A c \in Centers : centerlock[c] # h
    BY <1>2, <1>3, <2>1 DEF OwnsCenter
  <2>4. CASE UNCHANGED centerlock
    BY <2>1, <2>2, <2>3, <2>4
  <2>5. CASE /\ call' = [call EXCEPT ![h].stage = "writing", ![h].sub = s]
             /\ centerlock' = [centerlock EXCEPT ![z] = h]
    <3>1. s # Null
      <4>1. call[h].stage \in Active
        BY <2>1 DEF Active, Stages
      <4>2. QED  BY <4>1, CallFacts, BillingAssumption, Nulls DEF Subscription, Time
    <3> HIDE DEF s
    <3>2. call'[h] = [call[h] EXCEPT !.stage = "writing", !.sub = s]
      BY <2>5 DEF TypeOK
    <3>3. call'[h].sub = s /\ call'[h].snap = call[h].snap
      BY <1>1, <3>2 DEF Call
    <3>4. \A c \in Centers : centerlock'[c] = IF c = z THEN h ELSE centerlock[c]
      BY <1>1, <2>5
    <3>5. \A c \in Centers : centerlock'[c] = h => OwnsCenter(h, c)'
      BY <2>3, <3>1, <3>3, <3>4 DEF OwnsCenter
    <3>6. \A p \in Payments : rowlock'[p] # h
      BY <2>1, <2>2
    <3>7. QED  BY <2>1, <3>4, <3>5, <3>6
  <2>6. QED  BY <1>5, <2>4, <2>5 DEF ExtendCenter
<1>6. CASE WritePayment(h)
  <2> DEFINE r == Flushed(payment[call[h].pay], call[h])
  <2>1. call[h].stage \in {"attaching", "writing"} /\ UNCHANGED centerlock
    BY <1>6 DEF WritePayment, MayWrite
  <2>2. call'[h] = [call[h] EXCEPT !.stage = "answering", !.row = r]
    BY <1>6 DEF WritePayment, TypeOK
  <2>3. r # Null
    <3>1. call[h].stage \in Active /\ Writes(call[h]) /\ PathOK(call[h])
      BY <2>1 DEF Active, Stages, Writes, CallsOK
    <3>2. r \in Row
      BY <3>1, CallFacts, FlushedRow, Nulls DEF PaymentsOK
    <3>3. QED  BY <3>2, Nulls
  <2> HIDE DEF r
  <2>4. /\ call'[h].row = r /\ call'[h].pay = call[h].pay
        /\ call'[h].sub = call[h].sub /\ call'[h].snap = call[h].snap
    BY <1>1, <2>2 DEF Call
  <2>5. \A p \in Payments : rowlock'[p] = IF p = call[h].pay THEN h ELSE rowlock[p]
    BY <1>1, <1>6 DEF WritePayment
  <2>6. \A p \in Payments : rowlock[p] # h
    BY <1>2, <1>3, <2>1 DEF OwnsRow
  <2>7. \A p \in Payments : rowlock'[p] = h => OwnsRow(h, p)'
    BY <2>3, <2>4, <2>5, <2>6 DEF OwnsRow
  <2>8. \A c \in Centers : centerlock[c] = h => OwnsCenter(h, c)'
    BY <1>3, <2>1, <2>4 DEF OwnsCenter
  <2>9. QED  BY <2>1, <2>5, <2>7, <2>8
<1>7. CASE ViolatesUnique(h)
  <2>1. /\ call[h].stage \in {"attaching", "writing"} /\ UNCHANGED <<rowlock, centerlock>>
        /\ call'[h].stage = "failing"
    BY <1>7 DEF ViolatesUnique, MayWrite, TypeOK, Failing
  <2>2. \A p \in Payments : rowlock[p] # h
    BY <1>2, <1>3, <2>1 DEF OwnsRow
  <2>3. QED  BY <2>1, <2>2 DEF OwnsCenter
<1>8. CASE Answer(h)
  <2>1. /\ call'[h] = [call[h] EXCEPT !.stage = "closing"]
        /\ call[h].stage = "answering" /\ UNCHANGED <<rowlock, centerlock>>
    BY <1>8 DEF Answer, TypeOK
  <2>2. /\ call'[h].row = call[h].row /\ call'[h].pay = call[h].pay
        /\ call'[h].sub = call[h].sub /\ call'[h].snap = call[h].snap
    BY <1>1, <2>1 DEF Call
  <2>3. QED  BY <1>3, <2>1, <2>2 DEF OwnsRow, OwnsCenter
<1>9. CASE ReleaseRows(h) /\ ReleaseCenters(h)
  BY <1>1, <1>9 DEF ReleaseRows, ReleaseCenters
<1>10. QED
  BY <1>4, <1>5, <1>6, <1>7, <1>8, <1>9
     DEF Steps, Rollback, DatabaseFails, WorkerDies, Commit

\* No lock is ever without the call that will release it.
LEMMA LocksStep ==
  ASSUME Ledger, LocksOwned, [Next]_vars
  PROVE  LocksOwned'
<1>1. CASE UNCHANGED <<rowlock, centerlock, call>>
  BY <1>1 DEF LocksOwned, OwnsRow, OwnsCenter
<1>2. ASSUME NEW h \in Handlers, Steps(h) \/ Commit(h)
      PROVE  LocksOwned'
  <2>1. \A g \in Handlers \ {h} : call'[g] = call[g]
    BY <1>2, StepsWriteNothing DEF Ledger, Commit, TypeOK
  <2>2. ASSUME NEW p \in Payments, rowlock'[p] # Null
        PROVE  OwnsRow(rowlock[p], p)'
    <3>1. CASE rowlock'[p] = h
      BY <1>2, <2>2, <3>1, LocksOfStep DEF OwnsRow
    <3>2. CASE rowlock'[p] # h
      <4>1. rowlock'[p] = rowlock[p]
        BY <1>2, <2>2, <3>2, LocksOfStep
      <4>2. rowlock[p] \in Handlers \ {h}
        BY <2>2, <3>2, <4>1 DEF Ledger, TypeOK
      <4>3. OwnsRow(rowlock[p], p)
        BY <2>2, <4>1 DEF LocksOwned
      <4>4. QED  BY <2>1, <4>1, <4>2, <4>3 DEF OwnsRow
    <3>3. QED  BY <3>1, <3>2
  <2>3. ASSUME NEW c \in Centers, centerlock'[c] # Null
        PROVE  OwnsCenter(centerlock[c], c)'
    <3>1. CASE centerlock'[c] = h
      BY <1>2, <2>3, <3>1, LocksOfStep DEF OwnsCenter
    <3>2. CASE centerlock'[c] # h
      <4>1. centerlock'[c] = centerlock[c]
        BY <1>2, <2>3, <3>2, LocksOfStep
      <4>2. centerlock[c] \in Handlers \ {h}
        BY <2>3, <3>2, <4>1 DEF Ledger, TypeOK
      <4>3. OwnsCenter(centerlock[c], c)
        BY <2>3, <4>1 DEF LocksOwned
      <4>4. QED  BY <2>1, <4>1, <4>2, <4>3 DEF OwnsCenter
    <3>3. QED  BY <3>1, <3>2
  <2>4. QED  BY <2>2, <2>3 DEF LocksOwned, OwnsRow, OwnsCenter
<1>3. QED
  BY <1>1, <1>2, NextCases DEF vars, Checkout, RemoveCenter, Tick

\* Who has written its payment waits for nothing; so whoever waits for a
\* payment or a reference waits for one that can go on, and whoever waits
\* for a centre waits for such a one or for one that waits for such a one.
LEMMA WaitsEnd ==
  ASSUME Ledger, LocksOwned, NEW h \in Handlers, call[h].stage # "idle"
  PROVE  \E g \in Handlers : CanProceed(g)
<1> USE DEF Ledger
<1>1. ASSUME NEW g \in Handlers, call[g].row # Null
      PROVE  CanProceed(g)
  BY <1>1, HeldIsActive DEF CanProceed
<1>2. ASSUME NEW g \in Handlers, call[g].stage \in {"attaching", "writing"}
      PROVE  \E k \in Handlers : CanProceed(k)
  <2> DEFINE p == call[g].pay
  <2>1. p \in Payments
    <3>1. call[g].stage \in Active
      BY <1>2 DEF Active, Stages
    <3>2. QED  BY <3>1, CallFacts
  <2>2. CASE rowlock[p] # Null
    <3>1. rowlock[p] \in Handlers /\ call[rowlock[p]].row # Null
      BY <2>1, <2>2 DEF TypeOK, LocksOwned, OwnsRow
    <3>2. QED  BY <1>1, <3>1
  <2>3. CASE Contended(p, call[g].ref)
    BY <1>1, <2>3 DEF Contended
  <2>4. CASE rowlock[p] = Null /\ ~Contended(p, call[g].ref)
    BY <1>2, <2>4 DEF CanProceed, MayWrite
  <2>5. QED  BY <2>2, <2>3, <2>4
<1>3. ASSUME call[h].stage = "extending"
      PROVE  \E k \in Handlers : CanProceed(k)
  <2> DEFINE c == call[h].snap.center
  <2>1. c \in Centers
    <3>1. call[h].stage \in Active
      BY <1>3 DEF Active, Stages
    <3>2. QED  BY <3>1, CallFacts
  <2>2. CASE centerlock[c] = Null
    BY <1>3, <2>2 DEF CanProceed, MayExtend
  <2>3. CASE centerlock[c] # Null
    <3>1. centerlock[c] \in Handlers /\ OwnsCenter(centerlock[c], c)
      BY <2>1, <2>3 DEF TypeOK, LocksOwned
    <3>2. call[centerlock[c]].stage \in {"writing", "answering", "closing", "failing"}
      BY <3>1, HeldIsActive DEF OwnsCenter
    <3>3. QED  BY <1>2, <3>1, <3>2 DEF CanProceed
  <2>4. QED  BY <2>2, <2>3
<1>4. call[h].stage \in Stages
  BY DEF TypeOK, Call
<1>5. QED  BY <1>2, <1>3, <1>4 DEF Stages, CanProceed

\* However webhooks overlap over payments, centres and references, and
\* whichever of them fail, they never all wait for each other.
THEOREM NobodyWaitsForEver == Spec => []SomeoneProceeds
<1>1. Ledger /\ LocksOwned => SomeoneProceeds
  BY WaitsEnd DEF SomeoneProceeds
<1>2. Init => LocksOwned
  BY DEF Init, LocksOwned
<1>3. Ledger /\ LocksOwned /\ [Next]_vars => LocksOwned'
  BY LocksStep
<1>4. QED  BY <1>1, <1>2, <1>3, LedgerInvariant, PTL DEF Spec

=============================================================================
