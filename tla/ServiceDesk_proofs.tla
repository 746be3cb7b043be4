------------------------- MODULE ServiceDesk_proofs -------------------------
(***************************************************************************)
(* Proofs about ServiceDesk for any number of services, clients, worker    *)
(* processes, requests and clock values, with every fault allowed.         *)
(*                                                                         *)
(* The argument.  A request that holds an uncommitted row holds the row    *)
(* lock, so that row was computed from the row that is still committed;    *)
(* committing it and appending its hop happen in one step; and a request   *)
(* number is used once.  FlightOK, LockOK and PastOK say so of each        *)
(* request, and Desk puts them together as the inductive invariant.        *)
(***************************************************************************)
EXTENDS ServiceDesk, TLAPS

\* The handler runs or has run, and its transaction is open.
Flying == Stages \ {"idle", "failing"}

\* What a request knows at each of its stages.
FlightOK(c) ==
  LET f == req[c] IN
  /\ f.stage # "idle" => sent[c] \in 1 .. MaxReq
  /\ f.stage \in Flying =>
       /\ f.svc \in Services
       /\ f.worker \in Workers
       /\ f.snap \in Row
       /\ f.at \in Time
  /\ f.stage \in {"validated", "flushed", "publishing"} => f.to \in Requestable
  /\ f.stage \in {"patching", "replacing", "deleting", "returning"} =>
       f.to = Null
  /\ f.to # Null => f.to \in ALLOWED[f.snap.status]
  /\ f.stage \in {"idle", "validated", "patching"} => f.row = Null

\* An uncommitted row is its holder's: it carries the committed status, or
\* the one the transition moves to.
LockOK(c) ==
  LET f == req[c] IN
  /\ f.row # Null =>
       /\ f.svc \in Services
       /\ lock[f.svc] = c
       /\ f.row.status = IF f.to = Null THEN db[f.svc].status ELSE f.to
  /\ f.stage \in {"flushed", "publishing", "closing"} /\ f.to # Null =>
       f.row # Null

\* No timeline is empty, and each hop in it was allowed.
HistoryOK ==
  /\ \A s \in Services : Len(timeline[s]) >= 1
  /\ HopsAllowed
  /\ StatusIsLastHop

Desk ==
  /\ TypeOK
  /\ \A c \in Clients : FlightOK(c) /\ LockOK(c)
  /\ HistoryOK

-----------------------------------------------------------------------------
\* The row that a transition leaves is a row, with the status asked for.
LEMMA UpdatedRowType ==
  ASSUME NEW cur \in Row, NEW snap \in Row, NEW to \in Requestable,
         NEW t \in Time
  PROVE  /\ UpdatedRow(cur, snap, to, t) \in Row
         /\ UpdatedRow(cur, snap, to, t).status = to
<1> DEFINE sa == IF to = IN_PROGRESS /\ snap.status = WAITING
                 THEN IF snap.started_at # Null THEN snap.started_at ELSE t
                 ELSE cur.started_at
           pa == IF ResumesPause(snap, to) THEN Null
                 ELSE IF to = PAUSED THEN t ELSE cur.paused_at
           el == IF ResumesPause(snap, to) /\ t > snap.paused_at
                 THEN snap.paused_elapsed_s + (t - snap.paused_at)
                 ELSE cur.paused_elapsed_s
           co == IF to = COMPLETED THEN t ELSE cur.completed_at
           ca == IF to = CANCELLED THEN t ELSE cur.cancelled_at
<1>1. to \in Statuses
  BY DEF Requestable, Statuses
<1>2. t \in Nat /\ t \in Time \cup {Null}
  BY DEF Time
<1>3. \A r \in Row : /\ r.started_at \in Time \cup {Null}
                     /\ r.paused_at \in Time \cup {Null}
                     /\ r.paused_elapsed_s \in Nat
                     /\ r.completed_at \in Time \cup {Null}
                     /\ r.cancelled_at \in Time \cup {Null}
  BY DEF Row
<1>4. el \in Nat
  <2>1. ResumesPause(snap, to) => snap.paused_at \in Nat
    BY <1>3 DEF ResumesPause, Time
  <2>2. QED  BY <2>1, <1>2, <1>3
<1>5. /\ sa \in Time \cup {Null} /\ pa \in Time \cup {Null}
      /\ co \in Time \cup {Null} /\ ca \in Time \cup {Null}
  BY <1>2, <1>3
<1>6. UpdatedRow(cur, snap, to, t)
        = [cur EXCEPT !.status = to, !.started_at = sa, !.paused_at = pa,
                      !.paused_elapsed_s = el, !.completed_at = co,
                      !.cancelled_at = ca]
  BY DEF UpdatedRow
<1> HIDE DEF sa, pa, el, co, ca
<1> DEFINE r == [cur EXCEPT !.status = to, !.started_at = sa,
                            !.paused_at = pa, !.paused_elapsed_s = el,
                            !.completed_at = co, !.cancelled_at = ca]
<1>7. r \in Row /\ r.status = to
  BY <1>1, <1>4, <1>5 DEF Row
<1>8. UpdatedRow(cur, snap, to, t) = r
  BY <1>6
<1> HIDE DEF r
<1>9. QED  BY <1>7, <1>8

\* A request stays a request when its stage changes ...
LEMMA StageType ==
  ASSUME NEW f \in Flight, NEW st \in Stages
  PROVE  [f EXCEPT !.stage = st] \in Flight
  BY DEF Flight

\* ... and its uncommitted row ...
LEMMA RowType ==
  ASSUME NEW f \in Flight, NEW st \in Stages, NEW r \in Row
  PROVE  [f EXCEPT !.stage = st, !.row = r] \in Flight
  BY DEF Flight

\* ... and a row stays a row when an edit is signed.
LEMMA EditedRow ==
  ASSUME NEW r \in Row, NEW q \in Requests
  PROVE  [r EXCEPT !.edited_by = q] \in Row
  BY DEF Row

LEMMA IdleType == Idle \in Flight
  BY DEF Idle, Flight, Stages

LEMMA CurType ==
  ASSUME TypeOK, NEW c \in Clients, sent[c] # 0
  PROVE  Cur(c) \in Requests
  BY DeskAssumption DEF TypeOK, Cur, Requests

-----------------------------------------------------------------------------
\* Every step keeps every variable of its kind.
LEMMA TypeStep ==
  ASSUME TypeOK, \A c \in Clients : FlightOK(c), [Next]_vars
  PROVE  TypeOK'
<1>1. ASSUME NEW c \in Clients, NEW w \in Workers, NEW s \in Services,
             NEW a \in Actors, NEW to \in Requestable, NEW h \in BOOLEAN,
             TransitionBegin(c, w, s, a, to, h)
      PROVE  TypeOK'
  <2> DEFINE f == [Idle EXCEPT !.stage = "validated", !.worker = w,
                               !.svc = s, !.actor = a, !.to = to,
                               !.snap = db[s], !.at = now]
  <2>1. f \in Flight
    BY DEF TypeOK, Flight, Stages, Idle, Requestable, Statuses
  <2>2. sent[c] + 1 \in 0 .. MaxReq
    BY <1>1, DeskAssumption DEF TransitionBegin, TypeOK
  <2> HIDE DEF f
  <2>3. req' = [req EXCEPT ![c] = f]
    BY <1>1 DEF TransitionBegin, f
  <2>4. QED
    BY <1>1, <2>1, <2>2, <2>3 DEF TransitionBegin, TypeOK
<1>2. ASSUME NEW c \in Clients, NEW w \in Workers, Refused(c, w)
      PROVE  TypeOK'
  <2> DEFINE f == [Idle EXCEPT !.stage = "failing", !.worker = w]
  <2>1. f \in Flight
    BY DEF Flight, Stages, Idle
  <2>2. sent[c] + 1 \in 0 .. MaxReq
    BY <1>2, DeskAssumption DEF Refused, TypeOK
  <2> HIDE DEF f
  <2>3. req' = [req EXCEPT ![c] = f]
    BY <1>2 DEF Refused, f
  <2>4. QED
    BY <1>2, <2>1, <2>2, <2>3 DEF Refused, TypeOK
<1>3. ASSUME NEW c \in Clients, NEW w \in Workers, NEW s \in Services,
             NEW a \in Actors, NEW what \in SUBSET {"fields", "items"},
             NEW h \in BOOLEAN, PatchBegin(c, w, s, a, what, h)
      PROVE  TypeOK'
  <2> DEFINE st == IF "fields" \in what THEN "patching" ELSE "replacing"
             f == [Idle EXCEPT !.stage = st, !.worker = w, !.svc = s,
                               !.actor = a, !.what = what, !.snap = db[s],
                               !.at = now]
  <2>1. st \in Stages
    BY DEF Stages
  <2> HIDE DEF st
  <2>2. f \in Flight
    BY <2>1 DEF TypeOK, Flight, Idle
  <2>3. sent[c] + 1 \in 0 .. MaxReq
    BY <1>3, DeskAssumption DEF PatchBegin, TypeOK
  <2> HIDE DEF f
  <2>4. req' = [req EXCEPT ![c] = f]
    BY <1>3 DEF PatchBegin, f, st
  <2>5. QED
    BY <1>3, <2>2, <2>3, <2>4 DEF PatchBegin, TypeOK
<1>4. ASSUME NEW c \in Clients, TransitionWrite(c)
      PROVE  TypeOK'
  <2> DEFINE r == UpdatedRow(db[req[c].svc], req[c].snap, req[c].to, req[c].at)
             f == [req[c] EXCEPT !.stage = "flushed", !.row = r]
  <2>1. r \in Row
    BY <1>4, UpdatedRowType DEF TransitionWrite, TypeOK, FlightOK, Flying,
       Stages
  <2>2. f \in Flight
    BY <2>1, RowType DEF TypeOK, Stages
  <2>3. Cur(c) \in Requests
    BY <1>4, CurType DEF TransitionWrite, FlightOK
  <2> HIDE DEF f
  <2>4. req' = [req EXCEPT ![c] = f]
    BY <1>4 DEF TransitionWrite, f
  <2>5. req[c].svc \in Services /\ req[c].worker \in Workers
    BY <1>4 DEF TransitionWrite, FlightOK, Flying, Stages
  <2>6. QED
    BY <1>4, <2>2, <2>3, <2>4, <2>5 DEF TransitionWrite, TypeOK
<1>5. ASSUME NEW c \in Clients, TransitionViolatesFk(c)
      PROVE  TypeOK'
  <2>1. [req[c] EXCEPT !.stage = "failing"] \in Flight
    BY StageType DEF TypeOK, Stages
  <2>2. Cur(c) \in Requests
    BY <1>5, CurType DEF TransitionViolatesFk, FlightOK
  <2>3. QED
    BY <1>5, <2>1, <2>2 DEF TransitionViolatesFk, TypeOK
<1>6. ASSUME NEW c \in Clients, PublishFirst(c)
      PROVE  TypeOK'
  <2>1. [req[c] EXCEPT !.stage = "publishing"] \in Flight
    BY StageType DEF TypeOK, Stages
  <2>2. Cur(c) \in Requests
    BY <1>6, CurType DEF PublishFirst, FlightOK
  <2>3. QED
    BY <1>6, <2>1, <2>2 DEF PublishFirst, TypeOK
<1>7. ASSUME NEW c \in Clients, TransitionReturn(c) \/ PatchReturn(c)
      PROVE  TypeOK'
  <2>1. [req[c] EXCEPT !.stage = "closing"] \in Flight
    BY StageType DEF TypeOK, Stages
  <2>2. QED
    BY <1>7, <2>1 DEF TransitionReturn, PatchReturn, TypeOK
<1>8. ASSUME NEW c \in Clients, PatchFields(c)
      PROVE  TypeOK'
  <2> DEFINE st == IF "items" \in req[c].what THEN "replacing" ELSE "returning"
             r == [db[req[c].svc] EXCEPT !.edited_by = Cur(c)]
             f == [req[c] EXCEPT !.stage = st, !.row = r]
  <2>1. Cur(c) \in Requests
    BY <1>8, CurType DEF PatchFields, FlightOK
  <2>2. req[c].svc \in Services
    BY <1>8 DEF PatchFields, FlightOK, Flying, Stages
  <2>3. r \in Row
    <3>1. db[req[c].svc] \in Row
      BY <2>2 DEF TypeOK
    <3> QED  BY <2>1, <3>1, EditedRow
  <2>4. f \in Flight
    BY <2>3, RowType DEF TypeOK, Stages
  <2> HIDE DEF f
  <2>5. req' = [req EXCEPT ![c] = f] /\ lock' = [lock EXCEPT ![req[c].svc] = c]
    BY <1>8 DEF PatchFields, f
  <2>6. /\ req' \in [Clients -> Flight]
        /\ lock' \in [Services -> Clients \cup {Null}]
    BY <2>2, <2>4, <2>5 DEF TypeOK
  <2> HIDE DEF r, st
  <2>7. QED
    BY <1>8, <2>6 DEF PatchFields, TypeOK
<1>9. ASSUME NEW c \in Clients, DeleteItems(c)
      PROVE  TypeOK'
  <2> DEFINE f == [req[c] EXCEPT !.stage = "deleting",
                                 !.victims = items[req[c].svc]]
  <2>1. items[req[c].svc] \subseteq Requests
    BY <1>9 DEF DeleteItems, FlightOK, Flying, Stages, TypeOK
  <2>2. req[c] \in Flight
    BY DEF TypeOK
  <2>3. f \in Flight
    BY <2>1, <2>2 DEF Flight, Stages
  <2> HIDE DEF f
  <2>4. req' = [req EXCEPT ![c] = f]
    BY <1>9 DEF DeleteItems, f
  <2>5. QED
    BY <1>9, <2>3, <2>4 DEF DeleteItems, TypeOK
<1>10. ASSUME NEW c \in Clients, InsertItems(c)
       PROVE  TypeOK'
  <2> DEFINE f == [req[c] EXCEPT !.stage = "returning", !.added = TRUE,
                     !.deleted = req[c].victims \cap items[req[c].svc]]
  <2>1. req[c] \in Flight
    BY DEF TypeOK
  <2>2. f \in Flight
    BY <2>1 DEF Flight, Stages
  <2> HIDE DEF f
  <2>3. req' = [req EXCEPT ![c] = f]
    BY <1>10 DEF InsertItems, f
  <2>4. req' \in [Clients -> Flight]
    BY <2>2, <2>3 DEF TypeOK
  <2>5. QED
    BY <1>10, <2>4 DEF InsertItems, TypeOK
<1>11. ASSUME NEW c \in Clients, Commit(c)
       PROVE  TypeOK'
  <2> DEFINE h == [from |-> req[c].snap.status, to |-> req[c].to,
                   at |-> req[c].at, by |-> Cur(c)]
  <2>1. Cur(c) \in Requests
    BY <1>11, CurType DEF Commit, FlightOK
  <2>2. req[c] \in Flight
    BY DEF TypeOK
  <2>3. req[c].svc \in Services /\ req[c].snap \in Row /\ req[c].at \in Time
    BY <1>11 DEF Commit, FlightOK, Flying, Stages
  <2>4. req[c].to # Null => h \in Hop
    BY <2>1, <2>2, <2>3 DEF Hop, Flight, Row
  <2> HIDE DEF h
  <2>5. db' \in [Services -> Row]
    BY <1>11, <2>2, <2>3 DEF Commit, TypeOK, Flight
  <2>6. items' \in [Services -> SUBSET Requests]
    BY <1>11, <2>1, <2>3 DEF Commit, TypeOK
  <2>7. timeline' \in [Services -> Seq(Hop)]
    BY <1>11, <2>3, <2>4 DEF Commit, TypeOK, h
  <2>8. lock' \in [Services -> Clients \cup {Null}]
    BY <1>11 DEF Commit, TypeOK, Unlocked
  <2>9. req' \in [Clients -> Flight]
    BY <1>11, IdleType DEF Commit, TypeOK
  <2>10. inbox' \subseteq Requests
    BY <1>11, <2>1 DEF Commit, TypeOK
  <2>11. QED
    BY <1>11, <2>5, <2>6, <2>7, <2>8, <2>9, <2>10 DEF Commit, TypeOK
<1>12. ASSUME NEW c \in Clients, Rollback(c)
       PROVE  TypeOK'
  BY <1>12, IdleType DEF Rollback, Unlocked, TypeOK
<1>13. ASSUME NEW c \in Clients, RedisFails(c)
       PROVE  TypeOK'
  <2>1. [req[c] EXCEPT !.stage = "failing"] \in Flight
    BY StageType DEF TypeOK, Stages
  <2>2. Cur(c) \in Requests
    BY <1>13, CurType DEF RedisFails, FlightOK
  <2>3. QED
    BY <1>13, <2>1, <2>2 DEF RedisFails, TypeOK
<1>14. ASSUME NEW c \in Clients, DatabaseFails(c)
       PROVE  TypeOK'
  <2> DEFINE f == [Idle EXCEPT !.stage = "failing", !.worker = req[c].worker]
  <2>1. req[c] \in Flight
    BY DEF TypeOK
  <2>2. f \in Flight
    BY <2>1 DEF Flight, Stages, Idle
  <2>3. Cur(c) \in Requests
    BY <1>14, CurType DEF DatabaseFails, FlightOK
  <2> HIDE DEF f
  <2>4. req' = [req EXCEPT ![c] = f]
    BY <1>14 DEF DatabaseFails, f
  <2>5. QED
    BY <1>14, <2>2, <2>3, <2>4 DEF DatabaseFails, Unlocked, TypeOK
<1>15. ASSUME NEW w \in Workers, WorkerDies(w)
       PROVE  TypeOK'
  BY <1>15, IdleType DEF WorkerDies, TypeOK
<1>16. ASSUME NEW w \in Workers, NEW q \in Requests, RunPush(w, q)
       PROVE  TypeOK'
  BY <1>16 DEF RunPush, TypeOK
<1>17. CASE Tick
  BY <1>17, DeskAssumption DEF Tick, Time, TypeOK
<1>18. CASE UNCHANGED vars
  BY <1>18 DEF vars, TypeOK
<1>19. QED
  BY <1>1, <1>2, <1>3, <1>4, <1>5, <1>6, <1>7, <1>8, <1>9, <1>10, <1>11,
     <1>12, <1>13, <1>14, <1>15, <1>16, <1>17, <1>18
     DEF Next, Arrive, Proceed, TransitionRefused, PatchRefused

-----------------------------------------------------------------------------
\* The invariant holds when every service is as create leaves it.
LEMMA InitDesk == Init => Desk
<1> SUFFICES ASSUME Init PROVE Desk
  OBVIOUS
<1>1. NewRow \in Row /\ NewRow.status = WAITING
  BY DEF NewRow, Row, Statuses
<1>2. FirstHop \in Hop /\ FirstHop.to = WAITING
  BY DeskAssumption DEF FirstHop, Hop, Time, Statuses
<1>3. TypeOK
  BY <1>1, <1>2, IdleType, DeskAssumption DEF Init, TypeOK, Time
<1>4. \A c \in Clients : FlightOK(c) /\ LockOK(c)
  BY DeskAssumption DEF Init, FlightOK, LockOK, Idle, Flying, Stages
<1>5. HistoryOK
  BY <1>1, <1>2 DEF Init, HistoryOK, HopsAllowed, StatusIsLastHop, Hops, Last
<1>6. QED  BY <1>3, <1>4, <1>5 DEF Desk

\* The ways in which a request arrives.
LEMMA ArriveCases ==
  ASSUME NEW c \in Clients, Arrive(c)
  PROVE  \E w \in Workers :
           \/ Refused(c, w)
           \/ \E s \in Services, a \in Actors, to \in Requestable,
                h \in BOOLEAN : TransitionBegin(c, w, s, a, to, h)
           \/ \E s \in Services, a \in Actors,
                what \in SUBSET {"fields", "items"}, h \in BOOLEAN :
                PatchBegin(c, w, s, a, what, h)
<1>1. PICK w \in Workers, s \in Services, a \in Actors :
        \/ \E to \in Requestable, h \in BOOLEAN :
             \/ TransitionBegin(c, w, s, a, to, h)
             \/ TransitionRefused(c, w, s, a, to, h)
        \/ \E what \in SUBSET {"fields", "items"}, h \in BOOLEAN :
             \/ PatchBegin(c, w, s, a, what, h)
             \/ PatchRefused(c, w, s, a, what, h)
  BY DEF Arrive
<1>2. QED
  BY <1>1 DEF TransitionRefused, PatchRefused

\* An arriving request reads: it writes no row, takes no row lock and tells
\* nobody.
LEMMA ArrivalWritesNothing ==
  ASSUME NEW c \in Clients, Arrive(c)
  PROVE  UNCHANGED <<db, items, timeline, inbox, lock, now, pushq,
                     announced, failed>>
<1> DEFINE same == UNCHANGED <<db, items, timeline, inbox, lock, now, pushq,
                               announced, failed>>
<1>1. ASSUME NEW w \in Workers, Refused(c, w)
      PROVE  same
  BY <1>1 DEF Refused
<1>2. ASSUME NEW w \in Workers, NEW s \in Services, NEW a \in Actors,
             NEW to \in Requestable, NEW h \in BOOLEAN,
             TransitionBegin(c, w, s, a, to, h)
      PROVE  same
  BY <1>2 DEF TransitionBegin
<1>3. ASSUME NEW w \in Workers, NEW s \in Services, NEW a \in Actors,
             NEW what \in SUBSET {"fields", "items"}, NEW h \in BOOLEAN,
             PatchBegin(c, w, s, a, what, h)
      PROVE  same
  BY <1>3 DEF PatchBegin
<1> HIDE DEF same
<1>4. same
  BY <1>1, <1>2, <1>3, ArriveCases
<1>5. QED  BY <1>4 DEF same

\* A request is changed by its own steps and by the death of its worker.
LEMMA OtherRequests ==
  ASSUME TypeOK, NEW c \in Clients, NEW d \in Clients \ {c},
         Arrive(c) \/ Proceed(c) \/ RedisFails(c) \/ DatabaseFails(c)
  PROVE  req'[d] = req[d] /\ sent'[d] = sent[d]
<1> USE DEF TypeOK
<1>1. CASE Arrive(c)
  <2>1. ASSUME NEW w \in Workers, Refused(c, w)
        PROVE  req'[d] = req[d] /\ sent'[d] = sent[d]
    BY <2>1 DEF Refused
  <2>2. ASSUME NEW w \in Workers, NEW s \in Services, NEW a \in Actors,
               NEW to \in Requestable, NEW h \in BOOLEAN,
               TransitionBegin(c, w, s, a, to, h)
        PROVE  req'[d] = req[d] /\ sent'[d] = sent[d]
    BY <2>2 DEF TransitionBegin
  <2>3. ASSUME NEW w \in Workers, NEW s \in Services, NEW a \in Actors,
               NEW what \in SUBSET {"fields", "items"}, NEW h \in BOOLEAN,
               PatchBegin(c, w, s, a, what, h)
        PROVE  req'[d] = req[d] /\ sent'[d] = sent[d]
    BY <2>3 DEF PatchBegin
  <2>4. PICK w \in Workers :
          \/ Refused(c, w)
          \/ \E s \in Services, a \in Actors, to \in Requestable,
               h \in BOOLEAN : TransitionBegin(c, w, s, a, to, h)
          \/ \E s \in Services, a \in Actors,
               what \in SUBSET {"fields", "items"}, h \in BOOLEAN :
               PatchBegin(c, w, s, a, what, h)
    BY <1>1, ArriveCases, Zenon
  <2>5. QED
    BY <2>1, <2>2, <2>3, <2>4
<1>2. CASE TransitionWrite(c) \/ TransitionViolatesFk(c)
  BY <1>2 DEF TransitionWrite, TransitionViolatesFk
<1>3. CASE PublishFirst(c) \/ TransitionReturn(c) \/ PatchReturn(c)
  BY <1>3 DEF PublishFirst, TransitionReturn, PatchReturn
<1>4. CASE PatchFields(c) \/ DeleteItems(c) \/ InsertItems(c)
  BY <1>4 DEF PatchFields, DeleteItems, InsertItems
<1>5. CASE Commit(c) \/ Rollback(c)
  BY <1>5 DEF Commit, Rollback
<1>6. CASE RedisFails(c) \/ DatabaseFails(c)
  BY <1>6 DEF RedisFails, DatabaseFails
<1>7. QED
  BY <1>1, <1>2, <1>3, <1>4, <1>5, <1>6 DEF Proceed

\* What a request knows stays true while it and the others proceed.
LEMMA FlightStep ==
  ASSUME TypeOK, \A c \in Clients : FlightOK(c), [Next]_vars, NEW d \in Clients
  PROVE  FlightOK(d)'
<1> USE DEF TypeOK
<1>1. FlightOK(d)
  OBVIOUS
<1>2. ASSUME req'[d] = req[d], sent'[d] = sent[d]
      PROVE  FlightOK(d)'
  BY <1>1, <1>2 DEF FlightOK
<1>3. ASSUME req'[d] = Idle
      PROVE  FlightOK(d)'
  BY <1>3 DEF FlightOK, Idle, Flying
<1>4. ASSUME NEW w \in Workers, NEW s \in Services, NEW a \in Actors,
             NEW to \in Requestable, NEW h \in BOOLEAN,
             TransitionBegin(d, w, s, a, to, h)
      PROVE  FlightOK(d)'
  BY <1>4, DeskAssumption
     DEF TransitionBegin, FlightOK, Idle, Flying, Stages, Valid
<1>5. ASSUME NEW w \in Workers, NEW s \in Services, NEW a \in Actors,
             NEW what \in SUBSET {"fields", "items"}, NEW h \in BOOLEAN,
             PatchBegin(d, w, s, a, what, h)
      PROVE  FlightOK(d)'
  BY <1>5, DeskAssumption
     DEF PatchBegin, FlightOK, Idle, Flying, Stages
<1>6. ASSUME NEW w \in Workers, Refused(d, w)
      PROVE  FlightOK(d)'
  BY <1>6, DeskAssumption DEF Refused, FlightOK, Idle, Flying
<1>7. CASE TransitionWrite(d)
  <2> DEFINE r == UpdatedRow(db[req[d].svc], req[d].snap, req[d].to, req[d].at)
  <2>1. /\ req[d].stage = "validated" /\ sent'[d] = sent[d]
        /\ req' = [req EXCEPT ![d] =
                     [req[d] EXCEPT !.stage = "flushed", !.row = r]]
    BY <1>7 DEF TransitionWrite
  <2> HIDE DEF r
  <2>2. QED
    BY <1>1, <2>1 DEF FlightOK, Flying, Stages, Flight
<1>8. ASSUME NEW st \in {"publishing", "closing", "failing"},
             req[d].stage \in {"validated", "flushed", "publishing",
                               "returning"},
             st = "publishing" => req[d].stage = "flushed",
             sent'[d] = sent[d],
             req' = [req EXCEPT ![d] = [req[d] EXCEPT !.stage = st]]
      PROVE  FlightOK(d)'
  BY <1>1, <1>8 DEF FlightOK, Flying, Stages, Flight
<1>9. CASE PatchFields(d)
  <2> DEFINE r == [db[req[d].svc] EXCEPT !.edited_by = Cur(d)]
             st == IF "items" \in req[d].what THEN "replacing" ELSE "returning"
  <2>1. /\ req[d].stage = "patching" /\ sent'[d] = sent[d]
        /\ req' = [req EXCEPT ![d] = [req[d] EXCEPT !.stage = st, !.row = r]]
    BY <1>9 DEF PatchFields
  <2>2. st \in {"replacing", "returning"}
    OBVIOUS
  <2> HIDE DEF r, st
  <2>3. QED
    BY <1>1, <2>1, <2>2 DEF FlightOK, Flying, Stages, Flight
<1>10. CASE DeleteItems(d) \/ InsertItems(d)
  <2>1. /\ req[d].stage \in {"replacing", "deleting"}
        /\ req'[d].stage \in {"deleting", "returning"}
        /\ req'[d].svc = req[d].svc /\ req'[d].worker = req[d].worker
        /\ req'[d].snap = req[d].snap /\ req'[d].at = req[d].at
        /\ req'[d].to = req[d].to
        /\ sent'[d] = sent[d]
    BY <1>10 DEF DeleteItems, InsertItems, Flight
  <2>2. QED
    BY <1>1, <2>1 DEF FlightOK, Flying, Stages
<1>11. CASE DatabaseFails(d)
  BY <1>1, <1>11, DeskAssumption DEF DatabaseFails, FlightOK, Idle, Flying
<1>12. CASE UNCHANGED vars
  BY <1>2, <1>12 DEF vars
<1>13. CASE Tick
  BY <1>2, <1>13 DEF Tick
<1>14. ASSUME NEW w \in Workers, WorkerDies(w)
       PROVE  FlightOK(d)'
  BY <1>2, <1>3, <1>14 DEF WorkerDies
<1>15. ASSUME NEW w \in Workers, NEW q \in Requests, RunPush(w, q)
       PROVE  FlightOK(d)'
  BY <1>2, <1>15 DEF RunPush
<1>16. ASSUME NEW c \in Clients \ {d},
              Arrive(c) \/ Proceed(c) \/ RedisFails(c) \/ DatabaseFails(c)
       PROVE  FlightOK(d)'
  BY <1>2, <1>16, OtherRequests
<1>18. CASE Arrive(d)
  BY <1>4, <1>5, <1>6, <1>18, ArriveCases, Zenon
<1>19. CASE Proceed(d)
  <2>1. CASE TransitionViolatesFk(d) \/ PublishFirst(d) \/ TransitionReturn(d)
               \/ PatchReturn(d)
    BY <1>8, <2>1
       DEF TransitionViolatesFk, PublishFirst, TransitionReturn, PatchReturn
  <2>2. CASE Commit(d) \/ Rollback(d)
    BY <1>3, <2>2 DEF Commit, Rollback
  <2>3. QED
    BY <1>7, <1>9, <1>10, <1>19, <2>1, <2>2 DEF Proceed
<1>20. CASE RedisFails(d)
  BY <1>8, <1>20 DEF RedisFails
<1>21. QED
  BY <1>2, <1>11, <1>12, <1>13, <1>14, <1>15, <1>16, <1>18, <1>19,
     <1>20 DEF Next

-----------------------------------------------------------------------------
\* A row lock passes from one request to another through NULL only, and the
\* rows that are committed are the ones their requests hold.
LEMMA LockKept ==
  ASSUME TypeOK, [Next]_vars, NEW d \in Clients, NEW s \in Services,
         lock[s] = d, req'[d] = req[d], req[d].stage # "idle",
         \A c \in Clients : LockOK(c) /\ FlightOK(c)
  PROVE  lock'[s] = d /\ db'[s] = db[s]
<1> USE DEF TypeOK
<1>1. ASSUME NEW c \in Clients, Arrive(c) \/ Proceed(c)
             \/ RedisFails(c) \/ DatabaseFails(c)
      PROVE  lock'[s] = d /\ db'[s] = db[s]
  <2>1. CASE Arrive(c)
    BY <2>1, ArrivalWritesNothing
  <2>2. CASE TransitionWrite(c) \/ TransitionViolatesFk(c)
    BY <2>2, DeskAssumption
       DEF TransitionWrite, TransitionViolatesFk, FlightOK, Flying, Stages
  <2>3. CASE PublishFirst(c) \/ TransitionReturn(c) \/ PatchReturn(c)
             \/ RedisFails(c)
    BY <2>3 DEF PublishFirst, TransitionReturn, PatchReturn, RedisFails
  <2>4. CASE PatchFields(c)
    BY <2>4, DeskAssumption DEF PatchFields, FlightOK, Flying, Stages
  <2>5. CASE DeleteItems(c) \/ InsertItems(c)
    BY <2>5 DEF DeleteItems, InsertItems
  <2>6. CASE Rollback(c) \/ DatabaseFails(c)
    <3>1. ASSUME Rollback(c) PROVE c # d
      BY <3>1 DEF Rollback, Idle
    <3>2. ASSUME DatabaseFails(c) PROVE c # d
      <4>1. req'[c].stage = "failing" /\ req[c].stage # "failing"
        BY <3>2 DEF DatabaseFails, Idle
      <4> QED  BY <4>1
    <3>3. QED
      BY <2>6, <3>1, <3>2 DEF Rollback, DatabaseFails, Unlocked
  <2>7. CASE Commit(c)
    <3>1. c # d
      BY <2>7 DEF Commit, Idle
    <3>2. lock'[s] = d
      BY <2>7, <3>1 DEF Commit, Unlocked
    <3>3. db'[s] = db[s]
      BY <2>7, <3>1 DEF Commit, LockOK
    <3>4. QED  BY <3>2, <3>3
  <2>8. QED
    BY <1>1, <2>1, <2>2, <2>3, <2>4, <2>5, <2>6, <2>7 DEF Proceed
<1>2. ASSUME NEW w \in Workers, WorkerDies(w)
      PROVE  lock'[s] = d /\ db'[s] = db[s]
  BY <1>2 DEF WorkerDies, Idle
<1>3. ASSUME NEW w \in Workers, NEW q \in Requests, RunPush(w, q)
      PROVE  lock'[s] = d /\ db'[s] = db[s]
  BY <1>3 DEF RunPush
<1>4. CASE Tick \/ UNCHANGED vars
  BY <1>4 DEF Tick, vars
<1>5. QED
  BY <1>1, <1>2, <1>3, <1>4 DEF Next

\* A request that holds an uncommitted row holds its lock, and the row still
\* follows from the committed one.
LEMMA LockStep ==
  ASSUME TypeOK, \A c \in Clients : FlightOK(c) /\ LockOK(c),
         [Next]_vars, NEW d \in Clients
  PROVE  LockOK(d)'
<1>1. LockOK(d) /\ FlightOK(d) /\ req[d] \in Flight
  BY DEF TypeOK
<1>2. ASSUME req'[d] = req[d]
      PROVE  LockOK(d)'
  <2>1. CASE req[d].row = Null
    BY <1>1, <1>2, <2>1 DEF LockOK
  <2>2. CASE req[d].row # Null
    <3>1. req[d].svc \in Services /\ lock[req[d].svc] = d
          /\ req[d].stage # "idle"
      BY <1>1, <2>2 DEF LockOK, FlightOK
    <3>2. lock'[req[d].svc] = d /\ db'[req[d].svc] = db[req[d].svc]
      BY <1>2, <3>1, LockKept
    <3>3. QED  BY <1>1, <1>2, <3>1, <3>2 DEF LockOK
  <2>3. QED  BY <2>1, <2>2
<1>3. ASSUME req'[d].row = Null,
             \/ req'[d].to = Null
             \/ req'[d].stage \notin {"flushed", "publishing", "closing"}
      PROVE  LockOK(d)'
  BY <1>3 DEF LockOK
<1>4. CASE Arrive(d)
  <2>1. ASSUME NEW w \in Workers, Refused(d, w)
        PROVE  LockOK(d)'
    BY <1>3, <2>1 DEF Refused, Idle, TypeOK
  <2>2. ASSUME NEW w \in Workers, NEW s \in Services, NEW a \in Actors,
               NEW to \in Requestable, NEW h \in BOOLEAN,
               TransitionBegin(d, w, s, a, to, h)
        PROVE  LockOK(d)'
    BY <1>3, <2>2 DEF TransitionBegin, Idle, TypeOK
  <2>3. ASSUME NEW w \in Workers, NEW s \in Services, NEW a \in Actors,
               NEW what \in SUBSET {"fields", "items"}, NEW h \in BOOLEAN,
               PatchBegin(d, w, s, a, what, h)
        PROVE  LockOK(d)'
    BY <1>3, <2>3 DEF PatchBegin, Idle, TypeOK
  <2>4. PICK w \in Workers :
          \/ Refused(d, w)
          \/ \E s \in Services, a \in Actors, to \in Requestable,
               h \in BOOLEAN : TransitionBegin(d, w, s, a, to, h)
          \/ \E s \in Services, a \in Actors,
               what \in SUBSET {"fields", "items"}, h \in BOOLEAN :
               PatchBegin(d, w, s, a, what, h)
    BY <1>4, ArriveCases, Zenon
  <2>5. QED
    BY <2>1, <2>2, <2>3, <2>4
<1>5. CASE TransitionWrite(d)
  <2> DEFINE r == UpdatedRow(db[req[d].svc], req[d].snap, req[d].to, req[d].at)
  <2>1. /\ req[d].stage = "validated"
        /\ req' = [req EXCEPT ![d] =
                     [req[d] EXCEPT !.stage = "flushed", !.row = r]]
        /\ lock' = [lock EXCEPT ![req[d].svc] = d]
    BY <1>5 DEF TransitionWrite
  <2>2. /\ req[d].svc \in Services /\ req[d].snap \in Row
        /\ req[d].at \in Time /\ req[d].to \in Requestable
    BY <1>1, <2>1 DEF FlightOK, Flying, Stages
  <2>3. req[d].to # Null
    BY <2>2, DeskAssumption DEF Requestable, Statuses
  <2>4. r \in Row /\ r.status = req[d].to
    <3>1. db[req[d].svc] \in Row
      BY <2>2 DEF TypeOK
    <3> HIDE DEF r
    <3>2. r = UpdatedRow(db[req[d].svc], req[d].snap, req[d].to, req[d].at)
      BY DEF r
    <3> QED  BY <2>2, <3>1, <3>2, UpdatedRowType
  <2> HIDE DEF r
  <2>5. /\ req'[d].row = r /\ req'[d].svc = req[d].svc
        /\ req'[d].to = req[d].to
    BY <1>1, <2>1 DEF TypeOK, Flight
  <2>6. lock'[req[d].svc] = d
    BY <2>1, <2>2 DEF TypeOK
  <2>7. QED
    BY <2>2, <2>3, <2>4, <2>5, <2>6, RowAssumption DEF LockOK
<1>6. ASSUME NEW st \in {"publishing", "closing", "failing"},
             req[d].stage \in {"flushed", "publishing", "returning"},
             UNCHANGED <<lock, db>>,
             req' = [req EXCEPT ![d] = [req[d] EXCEPT !.stage = st]]
      PROVE  LockOK(d)'
  BY <1>1, <1>6 DEF LockOK, FlightOK, TypeOK, Flight
<1>7. CASE TransitionViolatesFk(d)
  <2>1. /\ req[d].stage = "validated"
        /\ req' = [req EXCEPT ![d] = [req[d] EXCEPT !.stage = "failing"]]
    BY <1>7 DEF TransitionViolatesFk
  <2>2. QED
    BY <1>1, <1>3, <2>1 DEF FlightOK, TypeOK, Flight
<1>8. CASE PatchFields(d)
  <2> DEFINE r == [db[req[d].svc] EXCEPT !.edited_by = Cur(d)]
             st == IF "items" \in req[d].what THEN "replacing" ELSE "returning"
  <2>1. /\ req[d].stage = "patching" /\ UNCHANGED db
        /\ req' = [req EXCEPT ![d] = [req[d] EXCEPT !.stage = st, !.row = r]]
        /\ lock' = [lock EXCEPT ![req[d].svc] = d]
    BY <1>8 DEF PatchFields
  <2>2. req[d].svc \in Services /\ req[d].to = Null
    BY <1>1, <2>1 DEF FlightOK, Flying, Stages
  <2>3. r.status = db[req[d].svc].status
    BY <2>2 DEF TypeOK, Row
  <2> HIDE DEF r, st
  <2>4. /\ req'[d].row = r /\ req'[d].svc = req[d].svc
        /\ req'[d].to = Null
    BY <1>1, <2>1, <2>2 DEF TypeOK, Flight
  <2>5. lock'[req[d].svc] = d
    BY <2>1, <2>2 DEF TypeOK
  <2>6. QED
    BY <2>1, <2>2, <2>3, <2>4, <2>5 DEF LockOK
<1>9. CASE DeleteItems(d) \/ InsertItems(d)
  <2>1. /\ req[d].stage \in {"replacing", "deleting"}
        /\ req'[d].svc = req[d].svc /\ req'[d].row = req[d].row
        /\ req'[d].to = req[d].to
        /\ UNCHANGED <<lock, db>>
    BY <1>1, <1>9 DEF DeleteItems, InsertItems, TypeOK, Flight
  <2>2. req[d].to = Null
    BY <1>1, <2>1 DEF FlightOK
  <2>3. QED
    BY <1>1, <2>1, <2>2 DEF LockOK
<1>10. CASE Commit(d) \/ Rollback(d)
  BY <1>3, <1>10 DEF Commit, Rollback, Idle, TypeOK
<1>11. CASE DatabaseFails(d)
  BY <1>3, <1>11 DEF DatabaseFails, Idle, TypeOK
<1>12. ASSUME NEW w \in Workers, WorkerDies(w)
       PROVE  LockOK(d)'
  <2>1. req'[d] = req[d] \/ req'[d] = Idle
    BY <1>12 DEF WorkerDies
  <2>2. QED
    BY <1>2, <1>3, <2>1 DEF Idle
<1>13. ASSUME NEW w \in Workers, NEW q \in Requests, RunPush(w, q)
       PROVE  LockOK(d)'
  BY <1>2, <1>13 DEF RunPush
<1>14. CASE Tick \/ UNCHANGED vars
  BY <1>2, <1>14 DEF Tick, vars
<1>15. CASE TransitionReturn(d) \/ PatchReturn(d) \/ PublishFirst(d)
             \/ RedisFails(d)
  <2>1. CASE TransitionReturn(d)
    BY <1>6, <2>1 DEF TransitionReturn
  <2>2. CASE PatchReturn(d)
    BY <1>6, <2>2 DEF PatchReturn
  <2>3. CASE PublishFirst(d)
    BY <1>6, <2>3 DEF PublishFirst
  <2>4. CASE RedisFails(d)
    BY <1>6, <2>4 DEF RedisFails
  <2>5. QED  BY <1>15, <2>1, <2>2, <2>3, <2>4
<1>16. ASSUME NEW c \in Clients \ {d},
              Arrive(c) \/ Proceed(c) \/ RedisFails(c) \/ DatabaseFails(c)
       PROVE  LockOK(d)'
  BY <1>2, <1>16, OtherRequests
<1>17. CASE Proceed(d)
  BY <1>5, <1>7, <1>8, <1>9, <1>10, <1>15, <1>17 DEF Proceed
<1>18. QED
  BY <1>4, <1>11, <1>12, <1>13, <1>14, <1>15, <1>16, <1>17 DEF Next

-----------------------------------------------------------------------------
\* Rows, timelines and the inbox change in a commit only.
LEMMA OnlyCommitWrites ==
  ASSUME [Next]_vars, \A c \in Clients : ~Commit(c)
  PROVE  UNCHANGED <<db, timeline, inbox>>
<1>1. ASSUME NEW c \in Clients, Arrive(c)
      PROVE  UNCHANGED <<db, timeline, inbox>>
  BY <1>1, ArrivalWritesNothing
<1>2. ASSUME NEW c \in Clients,
             TransitionWrite(c) \/ TransitionViolatesFk(c) \/ PublishFirst(c)
             \/ TransitionReturn(c) \/ RedisFails(c)
      PROVE  UNCHANGED <<db, timeline, inbox>>
  BY <1>2 DEF TransitionWrite, TransitionViolatesFk, PublishFirst,
     TransitionReturn, RedisFails
<1>3. ASSUME NEW c \in Clients,
             PatchFields(c) \/ DeleteItems(c) \/ InsertItems(c)
             \/ PatchReturn(c) \/ Rollback(c) \/ DatabaseFails(c)
      PROVE  UNCHANGED <<db, timeline, inbox>>
  BY <1>3 DEF PatchFields, DeleteItems, InsertItems, PatchReturn, Rollback,
     DatabaseFails
<1>4. ASSUME NEW w \in Workers, WorkerDies(w)
      PROVE  UNCHANGED <<db, timeline, inbox>>
  BY <1>4 DEF WorkerDies
<1>5. ASSUME NEW w \in Workers, NEW q \in Requests, RunPush(w, q)
      PROVE  UNCHANGED <<db, timeline, inbox>>
  BY <1>5 DEF RunPush
<1>6. CASE Tick \/ UNCHANGED vars
  BY <1>6 DEF Tick, vars
<1>7. QED
  BY <1>1, <1>2, <1>3, <1>4, <1>5, <1>6 DEF Next, Proceed

\* What a commit does: nothing to the timelines, or one hop at the end of
\* one of them and its request into the inbox.
LEMMA CommitRecords ==
  ASSUME TypeOK, NEW c \in Clients, FlightOK(c), LockOK(c), Commit(c)
  PROVE  /\ req[c].svc \in Services
         /\ \A s \in Services \ {req[c].svc} :
              timeline'[s] = timeline[s] /\ db'[s] = db[s]
         /\ \/ /\ UNCHANGED <<timeline, inbox>>
               /\ db'[req[c].svc].status = db[req[c].svc].status
            \/ \E h : /\ h.by = Cur(c)
                       /\ h.to \in ALLOWED[h.from]
                       /\ timeline'[req[c].svc]
                            = Append(timeline[req[c].svc], h)
                       /\ db'[req[c].svc].status = h.to
                       /\ inbox' = inbox \cup {Cur(c)}
<1> DEFINE s0 == req[c].svc
           h0 == [from |-> req[c].snap.status, to |-> req[c].to,
                  at |-> req[c].at, by |-> Cur(c)]
<1>1. s0 \in Services /\ req[c].stage = "closing"
  BY DEF Commit, FlightOK, Flying, Stages
<1>2. \A s \in Services \ {s0} : timeline'[s] = timeline[s] /\ db'[s] = db[s]
  BY <1>1 DEF Commit, TypeOK
<1>3. CASE req[c].to = Null
  <2>1. UNCHANGED <<timeline, inbox>>
    BY <1>3 DEF Commit
  <2>2. db'[s0].status = db[s0].status
    BY <1>1, <1>3 DEF Commit, LockOK, TypeOK
  <2>3. QED  BY <1>1, <1>2, <2>1, <2>2
<1>4. CASE req[c].to # Null
  <2>1. req[c].row # Null /\ req[c].row.status = req[c].to
    BY <1>1, <1>4 DEF LockOK
  <2>2. db'[s0].status = req[c].to
    BY <1>1, <2>1 DEF Commit, TypeOK
  <2>3. /\ timeline' = [timeline EXCEPT ![s0] = Append(timeline[s0], h0)]
        /\ inbox' = inbox \cup {Cur(c)}
    BY <1>4 DEF Commit
  <2>4. h0.to \in ALLOWED[h0.from] /\ h0.by = Cur(c) /\ h0.to = req[c].to
    BY <1>4 DEF FlightOK
  <2> HIDE DEF h0
  <2>5. timeline'[s0] = Append(timeline[s0], h0)
    BY <1>1, <2>3 DEF TypeOK
  <2>6. QED
    BY <1>1, <1>2, <2>2, <2>3, <2>4, <2>5
<1>5. QED  BY <1>3, <1>4

\* The timelines stay allowed and in step with the rows.
LEMMA HistoryStep ==
  ASSUME Desk, TypeOK', [Next]_vars
  PROVE  HistoryOK'
<1>1. CASE \A c \in Clients : ~Commit(c)
  <2>1. UNCHANGED <<db, timeline>>
    BY <1>1, OnlyCommitWrites
  <2>2. QED
    BY <2>1 DEF Desk, HistoryOK, HopsAllowed, StatusIsLastHop, Hops, Last
<1>2. ASSUME NEW c \in Clients, Commit(c)
      PROVE  HistoryOK'
  <2> DEFINE s0 == req[c].svc
  <2>1. /\ s0 \in Services
        /\ \A s \in Services \ {s0} :
             timeline'[s] = timeline[s] /\ db'[s] = db[s]
        /\ \/ /\ timeline' = timeline
              /\ db'[s0].status = db[s0].status
           \/ \E h : /\ h.to \in ALLOWED[h.from]
                      /\ timeline'[s0] = Append(timeline[s0], h)
                      /\ db'[s0].status = h.to
    BY <1>2, CommitRecords DEF Desk
  <2>2. CASE timeline' = timeline /\ db'[s0].status = db[s0].status
    BY <2>1, <2>2 DEF Desk, HistoryOK, HopsAllowed, StatusIsLastHop, Hops, Last
  <2>3. ASSUME NEW h, h.to \in ALLOWED[h.from], db'[s0].status = h.to,
               timeline'[s0] = Append(timeline[s0], h)
        PROVE  HistoryOK'
    <3>1. timeline[s0] \in Seq(Hop) /\ timeline'[s0] \in Seq(Hop)
      BY <2>1 DEF Desk, TypeOK
    <3>2. /\ Len(timeline'[s0]) = Len(timeline[s0]) + 1
          /\ Len(timeline[s0]) \in Nat
          /\ timeline'[s0][Len(timeline[s0]) + 1] = h
          /\ \A i \in 1 .. Len(timeline[s0]) :
               timeline'[s0][i] = timeline[s0][i]
      BY <2>3, <3>1
    <3>3. \A s \in Services : Len(timeline'[s]) >= 1
      BY <2>1, <3>2 DEF Desk, HistoryOK
    <3>4. HopsAllowed'
      <4> SUFFICES ASSUME NEW s \in Services, NEW i \in 2 .. Len(timeline'[s])
                   PROVE  timeline'[s][i].to \in ALLOWED[timeline'[s][i].from]
        BY DEF HopsAllowed, Hops
      <4>1. \A t \in Services : \A j \in 2 .. Len(timeline[t]) :
              timeline[t][j].to \in ALLOWED[timeline[t][j].from]
        BY DEF Desk, HistoryOK, HopsAllowed, Hops
      <4>2. CASE s # s0
        BY <2>1, <4>1, <4>2
      <4>3. CASE s = s0
        <5>1. i = Len(timeline[s0]) + 1 \/ i \in 2 .. Len(timeline[s0])
          BY <3>2, <4>3
        <5>2. CASE i = Len(timeline[s0]) + 1
          BY <2>3, <3>2, <4>3, <5>2
        <5>3. CASE i \in 2 .. Len(timeline[s0])
          <6>1. timeline'[s0][i] = timeline[s0][i]
            BY <3>2, <5>3
          <6>2. QED  BY <2>1, <4>1, <4>3, <5>3, <6>1
        <5>4. QED  BY <5>1, <5>2, <5>3
      <4>4. QED  BY <4>2, <4>3
    <3>5. StatusIsLastHop'
      BY <2>1, <2>3, <3>2 DEF Desk, HistoryOK, StatusIsLastHop, Last
    <3>6. QED  BY <3>3, <3>4, <3>5 DEF HistoryOK
  <2>4. QED  BY <2>1, <2>2, <2>3
<1>3. QED  BY <1>1, <1>2

LEMMA DeskStep ==
  ASSUME Desk, [Next]_vars
  PROVE  Desk'
<1>1. TypeOK'
  BY TypeStep DEF Desk
<1>2. \A c \in Clients : FlightOK(c)' /\ LockOK(c)'
  BY FlightStep, LockStep DEF Desk
<1>3. HistoryOK'
  BY <1>1, HistoryStep
<1>4. QED  BY <1>1, <1>2, <1>3 DEF Desk

LEMMA DeskInvariant == Spec => []Desk
<1>1. Desk /\ [Next]_vars => Desk'
  BY DeskStep
<1>2. QED  BY <1>1, InitDesk, PTL DEF Spec

\* Every variable keeps its kind: no step of any request, failure or crash
\* writes a value that the tables and handlers do not hold.
THEOREM TypeCorrect == Spec => []TypeOK
<1>1. Desk => TypeOK
  BY DEF Desk
<1>2. QED  BY <1>1, DeskInvariant, PTL

\* However the requests of any number of clients overlap and fail, every
\* move that is recorded is one of the status graph.
THEOREM RecordedMovesAllowed == Spec => []HopsAllowed
<1>1. Desk => HopsAllowed
  BY DEF Desk, HistoryOK
<1>2. QED  BY <1>1, DeskInvariant, PTL

\* However they overlap and fail, the status of a service is the target of
\* the last row of its timeline.
THEOREM StatusFollowsTimeline == Spec => []StatusIsLastHop
<1>1. Desk => StatusIsLastHop
  BY DEF Desk, HistoryOK
<1>2. QED  BY <1>1, DeskInvariant, PTL

-----------------------------------------------------------------------------
\* A request number is used once: those that are recorded or failed have
\* been sent, a request in flight is not recorded yet, and one whose
\* transaction is open has not failed.
PastOK ==
  /\ inbox = Committed
  /\ failed \cap inbox = {}
  /\ \A q \in inbox \cup failed : q[2] <= sent[q[1]]
  /\ \A c \in Clients :
       /\ req[c].stage # "idle" => Cur(c) \notin inbox
       /\ req[c].stage \in Flying => Cur(c) \notin failed

HopsDiffer ==
  \A s, t \in Services :
    \A i \in 2 .. Len(timeline[s]), j \in 2 .. Len(timeline[t]) :
      timeline[s][i].by = timeline[t][j].by => s = t /\ i = j

\* Only a new request starts the life of a request number.
LEMMA RequestLife ==
  ASSUME TypeOK, [Next]_vars, NEW d \in Clients
  PROVE  \/ /\ sent'[d] = sent[d]
            /\ req'[d].stage # "idle" => req[d].stage # "idle"
            /\ req'[d].stage \in Flying => req[d].stage \in Flying
         \/ sent'[d] = sent[d] + 1
<1> DEFINE goes == /\ sent'[d] = sent[d]
                   /\ req'[d].stage # "idle" => req[d].stage # "idle"
                   /\ req'[d].stage \in Flying => req[d].stage \in Flying
           goal == goes \/ sent'[d] = sent[d] + 1
<1>1. CASE Arrive(d)
  <2>1. ASSUME NEW w \in Workers, Refused(d, w)
        PROVE  sent'[d] = sent[d] + 1
    BY <2>1 DEF Refused, TypeOK
  <2>2. ASSUME NEW w \in Workers, NEW s \in Services, NEW a \in Actors,
               NEW to \in Requestable, NEW h \in BOOLEAN,
               TransitionBegin(d, w, s, a, to, h)
        PROVE  sent'[d] = sent[d] + 1
    BY <2>2 DEF TransitionBegin, TypeOK
  <2>3. ASSUME NEW w \in Workers, NEW s \in Services, NEW a \in Actors,
               NEW what \in SUBSET {"fields", "items"}, NEW h \in BOOLEAN,
               PatchBegin(d, w, s, a, what, h)
        PROVE  sent'[d] = sent[d] + 1
    BY <2>3 DEF PatchBegin, TypeOK
  <2>4. PICK w \in Workers :
          \/ Refused(d, w)
          \/ \E s \in Services, a \in Actors, to \in Requestable,
               h \in BOOLEAN : TransitionBegin(d, w, s, a, to, h)
          \/ \E s \in Services, a \in Actors,
               what \in SUBSET {"fields", "items"}, h \in BOOLEAN :
               PatchBegin(d, w, s, a, what, h)
    BY <1>1, ArriveCases, Zenon
  <2>5. QED
    BY <2>1, <2>2, <2>3, <2>4
<1>2. CASE TransitionWrite(d) \/ TransitionViolatesFk(d)
  BY <1>2 DEF TransitionWrite, TransitionViolatesFk, TypeOK, Flying, Stages,
     Flight
<1>3. CASE PublishFirst(d) \/ TransitionReturn(d) \/ PatchReturn(d)
           \/ RedisFails(d)
  BY <1>3 DEF PublishFirst, TransitionReturn, PatchReturn, RedisFails, TypeOK,
     Flying, Stages, Flight
<1>4. CASE PatchFields(d) \/ DeleteItems(d) \/ InsertItems(d)
  BY <1>4 DEF PatchFields, DeleteItems, InsertItems, TypeOK, Flying, Stages,
     Flight
<1>5. CASE Commit(d) \/ Rollback(d)
  BY <1>5 DEF Commit, Rollback, TypeOK, Idle, Flying
<1>6. CASE DatabaseFails(d)
  BY <1>6 DEF DatabaseFails, TypeOK, Idle, Flying
<1>7. ASSUME NEW w \in Workers, WorkerDies(w)
      PROVE  goal
  BY <1>7 DEF WorkerDies, Idle, Flying
<1>8. ASSUME NEW w \in Workers, NEW q \in Requests, RunPush(w, q)
      PROVE  goal
  BY <1>8 DEF RunPush
<1>9. CASE Tick \/ UNCHANGED vars
  BY <1>9 DEF Tick, vars
<1>10. ASSUME NEW c \in Clients \ {d},
              Arrive(c) \/ Proceed(c) \/ RedisFails(c) \/ DatabaseFails(c)
       PROVE  goal
  BY <1>10, OtherRequests
<1>11. QED
  BY <1>1, <1>2, <1>3, <1>4, <1>5, <1>6, <1>7, <1>8, <1>9, <1>10
     DEF Next, Proceed

\* A request fails while its transaction is open, and that ends it.
LEMMA FailedStep ==
  ASSUME TypeOK, \A c \in Clients : FlightOK(c), [Next]_vars
  PROVE  \/ failed' = failed
         \/ \E c \in Clients :
              /\ req[c].stage \in Flying /\ req'[c].stage = "failing"
              /\ failed' = failed \cup {Cur(c)}
              /\ UNCHANGED <<timeline, inbox, sent>>
<1> DEFINE goal ==
      \/ failed' = failed
      \/ \E c \in Clients :
           /\ req[c].stage \in Flying /\ req'[c].stage = "failing"
           /\ failed' = failed \cup {Cur(c)}
           /\ UNCHANGED <<timeline, inbox, sent>>
<1>1. ASSUME NEW c \in Clients, Arrive(c)
      PROVE  goal
  BY <1>1, ArrivalWritesNothing
<1>2. ASSUME NEW c \in Clients,
             TransitionWrite(c) \/ PublishFirst(c) \/ TransitionReturn(c)
             \/ PatchFields(c) \/ DeleteItems(c) \/ InsertItems(c)
             \/ PatchReturn(c) \/ Commit(c) \/ Rollback(c)
      PROVE  goal
  BY <1>2 DEF TransitionWrite, PublishFirst, TransitionReturn, PatchFields,
     DeleteItems, InsertItems, PatchReturn, Commit, Rollback
<1>3. ASSUME NEW c \in Clients, TransitionViolatesFk(c) \/ RedisFails(c)
      PROVE  goal
  <2>1. /\ req[c].stage \in {"validated", "flushed", "publishing"}
        /\ req' = [req EXCEPT ![c] = [req[c] EXCEPT !.stage = "failing"]]
        /\ failed' = failed \cup {Cur(c)}
        /\ UNCHANGED <<timeline, inbox, sent>>
    BY <1>3 DEF TransitionViolatesFk, RedisFails
  <2>2. req[c].stage \in Flying /\ req'[c].stage = "failing"
    BY <2>1 DEF Flying, Stages, TypeOK, Flight
  <2>3. QED  BY <2>1, <2>2
<1>4. ASSUME NEW c \in Clients, DatabaseFails(c)
      PROVE  goal
  BY <1>4 DEF DatabaseFails, Flying, Stages, TypeOK, Idle, Flight
<1>5. ASSUME NEW w \in Workers, WorkerDies(w)
      PROVE  goal
  BY <1>5 DEF WorkerDies
<1>6. ASSUME NEW w \in Workers, NEW q \in Requests, RunPush(w, q)
      PROVE  goal
  BY <1>6 DEF RunPush
<1>7. ASSUME Tick \/ UNCHANGED vars
      PROVE  goal
  BY <1>7 DEF Tick, vars
<1> HIDE DEF goal
<1>8. ASSUME NEW c \in Clients, Arrive(c) \/ Proceed(c)
      PROVE  goal
  BY <1>1, <1>2, <1>3, <1>8 DEF Proceed
<1>9. goal
  BY <1>3, <1>4, <1>5, <1>6, <1>7, <1>8 DEF Next
<1>10. QED  BY <1>9 DEF goal

\* The part that no commit disturbs.
LEMMA PastKept ==
  ASSUME Desk, TypeOK', PastOK, [Next]_vars, UNCHANGED <<timeline, inbox>>
  PROVE  PastOK'
<1> USE DEF TypeOK
<1>1. Committed' = Committed
  BY DEF Committed, Hops
<1>2. \A c \in Clients : Cur(c)' = <<c, sent'[c]>> /\ Cur(c) = <<c, sent[c]>>
  BY DEF Cur
<1>3. TypeOK /\ \A c \in Clients : FlightOK(c)
  BY DEF Desk
<1>4. \A q \in inbox \cup failed : q[1] \in Clients /\ q \in Requests
  BY <1>3 DEF Requests
<1>5. \A c \in Clients : sent'[c] = sent[c] \/ sent'[c] = sent[c] + 1
  BY <1>3, RequestLife
<1>6. \A c \in Clients : sent[c] \in Nat /\ sent'[c] \in Nat
  BY <1>3, DeskAssumption
<1>7. ASSUME NEW c \in Clients
      PROVE  /\ req'[c].stage # "idle" => Cur(c)' \notin inbox
             /\ req'[c].stage \in Flying => Cur(c)' \notin failed
  <2>1. CASE sent'[c] = sent[c] + 1
    <3>1. \A q \in inbox \cup failed : q # Cur(c)'
      BY <1>2, <1>6, <2>1 DEF PastOK
    <3>2. QED  BY <3>1
  <2>2. CASE /\ sent'[c] = sent[c]
             /\ req'[c].stage # "idle" => req[c].stage # "idle"
             /\ req'[c].stage \in Flying => req[c].stage \in Flying
    BY <1>2, <2>2 DEF PastOK
  <2>3. QED  BY <1>3, <2>1, <2>2, RequestLife
<1>8. CASE failed' = failed
  <2>1. \A q \in inbox' \cup failed' : q[2] <= sent'[q[1]]
    <3> SUFFICES ASSUME NEW q \in inbox \cup failed
                 PROVE  q[2] <= sent'[q[1]]
      BY <1>8
    <3>1. q[1] \in Clients /\ q[2] \in Nat
      BY <1>4, DeskAssumption DEF Requests
    <3>2. q[2] <= sent[q[1]]
      BY DEF PastOK
    <3>3. sent'[q[1]] = sent[q[1]] \/ sent'[q[1]] = sent[q[1]] + 1
      BY <1>5, <3>1
    <3>4. sent[q[1]] \in Nat
      BY <1>6, <3>1
    <3>5. QED  BY <3>1, <3>2, <3>3, <3>4
  <2>2. QED
    BY <1>1, <1>7, <1>8, <2>1 DEF PastOK
<1>9. ASSUME NEW c \in Clients, req[c].stage \in Flying,
             req'[c].stage = "failing", failed' = failed \cup {Cur(c)},
             UNCHANGED sent
      PROVE  PastOK'
  <2>1. Cur(c) \notin inbox
    BY <1>9 DEF PastOK, Flying
  <2>2. Cur(c)[1] = c /\ Cur(c)[2] = sent[c]
    BY DEF Cur
  <2>3. \A q \in inbox' \cup failed' : q[2] <= sent'[q[1]]
    BY <1>6, <1>9, <2>2 DEF PastOK
  <2>4. ASSUME NEW d \in Clients, req'[d].stage \in Flying
        PROVE  Cur(d)' \notin failed'
    <3>1. d # c
      BY <1>9, <2>4 DEF Flying
    <3>2. Cur(d)' # Cur(c)
      BY <1>2, <3>1
    <3>3. QED  BY <1>7, <1>9, <2>4, <3>2
  <2>5. QED
    BY <1>1, <1>7, <1>9, <2>1, <2>3, <2>4 DEF PastOK
<1>10. QED
  BY <1>3, <1>8, <1>9, FailedStep

\* The hops of different requests stay different: a commit adds the hop of a
\* request that is in no timeline.
LEMMA CommitPast ==
  ASSUME Desk, TypeOK', PastOK, HopsDiffer, NEW c \in Clients, Commit(c)
  PROVE  PastOK' /\ HopsDiffer'
<1> DEFINE s0 == req[c].svc
<1>1. TypeOK /\ FlightOK(c) /\ LockOK(c)
  BY DEF Desk
<1>2. /\ failed' = failed /\ sent' = sent /\ req'[c] = Idle
      /\ \A d \in Clients \ {c} : req'[d] = req[d]
      /\ req[c].stage = "closing"
  BY <1>1 DEF Commit, TypeOK
<1>3. Cur(c) \notin inbox /\ Cur(c) \notin failed
  BY <1>2 DEF PastOK, Flying, Stages
<1>4. \A d \in Clients : Cur(d)' = Cur(d)
  BY <1>2 DEF Cur
<1>5. CASE UNCHANGED <<timeline, inbox>>
  <2>1. Committed' = Committed
    BY <1>5 DEF Committed, Hops
  <2>2. PastOK'
    BY <1>2, <1>4, <1>5, <2>1 DEF PastOK, Idle, Flying
  <2>3. HopsDiffer'
    BY <1>5 DEF HopsDiffer
  <2>4. QED  BY <2>2, <2>3
<1>6. ASSUME NEW h, h.by = Cur(c), s0 \in Services,
             timeline'[s0] = Append(timeline[s0], h),
             \A s \in Services \ {s0} : timeline'[s] = timeline[s],
             inbox' = inbox \cup {Cur(c)}
      PROVE  PastOK' /\ HopsDiffer'
  <2> DEFINE n == Len(timeline[s0]) + 1
  <2>1. timeline[s0] \in Seq(Hop) /\ Len(timeline[s0]) >= 1
    BY <1>1, <1>6 DEF TypeOK, Desk, HistoryOK
  <2>2. /\ Len(timeline'[s0]) = n /\ n \in Nat /\ n >= 2
        /\ timeline'[s0][n] = h
        /\ \A i \in 1 .. Len(timeline[s0]) :
             timeline'[s0][i] = timeline[s0][i]
    BY <1>6, <2>1
  <2>3. \A s \in Services : \A i \in 2 .. Len(timeline'[s]) :
          \/ s = s0 /\ i = n
          \/ i \in 2 .. Len(timeline[s]) /\ timeline'[s][i] = timeline[s][i]
    <3> SUFFICES ASSUME NEW s \in Services, NEW i \in 2 .. Len(timeline'[s])
                 PROVE  \/ s = s0 /\ i = n
                        \/ /\ i \in 2 .. Len(timeline[s])
                           /\ timeline'[s][i] = timeline[s][i]
      OBVIOUS
    <3>1. CASE s # s0
      BY <1>6, <3>1
    <3>2. CASE s = s0
      <4>1. i = n \/ i \in 2 .. Len(timeline[s0])
        BY <2>1, <2>2, <3>2
      <4>2. ASSUME i \in 2 .. Len(timeline[s0])
            PROVE  timeline'[s0][i] = timeline[s0][i]
        BY <2>1, <2>2, <4>2
      <4>3. QED  BY <3>2, <4>1, <4>2
    <3>3. QED  BY <3>1, <3>2
  <2>4. \A s \in Services : \A i \in 2 .. Len(timeline[s]) :
          i \in 2 .. Len(timeline'[s]) /\ timeline'[s][i] = timeline[s][i]
    <3> SUFFICES ASSUME NEW s \in Services, NEW i \in 2 .. Len(timeline[s])
                 PROVE  /\ i \in 2 .. Len(timeline'[s])
                        /\ timeline'[s][i] = timeline[s][i]
      OBVIOUS
    <3>1. CASE s # s0
      BY <1>6, <3>1
    <3>2. CASE s = s0
      <4>1. i \in 2 .. Len(timeline[s0])
        BY <3>2
      <4>2. /\ i \in 1 .. Len(timeline[s0])
            /\ i \in 2 .. Len(timeline'[s0])
        BY <2>1, <2>2, <4>1
      <4>3. QED  BY <2>2, <3>2, <4>2
    <3>3. QED  BY <3>1, <3>2
  <2>5. \A q : q \in Committed <=>
          \E s \in Services : \E i \in 2 .. Len(timeline[s]) :
            q = timeline[s][i].by
    BY DEF Committed, Hops
  <2>6. \A q : q \in Committed' <=>
          \E s \in Services : \E i \in 2 .. Len(timeline'[s]) :
            q = timeline'[s][i].by
    BY DEF Committed, Hops
  <2> HIDE DEF n
  <2>7. Committed' = Committed \cup {Cur(c)}
    <3>1. \A q : q \in Committed' => q \in Committed \cup {Cur(c)}
      BY <1>6, <2>2, <2>3, <2>5, <2>6
    <3>2. Cur(c) \in Committed'
      <4>1. n \in 2 .. Len(timeline'[s0]) /\ timeline'[s0][n].by = Cur(c)
        BY <1>6, <2>2
      <4>2. QED  BY <1>6, <2>6, <4>1
    <3>3. \A q : q \in Committed => q \in Committed'
      BY <2>4, <2>5, <2>6
    <3>4. QED  BY <3>1, <3>2, <3>3
  <2>8. PastOK'
    <3>1. Cur(c)[1] = c /\ Cur(c)[2] = sent[c] /\ sent[c] \in Int
      BY <1>1, DeskAssumption DEF Cur, TypeOK
    <3>2. \A d \in Clients \ {c} : Cur(d) # Cur(c)
      BY DEF Cur
    <3>3. inbox' = Committed' /\ failed' \cap inbox' = {}
      BY <1>2, <1>3, <1>6, <2>7 DEF PastOK
    <3>4. \A q \in inbox' \cup failed' : q[2] <= sent'[q[1]]
      BY <1>2, <1>6, <3>1 DEF PastOK
    <3>5. \A d \in Clients :
            /\ req'[d].stage # "idle" => Cur(d)' \notin inbox'
            /\ req'[d].stage \in Flying => Cur(d)' \notin failed'
      BY <1>2, <1>4, <1>6, <3>2 DEF PastOK, Idle, Flying
    <3>6. QED  BY <3>3, <3>4, <3>5 DEF PastOK
  <2>9. HopsDiffer'
    <3>1. \A s \in Services : \A i \in 2 .. Len(timeline[s]) :
            timeline[s][i].by # Cur(c)
      BY <1>3, <2>5 DEF PastOK
    <3> SUFFICES ASSUME NEW s \in Services, NEW t \in Services,
                        NEW i \in 2 .. Len(timeline'[s]),
                        NEW j \in 2 .. Len(timeline'[t]),
                        timeline'[s][i].by = timeline'[t][j].by
                 PROVE  s = t /\ i = j
      BY DEF HopsDiffer
    <3>a. timeline'[s0][n].by = Cur(c)
      BY <1>6, <2>2
    <3>2. CASE s = s0 /\ i = n
      <4>1. ASSUME ~(t = s0 /\ j = n)  PROVE FALSE
        <5>1. j \in 2 .. Len(timeline[t]) /\ timeline'[t][j] = timeline[t][j]
          BY <2>3, <4>1
        <5> QED  BY <3>1, <3>2, <3>a, <5>1
      <4> QED  BY <3>2, <4>1
    <3>3. CASE t = s0 /\ j = n
      <4>1. ASSUME ~(s = s0 /\ i = n)  PROVE FALSE
        <5>1. i \in 2 .. Len(timeline[s]) /\ timeline'[s][i] = timeline[s][i]
          BY <2>3, <4>1
        <5> QED  BY <3>1, <3>3, <3>a, <5>1
      <4> QED  BY <3>3, <4>1
    <3>4. CASE ~(s = s0 /\ i = n) /\ ~(t = s0 /\ j = n)
      <4>1. /\ i \in 2 .. Len(timeline[s])
            /\ timeline'[s][i] = timeline[s][i]
        BY <2>3, <3>4
      <4>2. /\ j \in 2 .. Len(timeline[t])
            /\ timeline'[t][j] = timeline[t][j]
        BY <2>3, <3>4
      <4>3. timeline[s][i].by = timeline[t][j].by
        BY <4>1, <4>2
      <4>4. QED  BY <4>1, <4>2, <4>3 DEF HopsDiffer
    <3>5. QED  BY <3>2, <3>3, <3>4
  <2>10. QED  BY <2>8, <2>9
<1>7. QED
  BY <1>1, <1>5, <1>6, CommitRecords

LEMMA PastInvariant == Spec => [](PastOK /\ HopsDiffer)
<1>1. Init => PastOK /\ HopsDiffer
  BY DeskAssumption DEF Init, PastOK, HopsDiffer, Committed, Hops, Idle, Flying
<1>2. Desk /\ Desk' /\ PastOK /\ HopsDiffer /\ [Next]_vars
        => PastOK' /\ HopsDiffer'
  <2> SUFFICES ASSUME Desk, Desk', PastOK, HopsDiffer, [Next]_vars
               PROVE  PastOK' /\ HopsDiffer'
    OBVIOUS
  <2>1. CASE \A c \in Clients : ~Commit(c)
    <3>1. UNCHANGED <<timeline, inbox>>
      BY <2>1, OnlyCommitWrites
    <3>2. PastOK'
      BY <3>1, PastKept DEF Desk
    <3>3. QED  BY <3>1, <3>2 DEF HopsDiffer
  <2>2. ASSUME NEW c \in Clients, Commit(c)
        PROVE  PastOK' /\ HopsDiffer'
    BY <2>2, CommitPast DEF Desk
  <2>3. QED  BY <2>1, <2>2
<1>3. QED  BY <1>1, <1>2, DeskInvariant, PTL DEF Spec

\* Every recorded move has its inbox row, and no request is recorded twice,
\* whatever fails and however requests overlap.
THEOREM NotifiedOnce == Spec => []OneNoticePerHop
<1>1. PastOK /\ HopsDiffer => OneNoticePerHop
  BY DEF PastOK, HopsDiffer, OneNoticePerHop
<1>2. QED  BY <1>1, PastInvariant, PTL

\* A request that was answered 500 is in no timeline.
THEOREM FailedIsUnrecorded == Spec => []FailureLeavesNoTrace
<1>1. PastOK => FailureLeavesNoTrace
  BY DEF PastOK, FailureLeavesNoTrace
<1>2. QED  BY <1>1, PastInvariant, PTL
=============================================================================
