--------------------- MODULE ServiceDesk_serial_proofs ---------------------
(***************************************************************************)
(* Proofs about ServiceDesk with one caller at a time, for any number of   *)
(* services, workers, requests and clock values, with every fault allowed: *)
(* requests of one caller do not overlap, as the docstrings of the code    *)
(* assume.                                                                 *)
(*                                                                         *)
(* The argument.  Nobody else commits while a request is in flight, so     *)
(* what it read is the committed row to its end; it went on only because   *)
(* that row is not terminal; and the row it flushes is computed from one   *)
(* row, not from two.  Alone says so, and Serial is the invariant.         *)
(***************************************************************************)
EXTENDS ServiceDesk_proofs, Induction

OneCaller == \A c, d \in Clients : c = d

\* What a request that overlaps no other knows of its service.
Alone(c) ==
  LET f == req[c] IN
  f.stage \in Flying =>
    /\ f.snap = db[f.svc]
    /\ f.snap.status \notin TERMINAL
    /\ f.row # Null =>
         IF f.to = Null THEN \E by : f.row = [f.snap EXCEPT !.edited_by = by]
         ELSE f.row = UpdatedRow(f.snap, f.snap, f.to, f.at)

\* The timestamps of one row tell its status.
Stamped(r) ==
  /\ r.completed_at # Null <=> r.status = COMPLETED
  /\ r.cancelled_at # Null <=> r.status = CANCELLED
  /\ r.started_at = Null => r.status \in {WAITING, CANCELLED}
  /\ r.status = PAUSED => r.paused_at # Null
  /\ r.paused_at # Null => r.status \in {PAUSED, CANCELLED}

Serial ==
  /\ Desk
  /\ \A c \in Clients : Alone(c)
  /\ \A s \in Services : Stamped(db[s])

-----------------------------------------------------------------------------
\* The row a transition leaves, computed from one row, is stamped as its new
\* status says.
LEMMA TransitionStamps ==
  ASSUME NEW r \in Row, Stamped(r), NEW to \in ALLOWED[r.status], NEW t \in Time
  PROVE  Stamped(UpdatedRow(r, r, to, t))
<1>1. t # Null /\ r.status \in Statuses
  BY DeskAssumption DEF Time, Row
<1>2. QED
  BY <1>1 DEF UpdatedRow, Row, Stamped, ResumesPause, ALLOWED, Statuses,
     WAITING, IN_PROGRESS, PAUSED, COMPLETED, CANCELLED

\* A patch of the other columns changes no stamp.
LEMMA PatchStamps ==
  ASSUME NEW r \in Row, Stamped(r), NEW by
  PROVE  Stamped([r EXCEPT !.edited_by = by])
  BY DEF Row, Stamped

-----------------------------------------------------------------------------
LEMMA SerialInit == Init => Serial
<1> SUFFICES ASSUME Init PROVE Serial
  OBVIOUS
<1>1. Desk
  BY InitDesk
<1>2. \A c \in Clients : Alone(c)
  BY DEF Init, Alone, Idle, Flying
<1>3. \A s \in Services : Stamped(db[s])
  BY DEF Init, NewRow, Stamped, WAITING, COMPLETED, CANCELLED, PAUSED
<1>4. QED  BY <1>1, <1>2, <1>3 DEF Serial

\* Nothing but a commit writes an item.
LEMMA OnlyCommitChangesItems ==
  ASSUME [Next]_vars, \A c \in Clients : ~Commit(c)
  PROVE  UNCHANGED items
<1>1. ASSUME NEW c \in Clients, Arrive(c)
      PROVE  UNCHANGED items
  BY <1>1, ArrivalWritesNothing
<1>2. ASSUME NEW c \in Clients,
             TransitionWrite(c) \/ TransitionViolatesFk(c) \/ PublishFirst(c)
             \/ TransitionReturn(c) \/ RedisFails(c)
      PROVE  UNCHANGED items
  BY <1>2 DEF TransitionWrite, TransitionViolatesFk, PublishFirst,
     TransitionReturn, RedisFails
<1>3. ASSUME NEW c \in Clients,
             PatchFields(c) \/ DeleteItems(c) \/ InsertItems(c)
             \/ PatchReturn(c) \/ Rollback(c) \/ DatabaseFails(c)
      PROVE  UNCHANGED items
  BY <1>3 DEF PatchFields, DeleteItems, InsertItems, PatchReturn, Rollback,
     DatabaseFails
<1>4. CASE \E w \in Workers : WorkerDies(w) \/ \E q \in Requests : RunPush(w, q)
  BY <1>4 DEF WorkerDies, RunPush
<1>5. CASE Tick \/ UNCHANGED vars
  BY <1>5 DEF Tick, vars
<1>6. QED
  BY <1>1, <1>2, <1>3, <1>4, <1>5 DEF Next, Proceed

\* An arriving request reads the committed row and goes on if it is not
\* terminal.
LEMMA ArrivesAlone ==
  ASSUME Desk, NEW c \in Clients, Arrive(c)
  PROVE  Alone(c)'
<1> USE DEF Desk, TypeOK
<1>1. ASSUME NEW w \in Workers, Refused(c, w)
      PROVE  Alone(c)'
  BY <1>1 DEF Refused, Alone, Idle, Flying
<1>2. ASSUME NEW w \in Workers, NEW s \in Services, NEW a \in Actors,
             NEW to \in Requestable, NEW h \in BOOLEAN,
             TransitionBegin(c, w, s, a, to, h)
      PROVE  Alone(c)'
  BY <1>2 DEF TransitionBegin, Valid, Alone, Idle
<1>3. ASSUME NEW w \in Workers, NEW s \in Services, NEW a \in Actors,
             NEW what \in SUBSET {"fields", "items"}, NEW h \in BOOLEAN,
             PatchBegin(c, w, s, a, what, h)
      PROVE  Alone(c)'
  BY <1>3 DEF PatchBegin, MayPatch, Alone, Idle
<1>4. PICK w \in Workers :
        \/ Refused(c, w)
        \/ \E s \in Services, a \in Actors, to \in Requestable,
             h \in BOOLEAN : TransitionBegin(c, w, s, a, to, h)
        \/ \E s \in Services, a \in Actors,
             what \in SUBSET {"fields", "items"}, h \in BOOLEAN :
             PatchBegin(c, w, s, a, what, h)
  BY ArriveCases, Zenon
<1>5. QED
  BY <1>1, <1>2, <1>3, <1>4

\* What a request knows stays true while nobody else commits.
LEMMA AloneStep ==
  ASSUME OneCaller, Desk, NEW c \in Clients, Alone(c), [Next]_vars
  PROVE  Alone(c)'
<1> USE DEF Desk, TypeOK
<1>1. FlightOK(c) /\ LockOK(c) /\ req[c] \in Flight
  OBVIOUS
<1>2. CASE Arrive(c)
  BY <1>2, ArrivesAlone
<1>3. CASE TransitionWrite(c)
  <2>1. /\ req'[c] = [req[c] EXCEPT !.stage = "flushed",
                        !.row = UpdatedRow(db[req[c].svc], req[c].snap, req[c].to, req[c].at)]
        /\ db' = db /\ req[c].stage = "validated" /\ req[c].stage \in Flying
    BY <1>3 DEF TransitionWrite, Flying, Stages
  <2>2. req[c].to # Null /\ req[c].snap = db[req[c].svc] /\ req[c].snap.status \notin TERMINAL
    BY <1>1, <2>1, DeskAssumption DEF FlightOK, Alone, Requestable, Statuses
  <2>3. /\ req'[c].snap = req[c].snap /\ req'[c].svc = req[c].svc
        /\ req'[c].to = req[c].to /\ req'[c].at = req[c].at
        /\ req'[c].row = UpdatedRow(req[c].snap, req[c].snap, req[c].to, req[c].at)
    BY <1>1, <2>1, <2>2 DEF Flight
  <2> QED  BY <2>1, <2>2, <2>3 DEF Alone
<1>4. CASE PatchFields(c)
  <2>1. /\ req[c].stage = "patching" /\ req[c].stage \in Flying /\ db' = db
        /\ req'[c].row = [db[req[c].svc] EXCEPT !.edited_by = Cur(c)]
        /\ req'[c].snap = req[c].snap /\ req'[c].svc = req[c].svc
        /\ req'[c].to = req[c].to
    BY <1>1, <1>4 DEF PatchFields, Flying, Stages, Flight
  <2>2. req[c].to = Null /\ req[c].snap = db[req[c].svc] /\ req[c].snap.status \notin TERMINAL
    BY <1>1, <2>1 DEF FlightOK, Alone
  <2> QED  BY <2>1, <2>2 DEF Alone
<1>5. ASSUME /\ db' = db
             /\ req'[c].stage \in Flying => req[c].stage \in Flying
             /\ \/ req'[c].stage \notin Flying
                \/ /\ req'[c].snap = req[c].snap /\ req'[c].svc = req[c].svc
                   /\ req'[c].to = req[c].to /\ req'[c].at = req[c].at
                   /\ req'[c].row = req[c].row
      PROVE  Alone(c)'
  BY <1>5 DEF Alone
<1>6. CASE PublishFirst(c) \/ TransitionReturn(c) \/ PatchReturn(c)
  <2>1. /\ db' = db /\ req[c].stage \in Flying
        /\ \E st \in Stages : req'[c] = [req[c] EXCEPT !.stage = st]
    BY <1>6 DEF PublishFirst, TransitionReturn, PatchReturn, Flying, Stages
  <2> QED  BY <1>1, <1>5, <2>1 DEF Flight
<1>7. CASE TransitionViolatesFk(c) \/ RedisFails(c) \/ Rollback(c) \/ DatabaseFails(c)
  <2>1. db' = db
    BY <1>7 DEF TransitionViolatesFk, RedisFails, Rollback, DatabaseFails
  <2>2. CASE TransitionViolatesFk(c) \/ RedisFails(c)
    BY <1>1, <1>5, <2>1, <2>2 DEF TransitionViolatesFk, RedisFails, Flying, Flight
  <2>3. CASE Rollback(c)
    BY <1>5, <2>1, <2>3 DEF Rollback, Idle, Flying
  <2>4. CASE DatabaseFails(c)
    BY <1>5, <2>1, <2>4 DEF DatabaseFails, Idle, Flying
  <2> QED  BY <1>7, <2>2, <2>3, <2>4
<1>8. CASE DeleteItems(c) \/ InsertItems(c)
  BY <1>1, <1>5, <1>8 DEF DeleteItems, InsertItems, Flying, Stages, Flight
<1>9. CASE Commit(c)
  BY <1>9 DEF Commit, Alone, Idle, Flying
<1>10. CASE \E w \in Workers : WorkerDies(w)
  BY <1>5, <1>10 DEF WorkerDies, Idle, Flying
<1>11. CASE \E w \in Workers, q \in Requests : RunPush(w, q)
  BY <1>5, <1>11 DEF RunPush
<1>12. CASE Tick \/ UNCHANGED vars
  BY <1>5, <1>12 DEF Tick, vars
<1>13. \A d \in Clients : d = c
  BY DEF OneCaller
<1> QED
  BY <1>2, <1>3, <1>4, <1>6, <1>7, <1>8, <1>9, <1>10, <1>11, <1>12, <1>13 DEF Next, Proceed

\* A commit writes the row that its request computed from the one it read,
\* of a service that was not terminal.
LEMMA CommitSerial ==
  ASSUME Serial, NEW c \in Clients, Commit(c)
  PROVE  LET f == req[c] IN
         /\ f.svc \in Services /\ db[f.svc].status \notin TERMINAL
         /\ Stamped(db'[f.svc])
         /\ \A s \in Services \ {f.svc} : UNCHANGED <<db[s], items[s], timeline[s]>>
<1> USE DEF Serial, Desk, TypeOK
<1>1. /\ req[c].stage = "closing" /\ req[c].stage \in Flying
      /\ FlightOK(c) /\ LockOK(c) /\ Alone(c)
  BY DEF Commit, Flying, Stages
<1>2. /\ req[c].svc \in Services /\ req[c].snap \in Row /\ req[c].at \in Time
      /\ req[c].snap = db[req[c].svc] /\ req[c].snap.status \notin TERMINAL
  BY <1>1 DEF FlightOK, Alone
<1>3. \A s \in Services \ {req[c].svc} :
        db'[s] = db[s] /\ items'[s] = items[s] /\ timeline'[s] = timeline[s]
  BY <1>2 DEF Commit
<1>4. Stamped(db[req[c].svc])
  BY <1>2
<1>5. CASE req[c].row = Null
  BY <1>2, <1>3, <1>4, <1>5 DEF Commit
<1>6. CASE req[c].row # Null
  <2>1. db'[req[c].svc] = req[c].row
    BY <1>2, <1>6 DEF Commit
  <2>2. CASE req[c].to = Null
    <3>1. PICK by : req[c].row = [req[c].snap EXCEPT !.edited_by = by]
      BY <1>1, <1>6, <2>2 DEF Alone
    <3>2. Stamped(req[c].snap)
      BY <1>2, <1>4
    <3>3. Stamped([req[c].snap EXCEPT !.edited_by = by])
      BY <1>2, <3>2, PatchStamps
    <3>4. Stamped(req[c].row)
      BY <3>1, <3>3
    <3> QED  BY <1>2, <1>3, <2>1, <3>4
  <2>3. CASE req[c].to # Null
    <3>1. req[c].to \in ALLOWED[req[c].snap.status]
      BY <1>1, <2>3 DEF FlightOK
    <3>2. req[c].row = UpdatedRow(req[c].snap, req[c].snap, req[c].to, req[c].at)
      BY <1>1, <1>6, <2>3 DEF Alone
    <3>3. Stamped(req[c].row)
      BY <1>2, <1>4, <3>1, <3>2, TransitionStamps
    <3> QED  BY <1>2, <1>3, <2>1, <3>3
  <2> QED  BY <2>2, <2>3
<1> QED  BY <1>5, <1>6

LEMMA SerialStep ==
  ASSUME OneCaller, Serial, [Next]_vars
  PROVE  Serial'
<1>1. Desk'
  BY DeskStep DEF Serial
<1>2. \A c \in Clients : Alone(c)'
  BY AloneStep DEF Serial
<1>3. \A s \in Services : Stamped(db[s])'
  <2>1. CASE \E c \in Clients : Commit(c)
    <3>1. PICK c \in Clients : Commit(c)
      BY <2>1
    <3>2. /\ req[c].svc \in Services /\ Stamped(db'[req[c].svc])
          /\ \A s \in Services \ {req[c].svc} : db'[s] = db[s]
      BY <3>1, CommitSerial
    <3> QED  BY <3>2 DEF Serial, Stamped
  <2>2. CASE \A c \in Clients : ~Commit(c)
    BY <2>2, OnlyCommitWrites DEF Serial, Stamped
  <2> QED  BY <2>1, <2>2
<1> QED  BY <1>1, <1>2, <1>3 DEF Serial

LEMMA SerialInvariant == ASSUME OneCaller PROVE Spec => []Serial
<1>1. Serial /\ [Next]_vars => Serial'
  BY SerialStep
<1> QED  BY <1>1, SerialInit, PTL DEF Spec

\* While requests do not overlap, the timestamps of a service tell its
\* status (docstring of services/service.py), over all of its moves, patches,
\* failures and crashes.
THEOREM StampsTellStatus == ASSUME OneCaller PROVE Spec => []StampsMatchStatus
<1>1. Serial => StampsMatchStatus
  BY DEF Serial, Stamped, StampsMatchStatus
<1> QED  BY <1>1, SerialInvariant, PTL

\* While requests do not overlap, a completed or cancelled service never
\* changes again: row, items and timeline.
THEOREM TerminalStaysFinal == ASSUME OneCaller PROVE Spec => TerminalIsFinal
<1> DEFINE Stays == \A s \in Services : db[s].status \in TERMINAL =>
                      /\ db'[s] = db[s]
                      /\ items'[s] = items[s]
                      /\ timeline'[s] = timeline[s]
<1>1. Serial /\ [Next]_vars => Stays
  <2> SUFFICES ASSUME Serial, [Next]_vars PROVE Stays
    OBVIOUS
  <2>1. CASE \E c \in Clients : Commit(c)
    BY <2>1, CommitSerial
  <2>2. CASE \A c \in Clients : ~Commit(c)
    BY <2>2, OnlyCommitWrites, OnlyCommitChangesItems
  <2> QED  BY <2>1, <2>2
<1>2. Serial /\ [Next]_vars => [Stays]_vars
  BY <1>1
<1> HIDE DEF Stays
<1>3. Spec => [][Stays]_vars
  BY <1>2, SerialInvariant, PTL DEF Spec
<1> QED  BY <1>3 DEF TerminalIsFinal, Stays

-----------------------------------------------------------------------------
(***************************************************************************)
(* The pause ledger.  A sum over a timeline is a recursive function, so    *)
(* two facts about it come first: it is what its equation says, and a hop  *)
(* at the end adds its own window and leaves the others.                   *)
(***************************************************************************)
\* A window is a difference of two clock values.
LEMMA WindowType ==
  ASSUME NEW tl \in Seq(Hop), NEW i \in 1 .. Len(tl)
  PROVE  Window(tl, i) \in Int
<1>1. \A j \in 1 .. Len(tl) : tl[j].at \in Int
  <2> SUFFICES ASSUME NEW j \in 1 .. Len(tl) PROVE tl[j].at \in Int
    OBVIOUS
  <2>1. tl[j] \in Hop
    OBVIOUS
  <2> QED  BY <2>1, DeskAssumption DEF Hop, Time
<1>2. i > 1 => i - 1 \in 1 .. Len(tl)
  OBVIOUS
<1> QED  BY <1>1, <1>2 DEF Window

\* The partial sums of a timeline are what their equation says.
LEMMA PausedUpToIs ==
  ASSUME NEW tl \in Seq(Hop)
  PROVE  LET f == PausedUpTo(tl) IN
         /\ f \in [0 .. Len(tl) -> Int]
         /\ f[0] = 0
         /\ \A i \in 1 .. Len(tl) : f[i] = f[i - 1] + Window(tl, i)
<1> DEFINE n == Len(tl)
           next == [p \in (1 .. n) \X Int |-> p[2] + Window(tl, p[1])]
           Is(f) == f = [i \in 0 .. n |-> IF i = 0 THEN 0 ELSE f[i - 1] + Window(tl, i)]
<1>1. n \in Nat
  OBVIOUS
<1>2. next \in [(1 .. n) \X Int -> Int]
  BY WindowType
<1>3. \A i \in 1 .. n, x \in Int : next[<<i, x>>] = x + Window(tl, i)
  OBVIOUS
<1> HIDE DEF next
<1>4. PICK f : Unfolds(f, n, Int, 0, next)
  <2> HIDE DEF n
  <2>1. 0 \in Int
    OBVIOUS
  <2> QED  BY <1>1, <1>2, <2>1, RecursionExists
<1> USE DEF Unfolds
<1>5. Is(f)
  <2>1. \A i \in 1 .. n : i \in 0 .. n /\ i # 0 /\ f[i - 1] \in Int
    BY <1>1, <1>4
  <2>2. \A i \in 1 .. n : f[i] = f[i - 1] + Window(tl, i)
    BY <1>3, <1>4, <2>1
  <2>3. \A i \in 0 .. n : i = 0 \/ i \in 1 .. n
    BY <1>1
  <2> QED  BY <1>4, <2>2, <2>3
<1>6. PausedUpTo(tl) = CHOOSE g : Is(g)
  BY DEF PausedUpTo
<1> HIDE DEF Is
<1>7. Is(PausedUpTo(tl))
  BY <1>5, <1>6
<1> DEFINE g == PausedUpTo(tl)
<1>8. g = [i \in 0 .. n |-> IF i = 0 THEN 0 ELSE g[i - 1] + Window(tl, i)]
  BY <1>7 DEF Is
<1> HIDE DEF g
<1>9. g[0] = 0 /\ \A i \in 1 .. n : g[i] = g[i - 1] + Window(tl, i)
  BY <1>1, <1>8
<1>10. \A i \in 0 .. n : f[i] = g[i]
  <2>1. f[0] = 0 /\ \A i \in 1 .. n : f[i] = f[i - 1] + Window(tl, i)
    BY <1>1, <1>5 DEF Is
  <2>2. StepAlike(f, g, n)
    BY <1>9, <2>1 DEF StepAlike
  <2> HIDE DEF n
  <2>3. AgreeUpTo(f, g, n)
    BY <1>1, <2>2, RecursionUnique
  <2> QED  BY <2>3 DEF AgreeUpTo
<1>11. g \in [0 .. n -> Int]
  BY <1>4, <1>8, <1>10
<1> QED  BY <1>9, <1>11 DEF g

\* A hop at the end of a timeline adds its window to the sum.
LEMMA PausedTimeAppend ==
  ASSUME NEW tl \in Seq(Hop), NEW h \in Hop, Len(tl) >= 1
  PROVE  /\ PausedTime(tl) \in Int
         /\ PausedTime(Append(tl, h)) = PausedTime(tl) +
              IF h.from = PAUSED /\ h.to \in {IN_PROGRESS, COMPLETED}
              THEN h.at - tl[Len(tl)].at ELSE 0
<1> DEFINE n == Len(tl)
           long == Append(tl, h)
           f == PausedUpTo(tl)
           g == PausedUpTo(long)
<1>1. /\ n \in Nat /\ long \in Seq(Hop) /\ Len(long) = n + 1
      /\ \A i \in 1 .. n : long[i] = tl[i]
      /\ long[n + 1] = h
  OBVIOUS
<1> HIDE DEF long
<1>2. \A i \in 1 .. n : Window(long, i) = Window(tl, i)
  <2> SUFFICES ASSUME NEW i \in 1 .. n PROVE Window(long, i) = Window(tl, i)
    OBVIOUS
  <2>1. i > 1 => i - 1 \in 1 .. n
    OBVIOUS
  <2> QED  BY <1>1, <2>1 DEF Window
<1>3. Window(long, n + 1) = IF h.from = PAUSED /\ h.to \in {IN_PROGRESS, COMPLETED}
                            THEN h.at - tl[n].at ELSE 0
  BY <1>1 DEF Window
<1>4. /\ f \in [0 .. n -> Int] /\ f[0] = 0
      /\ \A i \in 1 .. n : f[i] = f[i - 1] + Window(tl, i)
  BY PausedUpToIs
<1>5. /\ g[0] = 0
      /\ \A i \in 1 .. n + 1 : g[i] = g[i - 1] + Window(long, i)
  BY <1>1, PausedUpToIs
<1>6. PausedTime(tl) = f[n] /\ PausedTime(long) = g[n + 1]
  BY <1>1 DEF PausedTime
<1> HIDE DEF f, g
<1>7. f[n] = g[n]
  <2>1. StepAlike(f, g, n)
    BY <1>1, <1>2, <1>4, <1>5 DEF StepAlike
  <2> HIDE DEF n
  <2>2. AgreeUpTo(f, g, n)
    BY <1>1, <2>1, RecursionUnique
  <2> QED  BY <1>1, <2>2 DEF AgreeUpTo
<1>8. g[n + 1] = g[n] + Window(long, n + 1)
  BY <1>1, <1>5
<1> QED  BY <1>1, <1>3, <1>4, <1>6, <1>7, <1>8 DEF long

\* The clock never runs backwards: no row was inserted by a transaction that
\* is yet to begin, and a request began after the last row of its service.
ClockOK ==
  /\ \A s \in Services : Last(s).at <= now
  /\ \A c \in Clients : req[c].stage \in Flying =>
       Last(req[c].svc).at <= req[c].at /\ req[c].at <= now

\* A paused service was paused by its last row.
PausedByLast ==
  \A s \in Services : db[s].status = PAUSED => db[s].paused_at = Last(s).at

Ledger ==
  /\ Serial
  /\ ClockOK
  /\ PausedByLast
  /\ PauseLedger

\* The last row of a timeline, so that it can be said of timeline'.
Final(tl) == tl[Len(tl)]

LEMMA LedgerInit == Init => Ledger
<1> SUFFICES ASSUME Init PROVE Ledger
  OBVIOUS
<1>1. Serial
  BY SerialInit
<1>2. \A s \in Services : timeline[s] = <<FirstHop>> /\ db[s] = NewRow
  BY DEF Init
<1>3. \A s \in Services : Len(timeline[s]) = 1 /\ Last(s) = FirstHop
  <2>1. Len(<<FirstHop>>) = 1 /\ <<FirstHop>>[1] = FirstHop
    OBVIOUS
  <2> QED  BY <1>2, <2>1 DEF Last
<1>4. ClockOK
  BY <1>3 DEF Init, ClockOK, FirstHop, Idle, Flying
<1>5. PausedByLast
  BY <1>2 DEF PausedByLast, NewRow, WAITING, PAUSED
<1>6. PauseLedger
  <2> SUFFICES ASSUME NEW s \in Services
               PROVE  db[s].paused_elapsed_s = PausedTime(timeline[s])
    BY DEF PauseLedger
  <2> DEFINE tl == timeline[s]
             f == PausedUpTo(tl)
  <2>1. tl \in Seq(Hop)
    BY <1>1 DEF Serial, Desk, TypeOK
  <2>2. f[0] = 0 /\ f[1] = f[0] + Window(tl, 1)
    BY <1>3, <2>1, PausedUpToIs
  <2>3. Window(tl, 1) = 0
    BY DEF Window
  <2>4. PausedTime(tl) = f[1]
    BY <1>3 DEF PausedTime
  <2> QED  BY <1>2, <2>2, <2>3, <2>4 DEF NewRow
<1> QED  BY <1>1, <1>4, <1>5, <1>6 DEF Ledger

\* A request that is in flight after a step was so before, of the same
\* service and since the same time, or has begun now.
LEMMA FlightClock ==
  ASSUME Desk, NEW c \in Clients, [Next]_vars, req'[c].stage \in Flying,
         \A d \in Clients : d = c
  PROVE  \/ /\ req[c].stage \in Flying
            /\ req'[c].svc = req[c].svc /\ req'[c].at = req[c].at
         \/ req'[c].at = now /\ req'[c].svc \in Services
<1> USE DEF Desk, TypeOK
<1>1. req[c] \in Flight
  OBVIOUS
<1>2. CASE Arrive(c)
  <2>1. ASSUME NEW w \in Workers, Refused(c, w)  PROVE FALSE
    BY <2>1 DEF Refused, Idle, Flying
  <2>2. ASSUME NEW w \in Workers, NEW s \in Services, NEW a \in Actors,
               NEW to \in Requestable, NEW h \in BOOLEAN,
               TransitionBegin(c, w, s, a, to, h)
        PROVE  req'[c].at = now /\ req'[c].svc \in Services
    BY <2>2 DEF TransitionBegin, Idle
  <2>3. ASSUME NEW w \in Workers, NEW s \in Services, NEW a \in Actors,
               NEW what \in SUBSET {"fields", "items"}, NEW h \in BOOLEAN,
               PatchBegin(c, w, s, a, what, h)
        PROVE  req'[c].at = now /\ req'[c].svc \in Services
    BY <2>3 DEF PatchBegin, Idle
  <2>4. PICK w \in Workers :
          \/ Refused(c, w)
          \/ \E s \in Services, a \in Actors, to \in Requestable,
               h \in BOOLEAN : TransitionBegin(c, w, s, a, to, h)
          \/ \E s \in Services, a \in Actors,
               what \in SUBSET {"fields", "items"}, h \in BOOLEAN :
               PatchBegin(c, w, s, a, what, h)
    BY <1>2, ArriveCases, Zenon
  <2> QED  BY <2>1, <2>2, <2>3, <2>4
<1>3. CASE TransitionWrite(c) \/ PatchFields(c)
  BY <1>1, <1>3 DEF TransitionWrite, PatchFields, Flying, Stages, Flight
<1>4. CASE PublishFirst(c) \/ TransitionReturn(c) \/ PatchReturn(c)
  BY <1>1, <1>4 DEF PublishFirst, TransitionReturn, PatchReturn, Flying, Stages, Flight
<1>5. CASE DeleteItems(c) \/ InsertItems(c)
  BY <1>1, <1>5 DEF DeleteItems, InsertItems, Flying, Stages, Flight
<1>6. CASE TransitionViolatesFk(c) \/ RedisFails(c)
  BY <1>1, <1>6 DEF TransitionViolatesFk, RedisFails, Flying, Flight
<1>7. CASE Commit(c) \/ Rollback(c) \/ DatabaseFails(c)
  <2>1. req'[c].stage \in {"idle", "failing"}
    <3>1. CASE Commit(c)
      BY <3>1 DEF Commit, Idle
    <3>2. CASE Rollback(c)
      BY <3>2 DEF Rollback, Idle
    <3>3. CASE DatabaseFails(c)
      BY <3>3 DEF DatabaseFails, Idle
    <3> QED  BY <1>7, <3>1, <3>2, <3>3
  <2> QED  BY <2>1 DEF Flying
<1>8. CASE \E w \in Workers : WorkerDies(w)
  BY <1>8 DEF WorkerDies, Idle, Flying
<1>9. CASE \/ \E w \in Workers, q \in Requests : RunPush(w, q)
           \/ Tick \/ UNCHANGED vars
  BY <1>9 DEF RunPush, Tick, vars
<1> QED
  BY <1>2, <1>3, <1>4, <1>5, <1>6, <1>7, <1>8, <1>9 DEF Next, Proceed

LEMMA ClockRuns ==
  ASSUME TypeOK, [Next]_vars
  PROVE  now' >= now
<1>1. now \in Nat
  BY DeskAssumption DEF TypeOK, Time
<1>2. ASSUME NEW c \in Clients, Arrive(c)  PROVE now' = now
  BY <1>2, ArrivalWritesNothing
<1>3. ASSUME NEW c \in Clients,
             TransitionWrite(c) \/ TransitionViolatesFk(c) \/ PublishFirst(c)
             \/ TransitionReturn(c) \/ RedisFails(c)
      PROVE  now' = now
  BY <1>3 DEF TransitionWrite, TransitionViolatesFk, PublishFirst,
     TransitionReturn, RedisFails
<1>4. ASSUME NEW c \in Clients,
             PatchFields(c) \/ DeleteItems(c) \/ InsertItems(c) \/ PatchReturn(c)
             \/ Commit(c) \/ Rollback(c) \/ DatabaseFails(c)
      PROVE  now' = now
  BY <1>4 DEF PatchFields, DeleteItems, InsertItems, PatchReturn, Commit,
     Rollback, DatabaseFails
<1>5. CASE \E w \in Workers : WorkerDies(w) \/ \E q \in Requests : RunPush(w, q)
  BY <1>1, <1>5 DEF WorkerDies, RunPush
<1>6. CASE Tick \/ UNCHANGED vars
  BY <1>1, <1>6 DEF Tick, vars
<1> QED
  BY <1>1, <1>2, <1>3, <1>4, <1>5, <1>6 DEF Next, Proceed

\* u, left by a move of r to a status at a time, has the pause that the move
\* ends in its ledger and the pause that it begins in paused_at.
Pays(r, to, t, u) ==
  /\ u.status = to
  /\ to = PAUSED => u.paused_at = t
  /\ u.paused_elapsed_s = r.paused_elapsed_s +
       IF r.status = PAUSED /\ to \in {IN_PROGRESS, COMPLETED}
       THEN t - r.paused_at ELSE 0

PausedBy(r, t) == r.status = PAUSED => r.paused_at <= t

\* So does the row that a transition computes from one row.
LEMMA TransitionPays ==
  ASSUME NEW r \in Row, Stamped(r), NEW to \in ALLOWED[r.status], NEW t \in Time,
         PausedBy(r, t)
  PROVE  Pays(r, to, t, UpdatedRow(r, r, to, t))
<1> USE DEF Pays, PausedBy
<1>1. /\ r.paused_elapsed_s \in Nat /\ t \in Nat
      /\ r.paused_at # Null => r.paused_at \in Nat
  BY DeskAssumption DEF Row, Time
<1>2. ResumesPause(r, to) <=> r.status = PAUSED /\ to \in {IN_PROGRESS, COMPLETED}
  BY DEF ResumesPause, Stamped
<1>3. /\ UpdatedRow(r, r, to, t).status = to
      /\ UpdatedRow(r, r, to, t).paused_at =
           IF ResumesPause(r, to) THEN Null ELSE IF to = PAUSED THEN t ELSE r.paused_at
      /\ UpdatedRow(r, r, to, t).paused_elapsed_s =
           IF ResumesPause(r, to) /\ t > r.paused_at
           THEN r.paused_elapsed_s + (t - r.paused_at) ELSE r.paused_elapsed_s
  BY DEF UpdatedRow, Row
<1>4. to = PAUSED => ~ResumesPause(r, to)
  BY DEF ResumesPause, IN_PROGRESS, COMPLETED, PAUSED
<1>5. CASE ResumesPause(r, to)
  <2>1. r.paused_at \in Nat /\ r.paused_at <= t
    BY <1>1, <1>2, <1>5 DEF ResumesPause
  <2> QED  BY <1>1, <1>2, <1>3, <1>4, <1>5, <2>1
<1>6. CASE ~ResumesPause(r, to)
  BY <1>1, <1>2, <1>3, <1>6
<1> QED  BY <1>5, <1>6

\* What a commit leaves in its service's row and timeline.
LEMMA CommitPays ==
  ASSUME Ledger, TypeOK', NEW c \in Clients, Commit(c)
  PROVE  LET s == req[c].svc IN
         /\ s \in Services
         /\ Final(timeline'[s]).at <= now
         /\ db'[s].status = PAUSED => db'[s].paused_at = Final(timeline'[s]).at
         /\ db'[s].paused_elapsed_s = PausedTime(timeline'[s])
<1> USE DEF Ledger, Serial, Desk, TypeOK
<1>1. /\ req[c].stage = "closing" /\ req[c].stage \in Flying
      /\ FlightOK(c) /\ LockOK(c) /\ Alone(c)
  BY DEF Commit, Flying, Stages
<1> DEFINE s0 == req[c].svc
           r == db[s0]
           tl == timeline[s0]
<1>2. /\ s0 \in Services /\ r \in Row /\ req[c].at \in Time
      /\ req[c].snap = r /\ Stamped(r)
  BY <1>1 DEF FlightOK, Alone
<1>3. /\ tl \in Seq(Hop) /\ Len(tl) >= 1 /\ Last(s0) = Final(tl)
      /\ tl[Len(tl)] \in Hop
  <2>1. tl \in Seq(Hop) /\ Len(tl) >= 1
    BY <1>2 DEF HistoryOK
  <2>2. Len(tl) \in 1 .. Len(tl)
    BY <2>1
  <2>3. tl[Len(tl)] \in Hop
    BY <2>1, <2>2
  <2> QED  BY <2>1, <2>3 DEF Last, Final
<1>4. /\ Final(tl).at <= now /\ Final(tl).at <= req[c].at /\ req[c].at <= now
      /\ r.status = PAUSED => r.paused_at = Final(tl).at
      /\ r.paused_elapsed_s = PausedTime(tl)
  BY <1>1, <1>2, <1>3 DEF ClockOK, PausedByLast, PauseLedger
<1>5. CASE req[c].to = Null
  <2>1. timeline' = timeline /\ Final(timeline'[s0]) = Final(tl)
    BY <1>5 DEF Commit
  <2>2. \E by : db'[s0] = r \/ db'[s0] = [r EXCEPT !.edited_by = by]
    BY <1>1, <1>2, <1>5 DEF Commit, Alone
  <2>3. /\ db'[s0].status = r.status /\ db'[s0].paused_at = r.paused_at
        /\ db'[s0].paused_elapsed_s = r.paused_elapsed_s
    BY <1>2, <2>2 DEF Row
  <2> QED  BY <1>2, <1>4, <2>1, <2>3
<1>6. CASE req[c].to # Null
  <2> DEFINE to == req[c].to
             t == req[c].at
             h == [from |-> r.status, to |-> to, at |-> t, by |-> Cur(c)]
             u == UpdatedRow(r, r, to, t)
  <2>1. /\ to \in ALLOWED[r.status] /\ db'[s0] = u
        /\ timeline'[s0] = Append(tl, h)
    <3>1. req[c].row # Null /\ req[c].row = u
      BY <1>1, <1>2, <1>6 DEF LockOK, Alone
    <3> QED  BY <1>1, <1>2, <1>6, <3>1 DEF Commit, FlightOK
  <2>2. h.from = r.status /\ h.to = to /\ h.at = t
    OBVIOUS
  <2> HIDE DEF h, u
  <2>3. h \in Hop
    <3>1. timeline'[s0] \in Seq(Hop) /\ Len(tl) \in Nat
      BY <1>2, <1>3
    <3>2. timeline'[s0][Len(tl) + 1] \in Hop
      BY <1>3, <2>1, <3>1
    <3> QED  BY <1>3, <2>1, <3>2
  <2>4. Final(timeline'[s0]) = h
    BY <1>3, <2>1, <2>3 DEF Final
  <2>5. Pays(r, to, t, u)
    <3>1. PausedBy(r, t)
      BY <1>4 DEF PausedBy
    <3>2. t \in Time /\ r \in Row /\ Stamped(r) /\ to \in ALLOWED[r.status]
      BY <1>2, <2>1
    <3> HIDE DEF r, to, t
    <3> QED  BY <3>1, <3>2, TransitionPays DEF u
  <2>6. PausedTime(timeline'[s0]) = PausedTime(tl) +
          IF h.from = PAUSED /\ h.to \in {IN_PROGRESS, COMPLETED}
          THEN h.at - tl[Len(tl)].at ELSE 0
    <3> HIDE DEF tl
    <3> QED  BY <1>3, <2>1, <2>3, PausedTimeAppend
  <2> HIDE DEF r, tl, to, t, s0
  <2> USE DEF Pays
  <2>7. u.paused_elapsed_s = PausedTime(timeline'[s0])
    BY <1>3, <1>4, <2>2, <2>5, <2>6 DEF Final
  <2>8. Final(timeline'[s0]).at <= now
    BY <1>4, <2>2, <2>4 DEF t
  <2>9. db'[s0].status = PAUSED => db'[s0].paused_at = Final(timeline'[s0]).at
    BY <2>1, <2>2, <2>4, <2>5
  <2> QED  BY <1>2, <2>1, <2>7, <2>8, <2>9 DEF s0
<1> QED  BY <1>5, <1>6

LEMMA LedgerStep ==
  ASSUME OneCaller, Ledger, [Next]_vars
  PROVE  Ledger'
<1>1. Serial' /\ TypeOK'
  BY SerialStep DEF Ledger, Serial, Desk
<1>2. /\ TypeOK /\ now \in Nat /\ now' \in Nat /\ now' >= now
  BY <1>1, ClockRuns, DeskAssumption DEF Ledger, Serial, Desk, TypeOK, Time
<1>3. \A s \in Services : Last(s).at \in Nat
  <2> SUFFICES ASSUME NEW s \in Services PROVE Last(s).at \in Nat
    OBVIOUS
  <2>1. timeline[s] \in Seq(Hop) /\ Len(timeline[s]) \in 1 .. Len(timeline[s])
    BY DEF Ledger, Serial, Desk, HistoryOK, TypeOK
  <2>2. timeline[s][Len(timeline[s])] \in Hop
    BY <2>1
  <2> QED  BY <2>2, DeskAssumption DEF Last, Hop, Time
<1>4. CASE \E c \in Clients : Commit(c)
  <2>1. PICK c \in Clients : Commit(c)
    BY <1>4
  <2> DEFINE s0 == req[c].svc
  <2>2. /\ s0 \in Services
        /\ Final(timeline'[s0]).at <= now
        /\ db'[s0].status = PAUSED => db'[s0].paused_at = Final(timeline'[s0]).at
        /\ db'[s0].paused_elapsed_s = PausedTime(timeline'[s0])
    BY <1>1, <2>1, CommitPays
  <2>3. \A s \in Services \ {s0} : db'[s] = db[s] /\ timeline'[s] = timeline[s]
    BY <2>1, CommitSerial DEF Ledger
  <2>4. /\ \A s \in Services \ {s0} : Last(s)' = Last(s)
        /\ \A s \in Services : s = s0 => Last(s)' = Final(timeline'[s0])
    BY <2>3 DEF Last, Final
  <2>5. now' = now /\ \A d \in Clients : req'[d].stage \notin Flying
    BY <1>2, <2>1 DEF Commit, OneCaller, Idle, Flying, TypeOK
  <2> HIDE DEF s0
  <2>6. ClockOK'
    BY <2>2, <2>4, <2>5 DEF Ledger, ClockOK
  <2>7. PausedByLast'
    BY <2>2, <2>3, <2>4 DEF Ledger, PausedByLast
  <2>8. PauseLedger'
    BY <2>2, <2>3 DEF Ledger, PauseLedger
  <2> QED  BY <1>1, <2>6, <2>7, <2>8 DEF Ledger
<1>5. CASE \A c \in Clients : ~Commit(c)
  <2>1. db' = db /\ timeline' = timeline
    BY <1>5, OnlyCommitWrites
  <2>2. \A s \in Services : Last(s)' = Last(s)
    BY <2>1 DEF Last
  <2>3. \A s \in Services : Last(s)'.at <= now'
    BY <1>2, <1>3, <2>2 DEF Ledger, ClockOK
  <2>4. ASSUME NEW c \in Clients, req'[c].stage \in Flying
        PROVE  Last(req'[c].svc).at <= req'[c].at /\ req'[c].at <= now'
    <3>1. \/ /\ req[c].stage \in Flying
             /\ req'[c].svc = req[c].svc /\ req'[c].at = req[c].at
          \/ req'[c].at = now /\ req'[c].svc \in Services
      BY <2>4, FlightClock DEF OneCaller, Ledger, Serial
    <3>2. req[c].stage \in Flying => req[c].at \in Nat
      BY DeskAssumption DEF Ledger, Serial, Desk, FlightOK, Time
    <3> QED  BY <1>2, <3>1, <3>2 DEF Ledger, ClockOK
  <2>5. ClockOK'
    BY <2>1, <2>2, <2>3, <2>4 DEF ClockOK, Last
  <2>6. PausedByLast' /\ PauseLedger'
    BY <2>1, <2>2 DEF Ledger, PausedByLast, PauseLedger
  <2> QED  BY <1>1, <2>5, <2>6 DEF Ledger
<1> QED  BY <1>4, <1>5

\* While requests do not overlap, paused_elapsed_s is the time that the
\* timeline shows between each pause and the move that ended it, over any
\* number of pauses, patches, failures and crashes.
THEOREM LedgerMatchesTimeline == ASSUME OneCaller PROVE Spec => []PauseLedger
<1>1. Ledger /\ [Next]_vars => Ledger'
  BY LedgerStep
<1>2. Ledger => PauseLedger
  BY DEF Ledger
<1> QED  BY <1>1, <1>2, LedgerInit, PTL DEF Spec

-----------------------------------------------------------------------------
(***************************************************************************)
(* The desk implements the lifecycle.                                      *)
(***************************************************************************)
Targets(tl) == [i \in 1 .. Len(tl) |-> tl[i].to]

LEMMA TargetsAppend ==
  ASSUME NEW tl \in Seq(Hop), NEW h, Append(tl, h) \in Seq(Hop)
  PROVE  Targets(Append(tl, h)) = Append(Targets(tl), h.to)
<1>1. /\ Len(tl) \in Nat /\ Len(Append(tl, h)) = Len(tl) + 1
      /\ \A i \in 1 .. Len(tl) : Append(tl, h)[i] = tl[i]
      /\ Append(tl, h)[Len(tl) + 1] = h
  OBVIOUS
<1>2. Targets(tl) \in Seq(Statuses) /\ Len(Targets(tl)) = Len(tl)
  <2>1. \A i \in 1 .. Len(tl) : tl[i].to \in Statuses
    <3> SUFFICES ASSUME NEW i \in 1 .. Len(tl) PROVE tl[i] \in Hop
      BY DEF Hop
    <3> QED  OBVIOUS
  <2> QED  BY <1>1, <2>1 DEF Targets
<1>3. h.to \in Statuses
  <2>1. Append(tl, h)[Len(tl) + 1] \in Hop
    BY <1>1
  <2> QED  BY <1>1, <2>1 DEF Hop
<1>4. /\ Append(Targets(tl), h.to) \in Seq(Statuses)
      /\ Len(Append(Targets(tl), h.to)) = Len(tl) + 1
      /\ \A i \in 1 .. Len(tl) : Append(Targets(tl), h.to)[i] = tl[i].to
      /\ Append(Targets(tl), h.to)[Len(tl) + 1] = h.to
  <2>1. \A i \in 1 .. Len(tl) : Targets(tl)[i] = tl[i].to
    BY DEF Targets
  <2> QED  BY <1>1, <1>2, <1>3, <2>1
<1>5. Append(Targets(tl), h.to) = [i \in 1 .. Len(tl) + 1 |-> Append(Targets(tl), h.to)[i]]
  BY <1>4
<1>6. \A i \in 1 .. Len(tl) + 1 : Append(tl, h)[i].to = Append(Targets(tl), h.to)[i]
  BY <1>1, <1>4
<1> QED  BY <1>1, <1>5, <1>6 DEF Targets

\* While requests do not overlap, the desk with its transactions, locks,
\* failures and crashes implements the lifecycle: each step is one move of
\* one service, status and log together, or a stutter.
THEOREM DeskImplementsLifecycle == ASSUME OneCaller PROVE Spec => ImplementsLifecycle
<1> DEFINE st == [s \in Services |-> db[s].status]
           lg == [s \in Services |->
                    [i \in 1 .. Len(timeline[s]) |-> timeline[s][i].to]]
<1>1. Init => Lifecycle!Init
  <2> SUFFICES ASSUME Init PROVE Lifecycle!Init
    OBVIOUS
  <2>1. \A s \in Services : db[s].status = WAITING /\ timeline[s] = <<FirstHop>>
    BY DEF Init, NewRow
  <2>2. [i \in 1 .. Len(<<FirstHop>>) |-> <<FirstHop>>[i].to] = <<WAITING>>
    BY DEF FirstHop
  <2> QED  BY <2>1, <2>2 DEF Lifecycle!Init, Lifecycle!WAITING, WAITING
<1>2. ASSUME Serial, Serial', [Next]_vars
      PROVE  [Lifecycle!Next]_<<st, lg>>
  <2>1. CASE \A c \in Clients : ~Commit(c)
    <3>1. db' = db /\ timeline' = timeline
      BY <1>2, <2>1, OnlyCommitWrites
    <3> QED  BY <3>1
  <2>2. CASE \E c \in Clients : Commit(c)
    <3>1. PICK c \in Clients : Commit(c)
      BY <2>2
    <3>2. /\ req[c].stage = "closing" /\ req[c].stage \in Flying
          /\ FlightOK(c) /\ LockOK(c) /\ Alone(c) /\ TypeOK /\ TypeOK'
      BY <1>2, <3>1 DEF Commit, Flying, Stages, Serial, Desk
    <3> DEFINE s0 == req[c].svc
               to == req[c].to
    <3>3. s0 \in Services /\ req[c].snap = db[s0]
      BY <3>2 DEF FlightOK, Alone
    <3>4. CASE to = Null
      <4>1. timeline' = timeline
        BY <3>1, <3>4 DEF Commit
      <4>2. \A s \in Services : db'[s].status = db[s].status
        BY <3>1, <3>2, <3>3, <3>4 DEF Commit, LockOK, TypeOK
      <4> QED  BY <4>1, <4>2
    <3>5. CASE to # Null
      <4> DEFINE h == [from |-> req[c].snap.status, to |-> to,
                       at |-> req[c].at, by |-> Cur(c)]
      <4>1. /\ to \in ALLOWED[db[s0].status]
            /\ db' = [db EXCEPT ![s0] = req[c].row] /\ req[c].row.status = to
            /\ timeline' = [timeline EXCEPT ![s0] = Append(timeline[s0], h)]
        BY <3>1, <3>2, <3>3, <3>5 DEF FlightOK, LockOK, Commit
      <4>2. st' = [st EXCEPT ![s0] = to]
        BY <3>2, <3>3, <4>1 DEF TypeOK
      <4>3. Targets(Append(timeline[s0], h)) = Append(Targets(timeline[s0]), to)
        <5>1. timeline[s0] \in Seq(Hop) /\ timeline'[s0] \in Seq(Hop)
              /\ timeline'[s0] = Append(timeline[s0], h)
          BY <3>2, <3>3, <4>1 DEF TypeOK
        <5> QED  BY <5>1, TargetsAppend
      <4>4. lg' = [lg EXCEPT ![s0] = Append(lg[s0], to)]
        <5> HIDE DEF h
        <5> QED  BY <3>2, <3>3, <4>1, <4>3 DEF TypeOK, Targets
      <4>5. st[s0] = db[s0].status
        BY <3>3
      <4> HIDE DEF st, lg
      <4>6. \E s \in Services : \E x \in ALLOWED[st[s]] :
              st' = [st EXCEPT ![s] = x] /\ lg' = [lg EXCEPT ![s] = Append(@, x)]
        BY <3>3, <4>1, <4>2, <4>4, <4>5
      <4>7. Lifecycle!ALLOWED = ALLOWED
        BY DEF Lifecycle!ALLOWED, Lifecycle!Statuses, Lifecycle!WAITING,
           Lifecycle!IN_PROGRESS, Lifecycle!PAUSED, Lifecycle!COMPLETED,
           Lifecycle!CANCELLED, ALLOWED, Statuses, WAITING, IN_PROGRESS, PAUSED,
           COMPLETED, CANCELLED
      <4> QED  BY <4>6, <4>7 DEF Lifecycle!Next, Lifecycle!Move, st, lg
    <3> QED  BY <3>4, <3>5
  <2> QED  BY <2>1, <2>2
<1>3. Serial /\ Serial' /\ [Next]_vars => [Lifecycle!Next]_<<st, lg>>
  BY <1>2
<1> QED  BY <1>1, <1>3, SerialInvariant, PTL DEF Spec, ImplementsLifecycle, Lifecycle!Spec
=============================================================================
