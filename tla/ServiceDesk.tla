---------------------------- MODULE ServiceDesk ----------------------------
(***************************************************************************)
(* Service records under concurrent HTTP requests: the transition and      *)
(* patch endpoints of app/modules/services, each a PostgreSQL transaction  *)
(* opened by deps.get_db and committed after the response was sent.        *)
(*                                                                         *)
(* The unit of interleaving is what the runtime interleaves.               *)
(*  - transition_service is an async handler that calls the database       *)
(*    synchronously: from its first SELECT to its first await it occupies  *)
(*    the event loop of its worker process (loop[w]), also while its       *)
(*    UPDATE waits for a row lock.                                         *)
(*  - patch_service is a plain function: it runs in the thread pool and    *)
(*    needs the loop only to be dispatched and to send its response.       *)
(*  - get_db commits (or rolls back) in a pool thread that the loop has    *)
(*    to start, so nothing ends while the loop is occupied.                *)
(*  - READ COMMITTED, no SELECT ... FOR UPDATE anywhere: a read sees the   *)
(*    last commit, an UPDATE waits for the row lock and then rewrites the  *)
(*    columns it names in whatever row it finds.                           *)
(* Inserting into service_transitions and service_items takes only a       *)
(* FOR KEY SHARE lock on the service row, which conflicts with no UPDATE   *)
(* of this code (none touches a key column).                               *)
(*                                                                         *)
(* Opening a service (create, intake) is module Workshop; here every       *)
(* service starts as create leaves it.                                     *)
(***************************************************************************)
EXTENDS ServiceStates, Integers, Sequences, FiniteSets

CONSTANTS
  Services,   \* service rows
  Clients,    \* concurrent callers, each with one request in flight at a time
  Workers,    \* uvicorn worker processes, one event loop each
  Actors,     \* who may call: subset of {"staff", "mechanic", "outsider"}
  Ops,        \* what they call: subset of {"transition", "fields", "items"}
  Faults,     \* what may fail: subset of {"redis", "database", "worker"}
  MaxReq,     \* bound: requests per client
  MaxTime,    \* bound: the clock
  Null        \* SQL NULL, "nobody", "no time"

ASSUME DeskAssumption ==
  /\ MaxReq \in Nat
  /\ MaxTime \in Nat
  /\ Null \notin Nat
  /\ Null \notin Clients
  /\ Null \notin Services
  /\ Null \notin Statuses

VARIABLES
  db,         \* committed row of each service
  items,      \* committed line items of each service, named by their request
  timeline,   \* committed service_transitions rows, in insertion order
  inbox,      \* requests whose notification row is committed
  lock,       \* holder of each service's row lock
  loop,       \* request that occupies each worker's event loop
  req,        \* per client: the request in flight
  sent,       \* per client: requests sent so far
  now,        \* the clock
  pushq,      \* per worker: push tasks created on the loop, not yet run
  announced,  \* requests whose event or push left the server
  failed      \* requests answered 500

vars == <<db, items, timeline, inbox, lock, loop, req, sent, now,
          pushq, announced, failed>>

Time == 0 .. MaxTime
Requests == Clients \X (1 .. MaxReq)

Row == [status : Statuses,
        started_at : Time \cup {Null}, paused_at : Time \cup {Null},
        paused_elapsed_s : Nat,
        completed_at : Time \cup {Null}, cancelled_at : Time \cup {Null},
        edited_by : Requests \cup {Null}]  \* mechanic_id, notes, next mileage

Hop == [from : Statuses \cup {Null}, to : Statuses, at : Time,
        by : Requests \cup {Null}]

ASSUME RowAssumption == Null \notin Row

Stages == {"idle",
           "validated",   \* transition: read and validated, loop occupied
           "flushed",     \* transition: rows written, awaiting publish
           "publishing",  \* transition: first channel published
           "patching",    \* patch: read, about to UPDATE
           "replacing",   \* patch: about to DELETE the items
           "deleting",    \* patch: DELETE has its snapshot
           "returning",   \* handler done, response not sent
           "failing",     \* handler raised, rollback not run
           "closing"}     \* response sent, commit started in a pool thread

\* worker, service, actor, requested status, patch parts; the row that was
\* read and when; the uncommitted row; the items deleted and to be replaced.
Flight == [stage : Stages, worker : Workers \cup {Null},
           svc : Services \cup {Null}, actor : Actors \cup {Null},
           to : Statuses \cup {Null}, what : SUBSET {"fields", "items"},
           snap : Row \cup {Null}, at : Time \cup {Null},
           row : Row \cup {Null},
           victims : SUBSET Requests, deleted : SUBSET Requests,
           added : BOOLEAN]

Idle == [stage |-> "idle", worker |-> Null, svc |-> Null, actor |-> Null,
         to |-> Null, what |-> {}, snap |-> Null, at |-> Null, row |-> Null,
         victims |-> {}, deleted |-> {}, added |-> FALSE]

\* The request client c has in flight.
Cur(c) == <<c, sent[c]>>

NewRow == [status |-> WAITING, started_at |-> Null, paused_at |-> Null,
           paused_elapsed_s |-> 0, completed_at |-> Null,
           cancelled_at |-> Null, edited_by |-> Null]

FirstHop == [from |-> Null, to |-> WAITING, at |-> 0, by |-> Null]

Init ==
  /\ db = [s \in Services |-> NewRow]
  /\ items = [s \in Services |-> {}]
  /\ timeline = [s \in Services |-> <<FirstHop>>]
  /\ inbox = {}
  /\ lock = [s \in Services |-> Null]
  /\ loop = [w \in Workers |-> Null]
  /\ req = [c \in Clients |-> Idle]
  /\ sent = [c \in Clients |-> 0]
  /\ now = 0
  /\ pushq = [w \in Workers |-> {}]
  /\ announced = {}
  /\ failed = {}

-----------------------------------------------------------------------------
(***************************************************************************)
(* The row that transition's UPDATE leaves: the columns it names come from *)
(* the row it READ (snap) and the clock then (t), the others are whatever  *)
(* the row holds when the lock is granted (cur).                           *)
(***************************************************************************)
ResumesPause_NotOnCompletion(snap, to) ==
  to = IN_PROGRESS /\ snap.status = PAUSED /\ snap.paused_at # Null

ResumesPause(snap, to) ==
  /\ to \in {IN_PROGRESS, COMPLETED}
  /\ snap.status = PAUSED
  /\ snap.paused_at # Null

UpdatedRow_Overwrites(cur, snap, to, t) ==
  [cur EXCEPT !.status = to,
              !.paused_at = IF to = PAUSED THEN t ELSE Null,
              !.paused_elapsed_s = IF ResumesPause(snap, to)
                                   THEN t - snap.paused_at ELSE @]

UpdatedRow_Swapped(cur, snap, to, t) ==
  [cur EXCEPT !.status = to,
              !.paused_at = IF to = PAUSED THEN t ELSE Null,
              !.paused_elapsed_s = IF ResumesPause(snap, to)
                                   THEN @ + (snap.paused_at - t) ELSE @]

UpdatedRow(cur, snap, to, t) ==
  [cur EXCEPT
     !.status = to,
     !.started_at = IF to = IN_PROGRESS /\ snap.status = WAITING
                    THEN IF snap.started_at # Null THEN snap.started_at ELSE t
                    ELSE @,
     !.paused_at = IF ResumesPause(snap, to) THEN Null
                   ELSE IF to = PAUSED THEN t ELSE @,
     !.paused_elapsed_s =
        IF ResumesPause(snap, to) /\ t > snap.paused_at
        THEN snap.paused_elapsed_s + (t - snap.paused_at) ELSE @,
     !.completed_at = IF to = COMPLETED THEN t ELSE @,
     !.cancelled_at = IF to = CANCELLED THEN t ELSE @]

\* _assert_can_mutate: admin, the centre's owner, a mechanic of the centre.
CanMutate(actor) == actor \in {"staff", "mechanic"}

\* users.id exists for by_user_id: a roster mechanic's token names a
\* mechanics row instead.
HasUserRow(actor) == actor # "mechanic"

\* The request of c is over: its locks are gone.
Unlocked_Kept(c) == lock

Unlocked(c) == [s \in Services |-> IF lock[s] = c THEN Null ELSE lock[s]]
LoopFree(c) == loop[req[c].worker] = Null

-----------------------------------------------------------------------------
(***************************************************************************)
(* POST /services/{id}/transition                                          *)
(***************************************************************************)
\* transition up to its UPDATE: SELECT, access check, validate, utcnow().
\* func.now() of the later INSERT is the start of this transaction.
TransitionBegin(c, w, s, a, to, hasReason) ==
  /\ req[c].stage = "idle" /\ sent[c] < MaxReq
  /\ loop[w] = Null
  /\ CanMutate(a)
  /\ Valid(db[s].status, to, hasReason)
  /\ loop' = [loop EXCEPT ![w] = c]
  /\ sent' = [sent EXCEPT ![c] = @ + 1]
  /\ req' = [req EXCEPT ![c] =
               [Idle EXCEPT !.stage = "validated", !.worker = w, !.svc = s,
                            !.actor = a, !.to = to, !.snap = db[s],
                            !.at = now]]
  /\ UNCHANGED <<db, items, timeline, inbox, lock, now,
                 pushq, announced, failed>>

\* 403, 404, 409 or 422: the handler raises before it writes.
Refused(c, w) ==
  /\ req[c].stage = "idle" /\ sent[c] < MaxReq
  /\ loop[w] = Null
  /\ sent' = [sent EXCEPT ![c] = @ + 1]
  /\ req' = [req EXCEPT ![c] = [Idle EXCEPT !.stage = "failing",
                                            !.worker = w]]
  /\ UNCHANGED <<db, items, timeline, inbox, lock, loop, now,
                 pushq, announced, failed>>

TransitionRefused(c, w, s, a, to, hasReason) ==
  /\ ~(CanMutate(a) /\ Valid(db[s].status, to, hasReason))
  /\ Refused(c, w)

\* The rest of the synchronous part, once the row lock is granted: UPDATE,
\* the service_transitions row, the audit row, the inbox row, and a push
\* task created on this loop.  Its first await frees the loop.  (The car is
\* not soft-deleted and its owner has a device: else no row and no push.)
TransitionWrite_InboxFirst(c) ==
  LET f == req[c] IN
  /\ f.stage = "validated" /\ lock[f.svc] = Null
  /\ HasUserRow(f.actor)
  /\ lock' = [lock EXCEPT ![f.svc] = c]
  /\ loop' = [loop EXCEPT ![f.worker] = Null]
  /\ inbox' = inbox \cup {Cur(c)}
  /\ req' = [req EXCEPT
       ![c].stage = "flushed",
       ![c].row = UpdatedRow(db[f.svc], f.snap, f.to, f.at)]
  /\ UNCHANGED <<db, items, timeline, sent, now, pushq,
                 announced, failed>>

TransitionWrite(c) ==
  LET f == req[c] IN
  /\ f.stage = "validated" /\ lock[f.svc] = Null
  /\ HasUserRow(f.actor)
  /\ lock' = [lock EXCEPT ![f.svc] = c]
  /\ loop' = [loop EXCEPT ![f.worker] = Null]
  /\ req' = [req EXCEPT
       ![c].stage = "flushed",
       ![c].row = UpdatedRow(db[f.svc], f.snap, f.to, f.at)]
  /\ pushq' = [pushq EXCEPT ![f.worker] = @ \cup {Cur(c)}]
  /\ UNCHANGED <<db, items, timeline, inbox, sent, now,
                 announced, failed>>

\* The same, for a caller whose id is no users row: the flush of the
\* service_transitions row violates its foreign key after the UPDATE.
TransitionViolatesFk(c) ==
  LET f == req[c] IN
  /\ f.stage = "validated" /\ lock[f.svc] = Null
  /\ ~HasUserRow(f.actor)
  /\ lock' = [lock EXCEPT ![f.svc] = c]
  /\ loop' = [loop EXCEPT ![f.worker] = Null]
  /\ req' = [req EXCEPT ![c].stage = "failing"]
  /\ failed' = failed \cup {Cur(c)}
  /\ UNCHANGED <<db, items, timeline, inbox, sent, now,
                 pushq, announced>>

\* _publish_event: the service's own channel comes first.
PublishFirst(c) ==
  /\ req[c].stage = "flushed" /\ LoopFree(c)
  /\ announced' = announced \cup {Cur(c)}
  /\ req' = [req EXCEPT ![c].stage = "publishing"]
  /\ UNCHANGED <<db, items, timeline, inbox, lock, loop, sent, now,
                 pushq, failed>>

\* The centre's and the car owner's channels, then the response.
TransitionReturn(c) ==
  /\ req[c].stage = "publishing" /\ LoopFree(c)
  /\ req' = [req EXCEPT ![c].stage = "closing"]
  /\ UNCHANGED <<db, items, timeline, inbox, lock, loop, sent, now,
                 pushq, announced, failed>>

\* One of the three publishes raises; nothing catches it.
RedisFails_StillCommits(c) ==
  /\ "redis" \in Faults
  /\ req[c].stage \in {"flushed", "publishing"} /\ LoopFree(c)
  /\ failed' = failed \cup {Cur(c)}
  /\ req' = [req EXCEPT ![c].stage = "closing"]
  /\ UNCHANGED <<db, items, timeline, inbox, lock, loop, sent, now,
                 pushq, announced>>

RedisFails(c) ==
  /\ "redis" \in Faults
  /\ req[c].stage \in {"flushed", "publishing"} /\ LoopFree(c)
  /\ failed' = failed \cup {Cur(c)}
  /\ req' = [req EXCEPT ![c].stage = "failing"]
  /\ UNCHANGED <<db, items, timeline, inbox, lock, loop, sent, now,
                 pushq, announced>>

-----------------------------------------------------------------------------
(***************************************************************************)
(* PATCH /services/{id}                                                    *)
(***************************************************************************)
\* _validate_mechanic_for_center refuses a mechanic of another centre.
MayPatch_Always(s, a, what, mechanicOk) ==
  CanMutate(a) /\ ("fields" \in what => mechanicOk)

MayPatch(s, a, what, mechanicOk) ==
  /\ CanMutate(a)
  /\ db[s].status \notin TERMINAL
  /\ "fields" \in what => mechanicOk

PatchBegin(c, w, s, a, what, mechanicOk) ==
  /\ req[c].stage = "idle" /\ sent[c] < MaxReq
  /\ loop[w] = Null
  /\ MayPatch(s, a, what, mechanicOk)
  /\ sent' = [sent EXCEPT ![c] = @ + 1]
  /\ req' = [req EXCEPT ![c] =
               [Idle EXCEPT !.stage = IF "fields" \in what THEN "patching"
                                                           ELSE "replacing",
                            !.worker = w, !.svc = s, !.actor = a,
                            !.what = what, !.snap = db[s], !.at = now]]
  /\ UNCHANGED <<db, items, timeline, inbox, lock, loop, now,
                 pushq, announced, failed>>

PatchRefused(c, w, s, a, what, mechanicOk) ==
  /\ ~MayPatch(s, a, what, mechanicOk)
  /\ Refused(c, w)

\* update_fields with mechanic_id, notes or next_recommended_mileage.
PatchFields_WholeRow(c) ==
  LET f == req[c] IN
  /\ f.stage = "patching" /\ lock[f.svc] = Null
  /\ lock' = [lock EXCEPT ![f.svc] = c]
  /\ req' = [req EXCEPT
       ![c].stage = IF "items" \in f.what THEN "replacing" ELSE "returning",
       ![c].row = [f.snap EXCEPT !.edited_by = Cur(c)]]
  /\ UNCHANGED <<db, items, timeline, inbox, loop, sent, now,
                 pushq, announced, failed>>

PatchFields(c) ==
  LET f == req[c] IN
  /\ f.stage = "patching" /\ lock[f.svc] = Null
  /\ lock' = [lock EXCEPT ![f.svc] = c]
  /\ req' = [req EXCEPT
       ![c].stage = IF "items" \in f.what THEN "replacing" ELSE "returning",
       ![c].row = [db[f.svc] EXCEPT !.edited_by = Cur(c)]]
  /\ UNCHANGED <<db, items, timeline, inbox, loop, sent, now,
                 pushq, announced, failed>>

\* replace_items, the DELETE: the rows it will remove are fixed when the
\* statement starts ...
DeleteItems(c) ==
  /\ req[c].stage = "replacing"
  /\ req' = [req EXCEPT ![c].stage = "deleting",
                        ![c].victims = items[req[c].svc]]
  /\ UNCHANGED <<db, items, timeline, inbox, lock, loop, sent, now,
                 pushq, announced, failed>>

\* ... and it waits for whoever is deleting one of them already.  Then the
\* INSERTs of the new items.
InsertItems(c) ==
  LET f == req[c] IN
  /\ f.stage = "deleting"
  /\ \A d \in Clients \ {c} : req[d].deleted \cap f.victims = {}
  /\ req' = [req EXCEPT ![c].stage = "returning", ![c].added = TRUE,
                        ![c].deleted = f.victims \cap items[f.svc]]
  /\ UNCHANGED <<db, items, timeline, inbox, lock, loop, sent, now,
                 pushq, announced, failed>>

PatchReturn(c) ==
  /\ req[c].stage = "returning" /\ LoopFree(c)
  /\ req' = [req EXCEPT ![c].stage = "closing"]
  /\ UNCHANGED <<db, items, timeline, inbox, lock, loop, sent, now,
                 pushq, announced, failed>>

-----------------------------------------------------------------------------
(***************************************************************************)
(* The end of a request, failures, and the rest of the process             *)
(***************************************************************************)
\* get_db after the yield: the commit, in the pool thread that the step to
\* "closing" started.
Commit(c) ==
  LET f == req[c] IN
  /\ f.stage = "closing"
  /\ db' = IF f.row = Null THEN db ELSE [db EXCEPT ![f.svc] = f.row]
  /\ items' = IF f.added
              THEN [items EXCEPT ![f.svc] = (@ \ f.deleted) \cup {Cur(c)}]
              ELSE items
  /\ timeline' = IF f.to = Null THEN timeline
                 ELSE [timeline EXCEPT ![f.svc] =
                         Append(@, [from |-> f.snap.status, to |-> f.to,
                                    at |-> f.at, by |-> Cur(c)])]
  /\ inbox' = IF f.to = Null THEN inbox ELSE inbox \cup {Cur(c)}
  /\ lock' = Unlocked(c)
  /\ req' = [req EXCEPT ![c] = Idle]
  /\ UNCHANGED <<loop, sent, now, pushq, announced, failed>>

\* get_db, the except branch: rollback, started by the loop.
Rollback(c) ==
  /\ req[c].stage = "failing" /\ LoopFree(c)
  /\ lock' = Unlocked(c)
  /\ req' = [req EXCEPT ![c] = Idle]
  /\ UNCHANGED <<db, items, timeline, inbox, loop, sent, now,
                 pushq, announced, failed>>

\* The connection breaks under a statement or the commit: the server drops
\* the transaction and its locks, the client library raises.
DatabaseFails(c) ==
  LET f == req[c] IN
  /\ "database" \in Faults
  /\ f.stage \notin {"idle", "failing"}
  /\ lock' = Unlocked(c)
  /\ loop' = [w \in Workers |-> IF loop[w] = c THEN Null ELSE loop[w]]
  /\ failed' = IF f.stage = "closing" THEN failed ELSE failed \cup {Cur(c)}
  /\ req' = [req EXCEPT ![c] = [Idle EXCEPT !.stage = "failing",
                                            !.worker = f.worker]]
  /\ UNCHANGED <<db, items, timeline, inbox, sent, now,
                 pushq, announced>>

\* A worker process dies with everything it had in flight.
WorkerDies(w) ==
  LET lost == {c \in Clients : req[c].worker = w} IN
  /\ "worker" \in Faults
  /\ lost # {} \/ pushq[w] # {}
  /\ req' = [c \in Clients |-> IF c \in lost THEN Idle ELSE req[c]]
  /\ lock' = [s \in Services |-> IF lock[s] \in lost THEN Null ELSE lock[s]]
  /\ loop' = [loop EXCEPT ![w] = Null]
  /\ pushq' = [pushq EXCEPT ![w] = {}]
  /\ UNCHANGED <<db, items, timeline, inbox, sent, now,
                 announced, failed>>

\* The push task created by create_notification gets its turn on the loop.
RunPush(w, q) ==
  /\ loop[w] = Null
  /\ q \in pushq[w]
  /\ pushq' = [pushq EXCEPT ![w] = @ \ {q}]
  /\ announced' = announced \cup {q}
  /\ UNCHANGED <<db, items, timeline, inbox, lock, loop, req, sent, now,
                 failed>>

Tick ==
  /\ now < MaxTime
  /\ now' = now + 1
  /\ UNCHANGED <<db, items, timeline, inbox, lock, loop, req, sent,
                 pushq, announced, failed>>

\* A client's choice: which request to send, to which worker.
Arrive(c) ==
  \E w \in Workers, s \in Services, a \in Actors :
    \/ /\ "transition" \in Ops
       /\ \E to \in Requestable, hasReason \in BOOLEAN :
            \/ TransitionBegin(c, w, s, a, to, hasReason)
            \/ TransitionRefused(c, w, s, a, to, hasReason)
    \/ \E what \in (SUBSET (Ops \cap {"fields", "items"})) \ {{}},
          mechanicOk \in BOOLEAN :
            \/ PatchBegin(c, w, s, a, what, mechanicOk)
            \/ PatchRefused(c, w, s, a, what, mechanicOk)

\* The program's own steps for a request it has accepted.
Proceed(c) ==
  \/ TransitionWrite(c) \/ TransitionViolatesFk(c)
  \/ PublishFirst(c) \/ TransitionReturn(c)
  \/ PatchFields(c) \/ DeleteItems(c) \/ InsertItems(c) \/ PatchReturn(c)
  \/ Commit(c) \/ Rollback(c)

Next ==
  \/ \E c \in Clients : Arrive(c) \/ Proceed(c)
  \/ \E c \in Clients : RedisFails(c) \/ DatabaseFails(c)
  \/ \E w \in Workers : WorkerDies(w) \/ \E q \in Requests : RunPush(w, q)
  \/ Tick

Spec == Init /\ [][Next]_vars

(***************************************************************************)
(* Fairness: the loop, the thread pool and the database keep running what  *)
(* they can run.  Nothing makes a client send, a fault happen or, in the   *)
(* bounded clock, time pass.                                               *)
(***************************************************************************)
FairSpec ==
  /\ Spec
  /\ \A c \in Clients : WF_vars(Proceed(c))
  /\ \A w \in Workers : WF_vars(\E q \in Requests : RunPush(w, q))

-----------------------------------------------------------------------------
\* Every variable holds values of its kind.
TypeOK ==
  /\ db \in [Services -> Row]
  /\ items \in [Services -> SUBSET Requests]
  /\ timeline \in [Services -> Seq(Hop)]
  /\ lock \in [Services -> Clients \cup {Null}]
  /\ loop \in [Workers -> Clients \cup {Null}]
  /\ req \in [Clients -> Flight]
  /\ sent \in [Clients -> 0 .. MaxReq]
  /\ now \in Time
  /\ pushq \in [Workers -> SUBSET Requests]
  /\ inbox \subseteq Requests
  /\ announced \subseteq Requests
  /\ failed \subseteq Requests

Last(s) == timeline[s][Len(timeline[s])]
Hops(s) == {timeline[s][i] : i \in 2 .. Len(timeline[s])}
InFlight == {Cur(c) : c \in {d \in Clients : req[d].stage # "idle"}}
Committed == UNION {{h.by : h \in Hops(s)} : s \in Services}

-----------------------------------------------------------------------------
(***************************************************************************)
(* What holds however requests overlap.                                    *)
(***************************************************************************)
\* No overlap of requests, no crash and no failed publish ever records a
\* move that the status graph does not have (service.transition validates
\* the hop that it records, not the one it performs).
HopsAllowed ==
  \A s \in Services : \A h \in Hops(s) : h.to \in ALLOWED[h.from]

\* The status of a service is the target of the row that was last inserted
\* into its timeline: the UPDATE and the INSERT are one transaction and the
\* row lock orders the transactions.
StatusIsLastHop ==
  \A s \in Services : Last(s).to = db[s].status

\* A committed move has its inbox row and a request is in one timeline row
\* at most, so the customer is told once of every recorded move.
OneNoticePerHop ==
  /\ inbox = Committed
  /\ \A s, t \in Services :
       \A i \in 2 .. Len(timeline[s]), j \in 2 .. Len(timeline[t]) :
         timeline[s][i].by = timeline[t][j].by => s = t /\ i = j

\* A request answered 500 leaves no trace: its move is never recorded,
\* whatever failed and whatever else was in flight.
FailureLeavesNoTrace == failed \cap Committed = {}

(***************************************************************************)
(* What holds while requests for a service do not overlap.                 *)
(***************************************************************************)
\* The timestamps tell the status: the docstring of services/service.py.
StampsMatchStatus ==
  \A s \in Services :
    LET r == db[s] IN
    /\ r.completed_at # Null <=> r.status = COMPLETED
    /\ r.cancelled_at # Null <=> r.status = CANCELLED
    /\ r.started_at = Null => r.status \in {WAITING, CANCELLED}
    /\ r.status = PAUSED => r.paused_at # Null
    /\ r.paused_at # Null => r.status \in {PAUSED, CANCELLED}

\* The pause that the i-th row of a timeline ends by a resume or a completion
\* (a cancellation leaves its pause open in paused_at), and their sum so far.
Window(tl, i) ==
  IF i > 1 /\ tl[i].from = PAUSED /\ tl[i].to \in {IN_PROGRESS, COMPLETED}
  THEN tl[i].at - tl[i - 1].at ELSE 0

PausedUpTo(tl) ==
  LET upto[i \in 0 .. Len(tl)] == IF i = 0 THEN 0 ELSE upto[i - 1] + Window(tl, i)
  IN upto

PausedTime(tl) == PausedUpTo(tl)[Len(tl)]

\* paused_elapsed_s is the time the timeline shows between each pause and
\* the move that ended it.
PauseLedger == \A s \in Services : db[s].paused_elapsed_s = PausedTime(timeline[s])

\* A completed or cancelled service never changes again: not its row, its
\* items or its timeline ("any further transition is rejected", "cannot
\* edit").
TerminalIsFinal ==
  [][\A s \in Services : db[s].status \in TERMINAL =>
       /\ db'[s] = db[s]
       /\ items'[s] = items[s]
       /\ timeline'[s] = timeline[s]]_vars

\* The desk implements the lifecycle its docstrings describe.
Lifecycle == INSTANCE ServiceLifecycle WITH
  status <- [s \in Services |-> db[s].status],
  log <- [s \in Services |->
            [i \in 1 .. Len(timeline[s]) |-> timeline[s][i].to]]

ImplementsLifecycle == Lifecycle!Spec

(***************************************************************************)
(* What the code's comments claim and failures or overlaps break.          *)
(***************************************************************************)
\* "the in-app inbox is always the source of truth": whatever was pushed
\* to the customer has its inbox row once the request is over.
AnnouncedIsRecorded == announced \ InFlight \subseteq inbox

(***************************************************************************)
(* Liveness.                                                               *)
(***************************************************************************)
\* Every request gets its session closed ("always closes on exit").
EveryRequestEnds ==
  \A c \in Clients : req[c].stage # "idle" ~> req[c].stage = "idle"
=============================================================================
