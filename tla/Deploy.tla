------------------------------- MODULE Deploy -------------------------------
(***************************************************************************)
(* The database as its operators change it: alembic commands (Schema) and  *)
(* seed scripts (Seeding), two at a time, each of which may die.           *)
(*                                                                         *)
(* An alembic command reads the revision the database is at, runs the      *)
(* scripts between that and its goal in one transaction, and commits.      *)
(* After each script it writes the new revision where the old one is       *)
(* found, and raises where it is not.  Of two commands, the second waits   *)
(* at its first statement for the end of the first: they share the         *)
(* revision row and the catalogue.  A section of a script and a migration  *)
(* wait for each other too (they lock the tables).                         *)
(***************************************************************************)
EXTENDS Schema, Seeding

CONSTANTS Operators,   \* commands and scripts in flight
          Scenes,      \* bound: which of them meet in a behaviour, how many are
                       \* started, the revisions it begins at
          Goals        \* bound: revisions a command is given

ASSUME DeployAssumption ==
  /\ Goals \subseteq Revisions
  /\ \A s \in Scenes : s.from \subseteq Revisions /\ s.jobs \subseteq Scripts \cup {"alembic"}
                     /\ s.most \in 0 .. MaxJobs

VARIABLES version, catalog,   \* alembic_version; the tables
          data,               \* their rows
          job,                \* per operator: the command or script in flight
          started,            \* jobs so far
          settled,            \* scripts that ran to the end, with no other change since
          scene

vars == <<version, catalog, data, job, started, settled, scene>>

Idle == [kind |-> "none"]
Migrating(o) == job[o].kind = "alembic"
Running(o) == job[o].kind = "script"

\* A transaction is open: a script of the command ran, or a section has read.
Altering(o) == Migrating(o) /\ job[o].at # job[o].read
InSection(o) == Running(o) /\ job[o].old # None

Init ==
  /\ scene \in Scenes /\ version \in scene.from /\ catalog = At[version]
  /\ data = NoData
  /\ job = [o \in Operators |-> Idle]
  /\ started = 0 /\ settled = {}

Starts(o, j) ==
  /\ job[o] = Idle /\ started < scene.most
  /\ job' = [job EXCEPT ![o] = j]
  /\ started' = started + 1
  /\ UNCHANGED <<version, catalog, data, settled, scene>>

-----------------------------------------------------------------------------
(***************************************************************************)
(* alembic upgrade, alembic downgrade.                                     *)
(***************************************************************************)
StartAlembic(o) ==
  /\ "alembic" \in scene.jobs
  /\ \E goal \in Goals \ {version} :
       Starts(o, [kind |-> "alembic", read |-> version, at |-> version,
                  goal |-> goal, work |-> None])

\* The next script of the command, and what it leaves.
Before(o) == IF Altering(o) THEN job[o].work
             ELSE [version |-> version, catalog |-> catalog]
Up(o) == job[o].goal > job[o].at
NextAt(o) == IF Up(o) THEN job[o].at + 1 ELSE job[o].at - 1
Result(o) == Execute(IF Up(o) THEN Upgrade[job[o].at + 1] ELSE Downgrade[job[o].at],
                     Before(o).catalog)

\* The first revision is an INSERT; every other one an UPDATE (or, back to
\* nothing, a DELETE) of the row that holds the old one.
RevisionRowFound(o) == job[o].at = Base \/ Before(o).version = job[o].at
Succeeds(o) == Result(o).ok /\ RevisionRowFound(o)

\* Mutant: a migration does not wait for a script that uses the tables.
MayAlter_Unlocked(o) ==
  /\ Migrating(o) /\ job[o].at # job[o].goal
  /\ \A p \in Operators \ {o} : ~Altering(p)
MayAlter(o) ==
  /\ Migrating(o) /\ job[o].at # job[o].goal
  /\ \A p \in Operators \ {o} : ~Altering(p) /\ ~InSection(p)

RunMigration(o) ==
  /\ MayAlter(o) /\ Succeeds(o)
  /\ job' = [job EXCEPT ![o].at = NextAt(o),
                        ![o].work = [version |-> NextAt(o), catalog |-> Result(o)]]
  /\ UNCHANGED <<version, catalog, data, started, settled, scene>>

\* The exception leaves context.begin_transaction: everything is rolled back.
MigrationRaises(o) ==
  /\ MayAlter(o) /\ ~Succeeds(o)
  /\ job' = [job EXCEPT ![o] = Idle]
  /\ UNCHANGED <<version, catalog, data, started, settled, scene>>

Without(d, tables) ==
  [rows |-> [r \in Rows |-> IF r[1] \in tables THEN d.rows[r] ELSE 0],
   role |-> IF "users" \in tables THEN d.role ELSE NoData.role,
   customer |-> IF "users" \in tables THEN d.customer ELSE None]

CommitMigration(o) ==
  /\ Migrating(o) /\ job[o].at = job[o].goal
  /\ version' = job[o].work.version /\ catalog' = job[o].work.catalog
  /\ data' = Without(data, DOMAIN catalog'.tables)
  /\ settled' = IF data' = data THEN settled ELSE {}
  /\ job' = [p \in Operators |->
               IF p = o THEN Idle
               ELSE IF Running(p) /\ data' # data THEN [job[p] EXCEPT !.alone = FALSE]
               ELSE job[p]]
  /\ UNCHANGED <<started, scene>>

-----------------------------------------------------------------------------
(***************************************************************************)
(* A script.                                                               *)
(***************************************************************************)
StartScript(o) ==
  \E s \in scene.jobs \cap Scripts :
    Starts(o, [kind |-> "script", script |-> s, section |-> 1, old |-> None,
               alone |-> TRUE])

SectionOf(o, d) == Sections(job[o].script, d)[job[o].section]
IsLast(o) == job[o].section = Len(Sections(job[o].script, data))

MayRead(o) ==
  /\ Running(o) /\ job[o].old = None
  /\ \A p \in Operators \ {o} : ~Altering(p)

OpenSection(o) ==
  /\ MayRead(o) /\ SectionOf(o, data).uses \subseteq DOMAIN catalog.tables
  /\ job' = [job EXCEPT ![o].old = data]
  /\ UNCHANGED <<version, catalog, data, started, settled, scene>>

\* A table is not there: the script ends.
SectionRaises(o) ==
  /\ MayRead(o) /\ ~(SectionOf(o, data).uses \subseteq DOMAIN catalog.tables)
  /\ job' = [job EXCEPT ![o] = Idle]
  /\ UNCHANGED <<version, catalog, data, started, settled, scene>>

\* Rewrites rows of users: the importers' upserts, and every new user.
RewritesUsers(o, d) ==
  \/ job[o].script = "import_erp" /\ job[o].section = 1
  \/ d.role # data.role
  \/ Keys(d, "users") # Keys(data, "users")

\* The data once the section's roles are given.
WithRoles(o, d) ==
  LET gives == SectionOf(o, data).roles
      role == [u \in Users |-> IF u \in DOMAIN gives /\ d.rows[<<"users", u>>] > 0
                               THEN gives[u] ELSE d.role[u]]
      e == [d EXCEPT !.role = role]
      may == IF Customers(e) = {} THEN {None} ELSE Customers(e)
  IN {[e EXCEPT !.customer = u] :
        u \in IF RewritesUsers(o, e) THEN may ELSE {data.customer}}

\* The commit of a section: the script goes on, or is done.
CommitSection(o, d) ==
  LET done == [job EXCEPT ![o] = Idle]
      further == [job EXCEPT ![o].section = @ + 1, ![o].old = None]
      mine == IF IsLast(o) THEN done ELSE further
  IN
  /\ data' = d
  /\ job' = [p \in Operators |->
               IF p # o /\ Running(p) /\ d # data THEN [mine[p] EXCEPT !.alone = FALSE]
               ELSE mine[p]]
  /\ settled' = (IF d = data THEN settled ELSE {})
                  \cup (IF IsLast(o) /\ job[o].alone THEN {job[o].script} ELSE {})

\* A unique key stops it: rolled back, the script ends.
WriteSection(o) ==
  /\ InSection(o)
  /\ \E d \in Outcomes(SectionOf(o, job[o].old), SectionOf(o, data), data) :
       \/ /\ \A r \in Rows : d.rows[r] > data.rows[r] => d.rows[r] <= Limit(d, r)
          /\ \E e \in WithRoles(o, d) : CommitSection(o, e)
       \/ /\ \E r \in Rows : d.rows[r] > data.rows[r] /\ d.rows[r] > Limit(d, r)
          /\ job' = [job EXCEPT ![o] = Idle]
          /\ UNCHANGED <<data, settled>>
  /\ UNCHANGED <<version, catalog, started, scene>>

-----------------------------------------------------------------------------
\* The process or the server dies: the open transaction is rolled back.
Abort(o) ==
  /\ job[o] # Idle
  /\ job' = [job EXCEPT ![o] = Idle]
  /\ UNCHANGED <<version, catalog, data, started, settled, scene>>

Next ==
  \E o \in Operators :
    \/ StartAlembic(o) \/ RunMigration(o) \/ MigrationRaises(o) \/ CommitMigration(o)
    \/ StartScript(o) \/ OpenSection(o) \/ SectionRaises(o) \/ WriteSection(o)
    \/ Abort(o)

Spec == Init /\ [][Next]_vars

-----------------------------------------------------------------------------
\* The rows and roles are of their kinds, a user has a role, and a row has a
\* table to be in.
TypeOK ==
  /\ version \in Revisions /\ data \in Data /\ started \in 0 .. MaxJobs
  /\ settled \subseteq Scripts
  /\ \A u \in Users : (data.role[u] # None) = (data.rows[<<"users", u>>] > 0)
  /\ \A r \in Rows : data.rows[r] > 0 => r[1] \in DOMAIN catalog.tables

\* Whatever commands ran, crossed each other or died, the catalogue is what
\* the upgrades up to its revision build: a downgrade takes back exactly what
\* its upgrade did, and nothing is left of a command that failed.
SchemaIsAtRevision == catalog = At[version]

\* A command that nobody overtook since it read the revision is refused in
\* one script only, the downgrade of e52e9a810976: it drops a constraint that
\* has no name, so no database that was ever at e52e can go below it.
OnlyOneStepIsRefused ==
  \A o \in Operators :
    (Migrating(o) /\ job[o].read = version /\ job[o].at # job[o].goal) =>
      (Succeeds(o) <=> ~(job[o].at = 6 /\ ~Up(o)))

\* At the newest revision the database has the references, keys, indexes and
\* types that the models declare, whichever way it got there.
HeadIsDeclared == version = Newest => catalog.tables = Metadata

\* "Re-runs are safe": once a script that says so has run to its end, with no
\* other writer meanwhile or since, running it again would add no row and
\* change no role; also after runs of it that died half-way.
RerunChangesNothing ==
  \A s \in settled \cap Idempotent :
    LET all == Sections(s, data) IN
    \A i \in DOMAIN all :
      /\ \A r \in DOMAIN all[i].adds : all[i].adds[r] = 0
      /\ \A u \in DOMAIN all[i].roles : all[i].roles[u] = data.role[u]

\* What a script looks for before it adds it comes twice only from a section
\* that had looked before the other one was there: an overlap of two runs,
\* never a re-run or a run after a crash.
LookedFor == {r \in Rows : r[1] \in {"service_centers", "fuel_stations",
                "sos_providers", "insurance_companies", "trips", "sos_requests",
                "notifications", "payments", "insurance_policies"}}

DuplicatesNeedStaleLook ==
  [][\A r \in LookedFor :
       (data.rows[r] > 0 /\ data'.rows[r] > data.rows[r]) =>
         \E o \in Operators : InSection(o) /\ job'[o] # job[o]
                                /\ job[o].old.rows[r] < data.rows[r]]_vars
=============================================================================
