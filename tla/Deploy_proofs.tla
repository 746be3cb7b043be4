--------------------------- MODULE Deploy_proofs ---------------------------
(***************************************************************************)
(* Proofs about Deploy, for any number of operators, scenes and goals.     *)
(***************************************************************************)
EXTENDS Deploy, Schema_proofs

-----------------------------------------------------------------------------
(***************************************************************************)
(* The jobs: a command whose work, once it altered something, is the       *)
(* revision it came to; a run of a script.                                 *)
(***************************************************************************)
IsCommand(j) ==
  /\ j = [kind |-> "alembic", read |-> j.read, at |-> j.at, goal |-> j.goal,
          work |-> j.work]
  /\ j.read \in Revisions /\ j.at \in Revisions /\ j.goal \in Revisions
  /\ j.goal # j.read
  /\ j.at # j.read => j.work = [version |-> j.at, catalog |-> At[j.at]]

IsRun(j) ==
  j = [kind |-> "script", script |-> j.script, section |-> j.section, old |-> j.old,
       alone |-> j.alone]

IsJob(j) == j = Idle \/ IsCommand(j) \/ IsRun(j)

JobsOK ==
  /\ job = [o \in Operators |-> job[o]]
  /\ \A o \in Operators : IsJob(job[o])

\* The inductive invariant of SchemaIsAtRevision.
SchemaInv == JobsOK /\ version \in Revisions /\ SchemaIsAtRevision

\* The kind of a job says which it is.
LEMMA KindOfJob ==
  ASSUME NEW j, IsJob(j)
  PROVE  /\ j.kind = "alembic" => IsCommand(j)
         /\ j.kind = "script" => IsRun(j)
         /\ j.kind \notin {"alembic", "script"} => j = Idle
  BY DEF IsJob, IsCommand, IsRun, Idle

\* The jobs with one part changed.
LEMMA CommandMoves ==
  ASSUME NEW j, IsCommand(j), NEW at, NEW work
  PROVE  [[j EXCEPT !.at = at] EXCEPT !.work = work]
         = [kind |-> "alembic", read |-> j.read, at |-> at, goal |-> j.goal, work |-> work]
<1> DEFINE e == [[j EXCEPT !.at = at] EXCEPT !.work = work]
           t == [kind |-> "alembic", read |-> j.read, at |-> at, goal |-> j.goal,
                 work |-> work]
           Parts == {"kind", "read", "at", "goal", "work"}
<1>1. DOMAIN j = Parts /\ j.kind = "alembic"
  BY DEF IsCommand
<1>2. e = [x \in Parts |-> e[x]] /\ t = [x \in Parts |-> t[x]]
  BY <1>1
<1>3. /\ e["kind"] = t["kind"] /\ e["read"] = t["read"] /\ e["goal"] = t["goal"]
      /\ e["at"] = t["at"] /\ e["work"] = t["work"]
  BY <1>1
<1> HIDE DEF e, t
<1>4. e = t
  BY <1>2, <1>3
<1> QED  BY <1>4 DEF e, t

RunOf(s, k, old, a) ==
  [kind |-> "script", script |-> s, section |-> k, old |-> old, alone |-> a]

\* A run is a job.
LEMMA RunsAreJobs ==
  \A s, k, old, a : IsRun(RunOf(s, k, old, a)) /\ IsJob(RunOf(s, k, old, a))
  BY DEF RunOf, IsJob, IsRun

\* A run with one part changed.
LEMMA RunMoves ==
  ASSUME NEW j, IsRun(j), NEW x
  PROVE  /\ [j EXCEPT !.alone = x] = RunOf(j.script, j.section, j.old, x)
         /\ [j EXCEPT !.old = x] = RunOf(j.script, j.section, x, j.alone)
         /\ [[j EXCEPT !.section = @ + 1] EXCEPT !.old = x]
            = RunOf(j.script, j.section + 1, x, j.alone)
         /\ IsJob([j EXCEPT !.alone = x]) /\ IsJob([j EXCEPT !.old = x])
<1> DEFINE Parts == {"kind", "script", "section", "old", "alone"}
           e == [j EXCEPT !.alone = x]
           f == [j EXCEPT !.old = x]
           g == [[j EXCEPT !.section = @ + 1] EXCEPT !.old = x]
           t == RunOf(j.script, j.section, j.old, x)
           u == RunOf(j.script, j.section, x, j.alone)
           v == RunOf(j.script, j.section + 1, x, j.alone)
<1>1. DOMAIN j = Parts /\ j.kind = "script"
  BY DEF IsRun
<1>2. /\ e = [y \in Parts |-> e[y]] /\ f = [y \in Parts |-> f[y]]
      /\ g = [y \in Parts |-> g[y]]
  BY <1>1
<1>3. /\ t = [y \in Parts |-> t[y]] /\ u = [y \in Parts |-> u[y]]
      /\ v = [y \in Parts |-> v[y]]
  BY DEF RunOf
<1>4. /\ \A y \in Parts : e[y] = t[y]
      /\ \A y \in Parts : f[y] = u[y]
      /\ \A y \in Parts : g[y] = v[y]
  BY <1>1 DEF RunOf
<1> HIDE DEF e, f, g, t, u, v, Parts
<1>5. e = t /\ f = u /\ g = v
  BY <1>2, <1>3, <1>4
<1>6. IsJob(t) /\ IsJob(u)
  BY RunsAreJobs DEF t, u
<1> QED  BY <1>5, <1>6 DEF e, f, g, t, u, v

\* What one operator does to its own job leaves the others' as they are.
LEMMA OneJobChanges ==
  ASSUME JobsOK, NEW o \in Operators, NEW j, IsJob(j), job' = [job EXCEPT ![o] = j]
  PROVE  JobsOK'
  BY DEF JobsOK

\* A section's commit: the job goes on or ends, and the runs it changed data
\* under are not alone any more.
LEMMA SectionCommitted ==
  ASSUME JobsOK, NEW o \in Operators, IsRun(job[o]), NEW d, CommitSection(o, d)
  PROVE  /\ JobsOK'
         /\ job'[o] = IF IsLast(o) THEN Idle
                      ELSE RunOf(job[o].script, job[o].section + 1, None, job[o].alone)
         /\ \A p \in Operators \ {o} :
              job'[p] = IF Running(p) /\ d # data
                        THEN RunOf(job[p].script, job[p].section, job[p].old, FALSE)
                        ELSE job[p]
<1> DEFINE next == IF IsLast(o) THEN Idle
                   ELSE RunOf(job[o].script, job[o].section + 1, None, job[o].alone)
           mine == [job EXCEPT ![o] = next]
<1>1. [job EXCEPT ![o].section = @ + 1, ![o].old = None]
      = [job EXCEPT ![o] = [[job[o] EXCEPT !.section = @ + 1] EXCEPT !.old = None]]
  BY DEF JobsOK
<1>2. mine = IF IsLast(o) THEN [job EXCEPT ![o] = Idle]
             ELSE [job EXCEPT ![o].section = @ + 1, ![o].old = None]
  BY <1>1, RunMoves
<1>3. mine[o] = next /\ \A p \in Operators \ {o} : mine[p] = job[p]
  BY DEF JobsOK
<1>4. job' = [p \in Operators |->
                IF p # o /\ Running(p) /\ d # data THEN [mine[p] EXCEPT !.alone = FALSE]
                ELSE mine[p]]
  <2> HIDE DEF mine
  <2> QED  BY <1>2 DEF CommitSection
<1> HIDE DEF mine
<1>5. \A p \in Operators \ {o} :
        job'[p] = IF Running(p) /\ d # data
                  THEN RunOf(job[p].script, job[p].section, job[p].old, FALSE)
                  ELSE job[p]
  <2> TAKE p \in Operators \ {o}
  <2>1. Running(p) => IsRun(job[p])
    BY KindOfJob DEF JobsOK, Running
  <2>2. Running(p) => [job[p] EXCEPT !.alone = FALSE]
                      = RunOf(job[p].script, job[p].section, job[p].old, FALSE)
    BY <2>1, RunMoves
  <2> QED  BY <1>3, <1>4, <2>2
<1>6. job'[o] = next
  BY <1>3, <1>4
<1>7. IsJob(next)
  BY RunsAreJobs DEF IsJob
<1> HIDE DEF next
<1>8. \A p \in Operators : IsJob(job'[p])
  <2> TAKE p \in Operators
  <2>1. IsJob(job[p]) /\ IsJob(RunOf(job[p].script, job[p].section, job[p].old, FALSE))
    BY RunsAreJobs DEF JobsOK
  <2>2. CASE p = o
    BY <1>6, <1>7, <2>2
  <2>3. CASE p # o
    BY <1>5, <2>1, <2>3
  <2> QED  BY <2>2, <2>3
<1>9. job' = [p \in Operators |-> job'[p]]
  BY <1>4
<1> QED  BY <1>5, <1>6, <1>8, <1>9 DEF JobsOK, next

\* Nobody runs at first, and the catalogue is of its revision.
LEMMA SchemaInit == Init => SchemaInv
<1> SUFFICES ASSUME Init  PROVE SchemaInv
  OBVIOUS
<1>1. version \in Revisions /\ SchemaIsAtRevision
  BY DeployAssumption DEF Init, SchemaIsAtRevision
<1>2. JobsOK
  BY DEF Init, JobsOK, IsJob
<1> QED  BY <1>1, <1>2 DEF SchemaInv

\* The catalogue a command works on is what its revision builds, and the
\* revision it found there is that one: where it thinks the database has
\* nothing, the first revision's upgrade would raise.
LEMMA ResultIs ==
  ASSUME SchemaInv, NEW o \in Operators, Migrating(o), job[o].at # job[o].goal,
         Succeeds(o)
  PROVE  NextAt(o) \in Revisions /\ Result(o) = At[NextAt(o)]
<1> DEFINE j == job[o]
           at == j.at
<1>1. IsCommand(j)
  BY KindOfJob DEF SchemaInv, JobsOK, Migrating
<1>2. /\ at \in 0 .. 8 /\ j.goal \in 0 .. 8 /\ at # j.goal
  BY <1>1 DEF IsCommand, Revisions, Base, Newest
<1>3. /\ Up(o) => at + 1 \in 1 .. Newest /\ NextAt(o) = at + 1 /\ (at + 1) - 1 = at
      /\ ~Up(o) => at \in 1 .. Newest /\ NextAt(o) = at - 1
  BY <1>2 DEF Up, NextAt, Newest
<1>4. NextAt(o) \in Revisions
  BY <1>2, <1>3 DEF Revisions, Base, Newest
<1> DEFINE b == Before(o)
<1>5. b.version \in Revisions /\ b.catalog = At[b.version]
  <2>1. CASE Altering(o)
    BY <1>1, <2>1 DEF Before, Altering, IsCommand
  <2>2. CASE ~Altering(o)
    BY <2>2 DEF Before, SchemaInv, SchemaIsAtRevision
  <2> QED  BY <2>1, <2>2
<1>6. at = Base \/ b.version = at
  BY DEF Succeeds, RevisionRowFound
<1>7. Result(o) = Execute(IF Up(o) THEN Upgrade[at + 1] ELSE Downgrade[at], b.catalog)
      /\ Result(o).ok
  BY DEF Succeeds, Result
<1> HIDE DEF b
<1>8. b.version = at
  <2> SUFFICES ASSUME b.version # at  PROVE FALSE
    OBVIOUS
  <2>1. at = 0 /\ Up(o) /\ b.version \in 1 .. Newest
    BY <1>3, <1>5, <1>6 DEF Base, Revisions, Newest
  <2>2. Execute(Upgrade[1], At[b.version]).ok
    BY <1>5, <1>7, <2>1
  <2> QED  BY <2>1, <2>2, FirstOnlyOnce
<1>9. CASE Up(o)
  <2>1. at + 1 \in 1 .. Newest /\ NextAt(o) = at + 1 /\ (at + 1) - 1 = at
    BY <1>3, <1>9
  <2>2. At[at + 1] = Execute(Upgrade[at + 1], At[(at + 1) - 1])
    BY <2>1, AtIs
  <2> QED  BY <1>4, <1>5, <1>7, <1>8, <1>9, <2>1, <2>2
<1>10. CASE ~Up(o)
  <2>1. at \in 1 .. Newest /\ NextAt(o) = at - 1
    BY <1>3, <1>10
  <2>2. Execute(Downgrade[at], At[at]).ok /\ Result(o) = Execute(Downgrade[at], At[at])
    BY <1>5, <1>7, <1>8, <1>10
  <2> QED  BY <1>4, <2>1, <2>2, DowngradeUndoes
<1> QED  BY <1>9, <1>10

\* Where nobody overtook the command, its next script finds the catalogue of
\* its revision, with the row that says so: only the downgrade of the sixth
\* is refused.
LEMMA StepRuns ==
  ASSUME SchemaInv, NEW o \in Operators, Migrating(o), job[o].read = version,
         job[o].at # job[o].goal
  PROVE  Succeeds(o) <=> ~(job[o].at = 6 /\ ~Up(o))
<1> DEFINE j == job[o]
           at == j.at
           b == Before(o)
<1>1. IsCommand(j)
  BY KindOfJob DEF SchemaInv, JobsOK, Migrating
<1>2. at \in 0 .. 8 /\ j.goal \in 0 .. 8 /\ at # j.goal
  BY <1>1 DEF IsCommand, Revisions, Base, Newest
<1>3. /\ Up(o) => at + 1 \in 1 .. Newest /\ at + 1 \in Revisions /\ (at + 1) - 1 = at
      /\ ~Up(o) => at \in 1 .. Newest /\ at - 1 \in Revisions
  BY <1>2 DEF Up, Newest, Revisions, Base
<1>4. b.version = at /\ b.catalog = At[at]
  <2>1. CASE Altering(o)
    BY <1>1, <2>1 DEF Before, Altering, IsCommand
  <2>2. CASE ~Altering(o)
    BY <2>2 DEF Before, Altering, SchemaInv, SchemaIsAtRevision
  <2> QED  BY <2>1, <2>2
<1>5. RevisionRowFound(o)
  BY <1>4 DEF RevisionRowFound
<1>6. Result(o) = Execute(IF Up(o) THEN Upgrade[at + 1] ELSE Downgrade[at], At[at])
  BY <1>4 DEF Result
<1> HIDE DEF at, b
<1>7. CASE Up(o)
  <2>1. At[at + 1] = Execute(Upgrade[at + 1], At[(at + 1) - 1])
    BY <1>3, <1>7, AtIs
  <2>2. Result(o) = At[at + 1] /\ at + 1 \in Revisions
    BY <1>3, <1>6, <1>7, <2>1
  <2>3. Result(o).ok
    BY <2>2, AtIsOk
  <2> QED  BY <1>5, <1>7, <2>3 DEF Succeeds
<1>8. CASE ~Up(o)
  <2>1. /\ at \in 1 .. Newest /\ at - 1 \in Revisions
        /\ Result(o) = Execute(Downgrade[at], At[at])
    BY <1>3, <1>6, <1>8
  <2>2. CASE at = 6
    BY <1>8, <2>1, <2>2, DowngradeUndoes DEF Succeeds, at
  <2>3. CASE at # 6
    <3>1. Result(o) = At[at - 1]
      BY <2>1, <2>3, DowngradeUndoes
    <3>2. Result(o).ok
      BY <2>1, <3>1, AtIsOk
    <3> QED  BY <1>5, <2>3, <3>2 DEF Succeeds, at
  <2> QED  BY <2>2, <2>3
<1> QED  BY <1>7, <1>8

\* Every step keeps the jobs in form and the catalogue at its revision.
LEMMA SchemaNext == SchemaInv /\ [Next]_vars => SchemaInv'
<1> SUFFICES ASSUME SchemaInv, [Next]_vars  PROVE SchemaInv'
  OBVIOUS
<1> USE DEF SchemaInv
<1>1. JobsOK /\ version \in Revisions /\ catalog = At[version]
  BY DEF SchemaIsAtRevision
<1>2. ASSUME UNCHANGED <<version, catalog>>, JobsOK'  PROVE SchemaInv'
  BY <1>1, <1>2 DEF SchemaIsAtRevision
<1>3. ASSUME NEW o \in Operators, NEW j, IsJob(j), job' = [job EXCEPT ![o] = j],
             UNCHANGED <<version, catalog>>
      PROVE  SchemaInv'
  BY <1>1, <1>2, <1>3, OneJobChanges
<1>4. IsJob(Idle)
  BY DEF IsJob
<1>5. ASSUME NEW o \in Operators, StartAlembic(o)  PROVE SchemaInv'
  <2>1. PICK goal \in Goals \ {version} :
          Starts(o, [kind |-> "alembic", read |-> version, at |-> version,
                     goal |-> goal, work |-> None])
    BY <1>5 DEF StartAlembic
  <2>2. IsCommand([kind |-> "alembic", read |-> version, at |-> version,
                   goal |-> goal, work |-> None])
    BY <1>1, DeployAssumption DEF IsCommand
  <2> QED  BY <1>3, <2>1, <2>2 DEF Starts, IsJob
<1>6. ASSUME NEW o \in Operators, RunMigration(o)  PROVE SchemaInv'
  <2> DEFINE j == [kind |-> "alembic", read |-> job[o].read, at |-> NextAt(o),
                   goal |-> job[o].goal,
                   work |-> [version |-> NextAt(o), catalog |-> Result(o)]]
  <2>1. IsCommand(job[o])
    BY <1>1, <1>6, KindOfJob DEF JobsOK, RunMigration, MayAlter, Migrating
  <2>2. NextAt(o) \in Revisions /\ Result(o) = At[NextAt(o)]
    BY <1>6, ResultIs DEF RunMigration, MayAlter
  <2>3. IsCommand(j)
    BY <2>1, <2>2 DEF IsCommand
  <2>4. job' = [job EXCEPT ![o] = j]
    <3>1. job' = [job EXCEPT ![o] = [[job[o] EXCEPT !.at = NextAt(o)]
                       EXCEPT !.work = [version |-> NextAt(o), catalog |-> Result(o)]]]
      BY <1>1, <1>6 DEF RunMigration, JobsOK
    <3>2. [[job[o] EXCEPT !.at = NextAt(o)]
             EXCEPT !.work = [version |-> NextAt(o), catalog |-> Result(o)]] = j
      BY <2>1, CommandMoves
    <3> QED  BY <3>1, <3>2
  <2> QED  BY <1>3, <1>6, <2>3, <2>4 DEF RunMigration, IsJob
<1>7. ASSUME NEW o \in Operators, MigrationRaises(o) \/ SectionRaises(o) \/ Abort(o)
      PROVE  SchemaInv'
  BY <1>3, <1>4, <1>7 DEF MigrationRaises, SectionRaises, Abort
<1>8. ASSUME NEW o \in Operators, CommitMigration(o)  PROVE SchemaInv'
  <2>1. IsCommand(job[o])
    BY <1>1, <1>8, KindOfJob DEF JobsOK, CommitMigration, Migrating
  <2>2. version' \in Revisions /\ catalog' = At[version']
    BY <1>8, <2>1 DEF CommitMigration, IsCommand
  <2>3. JobsOK'
    <3>1. \A p \in Operators : IsJob([job[p] EXCEPT !.alone = FALSE]) \/ ~Running(p)
      <4> TAKE p \in Operators
      <4>1. Running(p) => IsRun(job[p])
        BY <1>1, KindOfJob DEF JobsOK, Running
      <4> QED  BY <4>1, RunMoves
    <3> QED  BY <1>1, <1>4, <1>8, <3>1 DEF CommitMigration, JobsOK
  <2> QED  BY <2>2, <2>3 DEF SchemaIsAtRevision
<1>9. ASSUME NEW o \in Operators, StartScript(o)  PROVE SchemaInv'
  BY <1>3, <1>9 DEF StartScript, Starts, IsJob, IsRun
<1>10. ASSUME NEW o \in Operators, OpenSection(o)  PROVE SchemaInv'
  <2>1. IsRun(job[o])
    BY <1>1, <1>10, KindOfJob DEF JobsOK, OpenSection, MayRead, Running
  <2>2. IsJob([job[o] EXCEPT !.old = data])
    BY <2>1, RunMoves
  <2> QED  BY <1>3, <1>10, <2>2 DEF OpenSection
<1>11. ASSUME NEW o \in Operators, WriteSection(o)  PROVE SchemaInv'
  <2>1. UNCHANGED <<version, catalog>>
    BY <1>11 DEF WriteSection
  <2>2. CASE job' = [job EXCEPT ![o] = Idle]
    BY <1>3, <1>4, <2>1, <2>2
  <2>3. CASE \E d : CommitSection(o, d)
    <3>1. PICK d : CommitSection(o, d)
      BY <2>3
    <3>2. IsRun(job[o])
      BY <1>1, <1>11, KindOfJob DEF JobsOK, WriteSection, InSection, Running
    <3>3. JobsOK'
      BY <1>1, <3>1, <3>2, SectionCommitted
    <3> QED  BY <1>2, <2>1, <3>3
  <2> QED  BY <1>11, <2>2, <2>3 DEF WriteSection
<1>12. CASE UNCHANGED vars
  BY <1>12 DEF vars, JobsOK, SchemaIsAtRevision
<1> QED  BY <1>5, <1>6, <1>7, <1>8, <1>9, <1>10, <1>11, <1>12 DEF Next

\* In every behaviour, the jobs are in form, and the catalogue is what the
\* upgrades up to its revision build.
THEOREM SchemaAtRevision == Spec => []SchemaInv
  BY SchemaInit, SchemaNext, PTL DEF Spec

\* Whatever commands ran, crossed each other or died, the catalogue is what
\* the upgrades up to its revision build.
THEOREM SchemaIsWhatItsRevisionBuilds == Spec => []SchemaIsAtRevision
<1>1. SchemaInv => SchemaIsAtRevision
  BY DEF SchemaInv
<1> QED  BY <1>1, SchemaAtRevision, PTL

\* A command that nobody overtook since it read the revision is refused in one
\* script only, the downgrade of e52e9a810976.
THEOREM OneStepIsRefused == Spec => []OnlyOneStepIsRefused
<1>1. SchemaInv => OnlyOneStepIsRefused
  BY StepRuns DEF OnlyOneStepIsRefused
<1> QED  BY <1>1, SchemaAtRevision, PTL

\* At the newest revision the database has what the models declare.
THEOREM HeadIsWhatModelsDeclare == Spec => []HeadIsDeclared
<1>1. SchemaInv => HeadIsDeclared
  BY HeadIs DEF SchemaInv, SchemaIsAtRevision, HeadIsDeclared
<1> QED  BY <1>1, SchemaAtRevision, PTL

-----------------------------------------------------------------------------
(***************************************************************************)
(* The sections of the scripts.  The rows of a section, its tables and the *)
(* roles it gives do not depend on the data it finds; what it looks for it *)
(* does not add where it is.                                               *)
(***************************************************************************)
\* So many rows of R, which are in the tables U.
Adds(adds, R, U) ==
  /\ adds = [r \in R |-> adds[r]]
  /\ R \subseteq Rows
  /\ \A r \in R : adds[r] \in Nat /\ r[1] \in U

IsSection(s) ==
  /\ s = [uses |-> s.uses, clears |-> s.clears, adds |-> s.adds, roles |-> s.roles]
  /\ s.clears \in BOOLEAN
  /\ Adds(s.adds, DOMAIN s.adds, s.uses)
  /\ DOMAIN s.roles \subseteq Users
  /\ \A u \in DOMAIN s.roles : s.roles[u] \in UserRoles
  /\ \A u \in Users : <<"users", u>> \in DOMAIN s.adds => u \in DOMAIN s.roles

Alike(s, t) ==
  /\ s.uses = t.uses /\ s.clears = t.clears /\ s.roles = t.roles
  /\ DOMAIN s.adds = DOMAIN t.adds

\* It does not add what it looks for and finds.
Looks(adds, d) == \A r \in DOMAIN adds \cap LookedFor : d.rows[r] > 0 => adds[r] = 0

\* Found d, the section names the tables U, clears or not, is about the rows R
\* and gives the roles G.
Regular(s, d, U, c, R, G) ==
  /\ IsSection(s) /\ Looks(s.adds, d)
  /\ s.uses = U /\ s.clears = c /\ DOMAIN s.adds = R /\ s.roles = G

\* The rows, table by table.
LEMMA RowsAre ==
  /\ In("users", Users) \subseteq Rows /\ In("service_centers", CentreNames) \subseteq Rows
  /\ In("mechanics", CentreNames \X {"erp", "fake", "demo"}) \subseteq Rows
  /\ In("cars", Plates) \subseteq Rows /\ In("services", Batches) \subseteq Rows
  /\ In("reviews", CentreNames \X Texts) \subseteq Rows
  /\ In("sos_providers", {"user"}) \subseteq Rows
  /\ In("stories", {"user", "content", "rich"}) \subseteq Rows
  /\ In("fuel_stations", {"user", "rich"}) \subseteq Rows
  /\ In("content_pages", Slugs) \subseteq Rows
  /\ In("subscription_plans", {"fake"}) \subseteq Rows
  /\ In("insurance_companies", {"both", "fake", "insurance"}) \subseteq Rows
  /\ In("insurance_tariffs", {"fake", "insurance"}) \subseteq Rows
  /\ In("service_transitions", Batches) \subseteq Rows
  /\ In("mileage_readings", Plates) \subseteq Rows
  /\ In("trips", Users) \subseteq Rows /\ In("sos_requests", {"fake"}) \subseteq Rows
  /\ In("notifications", Users) \subseteq Rows /\ In("devices", Users) \subseteq Rows
  /\ In("payments", {"fake"}) \subseteq Rows
  /\ In("insurance_policies", Users) \subseteq Rows
  /\ In("condition_images", Plates \X {"own", "demo"}) \subseteq Rows
  BY DEF Rows

\* The rows of a table, by their keys.
LEMMA InIs ==
  ASSUME NEW t, NEW K
  PROVE  /\ \A r \in In(t, K) : r[1] = t /\ r[2] \in K /\ r = <<t, r[2]>>
         /\ \A k \in K : <<t, k>> \in In(t, K)
         /\ \A L \in SUBSET K : In(t, L) \subseteq In(t, K)
  BY DEF In

\* The ways to say how many rows.
LEMMA MissingAdds ==
  ASSUME NEW d, NEW R \in SUBSET Rows, NEW U, \A r \in R : r[1] \in U
  PROVE  /\ Adds(Missing(d, R), R, U) /\ DOMAIN Missing(d, R) = R
         /\ Looks(Missing(d, R), d)
  BY DEF Missing, Adds, Looks

\* All of a set of rows.
LEMMA AllAdds ==
  ASSUME NEW R \in SUBSET Rows, NEW U, \A r \in R : r[1] \in U
  PROVE  Adds(All(R), R, U) /\ DOMAIN All(R) = R
  BY DEF All, Adds

\* Under a guard.
LEMMA WhenAdds ==
  ASSUME NEW g, NEW adds, NEW R, NEW U, Adds(adds, R, U)
  PROVE  /\ Adds(When(g, adds), R, U) /\ DOMAIN When(g, adds) = R
         /\ \A d : Looks(adds, d) => Looks(When(g, adds), d)
<1>1. DOMAIN adds = R
  BY DEF Adds
<1> QED  BY <1>1 DEF When, Adds, Looks

\* Both of two.
LEMMA BothAdds ==
  ASSUME NEW f, NEW g, NEW R, NEW T, NEW U, Adds(f, R, U), Adds(g, T, U)
  PROVE  /\ Adds(Both(f, g), R \cup T, U) /\ DOMAIN Both(f, g) = R \cup T
         /\ \A d : Looks(f, d) /\ Looks(g, d) => Looks(Both(f, g), d)
<1>1. DOMAIN f = R /\ DOMAIN g = T
  BY DEF Adds
<1>2. Both(f, g) = [r \in R \cup T |-> IF r \in R THEN f[r] ELSE g[r]]
  BY <1>1 DEF Both
<1>3. DOMAIN Both(f, g) = R \cup T /\ Both(f, g) = [r \in R \cup T |-> Both(f, g)[r]]
  BY <1>2
<1>4. ASSUME NEW r \in R \cup T
      PROVE  Both(f, g)[r] = IF r \in R THEN f[r] ELSE g[r]
  BY <1>2
<1>5. R \cup T \subseteq Rows
  BY DEF Adds
<1>6. ASSUME NEW r \in R \cup T
      PROVE  Both(f, g)[r] \in Nat /\ r[1] \in U
  <2>1. CASE r \in R
    BY <1>4, <2>1 DEF Adds
  <2>2. CASE r \notin R
    BY <1>4, <2>2 DEF Adds
  <2> QED  BY <2>1, <2>2
<1>7. Adds(Both(f, g), R \cup T, U)
  BY <1>3, <1>5, <1>6 DEF Adds
<1>8. ASSUME NEW d, Looks(f, d), Looks(g, d)
      PROVE  Looks(Both(f, g), d)
  <2> SUFFICES ASSUME NEW r \in (R \cup T) \cap LookedFor, d.rows[r] > 0
               PROVE  Both(f, g)[r] = 0
    BY <1>3 DEF Looks
  <2>1. CASE r \in R
    BY <1>1, <1>4, <1>8, <2>1 DEF Looks
  <2>2. CASE r \notin R
    BY <1>1, <1>4, <1>8, <2>2 DEF Looks
  <2> QED  BY <2>1, <2>2
<1> QED  BY <1>3, <1>7, <1>8

\* Filling up to what is due leaves nothing due.
LEMMA FillIs ==
  \A have, due \in Nat : /\ Fill(have, due) \in Nat /\ Fill(have + Fill(have, due), due) = 0
                         /\ (Fill(have, due) = 0) = (have >= due)
  BY DEF Fill

\* A section of rows alone, and one that gives roles.
LEMMA PlainSection ==
  ASSUME NEW U, NEW adds, NEW R, Adds(adds, R, U), NEW d, Looks(adds, d),
         \A r \in R : r[1] # "users"
  PROVE  Regular(Section(U, adds), d, U, FALSE, R, <<>>)
<1> DEFINE s == Section(U, adds)
<1>1. s = [uses |-> U, clears |-> FALSE, adds |-> adds, roles |-> <<>>]
  BY DEF Section
<1>2. s.uses = U /\ s.clears = FALSE /\ s.adds = adds /\ s.roles = <<>>
  BY <1>1
<1>3. DOMAIN adds = R /\ DOMAIN s.roles = {}
  BY <1>2 DEF Adds
<1>4. \A u \in Users : <<"users", u>> \notin R
  OBVIOUS
<1> HIDE DEF s
<1> QED  BY <1>1, <1>2, <1>3, <1>4 DEF IsSection, Regular, s

\* The section gives the roles G as well.
LEMMA GivingSection ==
  ASSUME NEW U, NEW adds, NEW R, Adds(adds, R, U), NEW d, Looks(adds, d),
         NEW G, DOMAIN G \subseteq Users, \A u \in DOMAIN G : G[u] \in UserRoles,
         \A u \in Users : <<"users", u>> \in R => u \in DOMAIN G
  PROVE  Regular(Giving(Section(U, adds), G), d, U, FALSE, R, G)
<1> DEFINE s == Giving(Section(U, adds), G)
<1>1. s = [uses |-> U, clears |-> FALSE, adds |-> adds, roles |-> G]
  <2> DEFINE z == Section(U, adds)
             t == [uses |-> U, clears |-> FALSE, adds |-> adds, roles |-> G]
             Parts == {"uses", "clears", "adds", "roles"}
  <2>1. DOMAIN z = Parts /\ z.uses = U /\ z.adds = adds /\ z.clears = FALSE /\ z.roles = <<>>
    BY DEF Section
  <2>2. s = [z EXCEPT !.roles = G]
    BY DEF Giving
  <2> HIDE DEF z, s
  <2>3. s = [x \in Parts |-> s[x]] /\ t = [x \in Parts |-> t[x]]
    BY <2>1, <2>2
  <2>4. s.uses = t.uses /\ s.adds = t.adds /\ s.clears = t.clears /\ s.roles = t.roles
    BY <2>1, <2>2
  <2> HIDE DEF t
  <2> QED  BY <2>3, <2>4 DEF t
<1>2. s.uses = U /\ s.clears = FALSE /\ s.adds = adds /\ s.roles = G
  BY <1>1
<1>3. DOMAIN adds = R
  BY DEF Adds
<1> HIDE DEF s
<1> QED  BY <1>1, <1>2, <1>3 DEF IsSection, Regular, s

\* The section deletes the pages first.
LEMMA ClearingSection ==
  ASSUME NEW U, NEW adds, NEW R, Adds(adds, R, U), NEW d, Looks(adds, d),
         \A r \in R : r[1] # "users"
  PROVE  Regular(Clearing(Section(U, adds)), d, U, TRUE, R, <<>>)
<1> DEFINE s == Clearing(Section(U, adds))
<1>1. s = [uses |-> U, clears |-> TRUE, adds |-> adds, roles |-> <<>>]
  <2> DEFINE z == Section(U, adds)
             t == [uses |-> U, clears |-> TRUE, adds |-> adds, roles |-> <<>>]
             Parts == {"uses", "clears", "adds", "roles"}
  <2>1. DOMAIN z = Parts /\ z.uses = U /\ z.adds = adds /\ z.clears = FALSE /\ z.roles = <<>>
    BY DEF Section
  <2>2. s = [z EXCEPT !.clears = TRUE]
    BY DEF Clearing
  <2> HIDE DEF z, s
  <2>3. s = [x \in Parts |-> s[x]] /\ t = [x \in Parts |-> t[x]]
    BY <2>1, <2>2
  <2>4. s.uses = t.uses /\ s.adds = t.adds /\ s.clears = t.clears /\ s.roles = t.roles
    BY <2>1, <2>2
  <2> HIDE DEF t
  <2> QED  BY <2>3, <2>4 DEF t
<1>2. s.uses = U /\ s.clears = TRUE /\ s.adds = adds /\ s.roles = <<>>
  BY <1>1
<1>3. DOMAIN adds = R /\ DOMAIN s.roles = {}
  BY <1>2 DEF Adds
<1>4. \A u \in Users : <<"users", u>> \notin R
  OBVIOUS
<1> HIDE DEF s
<1> QED  BY <1>1, <1>2, <1>3, <1>4 DEF IsSection, Regular, s

\* In these tables no section looks for its rows.
LEMMA NotLooked ==
  ASSUME NEW adds, NEW d,
         \A r \in DOMAIN adds :
           r[1] \in {"users", "cars", "mechanics", "services", "reviews", "stories",
                     "content_pages", "subscription_plans", "insurance_tariffs",
                     "service_transitions", "mileage_readings", "devices",
                     "condition_images"}
  PROVE  Looks(adds, d)
  BY DEF Looks, LookedFor

\* So many as the parent of the same key has, less what there is.
LEMMA PerRowIs ==
  ASSUME NEW d, NEW t, NEW up, NEW K
  PROVE  PerRow(d, t, In(up, K)) = [r \in In(t, K) |-> Fill(d.rows[r], d.rows[<<up, r[2]>>])]
<1>1. {t} \X {p[2] : p \in In(up, K)} = In(t, K)
  <2>1. {p[2] : p \in In(up, K)} = K
    <3>1. \A k \in K : <<up, k>> \in In(up, K) /\ <<up, k>>[2] = k
      BY InIs
    <3>2. \A p \in In(up, K) : p[2] \in K
      BY InIs
    <3> QED  BY <3>1, <3>2
  <2> QED  BY <2>1 DEF In
<1>2. PerRow(d, t, In(up, K))
      = [r \in In(t, K) |-> Fill(d.rows[r], d.rows[CHOOSE p \in In(up, K) : p[2] = r[2]])]
  BY <1>1 DEF PerRow
<1>3. ASSUME NEW r \in In(t, K)  PROVE (CHOOSE p \in In(up, K) : p[2] = r[2]) = <<up, r[2]>>
  <2>1. r[2] \in K /\ <<up, r[2]>> \in In(up, K)
    BY InIs
  <2>2. \A p \in In(up, K) : p = <<up, p[2]>>
    BY InIs
  <2> QED  BY <2>1, <2>2
<1> QED  BY <1>2, <1>3

\* One for each row of the parent.
LEMMA PerRowAdds ==
  ASSUME NEW d \in Data, NEW t, NEW up, NEW K, NEW U, t \in U,
         In(t, K) \subseteq Rows, In(up, K) \subseteq Rows
  PROVE  /\ Adds(PerRow(d, t, In(up, K)), In(t, K), U)
         /\ DOMAIN PerRow(d, t, In(up, K)) = In(t, K)
<1> DEFINE f == PerRow(d, t, In(up, K))
<1>1. f = [r \in In(t, K) |-> Fill(d.rows[r], d.rows[<<up, r[2]>>])]
  BY PerRowIs
<1> HIDE DEF f
<1>2. \A r \in In(t, K) : r[1] = t /\ r \in Rows /\ <<up, r[2]>> \in Rows
  BY InIs
<1>3. \A r \in Rows : d.rows[r] \in Nat
  BY SeedingAssumption DEF Data
<1>4. \A r \in In(t, K) : f[r] \in Nat
  BY <1>1, <1>2, <1>3, FillIs
<1>5. f = [r \in In(t, K) |-> f[r]] /\ DOMAIN f = In(t, K)
  BY <1>1
<1> QED  BY <1>2, <1>4, <1>5 DEF Adds, f

\* One for the customer.
LEMMA OfCustomerAdds ==
  ASSUME NEW d, NEW t, NEW U, t \in U, In(t, Users) \subseteq Rows
  PROVE  /\ Adds(OfCustomer(d, t), In(t, Users), U)
         /\ DOMAIN OfCustomer(d, t) = In(t, Users)
         /\ Looks(OfCustomer(d, t), d)
<1>1. OfCustomer(d, t) = [r \in In(t, Users) |->
                            IF r[2] = d.customer /\ d.rows[r] = 0 THEN 1 ELSE 0]
  BY DEF OfCustomer, In
<1>2. \A r \in In(t, Users) : r[1] = t
  BY InIs
<1> QED  BY <1>1, <1>2 DEF Adds, Looks

\* One for every centre that is thin.
LEMMA ThinAdds ==
  ASSUME NEW d \in Data, NEW t, NEW S, NEW U, t \in U,
         In(t, CentreNames \X {"fake"}) \subseteq Rows
  PROVE  /\ Adds(ThinCentres(d, t, S), In(t, CentreNames \X {"fake"}), U)
         /\ DOMAIN ThinCentres(d, t, S) = In(t, CentreNames \X {"fake"})
<1> DEFINE R == In(t, CentreNames \X {"fake"})
           f == ThinCentres(d, t, S)
           filled(z) == {s \in S : d.rows[<<t, <<z, s>>>>] > 0}
<1>1. f = [r \in R |-> IF filled(r[2][1]) = {} THEN d.rows[<<"service_centers", r[2][1]>>]
                       ELSE 0]
  BY DEF ThinCentres, In
<1>2. \A r \in R : r[1] = t /\ r[2][1] \in CentreNames
  BY DEF In
<1>3. \A z \in CentreNames : <<"service_centers", z>> \in Rows
  BY RowsAre, InIs
<1>4. \A r \in Rows : d.rows[r] \in Nat
  BY SeedingAssumption DEF Data
<1> HIDE DEF R
<1>5. \A r \in R : f[r] \in Nat
  <2> TAKE r \in R
  <2>1. d.rows[<<"service_centers", r[2][1]>>] \in Nat
    BY <1>2, <1>3, <1>4
  <2> HIDE DEF filled
  <2> QED  BY <1>1, <2>1
<1>6. f = [r \in R |-> f[r]] /\ DOMAIN f = R
  <2> HIDE DEF filled
  <2> QED  BY <1>1
<1> HIDE DEF f
<1> QED  BY <1>2, <1>5, <1>6 DEF Adds, R, f

-----------------------------------------------------------------------------
(***************************************************************************)
(* The sections one by one.                                                *)
(***************************************************************************)
LEMMA MissingIs ==
  ASSUME NEW d, NEW R \in SUBSET Rows, NEW U, \A r \in R : r[1] \in U /\ r[1] # "users"
  PROVE  Regular(Section(U, Missing(d, R)), d, U, FALSE, R, <<>>)
<1>1. Adds(Missing(d, R), R, U) /\ Looks(Missing(d, R), d)
  BY MissingAdds
<1> QED  BY <1>1, PlainSection

\* Of one table.
LEMMA MissingOne ==
  ASSUME NEW d, NEW t, t # "users", NEW K, In(t, K) \subseteq Rows, NEW U, t \in U
  PROVE  Regular(Section(U, Missing(d, In(t, K))), d, U, FALSE, In(t, K), <<>>)
<1>1. In(t, K) \in SUBSET Rows /\ \A r \in In(t, K) : r[1] \in U /\ r[1] # "users"
  BY InIs
<1> QED  BY <1>1, MissingIs

\* What is missing, and roles.
LEMMA MissingGives ==
  ASSUME NEW d, NEW R \in SUBSET Rows, NEW U, \A r \in R : r[1] \in U,
         NEW G, DOMAIN G \subseteq Users, \A u \in DOMAIN G : G[u] \in UserRoles,
         \A u \in Users : <<"users", u>> \in R => u \in DOMAIN G
  PROVE  Regular(Giving(Section(U, Missing(d, R)), G), d, U, FALSE, R, G)
<1>1. Adds(Missing(d, R), R, U) /\ Looks(Missing(d, R), d)
  BY MissingAdds
<1> QED  BY <1>1, GivingSection

ErpGives == [admin |-> "admin", shared |-> "owner", mexanik1 |-> "mechanic"]
ErpFound == In("users", {"jasur"}) \cup In("cars", {"erp"}) \cup In("services", {"erp"})

\* import_erp_json.
LEMMA ErpSections ==
  ASSUME NEW d
  PROVE  /\ Regular(ErpUsers(d), d, {"users"}, FALSE,
                    In("users", {"admin", "shared", "mexanik1"}), ErpGives)
         /\ Regular(ErpCentre(d), d, {"users", "service_centers"}, FALSE,
                    In("service_centers", {"autopro"}), <<>>)
         /\ Regular(ErpMechanics(d), d, {"mechanics"}, FALSE,
                    In("mechanics", {<<"autopro", "erp">>}), <<>>)
         /\ Regular(ErpVehicles(d), d, {"users", "cars", "services", "service_items"}, FALSE,
                    ErpFound, [jasur |-> "customer"])
         /\ Regular(ErpReviews(d), d, {"reviews"}, FALSE,
                    In("reviews", {<<"autopro", "erp">>}), <<>>)
<1>1. Regular(ErpUsers(d), d, {"users"}, FALSE,
              In("users", {"admin", "shared", "mexanik1"}), ErpGives)
  <2> DEFINE R == In("users", {"admin", "shared", "mexanik1"})
             G == ErpGives
  <2>1. R \in SUBSET Rows /\ \A r \in R : r[1] \in {"users"}
    BY RowsAre, InIs DEF Users
  <2>2. /\ DOMAIN G = {"admin", "shared", "mexanik1"} /\ DOMAIN G \subseteq Users
        /\ \A u \in DOMAIN G : G[u] \in UserRoles
    BY DEF ErpGives, Users, UserRoles
  <2>3. \A u \in Users : <<"users", u>> \in R => u \in DOMAIN G
    BY <2>2 DEF In
  <2>4. ErpUsers(d) = Giving(Section({"users"}, Missing(d, R)), G)
    BY DEF ErpUsers, ErpGives
  <2> HIDE DEF R, G
  <2>5. Regular(ErpUsers(d), d, {"users"}, FALSE, R, G)
    BY <2>1, <2>2, <2>3, <2>4, MissingGives
  <2> QED  BY <2>5 DEF R, G
<1>2. Regular(ErpCentre(d), d, {"users", "service_centers"}, FALSE,
              In("service_centers", {"autopro"}), <<>>)
  <2>1. In("service_centers", {"autopro"}) \subseteq Rows
    BY RowsAre, InIs DEF CentreNames
  <2> QED  BY <2>1, MissingOne DEF ErpCentre
<1>3. Regular(ErpMechanics(d), d, {"mechanics"}, FALSE,
              In("mechanics", {<<"autopro", "erp">>}), <<>>)
  <2>1. {<<"autopro", "erp">>} \subseteq CentreNames \X {"erp", "fake", "demo"}
    BY DEF CentreNames
  <2>2. In("mechanics", {<<"autopro", "erp">>}) \subseteq Rows
    BY <2>1, RowsAre, InIs
  <2> QED  BY <2>2, MissingOne DEF ErpMechanics
<1>4. Regular(ErpVehicles(d), d, {"users", "cars", "services", "service_items"}, FALSE,
              ErpFound, [jasur |-> "customer"])
  <2> DEFINE U == {"users", "cars", "services", "service_items"}
             G == [jasur |-> "customer"]
  <2>1. ErpFound \in SUBSET Rows /\ \A r \in ErpFound : r[1] \in U
    <3>1. /\ In("users", {"jasur"}) \subseteq Rows /\ In("cars", {"erp"}) \subseteq Rows
          /\ In("services", {"erp"}) \subseteq Rows
      BY RowsAre, InIs DEF Users, Plates, Batches
    <3>2. /\ \A r \in In("users", {"jasur"}) : r[1] = "users"
          /\ \A r \in In("cars", {"erp"}) : r[1] = "cars"
          /\ \A r \in In("services", {"erp"}) : r[1] = "services"
      BY InIs
    <3> QED  BY <3>1, <3>2 DEF ErpFound
  <2>2. DOMAIN G = {"jasur"} /\ DOMAIN G \subseteq Users /\ G["jasur"] \in UserRoles
    BY DEF Users, UserRoles
  <2>3. \A u \in Users : <<"users", u>> \in ErpFound => u = "jasur"
    BY DEF ErpFound, In
  <2>4. ErpVehicles(d) = Giving(Section(U, Missing(d, ErpFound)), G)
    BY DEF ErpVehicles, ErpFound
  <2> HIDE DEF U, G
  <2>5. Regular(ErpVehicles(d), d, U, FALSE, ErpFound, G)
    BY <2>1, <2>2, <2>3, <2>4, MissingGives
  <2> QED  BY <2>5 DEF U, G
<1>5. Regular(ErpReviews(d), d, {"reviews"}, FALSE,
              In("reviews", {<<"autopro", "erp">>}), <<>>)
  <2>1. {<<"autopro", "erp">>} \subseteq CentreNames \X Texts
    BY DEF CentreNames, Texts
  <2>2. In("reviews", {<<"autopro", "erp">>}) \subseteq Rows
    BY <2>1, RowsAre, InIs
  <2> QED  BY <2>2, MissingOne DEF ErpReviews
<1> QED  BY <1>1, <1>2, <1>3, <1>4, <1>5

UserGives == [demo_owner |-> "owner", shared |-> "customer"]

\* import_user_json.
LEMMA UserSections ==
  ASSUME NEW d
  PROVE  /\ Regular(EnsureUsers(d), d, {"users"}, FALSE,
                    In("users", {"demo_owner", "shared"}), UserGives)
         /\ Regular(ImportCars(d), d, {"cars"}, FALSE, In("cars", {"user"}), <<>>)
         /\ Regular(ImportCentres(d), d, {"service_centers"}, FALSE,
                    In("service_centers", {"data"}), <<>>)
         /\ Regular(ImportHistory(d), d, {"services", "service_centers", "service_items"},
                    FALSE, In("services", {"user"}), <<>>)
         /\ Regular(ImportSos(d), d, {"sos_providers"}, FALSE,
                    In("sos_providers", {"user"}), <<>>)
         /\ Regular(ImportStories(d), d, {"stories"}, FALSE, In("stories", {"user"}), <<>>)
         /\ Regular(ImportFuelStations(d), d, {"fuel_stations"}, FALSE,
                    In("fuel_stations", {"user"}), <<>>)
         /\ Regular(ImportContent(d), d, {"content_pages"}, FALSE,
                    In("content_pages", {"general", "speed", "user"}), <<>>)
<1>1. Regular(EnsureUsers(d), d, {"users"}, FALSE,
              In("users", {"demo_owner", "shared"}), UserGives)
  <2> DEFINE R == In("users", {"demo_owner", "shared"})
             G == UserGives
  <2>1. R \in SUBSET Rows /\ \A r \in R : r[1] \in {"users"}
    BY RowsAre, InIs DEF Users
  <2>2. /\ DOMAIN G = {"demo_owner", "shared"} /\ DOMAIN G \subseteq Users
        /\ \A u \in DOMAIN G : G[u] \in UserRoles
    BY DEF UserGives, Users, UserRoles
  <2>3. \A u \in Users : <<"users", u>> \in R => u \in DOMAIN G
    BY <2>2 DEF In
  <2>4. EnsureUsers(d) = Giving(Section({"users"}, Missing(d, R)), G)
    BY DEF EnsureUsers, UserGives
  <2> HIDE DEF R, G
  <2>5. Regular(EnsureUsers(d), d, {"users"}, FALSE, R, G)
    BY <2>1, <2>2, <2>3, <2>4, MissingGives
  <2> QED  BY <2>5 DEF R, G
<1>2. /\ In("cars", {"user"}) \subseteq Rows /\ In("service_centers", {"data"}) \subseteq Rows
      /\ In("services", {"user"}) \subseteq Rows
      /\ In("stories", {"user"}) \subseteq Rows /\ In("fuel_stations", {"user"}) \subseteq Rows
      /\ In("content_pages", {"general", "speed", "user"}) \subseteq Rows
  BY RowsAre, InIs DEF Plates, CentreNames, Batches, Slugs
<1>3. Regular(ImportCars(d), d, {"cars"}, FALSE, In("cars", {"user"}), <<>>)
  BY <1>2, MissingOne DEF ImportCars
<1>4. Regular(ImportCentres(d), d, {"service_centers"}, FALSE,
              In("service_centers", {"data"}), <<>>)
  BY <1>2, MissingOne DEF ImportCentres
<1>5. Regular(ImportHistory(d), d, {"services", "service_centers", "service_items"},
              FALSE, In("services", {"user"}), <<>>)
  BY <1>2, MissingOne DEF ImportHistory
<1>6. Regular(ImportSos(d), d, {"sos_providers"}, FALSE, In("sos_providers", {"user"}), <<>>)
  BY RowsAre, MissingOne DEF ImportSos
<1>7. Regular(ImportStories(d), d, {"stories"}, FALSE, In("stories", {"user"}), <<>>)
  BY <1>2, MissingOne DEF ImportStories
<1>8. Regular(ImportFuelStations(d), d, {"fuel_stations"}, FALSE,
              In("fuel_stations", {"user"}), <<>>)
  BY <1>2, MissingOne DEF ImportFuelStations
<1>9. Regular(ImportContent(d), d, {"content_pages"}, FALSE,
              In("content_pages", {"general", "speed", "user"}), <<>>)
  BY <1>2, MissingOne DEF ImportContent
<1> QED  BY <1>1, <1>3, <1>4, <1>5, <1>6, <1>7, <1>8, <1>9

FakeInsured == In("insurance_companies", {"both", "fake"}) \cup In("insurance_tariffs", {"fake"})
FakeNotified == In("notifications", Users) \cup In("devices", Users)
FakePaid == In("payments", {"fake"}) \cup In("insurance_policies", Users)
FakeImages == In("condition_images", Plates \X {"own", "demo"})

\* The rows of the fake seed.
LEMMA FakeRows ==
  /\ In("subscription_plans", {"fake"}) \subseteq Rows
  /\ FakeInsured \subseteq Rows
  /\ \A r \in FakeInsured : r[1] \in {"insurance_companies", "insurance_tariffs"}
  /\ In("mechanics", CentreNames \X {"fake"}) \subseteq Rows
  /\ In("reviews", CentreNames \X {"fake"}) \subseteq Rows
  /\ FakeImages \subseteq Rows /\ \A r \in FakeImages : r[1] = "condition_images"
<1>1. /\ In("insurance_companies", {"both", "fake"}) \subseteq Rows
      /\ In("insurance_tariffs", {"fake"}) \subseteq Rows
  BY RowsAre, InIs
<1>2. /\ \A r \in In("insurance_companies", {"both", "fake"}) : r[1] = "insurance_companies"
      /\ \A r \in In("insurance_tariffs", {"fake"}) : r[1] = "insurance_tariffs"
  BY InIs
<1>3. /\ CentreNames \X {"fake"} \subseteq CentreNames \X {"erp", "fake", "demo"}
      /\ CentreNames \X {"fake"} \subseteq CentreNames \X Texts
  BY DEF Texts
<1>4. /\ In("mechanics", CentreNames \X {"fake"}) \subseteq Rows
      /\ In("reviews", CentreNames \X {"fake"}) \subseteq Rows
  BY <1>3, RowsAre, InIs
<1>5. FakeImages \subseteq Rows /\ \A r \in FakeImages : r[1] = "condition_images"
  BY RowsAre, InIs DEF FakeImages
<1> QED  BY <1>1, <1>2, <1>4, <1>5, RowsAre DEF FakeInsured

\* How many images each car is short of.
LEMMA ImagesAdd ==
  ASSUME NEW d \in Data
  PROVE  LET adds == SeedConditionImages(d).adds IN
         /\ SeedConditionImages(d)
              = Section({"users", "cars", "services", "condition_images"}, adds)
         /\ Adds(adds, FakeImages, {"users", "cars", "services", "condition_images"})
         /\ \A r \in FakeImages :
              adds[r] = LET k == r[2][1]
                            latest == IF d.rows[<<"services", "demo">>] > 0
                                      THEN "demo" ELSE "own"
                            batch == IF latest = "demo" THEN "demo" ELSE k
                        IN IF /\ d.customer # None
                              /\ k \in Garage(d.customer) \cap Keys(d, "cars")
                              /\ r[2][2] = latest /\ batch \in Batches
                           THEN Fill(d.rows[r], d.rows[<<"services", batch>>]) ELSE 0
<1> DEFINE U == {"users", "cars", "services", "condition_images"}
           due(r) == LET k == r[2][1]
                         latest == IF d.rows[<<"services", "demo">>] > 0
                                   THEN "demo" ELSE "own"
                         batch == IF latest = "demo" THEN "demo" ELSE k
                     IN IF /\ d.customer # None
                           /\ k \in Garage(d.customer) \cap Keys(d, "cars")
                           /\ r[2][2] = latest /\ batch \in Batches
                        THEN Fill(d.rows[r], d.rows[<<"services", batch>>]) ELSE 0
           adds == [r \in FakeImages |-> due(r)]
<1>1. SeedConditionImages(d) = Section(U, adds)
  BY DEF SeedConditionImages, FakeImages
<1>2. \A r \in Rows : d.rows[r] \in Nat
  BY SeedingAssumption DEF Data
<1>3. \A b \in Batches : <<"services", b>> \in Rows
  BY RowsAre, InIs
<1>4. \A r \in FakeImages : due(r) \in Nat
  <2> TAKE r \in FakeImages
  <2>1. d.rows[r] \in Nat
    BY <1>2, FakeRows
  <2>2. \A b \in Batches : Fill(d.rows[r], d.rows[<<"services", b>>]) \in Nat
    BY <1>2, <1>3, <2>1, FillIs
  <2> QED  BY <2>2
<1>5. "condition_images" \in U
  OBVIOUS
<1> HIDE DEF due
<1>6. Adds(adds, FakeImages, U)
  BY <1>4, <1>5, FakeRows DEF Adds
<1>7. Section(U, adds).adds = adds
  BY DEF Section
<1>8. \A r \in FakeImages : adds[r] = due(r)
  OBVIOUS
<1> HIDE DEF adds, U
<1>9. LET a == SeedConditionImages(d).adds IN
      /\ SeedConditionImages(d) = Section(U, a)
      /\ Adds(a, FakeImages, U) /\ \A r \in FakeImages : a[r] = due(r)
  BY <1>1, <1>6, <1>7, <1>8
<1> QED  BY <1>9 DEF due, U

\* seed_fake_data.
LEMMA FakeSections ==
  ASSUME NEW d \in Data
  PROVE  /\ Regular(SeedPlans(d), d, {"subscription_plans"}, FALSE,
                    In("subscription_plans", {"fake"}), <<>>)
         /\ Regular(SeedFakeInsurance(d), d, {"insurance_companies", "insurance_tariffs"},
                    FALSE, FakeInsured, <<>>)
         /\ Regular(SeedMechanics(d), d, {"service_centers", "mechanics"}, FALSE,
                    In("mechanics", CentreNames \X {"fake"}), <<>>)
         /\ Regular(SeedReviews(d), d, {"users", "service_centers", "reviews"}, FALSE,
                    In("reviews", CentreNames \X {"fake"}), <<>>)
         /\ Regular(SeedServiceTransitions(d), d, {"services", "users", "service_transitions"},
                    FALSE, In("service_transitions", Batches), <<>>)
         /\ Regular(SeedMileageReadings(d), d, {"cars", "mileage_readings"}, FALSE,
                    In("mileage_readings", Plates), <<>>)
         /\ Regular(SeedTrips(d), d, {"users", "trips", "cars", "trip_points"}, FALSE,
                    In("trips", Users), <<>>)
         /\ Regular(SeedSosRequests(d), d, {"users", "sos_requests", "sos_providers"}, FALSE,
                    In("sos_requests", {"fake"}), <<>>)
         /\ Regular(SeedNotifications(d), d, {"users", "notifications", "devices"}, FALSE,
                    FakeNotified, <<>>)
         /\ Regular(SeedPaymentsAndPolicies(d), d,
                    {"users", "subscription_plans", "service_centers", "payments",
                     "insurance_tariffs", "insurance_companies", "insurance_policies", "cars"},
                    FALSE, FakePaid, <<>>)
         /\ Regular(SeedConditionImages(d), d,
                    {"users", "cars", "services", "condition_images"}, FALSE, FakeImages, <<>>)
<1>1. Regular(SeedPlans(d), d, {"subscription_plans"}, FALSE,
              In("subscription_plans", {"fake"}), <<>>)
  BY FakeRows, MissingOne DEF SeedPlans
<1>2. Regular(SeedFakeInsurance(d), d, {"insurance_companies", "insurance_tariffs"},
              FALSE, FakeInsured, <<>>)
  <2> DEFINE U == {"insurance_companies", "insurance_tariffs"}
  <2>1. FakeInsured \in SUBSET Rows /\ \A r \in FakeInsured : r[1] \in U /\ r[1] # "users"
    BY FakeRows
  <2>2. SeedFakeInsurance(d) = Section(U, Missing(d, FakeInsured))
    BY DEF SeedFakeInsurance, FakeInsured
  <2> HIDE DEF U
  <2>3. Regular(SeedFakeInsurance(d), d, U, FALSE, FakeInsured, <<>>)
    BY <2>1, <2>2, MissingIs
  <2> QED  BY <2>3 DEF U
<1>3. Regular(SeedMechanics(d), d, {"service_centers", "mechanics"}, FALSE,
              In("mechanics", CentreNames \X {"fake"}), <<>>)
  <2> DEFINE U == {"service_centers", "mechanics"}
             R == In("mechanics", CentreNames \X {"fake"})
             adds == ThinCentres(d, "mechanics", {"erp", "fake", "demo"})
  <2>1. Adds(adds, R, U) /\ DOMAIN adds = R
    BY FakeRows, ThinAdds
  <2>2. \A r \in R : r[1] = "mechanics"
    BY InIs
  <2> HIDE DEF adds, R
  <2>3. Looks(adds, d)
    BY <2>1, <2>2, NotLooked
  <2>4. Regular(Section(U, adds), d, U, FALSE, R, <<>>)
    BY <2>1, <2>2, <2>3, PlainSection
  <2> QED  BY <2>4 DEF SeedMechanics, adds, R
<1>4. Regular(SeedReviews(d), d, {"users", "service_centers", "reviews"}, FALSE,
              In("reviews", CentreNames \X {"fake"}), <<>>)
  <2> DEFINE U == {"users", "service_centers", "reviews"}
             R == In("reviews", CentreNames \X {"fake"})
             thin == ThinCentres(d, "reviews", Texts)
             adds == When(Customers(d) # {}, thin)
  <2>1. Adds(thin, R, U)
    BY FakeRows, ThinAdds
  <2>2. \A r \in R : r[1] = "reviews"
    BY InIs
  <2> HIDE DEF thin, R, U
  <2>3. Adds(adds, R, U) /\ DOMAIN adds = R
    BY <2>1, WhenAdds
  <2> HIDE DEF adds
  <2>4. Looks(adds, d)
    BY <2>2, <2>3, NotLooked
  <2>5. Regular(Section(U, adds), d, U, FALSE, R, <<>>)
    BY <2>2, <2>3, <2>4, PlainSection
  <2> QED  BY <2>5 DEF SeedReviews, adds, thin, R, U
<1>5. Regular(SeedServiceTransitions(d), d, {"services", "users", "service_transitions"},
              FALSE, In("service_transitions", Batches), <<>>)
  <2> DEFINE U == {"services", "users", "service_transitions"}
             R == In("service_transitions", Batches)
             adds == PerRow(d, "service_transitions", In("services", Batches))
  <2>1. Adds(adds, R, U) /\ DOMAIN adds = R
    BY RowsAre, PerRowAdds
  <2>2. \A r \in R : r[1] = "service_transitions"
    BY InIs
  <2> HIDE DEF adds, R
  <2>3. Looks(adds, d)
    BY <2>1, <2>2, NotLooked
  <2>4. Regular(Section(U, adds), d, U, FALSE, R, <<>>)
    BY <2>1, <2>2, <2>3, PlainSection
  <2> QED  BY <2>4 DEF SeedServiceTransitions, adds, R
<1>6. Regular(SeedMileageReadings(d), d, {"cars", "mileage_readings"}, FALSE,
              In("mileage_readings", Plates), <<>>)
  <2> DEFINE U == {"cars", "mileage_readings"}
             R == In("mileage_readings", Plates)
             adds == PerRow(d, "mileage_readings", In("cars", Plates))
  <2>1. Adds(adds, R, U) /\ DOMAIN adds = R
    BY RowsAre, PerRowAdds
  <2>2. \A r \in R : r[1] = "mileage_readings"
    BY InIs
  <2> HIDE DEF adds, R
  <2>3. Looks(adds, d)
    BY <2>1, <2>2, NotLooked
  <2>4. Regular(Section(U, adds), d, U, FALSE, R, <<>>)
    BY <2>1, <2>2, <2>3, PlainSection
  <2> QED  BY <2>4 DEF SeedMileageReadings, adds, R
<1>7. Regular(SeedTrips(d), d, {"users", "trips", "cars", "trip_points"}, FALSE,
              In("trips", Users), <<>>)
  <2> DEFINE U == {"users", "trips", "cars", "trip_points"}
             R == In("trips", Users)
             adds == OfCustomer(d, "trips")
  <2>1. Adds(adds, R, U) /\ Looks(adds, d)
    BY RowsAre, OfCustomerAdds
  <2>2. \A r \in R : r[1] # "users"
    BY InIs
  <2> HIDE DEF adds, R
  <2>3. Regular(Section(U, adds), d, U, FALSE, R, <<>>)
    BY <2>1, <2>2, PlainSection
  <2> QED  BY <2>3 DEF SeedTrips, adds, R
<1>8. Regular(SeedSosRequests(d), d, {"users", "sos_requests", "sos_providers"}, FALSE,
              In("sos_requests", {"fake"}), <<>>)
  <2> DEFINE U == {"users", "sos_requests", "sos_providers"}
             R == In("sos_requests", {"fake"})
             found == Missing(d, R)
             adds == When(d.customer # None /\ Keys(d, "sos_providers") # {}, found)
  <2>1. R \in SUBSET Rows /\ \A r \in R : r[1] \in U /\ r[1] # "users"
    BY RowsAre, InIs
  <2> HIDE DEF R, U
  <2>2. Adds(found, R, U) /\ Looks(found, d)
    BY <2>1, MissingAdds
  <2> HIDE DEF found
  <2>3. Adds(adds, R, U) /\ Looks(adds, d)
    BY <2>2, WhenAdds
  <2> HIDE DEF adds
  <2>4. Regular(Section(U, adds), d, U, FALSE, R, <<>>)
    BY <2>1, <2>3, PlainSection
  <2> QED  BY <2>4 DEF SeedSosRequests, adds, found, R, U
<1>9. Regular(SeedNotifications(d), d, {"users", "notifications", "devices"}, FALSE,
              FakeNotified, <<>>)
  <2> DEFINE U == {"users", "notifications", "devices"}
             R == In("notifications", Users)
             T == In("devices", Users)
             mine == OfCustomer(d, "notifications")
             per == PerRow(d, "devices", In("users", Users))
             due == When(d.customer # None, per)
             adds == Both(mine, due)
  <2>1. Adds(mine, R, U) /\ Looks(mine, d)
    BY RowsAre, OfCustomerAdds
  <2>2. Adds(per, T, U)
    BY RowsAre, PerRowAdds
  <2>3. (\A r \in R : r[1] = "notifications") /\ (\A r \in T : r[1] = "devices")
    BY InIs
  <2> HIDE DEF mine, per, R, T, U
  <2>4. Adds(due, T, U) /\ DOMAIN due = T
    BY <2>2, WhenAdds
  <2> HIDE DEF due
  <2>5. Looks(due, d)
    BY <2>3, <2>4, NotLooked
  <2>6. Adds(adds, R \cup T, U) /\ Looks(adds, d)
    BY <2>1, <2>4, <2>5, BothAdds
  <2> HIDE DEF adds
  <2>7. Regular(Section(U, adds), d, U, FALSE, R \cup T, <<>>)
    BY <2>3, <2>6, PlainSection
  <2> QED  BY <2>7 DEF SeedNotifications, FakeNotified, adds, due, mine, per, R, T, U
<1>10. Regular(SeedPaymentsAndPolicies(d), d,
               {"users", "subscription_plans", "service_centers", "payments",
                "insurance_tariffs", "insurance_companies", "insurance_policies", "cars"},
               FALSE, FakePaid, <<>>)
  <2> DEFINE U == {"users", "subscription_plans", "service_centers", "payments",
                   "insurance_tariffs", "insurance_companies", "insurance_policies", "cars"}
             R == In("payments", {"fake"})
             T == In("insurance_policies", Users)
             found == Missing(d, R)
             mine == OfCustomer(d, "insurance_policies")
             paid == When(/\ Owners(d) # {} /\ Keys(d, "subscription_plans") # {}
                          /\ Keys(d, "service_centers") # {}, found)
             held == When(/\ "fake" \in Keys(d, "insurance_tariffs")
                          /\ d.customer # None
                          /\ Garage(d.customer) \cap Keys(d, "cars") # {}, mine)
             adds == Both(paid, held)
  <2>1. R \in SUBSET Rows /\ \A r \in R : r[1] = "payments"
    BY RowsAre, InIs
  <2>2. Adds(mine, T, U) /\ Looks(mine, d)
    BY RowsAre, OfCustomerAdds
  <2>3. /\ \A r \in T : r[1] # "users"
        /\ "payments" \in U
    BY InIs
  <2> HIDE DEF mine, R, T, U
  <2>4. Adds(found, R, U) /\ Looks(found, d)
    BY <2>1, <2>3, MissingAdds
  <2> HIDE DEF found
  <2>5. Adds(paid, R, U) /\ Looks(paid, d)
    BY <2>4, WhenAdds
  <2>6. Adds(held, T, U) /\ Looks(held, d)
    BY <2>2, WhenAdds
  <2> HIDE DEF paid, held
  <2>7. Adds(adds, R \cup T, U) /\ Looks(adds, d)
    BY <2>5, <2>6, BothAdds
  <2> HIDE DEF adds
  <2>8. Regular(Section(U, adds), d, U, FALSE, R \cup T, <<>>)
    BY <2>1, <2>3, <2>7, PlainSection
  <2> QED  BY <2>8 DEF SeedPaymentsAndPolicies, FakePaid, adds, paid, held, found, mine, R, T, U
<1>11. Regular(SeedConditionImages(d), d, {"users", "cars", "services", "condition_images"},
               FALSE, FakeImages, <<>>)
  <2> DEFINE U == {"users", "cars", "services", "condition_images"}
             adds == SeedConditionImages(d).adds
  <2>1. SeedConditionImages(d) = Section(U, adds) /\ Adds(adds, FakeImages, U)
    BY ImagesAdd
  <2> HIDE DEF adds, U
  <2>2. DOMAIN adds = FakeImages
    BY <2>1 DEF Adds
  <2>3. Looks(adds, d)
    BY <2>2, FakeRows, NotLooked
  <2>4. Regular(Section(U, adds), d, U, FALSE, FakeImages, <<>>)
    BY <2>1, <2>3, FakeRows, PlainSection
  <2> QED  BY <2>1, <2>4 DEF U
<1> QED  BY <1>1, <1>2, <1>3, <1>4, <1>5, <1>6, <1>7, <1>8, <1>9, <1>10, <1>11

Insured == In("insurance_companies", {"both", "insurance"})
           \cup In("insurance_tariffs", {"insurance"})
RichFound == In("cars", {"rich"}) \cup In("stories", {"rich"}) \cup In("fuel_stations", {"rich"})
ContentAdded == In("content_pages", {"speed", "content"}) \cup In("stories", {"content"})
DemoAdded ==
  (In("users", {"plain"}) \cup In("service_centers", {"ulov"}))
    \cup (In("cars", {"demo"}) \cup In("mechanics", CentreNames \X {"demo"}))

\* The rows of the single-purpose seeds.
LEMMA OtherRows ==
  /\ \A r \in Insured : r \in Rows /\ r[1] \in {"insurance_companies", "insurance_tariffs"}
  /\ \A r \in RichFound : r \in Rows /\ r[1] \in {"cars", "stories", "fuel_stations"}
  /\ \A r \in ContentAdded : r \in Rows /\ r[1] \in {"content_pages", "stories"}
  /\ \A r \in In("content_pages", {"general", "speed"}) : r \in Rows /\ r[1] = "content_pages"
  /\ \A r \in In("content_pages", {"general", "bulk"}) : r \in Rows /\ r[1] = "content_pages"
  /\ \A r \in In("services", {"demo"}) : r \in Rows /\ r[1] = "services"
<1>1. \A r \in Insured : r \in Rows /\ r[1] \in {"insurance_companies", "insurance_tariffs"}
  <2>1. /\ In("insurance_companies", {"both", "insurance"}) \subseteq Rows
        /\ In("insurance_tariffs", {"insurance"}) \subseteq Rows
    BY RowsAre, InIs
  <2>2. /\ \A r \in In("insurance_companies", {"both", "insurance"}) : r[1] = "insurance_companies"
        /\ \A r \in In("insurance_tariffs", {"insurance"}) : r[1] = "insurance_tariffs"
    BY InIs
  <2> QED  BY <2>1, <2>2 DEF Insured
<1>2. \A r \in RichFound : r \in Rows /\ r[1] \in {"cars", "stories", "fuel_stations"}
  <2>1. /\ In("cars", {"rich"}) \subseteq Rows /\ In("stories", {"rich"}) \subseteq Rows
        /\ In("fuel_stations", {"rich"}) \subseteq Rows
    BY RowsAre, InIs DEF Plates
  <2>2. /\ \A r \in In("cars", {"rich"}) : r[1] = "cars"
        /\ \A r \in In("stories", {"rich"}) : r[1] = "stories"
        /\ \A r \in In("fuel_stations", {"rich"}) : r[1] = "fuel_stations"
    BY InIs
  <2> QED  BY <2>1, <2>2 DEF RichFound
<1>3. \A r \in ContentAdded : r \in Rows /\ r[1] \in {"content_pages", "stories"}
  <2>1. /\ In("content_pages", {"speed", "content"}) \subseteq Rows
        /\ In("stories", {"content"}) \subseteq Rows
    BY RowsAre, InIs DEF Slugs
  <2>2. /\ \A r \in In("content_pages", {"speed", "content"}) : r[1] = "content_pages"
        /\ \A r \in In("stories", {"content"}) : r[1] = "stories"
    BY InIs
  <2> QED  BY <2>1, <2>2 DEF ContentAdded
<1>4. /\ \A r \in In("content_pages", {"general", "speed"}) : r \in Rows /\ r[1] = "content_pages"
      /\ \A r \in In("content_pages", {"general", "bulk"}) : r \in Rows /\ r[1] = "content_pages"
  BY RowsAre, InIs DEF Slugs
<1>5. \A r \in In("services", {"demo"}) : r \in Rows /\ r[1] = "services"
  BY RowsAre, InIs DEF Batches
<1> QED  BY <1>1, <1>2, <1>3, <1>4, <1>5

\* The rows of a section that does not look.
LEMMA AllIs ==
  ASSUME NEW d, NEW R \in SUBSET Rows, NEW U, \A r \in R : r[1] \in U,
         \A r \in R : r[1] \in {"content_pages", "stories", "services"}
  PROVE  /\ Regular(Section(U, All(R)), d, U, FALSE, R, <<>>)
         /\ Regular(Clearing(Section(U, All(R))), d, U, TRUE, R, <<>>)
<1>1. Adds(All(R), R, U) /\ DOMAIN All(R) = R
  BY AllAdds
<1>2. Looks(All(R), d)
  BY <1>1, NotLooked
<1> QED  BY <1>1, <1>2, PlainSection, ClearingSection

DemoUses == {"users", "service_centers", "cars", "mechanics"}

\* The demo seed's first section.
LEMMA DemoIs ==
  ASSUME NEW d \in Data
  PROVE  Regular(DemoBase(d), d, DemoUses, FALSE, DemoAdded, [plain |-> "owner"])
<1> DEFINE U == DemoUses
           none == Keys(d, "service_centers") = {}
           mechanics(r) == IF r[2][1] = "ulov" /\ none THEN 1
                           ELSE Fill(d.rows[r], d.rows[<<"service_centers", r[2][1]>>])
           R1 == In("users", {"plain"})
           R2 == In("service_centers", {"ulov"})
           R3 == In("cars", {"demo"})
           R4 == In("mechanics", CentreNames \X {"demo"})
           a1 == When(Owners(d) = {}, All(R1))
           a2 == When(none, All(R2))
           a3 == When(Keys(d, "cars") = {}, All(R3))
           a4 == [r \in R4 |-> mechanics(r)]
           adds == Both(Both(a1, a2), Both(a3, a4))
<1>1. /\ R1 \in SUBSET Rows /\ R2 \in SUBSET Rows /\ R3 \in SUBSET Rows
      /\ \A r \in R1 : r[1] = "users"
      /\ \A r \in R2 : r[1] = "service_centers"
      /\ \A r \in R3 : r[1] = "cars"
  BY RowsAre, InIs DEF Users, CentreNames, Plates
<1>2. /\ R4 \in SUBSET Rows
      /\ \A r \in R4 : r[1] = "mechanics" /\ r[2][1] \in CentreNames
  <2>1. CentreNames \X {"demo"} \subseteq CentreNames \X {"erp", "fake", "demo"}
    OBVIOUS
  <2>2. R4 \subseteq Rows
    BY <2>1, RowsAre, InIs
  <2>3. \A r \in R4 : r[1] = "mechanics" /\ r[2] \in CentreNames \X {"demo"}
    BY InIs
  <2> HIDE DEF R4
  <2> QED  BY <2>2, <2>3
<1>3. \A r \in Rows : d.rows[r] \in Nat
  BY SeedingAssumption DEF Data
<1>4. \A r \in R4 : mechanics(r) \in Nat
  <2> TAKE r \in R4
  <2>1. d.rows[r] \in Nat
    BY <1>2, <1>3
  <2>2. d.rows[<<"service_centers", r[2][1]>>] \in Nat
    BY <1>2, <1>3, RowsAre, InIs
  <2>3. Fill(d.rows[r], d.rows[<<"service_centers", r[2][1]>>]) \in Nat
    BY <2>1, <2>2, FillIs
  <2> HIDE DEF none
  <2> QED  BY <2>3
<1>5. "users" \in U /\ "service_centers" \in U /\ "cars" \in U /\ "mechanics" \in U
  BY DEF DemoUses
<1> HIDE DEF R1, R2, R3, R4, mechanics, U
<1>6. Adds(a4, R4, U) /\ DOMAIN a4 = R4
  BY <1>2, <1>4, <1>5 DEF Adds
<1>7. Adds(All(R1), R1, U) /\ Adds(All(R2), R2, U) /\ Adds(All(R3), R3, U)
  BY <1>1, <1>5, AllAdds
<1>8. /\ Adds(a1, R1, U) /\ DOMAIN a1 = R1 /\ Adds(a3, R3, U) /\ DOMAIN a3 = R3
      /\ Adds(a2, R2, U) /\ DOMAIN a2 = R2
  <2>1. Adds(a1, R1, U) /\ DOMAIN a1 = R1
    BY <1>7, WhenAdds
  <2>2. Adds(a2, R2, U) /\ DOMAIN a2 = R2
    <3> HIDE DEF none
    <3> QED  BY <1>7, WhenAdds
  <2>3. Adds(a3, R3, U) /\ DOMAIN a3 = R3
    BY <1>7, WhenAdds
  <2> QED  BY <2>1, <2>2, <2>3
<1>9. Looks(a2, d)
  <2>1. ASSUME NEW r \in R2, d.rows[r] > 0  PROVE ~none
    <3>1. r = <<"service_centers", "ulov">>
      BY InIs DEF R2
    <3>2. r \in Rows /\ r[1] = "service_centers"
      BY <1>1
    <3> QED  BY <2>1, <3>2 DEF Keys
  <2>2. a2 = [r \in R2 |-> IF none THEN All(R2)[r] ELSE 0]
    BY AllAdds, <1>1 DEF When
  <2> HIDE DEF none, a2
  <2> QED  BY <2>1, <2>2 DEF Looks
<1> HIDE DEF none, a1, a2, a3, a4
<1>10. Looks(a1, d) /\ Looks(a3, d) /\ Looks(a4, d)
  BY <1>1, <1>2, <1>6, <1>8, NotLooked
<1>11. /\ Adds(Both(a1, a2), R1 \cup R2, U) /\ Looks(Both(a1, a2), d)
       /\ Adds(Both(a3, a4), R3 \cup R4, U) /\ Looks(Both(a3, a4), d)
  BY <1>6, <1>8, <1>9, <1>10, BothAdds
<1>12. Adds(adds, (R1 \cup R2) \cup (R3 \cup R4), U) /\ Looks(adds, d)
  BY <1>11, BothAdds
<1> HIDE DEF adds
<1> DEFINE G == [plain |-> "owner"]
<1>13. DOMAIN G \subseteq Users /\ DOMAIN G = {"plain"} /\ G["plain"] \in UserRoles
  BY DEF Users, UserRoles
<1>14. \A u \in Users : <<"users", u>> \in (R1 \cup R2) \cup (R3 \cup R4) => u \in DOMAIN G
  <2> TAKE u \in Users
  <2>1. <<"users", u>> \in R1 => u = "plain"
    BY InIs DEF R1
  <2>2. <<"users", u>> \notin R2 \cup (R3 \cup R4)
    BY <1>1, <1>2
  <2> QED  BY <1>13, <2>1, <2>2
<1> HIDE DEF G
<1>15. Regular(Giving(Section(U, adds), G), d, U, FALSE, (R1 \cup R2) \cup (R3 \cup R4), G)
  BY <1>12, <1>13, <1>14, GivingSection
<1> QED  BY <1>15 DEF DemoBase, DemoAdded, adds, a1, a2, a3, a4, mechanics, none, G,
                      R1, R2, R3, R4, U, DemoUses

\* The single-purpose seeds.
LEMMA OtherSections ==
  ASSUME NEW d \in Data
  PROVE  /\ Regular(Seed(d)[1], d, {"content_pages"}, FALSE,
                    In("content_pages", {"general", "speed"}), <<>>)
         /\ Regular(SeedContent(d)[1], d, {"content_pages", "stories"}, FALSE,
                    ContentAdded, <<>>)
         /\ Regular(SeedBulk(d)[1], d, {"content_pages"}, TRUE,
                    In("content_pages", {"general", "bulk"}), <<>>)
         /\ Regular(ImportCms(d)[1], d, {"content_pages"}, TRUE, {}, <<>>)
         /\ Regular(ImportCms(d)[2], d, {"content_pages"}, FALSE,
                    In("content_pages", {"general", "speed"}), <<>>)
         /\ Regular(SeedInsurance(d)[1], d, {"insurance_companies", "insurance_tariffs"},
                    FALSE, Insured, <<>>)
         /\ Regular(DemoServices(d), d, {"cars", "services", "service_items"}, FALSE,
                    In("services", {"demo"}), <<>>)
         /\ Regular(SeedRich(d)[1], d, {"users", "cars", "stories", "fuel_stations"}, FALSE,
                    RichFound, <<>>)
<1>1. Regular(Seed(d)[1], d, {"content_pages"}, FALSE,
              In("content_pages", {"general", "speed"}), <<>>)
  <2>1. In("content_pages", {"general", "speed"}) \subseteq Rows
    BY OtherRows
  <2> QED  BY <2>1, MissingOne DEF Seed
<1>2. Regular(SeedContent(d)[1], d, {"content_pages", "stories"}, FALSE, ContentAdded, <<>>)
  <2> DEFINE U == {"content_pages", "stories"}
  <2>1. /\ ContentAdded \in SUBSET Rows
        /\ \A r \in ContentAdded : r[1] \in U
        /\ \A r \in ContentAdded : r[1] \in {"content_pages", "stories", "services"}
    BY OtherRows
  <2>2. SeedContent(d)[1] = Section(U, All(ContentAdded))
    BY DEF SeedContent, ContentAdded
  <2> HIDE DEF U
  <2>3. Regular(SeedContent(d)[1], d, U, FALSE, ContentAdded, <<>>)
    BY <2>1, <2>2, AllIs
  <2> QED  BY <2>3 DEF U
<1>3. Regular(SeedBulk(d)[1], d, {"content_pages"}, TRUE,
              In("content_pages", {"general", "bulk"}), <<>>)
  <2>1. In("content_pages", {"general", "bulk"}) \in SUBSET Rows
    BY OtherRows
  <2> QED  BY <2>1, OtherRows, AllIs DEF SeedBulk
<1>4. Regular(ImportCms(d)[1], d, {"content_pages"}, TRUE, {}, <<>>)
  <2>1. Adds(<<>>, {}, {"content_pages"}) /\ Looks(<<>>, d)
    BY DEF Adds, Looks
  <2> QED  BY <2>1, ClearingSection DEF ImportCms
<1>5. Regular(ImportCms(d)[2], d, {"content_pages"}, FALSE,
              In("content_pages", {"general", "speed"}), <<>>)
  <2>1. In("content_pages", {"general", "speed"}) \in SUBSET Rows
    BY OtherRows
  <2> QED  BY <2>1, OtherRows, AllIs DEF ImportCms
<1>6. Regular(SeedInsurance(d)[1], d, {"insurance_companies", "insurance_tariffs"},
              FALSE, Insured, <<>>)
  <2> DEFINE U == {"insurance_companies", "insurance_tariffs"}
  <2>1. Insured \in SUBSET Rows /\ \A r \in Insured : r[1] \in U /\ r[1] # "users"
    BY OtherRows
  <2>2. SeedInsurance(d)[1] = Section(U, Missing(d, Insured))
    BY DEF SeedInsurance, Insured
  <2> HIDE DEF U
  <2>3. Regular(SeedInsurance(d)[1], d, U, FALSE, Insured, <<>>)
    BY <2>1, <2>2, MissingIs
  <2> QED  BY <2>3 DEF U
<1>7. Regular(DemoServices(d), d, {"cars", "services", "service_items"}, FALSE,
              In("services", {"demo"}), <<>>)
  <2>1. In("services", {"demo"}) \in SUBSET Rows
    BY OtherRows
  <2> QED  BY <2>1, OtherRows, AllIs DEF DemoServices
<1>8. Regular(SeedRich(d)[1], d, {"users", "cars", "stories", "fuel_stations"}, FALSE,
              RichFound, <<>>)
  <2> DEFINE U == {"users", "cars", "stories", "fuel_stations"}
             found == Missing(d, RichFound)
             adds == When("plain" \in Keys(d, "users"), found)
  <2>1. RichFound \in SUBSET Rows /\ \A r \in RichFound : r[1] \in U /\ r[1] # "users"
    BY OtherRows
  <2> HIDE DEF U
  <2>2. Adds(found, RichFound, U) /\ Looks(found, d)
    BY <2>1, MissingAdds
  <2> HIDE DEF found
  <2>3. Adds(adds, RichFound, U) /\ Looks(adds, d)
    BY <2>2, WhenAdds
  <2> HIDE DEF adds
  <2>4. Regular(Section(U, adds), d, U, FALSE, RichFound, <<>>)
    BY <2>1, <2>3, PlainSection
  <2> QED  BY <2>4 DEF SeedRich, RichFound, adds, found, U
<1> QED  BY <1>1, <1>2, <1>3, <1>4, <1>5, <1>6, <1>7, <1>8

-----------------------------------------------------------------------------
(***************************************************************************)
(* The scripts: a script has the same sections whatever it finds.          *)
(***************************************************************************)
Suits(s, t, d) == IsSection(s) /\ Looks(s.adds, d) /\ Alike(s, t)

AllFit(a, b, d) ==
  /\ Len(a) = Len(b) /\ Len(a) \in Nat \ {0} /\ DOMAIN a = 1 .. Len(a)
  /\ \A i \in 1 .. Len(a) : Suits(a[i], b[i], d)

\* Two regular sections of one form fit.
LEMMA SuitsIs ==
  ASSUME NEW s, NEW t, NEW d, NEW e, NEW U, NEW c, NEW R, NEW G,
         Regular(s, d, U, c, R, G), Regular(t, e, U, c, R, G)
  PROVE  Suits(s, t, d)
  BY DEF Suits, Regular, Alike

\* So do those of every script, against any data.
LEMMA ErpFits == ASSUME NEW d, NEW e PROVE AllFit(ImportErp(d), ImportErp(e), d)
<1>1. Suits(ErpUsers(d), ErpUsers(e), d) /\ Suits(ErpCentre(d), ErpCentre(e), d)
  BY ErpSections, SuitsIs
<1>2. Suits(ErpMechanics(d), ErpMechanics(e), d) /\ Suits(ErpVehicles(d), ErpVehicles(e), d)
  BY ErpSections, SuitsIs
<1>3. Suits(ErpReviews(d), ErpReviews(e), d)
  BY ErpSections, SuitsIs
<1> QED  BY <1>1, <1>2, <1>3 DEF AllFit, ImportErp

LEMMA UserFits == ASSUME NEW d, NEW e PROVE AllFit(ImportUser(d), ImportUser(e), d)
<1>1. Suits(EnsureUsers(d), EnsureUsers(e), d) /\ Suits(ImportCars(d), ImportCars(e), d)
  BY UserSections, SuitsIs
<1>2. Suits(ImportCentres(d), ImportCentres(e), d) /\ Suits(ImportHistory(d), ImportHistory(e), d)
  BY UserSections, SuitsIs
<1>3. Suits(ImportSos(d), ImportSos(e), d) /\ Suits(ImportStories(d), ImportStories(e), d)
  BY UserSections, SuitsIs
<1>4. Suits(ImportFuelStations(d), ImportFuelStations(e), d)
      /\ Suits(ImportContent(d), ImportContent(e), d)
  BY UserSections, SuitsIs
<1> QED  BY <1>1, <1>2, <1>3, <1>4 DEF AllFit, ImportUser

LEMMA FakeFits ==
  ASSUME NEW d \in Data, NEW e \in Data PROVE AllFit(SeedFake(d), SeedFake(e), d)
<1>1. Suits(SeedPlans(d), SeedPlans(e), d) /\ Suits(SeedFakeInsurance(d), SeedFakeInsurance(e), d)
  BY FakeSections, SuitsIs
<1>2. Suits(SeedMechanics(d), SeedMechanics(e), d) /\ Suits(SeedReviews(d), SeedReviews(e), d)
  BY FakeSections, SuitsIs
<1>3. Suits(SeedServiceTransitions(d), SeedServiceTransitions(e), d)
      /\ Suits(SeedMileageReadings(d), SeedMileageReadings(e), d)
  BY FakeSections, SuitsIs
<1>4. Suits(SeedTrips(d), SeedTrips(e), d) /\ Suits(SeedSosRequests(d), SeedSosRequests(e), d)
  BY FakeSections, SuitsIs
<1>5. Suits(SeedNotifications(d), SeedNotifications(e), d)
      /\ Suits(SeedPaymentsAndPolicies(d), SeedPaymentsAndPolicies(e), d)
  BY FakeSections, SuitsIs
<1>6. Suits(SeedConditionImages(d), SeedConditionImages(e), d)
  BY FakeSections, SuitsIs
<1> QED  BY <1>1, <1>2, <1>3, <1>4, <1>5, <1>6 DEF AllFit, SeedFake

LEMMA OtherFits ==
  ASSUME NEW d \in Data, NEW e \in Data
  PROVE  /\ AllFit(Seed(d), Seed(e), d) /\ AllFit(SeedContent(d), SeedContent(e), d)
         /\ AllFit(SeedBulk(d), SeedBulk(e), d) /\ AllFit(ImportCms(d), ImportCms(e), d)
         /\ AllFit(SeedInsurance(d), SeedInsurance(e), d)
         /\ AllFit(SeedDemo(d), SeedDemo(e), d) /\ AllFit(SeedRich(d), SeedRich(e), d)
<1>1. /\ Suits(Seed(d)[1], Seed(e)[1], d) /\ Suits(SeedContent(d)[1], SeedContent(e)[1], d)
      /\ Suits(SeedBulk(d)[1], SeedBulk(e)[1], d)
  BY OtherSections, SuitsIs
<1>2. Suits(ImportCms(d)[1], ImportCms(e)[1], d) /\ Suits(ImportCms(d)[2], ImportCms(e)[2], d)
  BY OtherSections, SuitsIs
<1>3. /\ Suits(SeedInsurance(d)[1], SeedInsurance(e)[1], d)
      /\ Suits(DemoServices(d), DemoServices(e), d) /\ Suits(SeedRich(d)[1], SeedRich(e)[1], d)
  BY OtherSections, SuitsIs
<1>4. Suits(DemoBase(d), DemoBase(e), d)
  BY DemoIs, SuitsIs
<1>5. \A x \in Data : /\ Len(Seed(x)) = 1 /\ DOMAIN Seed(x) = {1}
                      /\ Len(SeedContent(x)) = 1 /\ DOMAIN SeedContent(x) = {1}
                      /\ Len(SeedBulk(x)) = 1 /\ DOMAIN SeedBulk(x) = {1}
                      /\ Len(SeedInsurance(x)) = 1 /\ DOMAIN SeedInsurance(x) = {1}
                      /\ Len(SeedRich(x)) = 1 /\ DOMAIN SeedRich(x) = {1}
  BY DEF Seed, SeedContent, SeedBulk, SeedInsurance, SeedRich
<1>6. \A x \in Data : Len(ImportCms(x)) = 2 /\ DOMAIN ImportCms(x) = {1, 2}
  BY DEF ImportCms
<1>7. \A i \in 1 .. 2 : i = 1 \/ i = 2
  OBVIOUS
<1>8. AllFit(SeedDemo(d), SeedDemo(e), d)
  BY <1>3, <1>4 DEF AllFit, SeedDemo
<1> QED  BY <1>1, <1>2, <1>3, <1>5, <1>6, <1>7, <1>8 DEF AllFit

LEMMA ScriptsFit ==
  ASSUME NEW s \in Scripts, NEW d \in Data, NEW e \in Data
  PROVE  AllFit(Sections(s, d), Sections(s, e), d)
<1>1. CASE s \in {"import_erp", "import_user", "seed_fake"}
  BY <1>1, ErpFits, UserFits, FakeFits DEF Sections
<1>2. CASE s \in {"seed", "seed_content", "seed_bulk", "import_cms", "seed_insurance",
                  "seed_demo", "seed_rich"}
  BY <1>2, OtherFits DEF Sections
<1> QED  BY <1>1, <1>2 DEF Scripts

\* The empty tables.
LEMMA NoDataIsData == NoData \in Data
  BY SeedingAssumption DEF NoData, Data

-----------------------------------------------------------------------------
(***************************************************************************)
(* What a section may leave.                                               *)
(***************************************************************************)
\* The rows that are left when the section has cleared.
Left(s, d, r) == IF s.clears /\ r[1] = "content_pages" THEN 0 ELSE d.rows[r]

\* The rows of an outcome: those that are left, and what the section adds of
\* each as it was when it looked, or as it is.
LEMMA OutcomeIs ==
  ASSUME NEW d \in Data, NEW old, NEW new, IsSection(old), IsSection(new), Alike(old, new),
         NEW e \in Outcomes(old, new, d)
  PROVE  /\ e = [rows |-> e.rows, role |-> d.role, customer |-> d.customer]
         /\ e.rows \in [Rows -> Nat]
         /\ \A r \in Rows \ DOMAIN new.adds : e.rows[r] = Left(new, d, r)
         /\ \A r \in DOMAIN new.adds : \/ e.rows[r] = Left(new, d, r) + new.adds[r]
                                       \/ e.rows[r] = Left(new, d, r) + old.adds[r]
<1> DEFINE cleared == [r \in Rows |-> IF r[1] = "content_pages" THEN 0 ELSE d.rows[r]]
           base == IF new.clears THEN [d EXCEPT !.rows = cleared] ELSE d
           doubtful == {r \in DOMAIN new.adds : new.adds[r] # old.adds[r]}
           more(late, r) == IF r \notin DOMAIN new.adds THEN 0
                            ELSE IF r \in late THEN new.adds[r] ELSE old.adds[r]
           rows(late) == [r \in Rows |-> base.rows[r] + more(late, r)]
<1>1. /\ d = [rows |-> d.rows, role |-> d.role, customer |-> d.customer]
      /\ d.rows \in [Rows -> Nat]
  BY SeedingAssumption DEF Data
<1>2. [d EXCEPT !.rows = [r \in Rows |-> IF r[1] = "content_pages" THEN 0 ELSE @[r]]]
      = [d EXCEPT !.rows = cleared]
  OBVIOUS
<1>3. PICK late \in SUBSET doubtful : e = [base EXCEPT !.rows = rows(late)]
  BY <1>2 DEF Outcomes
<1>4. \A x : [d EXCEPT !.rows = x] = [rows |-> x, role |-> d.role, customer |-> d.customer]
  BY <1>1
<1>5. /\ base = [rows |-> base.rows, role |-> d.role, customer |-> d.customer]
      /\ \A r \in Rows : base.rows[r] = Left(new, d, r) /\ base.rows[r] \in Nat
  <2>1. CASE new.clears
    <3>1. base = [rows |-> cleared, role |-> d.role, customer |-> d.customer]
      BY <1>4, <2>1
    <3>2. base.rows = cleared
      BY <3>1
    <3> HIDE DEF base
    <3> QED  BY <1>1, <2>1, <3>1, <3>2 DEF Left
  <2>2. CASE ~new.clears
    BY <1>1, <2>2 DEF Left
  <2> QED  BY <2>1, <2>2
<1> HIDE DEF base
<1>6. e = [rows |-> rows(late), role |-> d.role, customer |-> d.customer]
  <2>1. [base EXCEPT !.rows = rows(late)]
        = [rows |-> rows(late), role |-> d.role, customer |-> d.customer]
    <3> HIDE DEF rows
    <3> QED  BY <1>5
  <2> QED  BY <1>3, <2>1
<1>7. \A r \in Rows : more(late, r) \in Nat
  BY DEF IsSection, Adds, Alike
<1> HIDE DEF more
<1>8. e.rows = rows(late)
  BY <1>6
<1>9. \A r \in Rows : e.rows[r] = Left(new, d, r) + more(late, r)
  BY <1>5, <1>8
<1>10. e.rows \in [Rows -> Nat]
  BY <1>5, <1>7, <1>8
<1>11. DOMAIN new.adds \subseteq Rows
  BY DEF IsSection, Adds
<1>12. \A r \in Rows \ DOMAIN new.adds : e.rows[r] = Left(new, d, r)
  <2>1. \A r \in Rows \ DOMAIN new.adds : more(late, r) = 0 /\ Left(new, d, r) \in Nat
    BY <1>5 DEF more
  <2> QED  BY <1>9, <2>1
<1>13. \A r \in DOMAIN new.adds : more(late, r) = new.adds[r] \/ more(late, r) = old.adds[r]
  BY DEF more
<1>14. e = [rows |-> e.rows, role |-> d.role, customer |-> d.customer]
  BY <1>6, <1>8
<1> QED  BY <1>9, <1>10, <1>11, <1>12, <1>13, <1>14

\* Roles are given to users that are there; the customer changes only where
\* users are rewritten.
LEMMA WithRolesIs ==
  ASSUME data \in Data, NEW o, IsSection(SectionOf(o, data)),
         NEW d, d = [rows |-> d.rows, role |-> data.role, customer |-> data.customer],
         d.rows \in [Rows -> Nat], NEW e \in WithRoles(o, d)
  PROVE  LET gives == SectionOf(o, data).roles IN
         /\ e = [rows |-> d.rows, role |-> e.role, customer |-> e.customer]
         /\ e.role \in [Users -> UserRoles \cup {None}]
         /\ \A u \in Users :
              e.role[u] = IF u \in DOMAIN gives /\ d.rows[<<"users", u>>] > 0
                          THEN gives[u] ELSE data.role[u]
         /\ e.customer \in Users \cup {None}
         /\ ~RewritesUsers(o, e) => e.customer = data.customer
<1> DEFINE gives == SectionOf(o, data).roles
           role == [u \in Users |-> IF u \in DOMAIN gives /\ d.rows[<<"users", u>>] > 0
                                    THEN gives[u] ELSE d.role[u]]
           f == [d EXCEPT !.role = role]
           may == IF Customers(f) = {} THEN {None} ELSE Customers(f)
<1>1. PICK c \in IF RewritesUsers(o, f) THEN may ELSE {data.customer} :
        e = [f EXCEPT !.customer = c]
  BY DEF WithRoles
<1>2. d.role = data.role /\ data.role \in [Users -> UserRoles \cup {None}]
      /\ data.customer \in Users \cup {None}
  <2>1. d.role = data.role
    <3>1. [rows |-> d.rows, role |-> data.role, customer |-> data.customer].role = data.role
      OBVIOUS
    <3> QED  BY <3>1
  <2> QED  BY <2>1 DEF Data
<1>3. role \in [Users -> UserRoles \cup {None}]
  <2>1. \A u \in DOMAIN gives : gives[u] \in UserRoles
    BY DEF IsSection
  <2> QED  BY <1>2, <2>1
<1>4. \A u \in Users : role[u] = IF u \in DOMAIN gives /\ d.rows[<<"users", u>>] > 0
                                 THEN gives[u] ELSE data.role[u]
  BY <1>2
<1>5. Customers(f) \subseteq Users
  BY DEF Customers
<1> HIDE DEF role, gives
<1>6. f = [rows |-> d.rows, role |-> role, customer |-> data.customer]
  <2>1. \A x, y, z, w : [[rows |-> x, role |-> y, customer |-> z] EXCEPT !.role = w]
                        = [rows |-> x, role |-> w, customer |-> z]
    OBVIOUS
  <2> QED  BY <2>1
<1> HIDE DEF f
<1>7. e = [rows |-> d.rows, role |-> role, customer |-> c]
  BY <1>1, <1>6
<1>8. e.rows = d.rows /\ e.role = role /\ e.customer = c /\ f.role = role /\ f.rows = d.rows
  BY <1>6, <1>7
<1>9. RewritesUsers(o, f) <=> RewritesUsers(o, e)
  BY <1>8 DEF RewritesUsers, Keys
<1>10. c \in Users \cup {None}
  BY <1>1, <1>2, <1>5
<1>11. ~RewritesUsers(o, e) => c = data.customer
  BY <1>1, <1>9
<1>12. e = [rows |-> d.rows, role |-> e.role, customer |-> e.customer]
  BY <1>7, <1>8
<1> QED  BY <1>3, <1>4, <1>8, <1>10, <1>11, <1>12 DEF gives

-----------------------------------------------------------------------------
(***************************************************************************)
(* The data.                                                               *)
(***************************************************************************)
\* A run is at a section of its script; what it read were data.
RunsOK ==
  \A o \in Operators : Running(o) =>
    /\ job[o].script \in Scripts
    /\ job[o].section \in 1 .. Len(Sections(job[o].script, NoData))
    /\ job[o].old \in Data \cup {None}

\* Nobody alters the schema beside another who does, or in a section.
Locks ==
  \A o \in Operators : Altering(o) =>
    \A p \in Operators \ {o} : ~Altering(p) /\ ~InSection(p)

\* So the tables that a section found are there as long as it lasts.
TablesThere ==
  \A o \in Operators : InSection(o) => SectionOf(o, NoData).uses \subseteq DOMAIN catalog.tables

\* The inductive invariant of TypeOK.
DataInv == SchemaInv /\ TypeOK /\ scene \in Scenes /\ RunsOK /\ Locks /\ TablesThere

\* A run's section, whatever it is run against.
LEMMA SectionsFit ==
  ASSUME RunsOK, data \in Data, NEW o \in Operators, Running(o), NEW d \in Data
  PROVE  /\ IsSection(SectionOf(o, d)) /\ Looks(SectionOf(o, d).adds, d)
         /\ \A e \in Data : Alike(SectionOf(o, d), SectionOf(o, e))
         /\ IsLast(o) <=> job[o].section = Len(Sections(job[o].script, NoData))
         /\ Len(Sections(job[o].script, NoData)) \in Nat
<1> DEFINE s == job[o].script
           i == job[o].section
<1>1. s \in Scripts /\ i \in 1 .. Len(Sections(s, NoData))
  BY DEF RunsOK
<1> HIDE DEF s, i
<1>2. \A x, y \in Data : AllFit(Sections(s, x), Sections(s, y), x)
  BY <1>1, ScriptsFit
<1>3. \A x \in Data : /\ Len(Sections(s, x)) = Len(Sections(s, NoData))
                      /\ Len(Sections(s, x)) \in Nat
  BY <1>2, NoDataIsData DEF AllFit
<1>4. i \in 1 .. Len(Sections(s, d))
  BY <1>1, <1>3
<1>5. \A e \in Data : Suits(Sections(s, d)[i], Sections(s, e)[i], d)
  BY <1>2, <1>4 DEF AllFit
<1>6. \A x \in Data : SectionOf(o, x) = Sections(s, x)[i]
  BY DEF SectionOf, s, i
<1>7. IsLast(o) <=> i = Len(Sections(s, NoData))
  BY <1>3 DEF IsLast, s, i
<1> QED  BY <1>3, <1>5, <1>6, <1>7, NoDataIsData DEF Suits, s, i

\* No limit lets more rows in than there are jobs, and one.
LEMMA LimitIs ==
  ASSUME NEW d, d.rows \in [Rows -> Nat], NEW r \in Rows,
         \A z \in CentreNames : d.rows[<<"service_centers", z>>] <= MaxJobs + 1
  PROVE  Limit(d, r) <= MaxJobs + 1
<1>1. r[1] = "mechanics" => r[2][1] \in CentreNames
  BY DEF Rows, In
<1>2. 1 <= MaxJobs + 1
  BY SeedingAssumption
<1> DEFINE one == {"users", "cars", "subscription_plans", "insurance_tariffs", "content_pages"}
<1>3. CASE r[1] \in one
  BY <1>2, <1>3 DEF Limit
<1>4. CASE r[1] \notin one /\ r[1] = "mechanics" /\ r[2][2] = "erp"
  BY <1>2, <1>4 DEF Limit
<1>5. CASE r[1] \notin one /\ r[1] = "mechanics" /\ r[2][2] = "demo"
  <2>1. Limit(d, r) = d.rows[<<"service_centers", r[2][1]>>]
    BY <1>5 DEF Limit
  <2> QED  BY <1>1, <1>5, <2>1
<1>6. CASE r[1] \notin one /\ ~(r[1] = "mechanics" /\ r[2][2] \in {"erp", "demo"})
  <2>1. Limit(d, r) = MaxJobs + 1
    BY <1>6 DEF Limit
  <2> QED  BY <2>1, SeedingAssumption
<1> QED  BY <1>3, <1>4, <1>5, <1>6

\* What a section that no key refuses leaves.
LEMMA WrittenIs ==
  ASSUME DataInv, NEW o \in Operators, InSection(o),
         NEW d \in Outcomes(SectionOf(o, job[o].old), SectionOf(o, data), data),
         \A r \in Rows : d.rows[r] > data.rows[r] => d.rows[r] <= Limit(d, r),
         NEW e \in WithRoles(o, d)
  PROVE  LET s == SectionOf(o, data) IN
         /\ e \in Data
         /\ \A u \in Users : (e.role[u] # None) = (e.rows[<<"users", u>>] > 0)
         /\ \A r \in Rows : e.rows[r] > 0 => r[1] \in DOMAIN catalog.tables
         /\ \A r \in Rows \ DOMAIN s.adds : e.rows[r] = Left(s, data, r)
         /\ \A r \in DOMAIN s.adds :
              \/ e.rows[r] = Left(s, data, r) + s.adds[r]
              \/ e.rows[r] = Left(s, data, r) + SectionOf(o, job[o].old).adds[r]
         /\ \A u \in Users :
              e.role[u] = IF u \in DOMAIN s.roles /\ e.rows[<<"users", u>>] > 0
                          THEN s.roles[u] ELSE data.role[u]
         /\ ~RewritesUsers(o, e) => e.customer = data.customer
<1> DEFINE s == SectionOf(o, data)
           t == SectionOf(o, job[o].old)
<1>1. data \in Data /\ Running(o) /\ RunsOK /\ job[o].old \in Data
  BY DEF DataInv, TypeOK, InSection, RunsOK
<1>2. IsSection(s) /\ IsSection(t) /\ Alike(t, s)
  BY <1>1, SectionsFit
<1> HIDE DEF s, t
<1>3. d \in Outcomes(t, s, data)
  BY DEF s, t
<1>4. /\ d = [rows |-> d.rows, role |-> data.role, customer |-> data.customer]
      /\ d.rows \in [Rows -> Nat]
      /\ \A r \in Rows \ DOMAIN s.adds : d.rows[r] = Left(s, data, r)
      /\ \A r \in DOMAIN s.adds : \/ d.rows[r] = Left(s, data, r) + s.adds[r]
                                  \/ d.rows[r] = Left(s, data, r) + t.adds[r]
  BY <1>1, <1>2, <1>3, OutcomeIs
<1>5. /\ e = [rows |-> d.rows, role |-> e.role, customer |-> e.customer]
      /\ e.role \in [Users -> UserRoles \cup {None}]
      /\ \A u \in Users :
           e.role[u] = IF u \in DOMAIN s.roles /\ d.rows[<<"users", u>>] > 0
                       THEN s.roles[u] ELSE data.role[u]
      /\ e.customer \in Users \cup {None}
      /\ ~RewritesUsers(o, e) => e.customer = data.customer
  BY <1>1, <1>2, <1>4, WithRolesIs DEF s
<1>6. e.rows = d.rows
  <2>1. [rows |-> d.rows, role |-> e.role, customer |-> e.customer].rows = d.rows
    OBVIOUS
  <2> QED  BY <1>5, <2>1
<1>7. data.rows \in [Rows -> 0 .. MaxJobs + 1]
  BY <1>1 DEF Data
<1>8. \A r \in Rows : d.rows[r] <= MaxJobs + 1
  <2>1. \A z \in CentreNames : d.rows[<<"service_centers", z>>] <= MaxJobs + 1
    <3> TAKE z \in CentreNames
    <3> DEFINE r == <<"service_centers", z>>
    <3>1. r \in Rows
      BY RowsAre, InIs
    <3>2. Limit(d, r) = MaxJobs + 1
      BY DEF Limit
    <3> HIDE DEF r
    <3>3. d.rows[r] > data.rows[r] => d.rows[r] <= MaxJobs + 1
      BY <3>1, <3>2
    <3>4. d.rows[r] \in Nat /\ data.rows[r] \in 0 .. MaxJobs + 1
      BY <1>4, <1>7, <3>1
    <3>5. d.rows[r] <= MaxJobs + 1
      BY <3>3, <3>4, SeedingAssumption
    <3> QED  BY <3>5 DEF r
  <2> TAKE r \in Rows
  <2>2. Limit(d, r) <= MaxJobs + 1
    BY <1>4, <2>1, LimitIs
  <2>3. d.rows[r] \in Nat /\ data.rows[r] \in 0 .. MaxJobs + 1
    BY <1>4, <1>7
  <2>4. CASE d.rows[r] > data.rows[r]
    <3>1. d.rows[r] <= Limit(d, r) /\ Limit(d, r) \in Int
      <4>1. \A z \in CentreNames : d.rows[<<"service_centers", z>>] \in Nat
        BY <1>4, RowsAre, InIs
      <4>2. r[1] = "mechanics" => r[2][1] \in CentreNames
        BY DEF Rows, In
      <4> QED  BY <2>4, <4>1, <4>2, SeedingAssumption DEF Limit
    <3> QED  BY <2>2, <2>3, <3>1, SeedingAssumption
  <2>5. CASE ~(d.rows[r] > data.rows[r])
    BY <2>3, <2>5, SeedingAssumption
  <2> QED  BY <2>4, <2>5
<1>9. e \in Data
  <2>1. d.rows \in [Rows -> 0 .. MaxJobs + 1]
    BY <1>4, <1>8, SeedingAssumption
  <2> QED  BY <1>5, <2>1 DEF Data
<1>10. \A u \in Users : (e.role[u] # None) = (d.rows[<<"users", u>>] > 0)
  <2> TAKE u \in Users
  <2> DEFINE r == <<"users", u>>
  <2>1. r \in Rows /\ Left(s, data, r) = data.rows[r]
    BY RowsAre, InIs DEF Left
  <2>2. (data.role[u] # None) = (data.rows[r] > 0)
    BY DEF DataInv, TypeOK
  <2>3. \A v \in DOMAIN s.roles : s.roles[v] # None
    BY <1>2, NoneAssumption DEF IsSection
  <2>4. r \in DOMAIN s.adds => u \in DOMAIN s.roles
    BY <1>2 DEF IsSection
  <2> HIDE DEF r
  <2>5. d.rows[r] \in Nat /\ data.rows[r] \in Nat
    BY <1>4, <1>7, <2>1, SeedingAssumption
  <2>6. r \in DOMAIN s.adds => d.rows[r] >= data.rows[r]
    <3>1. r \in DOMAIN s.adds => s.adds[r] \in Nat /\ t.adds[r] \in Nat
      BY <1>2 DEF IsSection, Adds, Alike
    <3> QED  BY <1>4, <2>1, <2>5, <3>1
  <2>7. r \notin DOMAIN s.adds => d.rows[r] = data.rows[r]
    BY <1>4, <2>1
  <2>8. e.role[u] = IF u \in DOMAIN s.roles /\ d.rows[r] > 0
                    THEN s.roles[u] ELSE data.role[u]
    BY <1>5 DEF r
  <2>9. (e.role[u] # None) = (d.rows[r] > 0)
    <3>1. CASE u \in DOMAIN s.roles /\ d.rows[r] > 0
      BY <2>3, <2>8, <3>1
    <3>2. CASE u \in DOMAIN s.roles /\ ~(d.rows[r] > 0)
      <4>1. ~(data.rows[r] > 0)
        BY <2>5, <2>6, <2>7, <3>2
      <4> QED  BY <2>2, <2>8, <3>2, <4>1
    <3>3. CASE u \notin DOMAIN s.roles
      BY <2>2, <2>4, <2>7, <2>8, <3>3
    <3> QED  BY <3>1, <3>2, <3>3
  <2> QED  BY <2>9 DEF r
<1>11. \A r \in Rows : d.rows[r] > 0 => r[1] \in DOMAIN catalog.tables
  <2>1. s.uses \subseteq DOMAIN catalog.tables
    <3>1. SectionOf(o, NoData).uses \subseteq DOMAIN catalog.tables
      BY DEF DataInv, TablesThere
    <3>2. Alike(SectionOf(o, data), SectionOf(o, NoData))
      BY <1>1, SectionsFit, NoDataIsData
    <3> QED  BY <3>1, <3>2 DEF Alike, s
  <2> TAKE r \in Rows
  <2>2. CASE r \in DOMAIN s.adds
    BY <1>2, <2>1, <2>2 DEF IsSection, Adds
  <2>3. CASE r \notin DOMAIN s.adds
    <3>1. d.rows[r] > 0 => data.rows[r] > 0
      BY <1>4, <2>3 DEF Left
    <3> QED  BY <3>1 DEF DataInv, TypeOK
  <2> QED  BY <2>2, <2>3
<1> HIDE DEF s, t
<1> QED  BY <1>4, <1>5, <1>6, <1>9, <1>10, <1>11 DEF s, t

\* It holds at first.
LEMMA DataInit == Init => DataInv
<1> SUFFICES ASSUME Init  PROVE DataInv
  OBVIOUS
<1>1. scene \in Scenes /\ job = [o \in Operators |-> Idle] /\ data = NoData
  BY DEF Init
<1>2. \A o \in Operators : ~Migrating(o) /\ ~Running(o)
  BY <1>1 DEF Migrating, Running, Idle
<1>3. RunsOK /\ Locks /\ TablesThere
  BY <1>2 DEF RunsOK, Locks, TablesThere, Altering, InSection
<1>4. SchemaInv
  BY SchemaInit
<1>5. TypeOK
  <2>1. \A r \in Rows : data.rows[r] = 0
    BY <1>1 DEF NoData
  <2>2. \A u \in Users : data.role[u] = None /\ <<"users", u>> \in Rows
    BY <1>1, RowsAre, InIs DEF NoData
  <2>3. /\ \A u \in Users : (data.role[u] # None) = (data.rows[<<"users", u>>] > 0)
        /\ \A r \in Rows : data.rows[r] > 0 => r[1] \in DOMAIN catalog.tables
    BY <2>1, <2>2
  <2> QED  BY <1>1, <1>4, <2>3, NoDataIsData, SeedingAssumption DEF TypeOK, SchemaInv, Init
<1> QED  BY <1>1, <1>3, <1>4, <1>5 DEF DataInv

\* What a commit of a migration leaves of the data.
LEMMA WithoutIs ==
  ASSUME TypeOK, NEW tables
  PROVE  LET d == Without(data, tables) IN
         /\ d \in Data
         /\ \A u \in Users : (d.role[u] # None) = (d.rows[<<"users", u>>] > 0)
         /\ \A r \in Rows : d.rows[r] > 0 => r[1] \in tables
         /\ \A r \in Rows : d.rows[r] <= data.rows[r]
<1> DEFINE rows == [r \in Rows |-> IF r[1] \in tables THEN data.rows[r] ELSE 0]
           role == IF "users" \in tables THEN data.role ELSE NoData.role
           customer == IF "users" \in tables THEN data.customer ELSE None
           d == Without(data, tables)
<1>1. d = [rows |-> rows, role |-> role, customer |-> customer]
  BY DEF Without
<1>2. /\ data.rows \in [Rows -> 0 .. MaxJobs + 1]
      /\ data.role \in [Users -> UserRoles \cup {None}]
      /\ data.customer \in Users \cup {None}
  BY DEF TypeOK, Data
<1>3. NoData.role = [u \in Users |-> None]
  BY DEF NoData
<1>4. rows \in [Rows -> 0 .. MaxJobs + 1] /\ \A r \in Rows : rows[r] <= data.rows[r]
  BY <1>2, SeedingAssumption
<1>5. role \in [Users -> UserRoles \cup {None}] /\ customer \in Users \cup {None}
  BY <1>2, <1>3
<1>6. \A u \in Users : (role[u] # None) = (rows[<<"users", u>>] > 0)
  <2> TAKE u \in Users
  <2>1. <<"users", u>> \in Rows /\ (data.role[u] # None) = (data.rows[<<"users", u>>] > 0)
    BY RowsAre, InIs DEF TypeOK
  <2>2. CASE "users" \in tables
    BY <2>1, <2>2
  <2>3. CASE "users" \notin tables
    BY <1>3, <2>1, <2>3
  <2> QED  BY <2>2, <2>3
<1>7. \A r \in Rows : rows[r] > 0 => r[1] \in tables
  OBVIOUS
<1> HIDE DEF rows, role, customer, d
<1>8. d.rows = rows /\ d.role = role
  BY <1>1
<1>9. d \in Data
  BY <1>1, <1>4, <1>5 DEF Data
<1> QED  BY <1>4, <1>6, <1>7, <1>8, <1>9 DEF d

\* A step that leaves the data and the catalogue, and ends a job, starts one
\* that holds nothing, or leaves it.
LEMMA QuietJob ==
  ASSUME DataInv, NEW o \in Operators, NEW j, job' = [job EXCEPT ![o] = j],
         j.kind = "alembic" => j.at = j.read,
         j.kind = "script" => /\ j.old = None /\ j.script \in Scripts
                              /\ j.section \in 1 .. Len(Sections(j.script, NoData)),
         SchemaInv', UNCHANGED <<version, catalog, data, settled, scene>>,
         started' \in 0 .. MaxJobs
  PROVE  DataInv'
<1>1. /\ job'[o] = j
      /\ \A p \in Operators \ {o} : job'[p] = job[p]
  BY DEF DataInv, SchemaInv, JobsOK
<1>2. TypeOK' /\ (scene \in Scenes)'
  BY DEF DataInv, TypeOK
<1>3. RunsOK'
  <2> SUFFICES ASSUME NEW p \in Operators, Running(p)'
               PROVE  (/\ job[p].script \in Scripts
                       /\ job[p].section \in 1 .. Len(Sections(job[p].script, NoData))
                       /\ job[p].old \in Data \cup {None})'
    BY DEF RunsOK
  <2>1. CASE p = o
    BY <1>1, <2>1 DEF Running
  <2>2. CASE p # o
    BY <1>1, <2>2 DEF Running, DataInv, RunsOK
  <2> QED  BY <2>1, <2>2
<1>4. ~Altering(o)' /\ ~InSection(o)'
  BY <1>1 DEF Altering, InSection, Migrating, Running
<1>5. \A p \in Operators \ {o} : /\ Altering(p)' = Altering(p) /\ InSection(p)' = InSection(p)
                                 /\ SectionOf(p, NoData)' = SectionOf(p, NoData)
  BY <1>1 DEF Altering, InSection, Migrating, Running, SectionOf
<1>6. Locks'
  BY <1>4, <1>5 DEF DataInv, Locks
<1>7. TablesThere'
  BY <1>4, <1>5 DEF DataInv, TablesThere
<1> QED  BY <1>2, <1>3, <1>6, <1>7 DEF DataInv

\* The jobs that a commit marks are the runs they were.
LEMMA MarkedRuns ==
  ASSUME RunsOK, Locks, NEW o \in Operators,
         \A p \in Operators \ {o} :
           \/ job'[p] = job[p]
           \/ Running(p) /\ job'[p] = RunOf(job[p].script, job[p].section, job[p].old, FALSE)
  PROVE  \A p \in Operators \ {o} :
           /\ Altering(p)' = Altering(p) /\ InSection(p)' = InSection(p)
           /\ SectionOf(p, NoData)' = SectionOf(p, NoData) \/ ~Running(p)'
           /\ Running(p)' => /\ job'[p].script \in Scripts
                             /\ job'[p].section \in 1 .. Len(Sections(job'[p].script, NoData))
                             /\ job'[p].old \in Data \cup {None}
<1> TAKE p \in Operators \ {o}
<1>1. CASE job'[p] = job[p]
  BY <1>1 DEF Altering, InSection, Migrating, Running, SectionOf, RunsOK
<1>2. CASE Running(p) /\ job'[p] = RunOf(job[p].script, job[p].section, job[p].old, FALSE)
  <2>1. /\ job'[p].kind = "script" /\ job'[p].script = job[p].script
        /\ job'[p].section = job[p].section /\ job'[p].old = job[p].old
    BY <1>2 DEF RunOf
  <2>2. job[p].kind = "script"
    BY <1>2 DEF Running
  <2> QED  BY <1>2, <2>1, <2>2 DEF Altering, InSection, Migrating, Running, SectionOf, RunsOK
<1> QED  BY <1>1, <1>2

\* Every step keeps it.
LEMMA DataNext == DataInv /\ [Next]_vars => DataInv'
<1> SUFFICES ASSUME DataInv, [Next]_vars  PROVE DataInv'
  OBVIOUS
<1>1. SchemaInv /\ TypeOK /\ scene \in Scenes /\ RunsOK /\ Locks /\ TablesThere /\ JobsOK
  BY DEF DataInv, SchemaInv
<1>2. SchemaInv'
  BY <1>1, SchemaNext
<1>3. data \in Data /\ started \in 0 .. MaxJobs
  BY <1>1 DEF TypeOK
<1>4. ASSUME NEW o \in Operators, StartAlembic(o)  PROVE DataInv'
  <2>1. PICK goal \in Goals \ {version} :
          Starts(o, [kind |-> "alembic", read |-> version, at |-> version,
                     goal |-> goal, work |-> None])
    BY <1>4 DEF StartAlembic
  <2>2. started' \in 0 .. MaxJobs
    BY <1>1, <1>3, <2>1, DeployAssumption, SeedingAssumption DEF Starts
  <2> QED  BY <1>2, <2>1, <2>2, QuietJob DEF Starts
<1>5. ASSUME NEW o \in Operators, StartScript(o)  PROVE DataInv'
  <2>1. PICK s \in scene.jobs \cap Scripts :
          Starts(o, RunOf(s, 1, None, TRUE))
    BY <1>5 DEF StartScript, RunOf
  <2>2. started' \in 0 .. MaxJobs
    BY <1>1, <1>3, <2>1, DeployAssumption, SeedingAssumption DEF Starts
  <2>3. 1 \in 1 .. Len(Sections(s, NoData))
    BY <2>1, ScriptsFit, NoDataIsData DEF AllFit
  <2> DEFINE j == RunOf(s, 1, None, TRUE)
  <2>4. j.kind = "script" /\ j.old = None /\ j.script = s /\ j.section = 1
    BY DEF RunOf
  <2>5. job' = [job EXCEPT ![o] = j] /\ UNCHANGED <<version, catalog, data, settled, scene>>
    BY <2>1 DEF Starts
  <2> HIDE DEF j
  <2> QED  BY <1>2, <2>2, <2>3, <2>4, <2>5, QuietJob
<1>6. ASSUME NEW o \in Operators, job' = [job EXCEPT ![o] = Idle],
             UNCHANGED <<version, catalog, data, settled, scene, started>>
      PROVE  DataInv'
  BY <1>2, <1>3, <1>6, QuietJob DEF Idle
<1>7. ASSUME NEW o \in Operators, MigrationRaises(o) \/ SectionRaises(o) \/ Abort(o)
      PROVE  DataInv'
  BY <1>6, <1>7 DEF MigrationRaises, SectionRaises, Abort
<1>8. ASSUME NEW o \in Operators, RunMigration(o)  PROVE DataInv'
  <2>1. IsCommand(job'[o])
    <3>1. IsCommand(job[o])
      BY <1>1, <1>8, KindOfJob DEF JobsOK, RunMigration, MayAlter, Migrating
    <3> DEFINE at == NextAt(o)
               work == [version |-> NextAt(o), catalog |-> Result(o)]
    <3>2. job'[o] = [[job[o] EXCEPT !.at = at] EXCEPT !.work = work]
      BY <1>1, <1>8 DEF RunMigration, JobsOK
    <3> HIDE DEF at, work
    <3>3. job'[o].kind = "alembic"
      <4>1. job'[o] = [kind |-> "alembic", read |-> job[o].read, at |-> at,
                       goal |-> job[o].goal, work |-> work]
        BY <3>1, <3>2, CommandMoves
      <4> QED  BY <4>1
    <3>4. IsJob(job'[o])
      BY <1>2 DEF SchemaInv, JobsOK
    <3> QED  BY <3>3, <3>4, KindOfJob
  <2>2. \A p \in Operators \ {o} : job'[p] = job[p] /\ ~Altering(p) /\ ~InSection(p)
    BY <1>1, <1>8 DEF RunMigration, MayAlter, JobsOK
  <2>3. \A p \in Operators \ {o} : ~Altering(p)' /\ ~InSection(p)' /\ Running(p)' = Running(p)
    BY <2>2 DEF Altering, InSection, Migrating, Running
  <2>4. ~InSection(o)' /\ ~Running(o)'
    BY <2>1 DEF IsCommand, InSection, Running
  <2>5. RunsOK'
    <3> SUFFICES ASSUME NEW p \in Operators, Running(p)'
                 PROVE  (/\ job[p].script \in Scripts
                         /\ job[p].section \in 1 .. Len(Sections(job[p].script, NoData))
                         /\ job[p].old \in Data \cup {None})'
      BY DEF RunsOK
    <3>1. p # o
      BY <2>4
    <3> QED  BY <1>1, <2>2, <2>3, <3>1 DEF RunsOK
  <2>6. Locks' /\ TablesThere'
    BY <2>3, <2>4 DEF Locks, TablesThere
  <2>7. TypeOK' /\ (scene \in Scenes)'
    BY <1>1, <1>8 DEF RunMigration, TypeOK
  <2> QED  BY <1>2, <2>5, <2>6, <2>7 DEF DataInv
<1>9. ASSUME NEW o \in Operators, CommitMigration(o)  PROVE DataInv'
  <2>1. IsCommand(job[o])
    BY <1>1, <1>9, KindOfJob DEF JobsOK, CommitMigration, Migrating
  <2>2. Altering(o)
    BY <1>9, <2>1 DEF CommitMigration, Altering, IsCommand
  <2>3. \A p \in Operators \ {o} : ~Altering(p) /\ ~InSection(p)
    BY <1>1, <2>2 DEF Locks
  <2>4. \A p \in Operators \ {o} :
          \/ job'[p] = job[p]
          \/ Running(p) /\ job'[p] = RunOf(job[p].script, job[p].section, job[p].old, FALSE)
    <3> TAKE p \in Operators \ {o}
    <3>1. job'[p] = IF Running(p) /\ data' # data THEN [job[p] EXCEPT !.alone = FALSE]
                    ELSE job[p]
      BY <1>9 DEF CommitMigration
    <3>2. Running(p) => IsRun(job[p])
      BY <1>1, KindOfJob DEF JobsOK, Running
    <3> QED  BY <3>1, <3>2, RunMoves
  <2>5. job'[o] = Idle
    BY <1>9 DEF CommitMigration
  <2>6. ~Altering(o)' /\ ~InSection(o)' /\ ~Running(o)'
    BY <2>5 DEF Altering, InSection, Migrating, Running, Idle
  <2>7. \A p \in Operators : ~Altering(p)' /\ ~InSection(p)'
    BY <1>1, <2>3, <2>4, <2>6, MarkedRuns
  <2>8. RunsOK'
    <3> SUFFICES ASSUME NEW p \in Operators, Running(p)'
                 PROVE  (/\ job[p].script \in Scripts
                         /\ job[p].section \in 1 .. Len(Sections(job[p].script, NoData))
                         /\ job[p].old \in Data \cup {None})'
      BY DEF RunsOK
    <3>1. p \in Operators \ {o}
      BY <2>6
    <3> QED  BY <1>1, <2>4, <3>1, MarkedRuns
  <2>9. Locks' /\ TablesThere'
    BY <2>7 DEF Locks, TablesThere
  <2>10. TypeOK'
    <3>1. data' = Without(data, DOMAIN catalog'.tables)
      BY <1>9 DEF CommitMigration
    <3>2. /\ data' \in Data
          /\ \A u \in Users : (data'.role[u] # None) = (data'.rows[<<"users", u>>] > 0)
          /\ \A r \in Rows : data'.rows[r] > 0 => r[1] \in DOMAIN catalog'.tables
      BY <1>1, <3>1, WithoutIs
    <3>3. version' \in Revisions
      BY <1>2 DEF SchemaInv
    <3>4. settled' \subseteq Scripts /\ started' \in 0 .. MaxJobs
      BY <1>1, <1>9 DEF CommitMigration, TypeOK
    <3> QED  BY <3>2, <3>3, <3>4 DEF TypeOK
  <2>11. (scene \in Scenes)'
    BY <1>1, <1>9 DEF CommitMigration
  <2> QED  BY <1>2, <2>8, <2>9, <2>10, <2>11 DEF DataInv
<1>10. ASSUME NEW o \in Operators, OpenSection(o)  PROVE DataInv'
  <2>1. IsRun(job[o]) /\ Running(o) /\ job[o].old = None
    BY <1>1, <1>10, KindOfJob DEF JobsOK, OpenSection, MayRead, Running
  <2>2. job'[o] = RunOf(job[o].script, job[o].section, data, job[o].alone)
    <3>1. job'[o] = [job[o] EXCEPT !.old = data]
      BY <1>1, <1>10 DEF OpenSection, JobsOK
    <3> QED  BY <2>1, <3>1, RunMoves
  <2>3. /\ job'[o].script = job[o].script /\ job'[o].section = job[o].section
        /\ job'[o].old = data /\ job'[o].kind = "script"
    BY <2>2 DEF RunOf
  <2>4. \A p \in Operators \ {o} : job'[p] = job[p] /\ ~Altering(p)
    BY <1>1, <1>10 DEF OpenSection, MayRead, JobsOK
  <2>5. \A p \in Operators \ {o} : /\ ~Altering(p)' /\ Running(p)' = Running(p)
                                   /\ InSection(p)' = InSection(p)
                                   /\ SectionOf(p, NoData)' = SectionOf(p, NoData)
    BY <2>4 DEF Altering, Migrating, Running, InSection, SectionOf
  <2>6. ~Altering(o)' /\ SectionOf(o, NoData)' = SectionOf(o, NoData)
    BY <2>3 DEF Altering, Migrating, SectionOf
  <2>7. RunsOK'
    <3> SUFFICES ASSUME NEW p \in Operators, Running(p)'
                 PROVE  (/\ job[p].script \in Scripts
                         /\ job[p].section \in 1 .. Len(Sections(job[p].script, NoData))
                         /\ job[p].old \in Data \cup {None})'
      BY DEF RunsOK
    <3>1. CASE p = o
      BY <1>1, <1>3, <2>1, <2>3, <3>1 DEF RunsOK
    <3>2. CASE p # o
      BY <1>1, <2>4, <2>5, <3>2 DEF RunsOK
    <3> QED  BY <3>1, <3>2
  <2>8. Locks'
    BY <2>5, <2>6 DEF Locks
  <2>9. SectionOf(o, NoData).uses \subseteq DOMAIN catalog.tables
    <3>1. Alike(SectionOf(o, data), SectionOf(o, NoData))
      BY <1>1, <1>3, <2>1, SectionsFit, NoDataIsData
    <3> QED  BY <1>10, <3>1 DEF OpenSection, Alike
  <2>10. UNCHANGED <<version, catalog, data, started, settled, scene>>
    BY <1>10 DEF OpenSection
  <2>11. TablesThere'
    BY <1>1, <2>5, <2>6, <2>9, <2>10 DEF TablesThere
  <2>12. TypeOK' /\ (scene \in Scenes)'
    BY <1>1, <2>10 DEF TypeOK
  <2> QED  BY <1>2, <2>7, <2>8, <2>11, <2>12 DEF DataInv
<1>11. ASSUME NEW o \in Operators, WriteSection(o)  PROVE DataInv'
  <2>1. InSection(o) /\ UNCHANGED <<version, catalog, started, scene>>
    BY <1>11 DEF WriteSection
  <2>2. PICK d \in Outcomes(SectionOf(o, job[o].old), SectionOf(o, data), data) :
          \/ /\ \A r \in Rows : d.rows[r] > data.rows[r] => d.rows[r] <= Limit(d, r)
             /\ \E e \in WithRoles(o, d) : CommitSection(o, e)
          \/ job' = [job EXCEPT ![o] = Idle] /\ UNCHANGED <<data, settled>>
    BY <1>11 DEF WriteSection
  <2>3. CASE job' = [job EXCEPT ![o] = Idle] /\ UNCHANGED <<data, settled>>
    BY <1>6, <2>1, <2>3
  <2>4. CASE /\ \A r \in Rows : d.rows[r] > data.rows[r] => d.rows[r] <= Limit(d, r)
             /\ \E e \in WithRoles(o, d) : CommitSection(o, e)
    <3>1. PICK e \in WithRoles(o, d) : CommitSection(o, e)
      BY <2>4
    <3>2. /\ e \in Data
          /\ \A u \in Users : (e.role[u] # None) = (e.rows[<<"users", u>>] > 0)
          /\ \A r \in Rows : e.rows[r] > 0 => r[1] \in DOMAIN catalog.tables
      BY <2>1, <2>4, WrittenIs
    <3>3. IsRun(job[o]) /\ Running(o)
      BY <1>1, <2>1, KindOfJob DEF JobsOK, InSection, Running
    <3>4. /\ job'[o] = IF IsLast(o) THEN Idle
                       ELSE RunOf(job[o].script, job[o].section + 1, None, job[o].alone)
          /\ \A p \in Operators \ {o} :
               job'[p] = IF Running(p) /\ e # data
                         THEN RunOf(job[p].script, job[p].section, job[p].old, FALSE)
                         ELSE job[p]
      BY <1>1, <3>1, <3>3, SectionCommitted
    <3>5. ~Altering(o)' /\ ~InSection(o)'
      BY <3>4 DEF RunOf, Idle, Altering, InSection, Migrating, Running
    <3>6. \A p \in Operators \ {o} :
            \/ job'[p] = job[p]
            \/ Running(p) /\ job'[p] = RunOf(job[p].script, job[p].section, job[p].old, FALSE)
      BY <3>4
    <3>7. \A p \in Operators \ {o} :
            /\ Altering(p)' = Altering(p) /\ InSection(p)' = InSection(p)
            /\ SectionOf(p, NoData)' = SectionOf(p, NoData) \/ ~Running(p)'
            /\ Running(p)' => /\ job'[p].script \in Scripts
                              /\ job'[p].section \in 1 .. Len(Sections(job'[p].script, NoData))
                              /\ job'[p].old \in Data \cup {None}
      BY <1>1, <3>6, MarkedRuns
    <3>8. Running(o)' => /\ job'[o].script \in Scripts
                         /\ job'[o].section \in 1 .. Len(Sections(job'[o].script, NoData))
                         /\ job'[o].old \in Data \cup {None}
      <4>1. /\ job[o].script \in Scripts
            /\ job[o].section \in 1 .. Len(Sections(job[o].script, NoData))
            /\ IsLast(o) <=> job[o].section = Len(Sections(job[o].script, NoData))
            /\ Len(Sections(job[o].script, NoData)) \in Nat
        BY <1>1, <1>3, <3>3, SectionsFit DEF RunsOK
      <4>2. CASE IsLast(o)
        BY <3>4, <4>2 DEF Running, Idle
      <4>3. CASE ~IsLast(o)
        <5>1. job[o].section + 1 \in 1 .. Len(Sections(job[o].script, NoData))
          BY <4>1, <4>3
        <5>2. /\ job'[o].script = job[o].script /\ job'[o].old = None
              /\ job'[o].section = job[o].section + 1
          BY <3>4, <4>3 DEF RunOf
        <5> QED  BY <4>1, <5>1, <5>2
      <4> QED  BY <4>2, <4>3
    <3>9. RunsOK'
      <4> SUFFICES ASSUME NEW p \in Operators, Running(p)'
                   PROVE  (/\ job[p].script \in Scripts
                           /\ job[p].section \in 1 .. Len(Sections(job[p].script, NoData))
                           /\ job[p].old \in Data \cup {None})'
        BY DEF RunsOK
      <4>1. CASE p = o
        BY <3>8, <4>1
      <4>2. CASE p # o
        BY <3>7, <4>2
      <4> QED  BY <4>1, <4>2
    <3>10. Locks'
      BY <1>1, <3>5, <3>7 DEF Locks
    <3>11. TablesThere'
      <4> SUFFICES ASSUME NEW p \in Operators, InSection(p)'
                   PROVE  (SectionOf(p, NoData).uses \subseteq DOMAIN catalog.tables)'
        BY DEF TablesThere
      <4>1. p # o /\ InSection(p) /\ Running(p)'
        BY <3>5, <3>7 DEF InSection
      <4>2. SectionOf(p, NoData)' = SectionOf(p, NoData)
        BY <3>7, <4>1
      <4> QED  BY <1>1, <2>1, <4>1, <4>2 DEF TablesThere
    <3>12. settled' \subseteq Scripts
      <4>1. job[o].script \in Scripts
        BY <1>1, <3>3 DEF RunsOK
      <4> QED  BY <1>1, <3>1, <4>1 DEF CommitSection, TypeOK
    <3>13. data' = e
      BY <3>1 DEF CommitSection
    <3>14. TypeOK' /\ (scene \in Scenes)'
      BY <1>1, <2>1, <3>2, <3>12, <3>13 DEF TypeOK
    <3> QED  BY <1>2, <3>9, <3>10, <3>11, <3>14 DEF DataInv
  <2> QED  BY <2>2, <2>3, <2>4
<1>12. CASE UNCHANGED vars
  <2>1. UNCHANGED <<version, catalog, data, job, started, settled, scene>>
    BY <1>12 DEF vars
  <2>2. RunsOK' /\ Locks' /\ TablesThere'
    BY <1>1, <2>1 DEF RunsOK, Locks, TablesThere, Altering, InSection, Running, Migrating,
                      SectionOf
  <2>3. TypeOK' /\ (scene \in Scenes)'
    BY <1>1, <2>1 DEF TypeOK
  <2> QED  BY <1>2, <2>2, <2>3 DEF DataInv
<1> QED  BY <1>4, <1>5, <1>7, <1>8, <1>9, <1>10, <1>11, <1>12 DEF Next

\* In every behaviour, the data, the runs and the locks are in form, and the
\* tables of an open section are there.
THEOREM DataInvariant == Spec => []DataInv
  BY DataInit, DataNext, PTL DEF Spec

\* The rows and roles are of their kinds, a user has a role, and a row has a
\* table to be in: no section writes under a command that drops its tables.
THEOREM RowsHaveTables == Spec => []TypeOK
<1>1. DataInv => TypeOK
  BY DEF DataInv
<1> QED  BY <1>1, DataInvariant, PTL

-----------------------------------------------------------------------------
\* A section that is written leaves its run, or goes to the next section.
LEMMA SectionLeft ==
  ASSUME JobsOK, RunsOK, NEW o \in Operators, InSection(o), NEW e, CommitSection(o, e)
  PROVE  job'[o] # job[o]
<1>1. job[o].section \in Nat /\ job[o].kind = "script"
  BY DEF RunsOK, InSection, Running
<1>2. IsRun(job[o])
  BY <1>1, KindOfJob DEF JobsOK
<1>3. job'[o] = IF IsLast(o) THEN Idle
                ELSE RunOf(job[o].script, job[o].section + 1, None, job[o].alone)
  BY <1>2, SectionCommitted
<1>4. CASE IsLast(o)
  BY <1>1, <1>3, <1>4 DEF Idle
<1>5. CASE ~IsLast(o)
  <2>1. job'[o].section = job[o].section + 1
    BY <1>3, <1>5 DEF RunOf
  <2> QED  BY <1>1, <2>1
<1> QED  BY <1>4, <1>5

\* What a section adds of a row it looks for, and that is there, it had not
\* found when it looked.
LEMMA StaleLook ==
  ASSUME DataInv, NEW o \in Operators, InSection(o),
         NEW d \in Outcomes(SectionOf(o, job[o].old), SectionOf(o, data), data),
         \A r \in Rows : d.rows[r] > data.rows[r] => d.rows[r] <= Limit(d, r),
         NEW e \in WithRoles(o, d),
         NEW r \in LookedFor, data.rows[r] > 0, e.rows[r] > data.rows[r]
  PROVE  job[o].old.rows[r] < data.rows[r]
<1> DEFINE s == SectionOf(o, data)
           t == SectionOf(o, job[o].old)
<1>1. data \in Data /\ Running(o) /\ RunsOK /\ job[o].old \in Data
  BY DEF DataInv, TypeOK, InSection, RunsOK
<1>2. Looks(s.adds, data) /\ IsSection(s)
  BY <1>1, SectionsFit
<1>3. Looks(t.adds, job[o].old) /\ IsSection(t) /\ Alike(t, s)
  BY <1>1, SectionsFit
<1>4. /\ \A q \in Rows \ DOMAIN s.adds : e.rows[q] = Left(s, data, q)
      /\ \A q \in DOMAIN s.adds :
           \/ e.rows[q] = Left(s, data, q) + s.adds[q]
           \/ e.rows[q] = Left(s, data, q) + t.adds[q]
  BY WrittenIs
<1> HIDE DEF s, t
<1>5. r \in Rows /\ Left(s, data, r) = data.rows[r]
  BY DEF LookedFor, Left
<1>6. data.rows[r] \in Nat /\ job[o].old.rows[r] \in Nat
  BY <1>1, <1>5, SeedingAssumption DEF Data
<1>7. r \in DOMAIN s.adds /\ r \in DOMAIN t.adds
  BY <1>3, <1>4, <1>5, <1>6 DEF Alike
<1>8. s.adds[r] = 0
  BY <1>2, <1>7 DEF Looks
<1>9. e.rows[r] = data.rows[r] + t.adds[r]
  BY <1>4, <1>5, <1>6, <1>7, <1>8
<1>10. t.adds[r] # 0
  BY <1>6, <1>9
<1>11. ~(job[o].old.rows[r] > 0)
  BY <1>3, <1>7, <1>10 DEF Looks
<1> QED  BY <1>6, <1>11

\* What a script looks for before it adds it comes twice only from a section
\* that had looked before the other one was there: an overlap of two runs,
\* never a re-run or a run after a crash.
LEMMA GrowsByOverlap ==
  ASSUME DataInv, [Next]_vars, NEW r \in LookedFor,
         data.rows[r] > 0, data'.rows[r] > data.rows[r]
  PROVE  \E o \in Operators : /\ InSection(o) /\ job'[o] # job[o]
                              /\ job[o].old.rows[r] < data.rows[r]
<1>1. SchemaInv /\ TypeOK /\ RunsOK /\ JobsOK
  BY DEF DataInv, SchemaInv
<1>2. r \in Rows /\ data.rows[r] \in Nat
  BY <1>1, SeedingAssumption DEF LookedFor, TypeOK, Data
<1>3. data' # data
  BY <1>2
<1>4. ASSUME NEW o \in Operators, CommitMigration(o)  PROVE FALSE
  <2>1. data'.rows[r] <= data.rows[r]
    <3> DEFINE tables == DOMAIN catalog'.tables
    <3>1. data' = Without(data, tables)
      BY <1>4 DEF CommitMigration
    <3> HIDE DEF tables
    <3> QED  BY <1>1, <1>2, <3>1, WithoutIs
  <2>2. data'.rows[r] \in Nat
    BY <1>2, DataNext, SeedingAssumption DEF DataInv, TypeOK, Data
  <2> QED  BY <1>2, <2>1, <2>2
<1>5. ASSUME NEW o \in Operators, WriteSection(o)
      PROVE  /\ InSection(o) /\ job'[o] # job[o]
             /\ job[o].old.rows[r] < data.rows[r]
  <2>1. InSection(o)
    BY <1>5 DEF WriteSection
  <2>2. PICK d \in Outcomes(SectionOf(o, job[o].old), SectionOf(o, data), data) :
          /\ \A q \in Rows : d.rows[q] > data.rows[q] => d.rows[q] <= Limit(d, q)
          /\ \E e \in WithRoles(o, d) : CommitSection(o, e)
    BY <1>3, <1>5 DEF WriteSection
  <2>3. PICK e \in WithRoles(o, d) : CommitSection(o, e)
    BY <2>2
  <2>4. data' = e
    BY <2>3 DEF CommitSection
  <2>5. job[o].old.rows[r] < data.rows[r]
    BY <2>1, <2>2, <2>4, StaleLook
  <2>6. job'[o] # job[o]
    BY <1>1, <2>1, <2>3, SectionLeft
  <2> QED  BY <2>1, <2>5, <2>6
<1>6. \E o \in Operators : CommitMigration(o) \/ WriteSection(o)
  BY <1>3 DEF Next, vars, StartAlembic, StartScript, Starts, RunMigration, MigrationRaises,
              OpenSection, SectionRaises, Abort
<1> QED  BY <1>4, <1>5, <1>6

\* Every step of every behaviour keeps to it: doubles come from overlaps only.
THEOREM DoublesComeFromOverlaps == Spec => DuplicatesNeedStaleLook
<1> DEFINE Doubles == \A r \in LookedFor :
                        (data.rows[r] > 0 /\ data'.rows[r] > data.rows[r]) =>
                          \E o \in Operators : InSection(o) /\ job'[o] # job[o]
                                                 /\ job[o].old.rows[r] < data.rows[r]
<1>1. DataInv /\ [Next]_vars => [Doubles]_vars
  BY GrowsByOverlap
<1> QED  BY <1>1, DataInvariant, PTL DEF Spec, DuplicatesNeedStaleLook

-----------------------------------------------------------------------------
(***************************************************************************)
(* A script that is run again.  A section is quiet where it would add no   *)
(* row and change no role.                                                 *)
(***************************************************************************)
Quiet(s, d) ==
  /\ \A r \in DOMAIN s.adds : s.adds[r] = 0
  /\ \A u \in DOMAIN s.roles : s.roles[u] = d.role[u]

\* What a section makes of d when nobody writes between its look and its commit.
Wrote(s, d, e) ==
  /\ d \in Data /\ e \in Data
  /\ \A r \in Rows \ DOMAIN s.adds : e.rows[r] = d.rows[r]
  /\ \A r \in DOMAIN s.adds : e.rows[r] = d.rows[r] + s.adds[r]
  /\ \A u \in Users : e.role[u] = IF u \in DOMAIN s.roles /\ e.rows[<<"users", u>>] > 0
                                  THEN s.roles[u] ELSE d.role[u]

\* It adds what is missing of R, and gives the roles G to users among R.
Seeks(s, d, R, G) ==
  /\ s.adds = Missing(d, R) /\ s.roles = G
  /\ R \subseteq Rows /\ DOMAIN G \subseteq Users
  /\ \A u \in DOMAIN G : <<"users", u>> \in R

Here(d, R, G) ==
  /\ \A r \in R : d.rows[r] > 0
  /\ \A u \in DOMAIN G : d.role[u] = G[u]

\* Such a section is quiet where its rows and roles are there.
LEMMA SeeksIsQuiet ==
  ASSUME NEW d \in Data, NEW s, NEW R, NEW G, Seeks(s, d, R, G)
  PROVE  Quiet(s, d) <=> Here(d, R, G)
<1>1. \A r \in R : d.rows[r] \in Nat
  BY SeedingAssumption DEF Seeks, Data
<1>2. DOMAIN s.adds = R /\ \A r \in R : s.adds[r] = IF d.rows[r] = 0 THEN 1 ELSE 0
  BY DEF Seeks, Missing
<1>3. (\A r \in DOMAIN s.adds : s.adds[r] = 0) <=> \A r \in R : d.rows[r] > 0
  BY <1>1, <1>2
<1>4. (\A u \in DOMAIN s.roles : s.roles[u] = d.role[u])
      <=> \A u \in DOMAIN G : d.role[u] = G[u]
  BY DEF Seeks
<1> QED  BY <1>3, <1>4 DEF Quiet, Here

\* Once written, they are.
LEMMA SeeksFinds ==
  ASSUME NEW d, NEW e, NEW s, NEW R, NEW G, Seeks(s, d, R, G), Wrote(s, d, e)
  PROVE  Here(e, R, G)
<1>1. \A r \in R : d.rows[r] \in Nat
  BY SeedingAssumption DEF Seeks, Wrote, Data
<1>2. DOMAIN s.adds = R /\ \A r \in R : s.adds[r] = IF d.rows[r] = 0 THEN 1 ELSE 0
  BY DEF Seeks, Missing
<1>3. \A r \in R : e.rows[r] = d.rows[r] + s.adds[r]
  BY <1>2 DEF Wrote
<1>4. \A r \in R : e.rows[r] > 0
  BY <1>1, <1>2, <1>3
<1>5. \A u \in DOMAIN G : e.role[u] = G[u]
  BY <1>4 DEF Seeks, Wrote
<1> QED  BY <1>4, <1>5 DEF Here

\* No section takes a row away, and only its own users get a role.
LEMMA HereStays ==
  ASSUME NEW d, NEW e, NEW s, NEW R \in SUBSET Rows, NEW G, DOMAIN G \subseteq Users,
         Here(d, R, G), IsSection(s), Wrote(s, d, e), DOMAIN s.roles \cap DOMAIN G = {}
  PROVE  Here(e, R, G)
<1>1. \A r \in R : d.rows[r] \in Nat
  BY SeedingAssumption DEF Wrote, Data
<1>2. \A r \in DOMAIN s.adds : s.adds[r] \in Nat
  BY DEF IsSection, Adds
<1>3. \A r \in R : e.rows[r] = IF r \in DOMAIN s.adds THEN d.rows[r] + s.adds[r] ELSE d.rows[r]
  BY DEF Wrote
<1>4. \A r \in R : e.rows[r] > 0
  BY <1>1, <1>2, <1>3 DEF Here
<1>5. \A u \in DOMAIN G : e.role[u] = G[u]
  BY DEF Wrote, Here
<1> QED  BY <1>4, <1>5 DEF Here

\* The sections a of a script, against d, and b, against e: after one of them,
\* those so far are quiet if those before it were.
Steady(a, b, d, e) ==
  \A n \in 1 .. Len(a) :
    (Wrote(a[n], d, e) /\ \A i \in 1 .. n - 1 : Quiet(a[i], d))
      => \A i \in 1 .. n : Quiet(b[i], e)

\* A script that only seeks is steady, when no two sections give one user roles.
LEMMA SeekersAreSteady ==
  ASSUME NEW d \in Data, NEW e \in Data, NEW a, NEW b, Len(a) \in Nat, NEW R, NEW G,
         \A i \in 1 .. Len(a) : /\ IsSection(a[i])
                                /\ Seeks(a[i], d, R[i], G[i]) /\ Seeks(b[i], e, R[i], G[i]),
         \A i, j \in 1 .. Len(a) : i # j => DOMAIN G[i] \cap DOMAIN G[j] = {}
  PROVE  Steady(a, b, d, e)
<1> SUFFICES ASSUME NEW n \in 1 .. Len(a), Wrote(a[n], d, e),
                    \A i \in 1 .. n - 1 : Quiet(a[i], d),
                    NEW i \in 1 .. n
             PROVE  Quiet(b[i], e)
  BY DEF Steady
<1>1. i \in 1 .. Len(a)
  OBVIOUS
<1>2. Seeks(a[i], d, R[i], G[i]) /\ Seeks(b[i], e, R[i], G[i])
  BY <1>1
<1>3. IsSection(a[n]) /\ Seeks(a[n], d, R[n], G[n])
  OBVIOUS
<1>4. CASE i = n
  <2>1. Here(e, R[n], G[n])
    BY <1>3, SeeksFinds
  <2> QED  BY <1>2, <1>4, <2>1, SeeksIsQuiet
<1>5. CASE i # n
  <2>1. Quiet(a[i], d)
    BY <1>5
  <2>2. Here(d, R[i], G[i])
    BY <1>2, <2>1, SeeksIsQuiet
  <2>3. DOMAIN a[n].roles \cap DOMAIN G[i] = {}
    BY <1>1, <1>3, <1>5 DEF Seeks
  <2>4. R[i] \in SUBSET Rows /\ DOMAIN G[i] \subseteq Users
    BY <1>2 DEF Seeks
  <2>5. Here(e, R[i], G[i])
    BY <1>3, <2>2, <2>3, <2>4, HereStays
  <2> QED  BY <1>2, <2>5, SeeksIsQuiet
<1> QED  BY <1>4, <1>5

\* A section that adds what is missing of its rows seeks.
LEMMA RegularSeeks ==
  ASSUME NEW s, NEW d, NEW U, NEW c, NEW R, NEW G, Regular(s, d, U, c, R, G),
         s.adds = Missing(d, R), \A u \in DOMAIN G : <<"users", u>> \in R
  PROVE  IsSection(s) /\ Seeks(s, d, R, G)
  BY DEF Regular, IsSection, Adds, Seeks

\* One that gives no roles.
LEMMA MissingSeeks ==
  ASSUME NEW s, NEW d, NEW U, NEW c, NEW R, Regular(s, d, U, c, R, <<>>),
         s.adds = Missing(d, R)
  PROVE  IsSection(s) /\ Seeks(s, d, R, <<>>)
<1>1. DOMAIN <<>> = {}
  OBVIOUS
<1> QED  BY <1>1 DEF Regular, IsSection, Adds, Seeks

\* What the constructors of sections put in them.
LEMMA PartsAre ==
  ASSUME NEW U, NEW adds, NEW G
  PROVE  Section(U, adds).adds = adds /\ Giving(Section(U, adds), G).adds = adds
  BY DEF Section, Giving

ErpRows == <<In("users", {"admin", "shared", "mexanik1"}), In("service_centers", {"autopro"}),
             In("mechanics", {<<"autopro", "erp">>}), ErpFound,
             In("reviews", {<<"autopro", "erp">>})>>
ErpRoles == <<ErpGives, <<>>, <<>>, [jasur |-> "customer"], <<>>>>

\* Every section of import_erp_json seeks.
LEMMA ErpSeeks ==
  ASSUME NEW d
  PROVE  /\ Len(ImportErp(d)) = 5
         /\ \A i \in 1 .. 5 : /\ IsSection(ImportErp(d)[i])
                              /\ Seeks(ImportErp(d)[i], d, ErpRows[i], ErpRoles[i])
<1>1. IsSection(ErpUsers(d)) /\ Seeks(ErpUsers(d), d, ErpRows[1], ErpRoles[1])
  <2> DEFINE R == In("users", {"admin", "shared", "mexanik1"})
  <2>1. ErpUsers(d).adds = Missing(d, R)
    BY PartsAre DEF ErpUsers
  <2>2. \A u \in DOMAIN ErpGives : <<"users", u>> \in R
    BY DEF ErpGives, In
  <2>3. ErpRows[1] = R /\ ErpRoles[1] = ErpGives
    BY DEF ErpRows, ErpRoles
  <2> HIDE DEF R
  <2>4. Regular(ErpUsers(d), d, {"users"}, FALSE, R, ErpGives)
    BY ErpSections DEF R
  <2> QED  BY <2>1, <2>2, <2>3, <2>4, RegularSeeks
<1>2. IsSection(ErpCentre(d)) /\ Seeks(ErpCentre(d), d, ErpRows[2], ErpRoles[2])
  <2>1. ErpCentre(d).adds = Missing(d, ErpRows[2]) /\ ErpRoles[2] = <<>>
    BY PartsAre DEF ErpCentre, ErpRows, ErpRoles
  <2>2. Regular(ErpCentre(d), d, {"users", "service_centers"}, FALSE, ErpRows[2], <<>>)
    BY ErpSections DEF ErpRows
  <2> QED  BY <2>1, <2>2, MissingSeeks
<1>3. IsSection(ErpMechanics(d)) /\ Seeks(ErpMechanics(d), d, ErpRows[3], ErpRoles[3])
  <2>1. ErpMechanics(d).adds = Missing(d, ErpRows[3]) /\ ErpRoles[3] = <<>>
    BY PartsAre DEF ErpMechanics, ErpRows, ErpRoles
  <2>2. Regular(ErpMechanics(d), d, {"mechanics"}, FALSE, ErpRows[3], <<>>)
    BY ErpSections DEF ErpRows
  <2> QED  BY <2>1, <2>2, MissingSeeks
<1>4. IsSection(ErpVehicles(d)) /\ Seeks(ErpVehicles(d), d, ErpRows[4], ErpRoles[4])
  <2> DEFINE G == [jasur |-> "customer"]
             U == {"users", "cars", "services", "service_items"}
  <2>1. ErpVehicles(d).adds = Missing(d, ErpFound)
    BY PartsAre DEF ErpVehicles, ErpFound
  <2>2. \A u \in DOMAIN G : <<"users", u>> \in ErpFound
    BY DEF ErpFound, In
  <2>3. ErpRows[4] = ErpFound /\ ErpRoles[4] = G
    BY DEF ErpRows, ErpRoles
  <2>4. Regular(ErpVehicles(d), d, U, FALSE, ErpFound, G)
    BY ErpSections
  <2> HIDE DEF G, U
  <2> QED  BY <2>1, <2>2, <2>3, <2>4, RegularSeeks
<1>5. IsSection(ErpReviews(d)) /\ Seeks(ErpReviews(d), d, ErpRows[5], ErpRoles[5])
  <2>1. ErpReviews(d).adds = Missing(d, ErpRows[5]) /\ ErpRoles[5] = <<>>
    BY PartsAre DEF ErpReviews, ErpRows, ErpRoles
  <2>2. Regular(ErpReviews(d), d, {"reviews"}, FALSE, ErpRows[5], <<>>)
    BY ErpSections DEF ErpRows
  <2> QED  BY <2>1, <2>2, MissingSeeks
<1>6. /\ Len(ImportErp(d)) = 5
      /\ ImportErp(d)[1] = ErpUsers(d) /\ ImportErp(d)[2] = ErpCentre(d)
      /\ ImportErp(d)[3] = ErpMechanics(d) /\ ImportErp(d)[4] = ErpVehicles(d)
      /\ ImportErp(d)[5] = ErpReviews(d)
  BY DEF ImportErp
<1> QED  BY <1>1, <1>2, <1>3, <1>4, <1>5, <1>6

\* So it is steady: its sections give roles to different users.
LEMMA ErpSteady ==
  ASSUME NEW d \in Data, NEW e \in Data
  PROVE  Steady(ImportErp(d), ImportErp(e), d, e)
<1>1. /\ Len(ImportErp(d)) \in Nat
      /\ \A i \in 1 .. Len(ImportErp(d)) :
           /\ IsSection(ImportErp(d)[i])
           /\ Seeks(ImportErp(d)[i], d, ErpRows[i], ErpRoles[i])
           /\ Seeks(ImportErp(e)[i], e, ErpRows[i], ErpRoles[i])
  <2>1. /\ Len(ImportErp(d)) = 5
        /\ \A i \in 1 .. 5 : /\ IsSection(ImportErp(d)[i])
                             /\ Seeks(ImportErp(d)[i], d, ErpRows[i], ErpRoles[i])
    BY ErpSeeks
  <2>2. \A i \in 1 .. 5 : Seeks(ImportErp(e)[i], e, ErpRows[i], ErpRoles[i])
    BY ErpSeeks
  <2> QED  BY <2>1, <2>2
<1>2. ASSUME NEW i \in 1 .. 5, NEW j \in 1 .. 5, i # j
      PROVE  DOMAIN ErpRoles[i] \cap DOMAIN ErpRoles[j] = {}
  <2>1. /\ DOMAIN ErpRoles[1] = {"admin", "shared", "mexanik1"} /\ DOMAIN ErpRoles[2] = {}
        /\ DOMAIN ErpRoles[3] = {} /\ DOMAIN ErpRoles[4] = {"jasur"}
        /\ DOMAIN ErpRoles[5] = {}
    BY DEF ErpRoles, ErpGives
  <2>2. i \in {1, 4} \/ DOMAIN ErpRoles[i] = {}
    BY <2>1
  <2>3. j \in {1, 4} \/ DOMAIN ErpRoles[j] = {}
    BY <2>1
  <2> QED  BY <1>2, <2>1, <2>2, <2>3
<1>3. Len(ImportErp(d)) = 5
  BY ErpSeeks
<1> QED  BY <1>1, <1>2, <1>3, SeekersAreSteady

UserRows == <<In("users", {"demo_owner", "shared"}), In("cars", {"user"}),
              In("service_centers", {"data"}), In("services", {"user"}),
              In("sos_providers", {"user"}), In("stories", {"user"}),
              In("fuel_stations", {"user"}),
              In("content_pages", {"general", "speed", "user"})>>
UsersGiven == <<UserGives, <<>>, <<>>, <<>>, <<>>, <<>>, <<>>, <<>>>>

\* Every section of import_user_json seeks.
LEMMA UserSeeks ==
  ASSUME NEW d
  PROVE  /\ Len(ImportUser(d)) = 8
         /\ \A i \in 1 .. 8 : /\ IsSection(ImportUser(d)[i])
                              /\ Seeks(ImportUser(d)[i], d, UserRows[i], UsersGiven[i])
<1>1. IsSection(EnsureUsers(d)) /\ Seeks(EnsureUsers(d), d, UserRows[1], UsersGiven[1])
  <2> DEFINE R == In("users", {"demo_owner", "shared"})
  <2>1. EnsureUsers(d).adds = Missing(d, R)
    BY PartsAre DEF EnsureUsers
  <2>2. \A u \in DOMAIN UserGives : <<"users", u>> \in R
    BY DEF UserGives, In
  <2>3. UserRows[1] = R /\ UsersGiven[1] = UserGives
    BY DEF UserRows, UsersGiven
  <2>4. Regular(EnsureUsers(d), d, {"users"}, FALSE, R, UserGives)
    BY UserSections
  <2> HIDE DEF R
  <2> QED  BY <2>1, <2>2, <2>3, <2>4, RegularSeeks
<1>2. ASSUME NEW i \in 2 .. 8  PROVE UsersGiven[i] = <<>>
  BY DEF UsersGiven
<1>3. IsSection(ImportCars(d)) /\ Seeks(ImportCars(d), d, UserRows[2], <<>>)
  <2>1. /\ ImportCars(d).adds = Missing(d, UserRows[2])
        /\ Regular(ImportCars(d), d, {"cars"}, FALSE, UserRows[2], <<>>)
    BY PartsAre, UserSections DEF ImportCars, UserRows
  <2> QED  BY <2>1, MissingSeeks
<1>4. IsSection(ImportCentres(d)) /\ Seeks(ImportCentres(d), d, UserRows[3], <<>>)
  <2>1. /\ ImportCentres(d).adds = Missing(d, UserRows[3])
        /\ Regular(ImportCentres(d), d, {"service_centers"}, FALSE, UserRows[3], <<>>)
    BY PartsAre, UserSections DEF ImportCentres, UserRows
  <2> QED  BY <2>1, MissingSeeks
<1>5. IsSection(ImportHistory(d)) /\ Seeks(ImportHistory(d), d, UserRows[4], <<>>)
  <2>1. /\ ImportHistory(d).adds = Missing(d, UserRows[4])
        /\ Regular(ImportHistory(d), d, {"services", "service_centers", "service_items"},
                   FALSE, UserRows[4], <<>>)
    BY PartsAre, UserSections DEF ImportHistory, UserRows
  <2> QED  BY <2>1, MissingSeeks
<1>6. IsSection(ImportSos(d)) /\ Seeks(ImportSos(d), d, UserRows[5], <<>>)
  <2>1. /\ ImportSos(d).adds = Missing(d, UserRows[5])
        /\ Regular(ImportSos(d), d, {"sos_providers"}, FALSE, UserRows[5], <<>>)
    BY PartsAre, UserSections DEF ImportSos, UserRows
  <2> QED  BY <2>1, MissingSeeks
<1>7. IsSection(ImportStories(d)) /\ Seeks(ImportStories(d), d, UserRows[6], <<>>)
  <2>1. /\ ImportStories(d).adds = Missing(d, UserRows[6])
        /\ Regular(ImportStories(d), d, {"stories"}, FALSE, UserRows[6], <<>>)
    BY PartsAre, UserSections DEF ImportStories, UserRows
  <2> QED  BY <2>1, MissingSeeks
<1>8. IsSection(ImportFuelStations(d)) /\ Seeks(ImportFuelStations(d), d, UserRows[7], <<>>)
  <2>1. /\ ImportFuelStations(d).adds = Missing(d, UserRows[7])
        /\ Regular(ImportFuelStations(d), d, {"fuel_stations"}, FALSE, UserRows[7], <<>>)
    BY PartsAre, UserSections DEF ImportFuelStations, UserRows
  <2> QED  BY <2>1, MissingSeeks
<1>9. IsSection(ImportContent(d)) /\ Seeks(ImportContent(d), d, UserRows[8], <<>>)
  <2>1. /\ ImportContent(d).adds = Missing(d, UserRows[8])
        /\ Regular(ImportContent(d), d, {"content_pages"}, FALSE, UserRows[8], <<>>)
    BY PartsAre, UserSections DEF ImportContent, UserRows
  <2> QED  BY <2>1, MissingSeeks
<1>10. /\ Len(ImportUser(d)) = 8
       /\ ImportUser(d)[1] = EnsureUsers(d) /\ ImportUser(d)[2] = ImportCars(d)
       /\ ImportUser(d)[3] = ImportCentres(d) /\ ImportUser(d)[4] = ImportHistory(d)
       /\ ImportUser(d)[5] = ImportSos(d) /\ ImportUser(d)[6] = ImportStories(d)
       /\ ImportUser(d)[7] = ImportFuelStations(d) /\ ImportUser(d)[8] = ImportContent(d)
  BY DEF ImportUser
<1>11. \A i \in 1 .. 8 : i = 1 \/ i \in 2 .. 8
  OBVIOUS
<1>12. ASSUME NEW i \in 2 .. 8
       PROVE  IsSection(ImportUser(d)[i]) /\ Seeks(ImportUser(d)[i], d, UserRows[i], <<>>)
  <2>1. i \in {2, 3, 4, 5, 6, 7, 8}
    OBVIOUS
  <2> QED  BY <1>3, <1>4, <1>5, <1>6, <1>7, <1>8, <1>9, <1>10, <2>1
<1> QED  BY <1>1, <1>2, <1>10, <1>11, <1>12

\* So it is steady.
LEMMA UserSteady ==
  ASSUME NEW d \in Data, NEW e \in Data
  PROVE  Steady(ImportUser(d), ImportUser(e), d, e)
<1>1. /\ Len(ImportUser(d)) \in Nat
      /\ \A i \in 1 .. Len(ImportUser(d)) :
           /\ IsSection(ImportUser(d)[i])
           /\ Seeks(ImportUser(d)[i], d, UserRows[i], UsersGiven[i])
           /\ Seeks(ImportUser(e)[i], e, UserRows[i], UsersGiven[i])
  <2>1. /\ Len(ImportUser(d)) = 8
        /\ \A i \in 1 .. 8 : /\ IsSection(ImportUser(d)[i])
                             /\ Seeks(ImportUser(d)[i], d, UserRows[i], UsersGiven[i])
    BY UserSeeks
  <2>2. \A i \in 1 .. 8 : Seeks(ImportUser(e)[i], e, UserRows[i], UsersGiven[i])
    BY UserSeeks
  <2> QED  BY <2>1, <2>2
<1>2. ASSUME NEW i \in 1 .. 8, NEW j \in 1 .. 8, i # j
      PROVE  DOMAIN UsersGiven[i] \cap DOMAIN UsersGiven[j] = {}
  <2>1. \A k \in 1 .. 8 : k # 1 => DOMAIN UsersGiven[k] = {}
    BY DEF UsersGiven
  <2> QED  BY <1>2, <2>1
<1>3. Len(ImportUser(d)) = 8
  BY UserSeeks
<1> QED  BY <1>1, <1>2, <1>3, SeekersAreSteady

\* The page seed has one section, which seeks.
LEMMA SeedSteady ==
  ASSUME NEW d \in Data, NEW e \in Data
  PROVE  Steady(Seed(d), Seed(e), d, e)
<1> DEFINE R == In("content_pages", {"general", "speed"})
           RR == <<R>>
           GG == <<<<>>>>
<1>1. ASSUME NEW x \in Data
      PROVE  Len(Seed(x)) = 1 /\ IsSection(Seed(x)[1]) /\ Seeks(Seed(x)[1], x, R, <<>>)
  <2>1. Len(Seed(x)) = 1 /\ Seed(x)[1] = Section({"content_pages"}, Missing(x, R))
    BY DEF Seed
  <2>2. Regular(Seed(x)[1], x, {"content_pages"}, FALSE, R, <<>>)
    BY OtherSections
  <2> HIDE DEF R
  <2>3. Seed(x)[1].adds = Missing(x, R)
    BY <2>1, PartsAre
  <2> QED  BY <2>1, <2>2, <2>3, MissingSeeks
<1> HIDE DEF R
<1>2. \A i \in 1 .. 1 : i = 1 /\ RR[i] = R /\ GG[i] = <<>>
  OBVIOUS
<1> HIDE DEF RR, GG
<1>3. Len(Seed(d)) = 1
  BY <1>1
<1> DEFINE a == Seed(d)
           b == Seed(e)
<1>4. \A i \in 1 .. Len(a) : /\ IsSection(a[i])
                             /\ Seeks(a[i], d, RR[i], GG[i]) /\ Seeks(b[i], e, RR[i], GG[i])
  BY <1>1, <1>2, <1>3
<1>5. \A i, j \in 1 .. Len(a) : i # j => DOMAIN GG[i] \cap DOMAIN GG[j] = {}
  BY <1>2, <1>3
<1>6. Len(a) \in Nat
  BY <1>3
<1> HIDE DEF a, b
<1>7. Steady(a, b, d, e)
  BY <1>4, <1>5, <1>6, SeekersAreSteady
<1> QED  BY <1>7 DEF a, b

-----------------------------------------------------------------------------
(***************************************************************************)
(* The fake seed.  A section looks only at the tables it names, and the    *)
(* later ones write tables that the earlier do not name.                   *)
(***************************************************************************)
SameUsers(d, e) == e.role = d.role /\ e.customer = d.customer
SameIn(d, e, U) == \A r \in Rows : r[1] \in U => e.rows[r] = d.rows[r]

\* What looks at the same finds the same.
LEMMA MissingSame ==
  ASSUME NEW d, NEW e, NEW U, SameIn(d, e, U), NEW R \in SUBSET Rows, \A r \in R : r[1] \in U
  PROVE  Missing(e, R) = Missing(d, R)
  BY DEF Missing, SameIn

\* The keys of a table.
LEMMA KeysSame ==
  ASSUME NEW d, NEW e, NEW U, SameIn(d, e, U), NEW t \in U
  PROVE  Keys(e, t) = Keys(d, t)
<1>1. {x \in Rows : x[1] = t /\ e.rows[x] > 0} = {x \in Rows : x[1] = t /\ d.rows[x] > 0}
  BY DEF SameIn
<1> QED  BY <1>1 DEF Keys

\* The users of a role.
LEMMA RolesSame ==
  ASSUME NEW d, NEW e, SameUsers(d, e)
  PROVE  Customers(e) = Customers(d) /\ Owners(e) = Owners(d)
  BY DEF SameUsers, Customers, Owners

\* The customer's rows.
LEMMA OfCustomerSame ==
  ASSUME NEW d, NEW e, SameUsers(d, e), NEW U, SameIn(d, e, U), NEW t \in U,
         In(t, Users) \subseteq Rows
  PROVE  OfCustomer(e, t) = OfCustomer(d, t)
<1>1. \A r \in In(t, Users) : e.rows[r] = d.rows[r]
  BY InIs DEF SameIn
<1>2. /\ OfCustomer(d, t) = [r \in In(t, Users) |->
                              IF r[2] = d.customer /\ d.rows[r] = 0 THEN 1 ELSE 0]
      /\ OfCustomer(e, t) = [r \in In(t, Users) |->
                              IF r[2] = e.customer /\ e.rows[r] = 0 THEN 1 ELSE 0]
  BY DEF OfCustomer, In
<1>3. e.customer = d.customer
  BY DEF SameUsers
<1> QED  BY <1>1, <1>2, <1>3

\* The rows due for a parent's.
LEMMA PerRowSame ==
  ASSUME NEW d \in Data, NEW e \in Data, NEW U, SameIn(d, e, U), NEW t \in U, NEW up \in U,
         NEW K, In(t, K) \subseteq Rows, In(up, K) \subseteq Rows
  PROVE  PerRow(e, t, In(up, K)) = PerRow(d, t, In(up, K))
<1>1. \A r \in In(t, K) : /\ e.rows[r] = d.rows[r]
                          /\ e.rows[<<up, r[2]>>] = d.rows[<<up, r[2]>>]
  <2> TAKE r \in In(t, K)
  <2>1. r \in Rows /\ r[1] = t /\ r[2] \in K
    BY InIs
  <2>2. <<up, r[2]>> \in Rows /\ <<up, r[2]>>[1] = up
    BY <2>1, InIs
  <2> QED  BY <2>1, <2>2 DEF SameIn
<1>2. /\ PerRow(d, t, In(up, K)) = [r \in In(t, K) |-> Fill(d.rows[r], d.rows[<<up, r[2]>>])]
      /\ PerRow(e, t, In(up, K)) = [r \in In(t, K) |-> Fill(e.rows[r], e.rows[<<up, r[2]>>])]
  BY PerRowIs
<1> QED  BY <1>1, <1>2

\* The sources that a centre's rows of a table have.
Present(d, t, S, z) == {s \in S : d.rows[<<t, <<z, s>>>>] > 0}

\* What the thin centres get.
LEMMA ThinIs ==
  ASSUME NEW d, NEW t, NEW S
  PROVE  ThinCentres(d, t, S) = [r \in In(t, CentreNames \X {"fake"}) |->
           IF Present(d, t, S, r[2][1]) = {} THEN d.rows[<<"service_centers", r[2][1]>>] ELSE 0]
  BY DEF ThinCentres, In, Present

\* The centres that are thin.
LEMMA ThinSame ==
  ASSUME NEW d, NEW e, NEW U, SameIn(d, e, U), NEW t \in U, "service_centers" \in U, NEW S,
         \A z \in CentreNames, s \in S : <<t, <<z, s>>>> \in Rows
  PROVE  ThinCentres(e, t, S) = ThinCentres(d, t, S)
<1>1. ASSUME NEW z \in CentreNames
      PROVE  /\ Present(e, t, S, z) = Present(d, t, S, z)
             /\ e.rows[<<"service_centers", z>>] = d.rows[<<"service_centers", z>>]
  <2>1. \A s \in S : e.rows[<<t, <<z, s>>>>] = d.rows[<<t, <<z, s>>>>]
    BY DEF SameIn
  <2>2. <<"service_centers", z>> \in Rows
    BY RowsAre, InIs
  <2>3. e.rows[<<"service_centers", z>>] = d.rows[<<"service_centers", z>>]
    BY <2>2 DEF SameIn
  <2> QED  BY <2>1, <2>3 DEF Present
<1>2. \A r \in In(t, CentreNames \X {"fake"}) : r[2][1] \in CentreNames
  BY DEF In
<1> QED  BY <1>1, <1>2, ThinIs

\* From d to e the rows grew by what f adds; f adds nothing.
Grown(d, e, f) == \A r \in DOMAIN f : e.rows[r] = d.rows[r] + f[r]
Zero(f) == \A r \in DOMAIN f : f[r] = 0

\* What was added is not added again.
LEMMA MissingDone ==
  ASSUME NEW d \in Data, NEW e, NEW R \in SUBSET Rows, Grown(d, e, Missing(d, R))
  PROVE  Zero(Missing(e, R))
<1>1. \A r \in R : d.rows[r] \in Nat
  BY SeedingAssumption DEF Data
<1> QED  BY <1>1 DEF Grown, Missing, Zero

\* The customer's row is there then.
LEMMA OfCustomerDone ==
  ASSUME NEW d \in Data, NEW e, e.customer = d.customer, NEW t, In(t, Users) \subseteq Rows,
         Grown(d, e, OfCustomer(d, t))
  PROVE  Zero(OfCustomer(e, t))
<1>1. \A r \in In(t, Users) : d.rows[r] \in Nat
  BY SeedingAssumption DEF Data
<1>2. /\ OfCustomer(d, t) = [r \in In(t, Users) |->
                              IF r[2] = d.customer /\ d.rows[r] = 0 THEN 1 ELSE 0]
      /\ OfCustomer(e, t) = [r \in In(t, Users) |->
                              IF r[2] = e.customer /\ e.rows[r] = 0 THEN 1 ELSE 0]
  BY DEF OfCustomer, In
<1> QED  BY <1>1, <1>2 DEF Grown, Zero

\* Every parent has what is due.
LEMMA PerRowDone ==
  ASSUME NEW d \in Data, NEW e, NEW t, NEW up, NEW K,
         In(t, K) \subseteq Rows, In(up, K) \subseteq Rows,
         \A k \in K : e.rows[<<up, k>>] = d.rows[<<up, k>>],
         Grown(d, e, PerRow(d, t, In(up, K)))
  PROVE  Zero(PerRow(e, t, In(up, K)))
<1>1. /\ PerRow(d, t, In(up, K)) = [r \in In(t, K) |-> Fill(d.rows[r], d.rows[<<up, r[2]>>])]
      /\ PerRow(e, t, In(up, K)) = [r \in In(t, K) |-> Fill(e.rows[r], e.rows[<<up, r[2]>>])]
  BY PerRowIs
<1>2. ASSUME NEW r \in In(t, K)  PROVE Fill(e.rows[r], e.rows[<<up, r[2]>>]) = 0
  <2>1. r \in Rows /\ r[2] \in K /\ <<up, r[2]>> \in Rows
    BY InIs
  <2>2. d.rows[r] \in Nat /\ d.rows[<<up, r[2]>>] \in Nat
    BY <2>1, SeedingAssumption DEF Data
  <2>3. e.rows[r] = d.rows[r] + Fill(d.rows[r], d.rows[<<up, r[2]>>])
    BY <1>1 DEF Grown
  <2>4. e.rows[<<up, r[2]>>] = d.rows[<<up, r[2]>>]
    BY <2>1
  <2> DEFINE have == d.rows[r]
             due == d.rows[<<up, r[2]>>]
  <2>5. have \in Nat /\ due \in Nat /\ e.rows[r] = have + Fill(have, due)
    BY <2>2, <2>3
  <2>6. e.rows[<<up, r[2]>>] = due
    BY <2>4
  <2> HIDE DEF have, due
  <2>7. Fill(have + Fill(have, due), due) = 0
    BY <2>5, FillIs
  <2> QED  BY <2>5, <2>6, <2>7
<1> QED  BY <1>1, <1>2 DEF Zero

\* A centre that was thin has rows of the fake seed now, if it is there.
LEMMA ThinDone ==
  ASSUME NEW d \in Data, NEW e, NEW t, NEW S, "fake" \in S,
         \A z \in CentreNames, s \in S : <<t, <<z, s>>>> \in Rows,
         \A z \in CentreNames : e.rows[<<"service_centers", z>>] = d.rows[<<"service_centers", z>>],
         \A z \in CentreNames, s \in S \ {"fake"} :
           e.rows[<<t, <<z, s>>>>] = d.rows[<<t, <<z, s>>>>],
         Grown(d, e, ThinCentres(d, t, S))
  PROVE  Zero(ThinCentres(e, t, S))
<1> DEFINE R == In(t, CentreNames \X {"fake"})
<1>1. /\ ThinCentres(d, t, S) = [r \in R |->
           IF Present(d, t, S, r[2][1]) = {} THEN d.rows[<<"service_centers", r[2][1]>>] ELSE 0]
      /\ ThinCentres(e, t, S) = [r \in R |->
           IF Present(e, t, S, r[2][1]) = {} THEN e.rows[<<"service_centers", r[2][1]>>] ELSE 0]
  BY ThinIs
<1>2. ASSUME NEW r \in R
      PROVE  /\ r[2][1] \in CentreNames /\ r = <<t, <<r[2][1], "fake">>>> /\ r \in Rows
             /\ <<"service_centers", r[2][1]>> \in Rows
  <2>1. r[2][1] \in CentreNames /\ r = <<t, <<r[2][1], "fake">>>>
    BY DEF In
  <2> QED  BY <2>1, RowsAre, InIs
<1> HIDE DEF R
<1>3. ASSUME NEW r \in R, Present(e, t, S, r[2][1]) = {}
      PROVE  e.rows[<<"service_centers", r[2][1]>>] = 0
  <2> DEFINE z == r[2][1]
  <2>1. /\ z \in CentreNames /\ r = <<t, <<z, "fake">>>>
        /\ r \in Rows /\ <<"service_centers", z>> \in Rows
    BY <1>2
  <2>2. Present(e, t, S, z) = {}
    BY <1>3
  <2>3. e.rows[r] = d.rows[r] + (IF Present(d, t, S, z) = {}
                                 THEN d.rows[<<"service_centers", z>>] ELSE 0)
    BY <1>1, <1>3 DEF Grown
  <2> HIDE DEF z
  <2>4. d.rows[r] \in Nat /\ d.rows[<<"service_centers", z>>] \in Nat
    BY <2>1, SeedingAssumption DEF Data
  <2>5. ~(e.rows[r] > 0)
    BY <2>1, <2>2 DEF Present
  <2>6. \A s \in S : ~(d.rows[<<t, <<z, s>>>>] > 0)
    <3>1. ~(d.rows[r] > 0)
      BY <2>3, <2>4, <2>5
    <3>2. \A s \in S \ {"fake"} : ~(d.rows[<<t, <<z, s>>>>] > 0)
      BY <2>1, <2>2 DEF Present
    <3> QED  BY <2>1, <3>1, <3>2
  <2>7. Present(d, t, S, z) = {}
    BY <2>6 DEF Present
  <2>8. d.rows[<<"service_centers", z>>] = 0
    BY <2>3, <2>4, <2>5, <2>7
  <2>9. e.rows[<<"service_centers", z>>] = 0
    BY <2>1, <2>8
  <2> QED  BY <2>9 DEF z
<1> QED  BY <1>1, <1>3 DEF Zero

\* Under a guard that did not change, and of two parts.
LEMMA WhenDone ==
  ASSUME NEW g \in BOOLEAN, NEW d \in Data, NEW e, NEW f, NEW h, DOMAIN h = DOMAIN f,
         Grown(d, e, When(g, f)), Grown(d, e, f) => Zero(h)
  PROVE  Zero(When(g, h))
<1>1. DOMAIN When(g, f) = DOMAIN f /\ DOMAIN When(g, h) = DOMAIN h
  BY DEF When
<1>2. CASE g
  <2>1. \A r \in DOMAIN f : When(g, f)[r] = f[r]
    BY <1>2 DEF When
  <2>2. Zero(h)
    BY <1>1, <2>1 DEF Grown
  <2> QED  BY <1>1, <1>2, <2>2 DEF When, Zero
<1>3. CASE ~g
  BY <1>1, <1>3 DEF When, Zero
<1> QED  BY <1>2, <1>3

\* Of two parts, each grew by its own,
LEMMA BothGrown ==
  ASSUME NEW d, NEW e, NEW f, NEW g, DOMAIN f \cap DOMAIN g = {}, Grown(d, e, Both(f, g))
  PROVE  Grown(d, e, f) /\ Grown(d, e, g)
<1>1. DOMAIN Both(f, g) = DOMAIN f \cup DOMAIN g
  BY DEF Both
<1>2. \A r \in DOMAIN f : Both(f, g)[r] = f[r]
  BY DEF Both
<1>3. \A r \in DOMAIN g : Both(f, g)[r] = g[r]
  BY DEF Both
<1> QED  BY <1>1, <1>2, <1>3 DEF Grown

\* and both add nothing if each does.
LEMMA BothZero ==
  ASSUME NEW f, NEW g, Zero(f), Zero(g)
  PROVE  Zero(Both(f, g))
  BY DEF Zero, Both

\* What each section of the fake seed names and is about.
FakeUses ==
  <<{"subscription_plans"}, {"insurance_companies", "insurance_tariffs"},
    {"service_centers", "mechanics"}, {"users", "service_centers", "reviews"},
    {"services", "users", "service_transitions"}, {"cars", "mileage_readings"},
    {"users", "trips", "cars", "trip_points"}, {"users", "sos_requests", "sos_providers"},
    {"users", "notifications", "devices"},
    {"users", "subscription_plans", "service_centers", "payments", "insurance_tariffs",
     "insurance_companies", "insurance_policies", "cars"},
    {"users", "cars", "services", "condition_images"}>>

FakeAdds ==
  <<In("subscription_plans", {"fake"}), FakeInsured, In("mechanics", CentreNames \X {"fake"}),
    In("reviews", CentreNames \X {"fake"}), In("service_transitions", Batches),
    In("mileage_readings", Plates), In("trips", Users), In("sos_requests", {"fake"}),
    FakeNotified, FakePaid, FakeImages>>

\* The sections by number.
LEMMA FakeIs ==
  ASSUME NEW d \in Data
  PROVE  /\ Len(SeedFake(d)) = 11
         /\ \A i \in 1 .. 11 :
              Regular(SeedFake(d)[i], d, FakeUses[i], FALSE, FakeAdds[i], <<>>)
<1>1. /\ Len(SeedFake(d)) = 11
      /\ SeedFake(d)[1] = SeedPlans(d) /\ SeedFake(d)[2] = SeedFakeInsurance(d)
      /\ SeedFake(d)[3] = SeedMechanics(d) /\ SeedFake(d)[4] = SeedReviews(d)
      /\ SeedFake(d)[5] = SeedServiceTransitions(d) /\ SeedFake(d)[6] = SeedMileageReadings(d)
      /\ SeedFake(d)[7] = SeedTrips(d) /\ SeedFake(d)[8] = SeedSosRequests(d)
      /\ SeedFake(d)[9] = SeedNotifications(d) /\ SeedFake(d)[10] = SeedPaymentsAndPolicies(d)
      /\ SeedFake(d)[11] = SeedConditionImages(d)
  BY DEF SeedFake
<1> DEFINE Is(i) == Regular(SeedFake(d)[i], d, FakeUses[i], FALSE, FakeAdds[i], <<>>)
<1>2. Is(1) /\ Is(2) /\ Is(3) /\ Is(4)
  BY <1>1, FakeSections DEF FakeUses, FakeAdds
<1>3. Is(5) /\ Is(6) /\ Is(7) /\ Is(8)
  BY <1>1, FakeSections DEF FakeUses, FakeAdds
<1>4. Is(9) /\ Is(10) /\ Is(11)
  BY <1>1, FakeSections DEF FakeUses, FakeAdds
<1> HIDE DEF Is
<1>5. \A i \in 1 .. 11 : Is(i)
  BY <1>2, <1>3, <1>4
<1> QED  BY <1>1, <1>5 DEF Is

\* The section that writes a table, 0 for those that none does.
WrittenBy(t) ==
  CASE t = "subscription_plans" -> 1
    [] t \in {"insurance_companies", "insurance_tariffs"} -> 2
    [] t = "mechanics" -> 3 [] t = "reviews" -> 4 [] t = "service_transitions" -> 5
    [] t = "mileage_readings" -> 6 [] t = "trips" -> 7 [] t = "sos_requests" -> 8
    [] t \in {"notifications", "devices"} -> 9
    [] t \in {"payments", "insurance_policies"} -> 10
    [] t = "condition_images" -> 11
    [] OTHER -> 0

\* A section writes its own tables, and names none that a later one writes.
LEMMA FakeOrder ==
  ASSUME NEW i \in 1 .. 11
  PROVE  /\ \A r \in FakeAdds[i] : WrittenBy(r[1]) = i
         /\ \A t \in FakeUses[i] : WrittenBy(t) <= i
<1>1. /\ \A r \in FakeAdds[1] : r[1] = "subscription_plans"
      /\ \A r \in FakeAdds[2] : r[1] \in {"insurance_companies", "insurance_tariffs"}
      /\ \A r \in FakeAdds[3] : r[1] = "mechanics"
      /\ \A r \in FakeAdds[4] : r[1] = "reviews"
  BY InIs, FakeRows DEF FakeAdds
<1>2. /\ \A r \in FakeAdds[5] : r[1] = "service_transitions"
      /\ \A r \in FakeAdds[6] : r[1] = "mileage_readings"
      /\ \A r \in FakeAdds[7] : r[1] = "trips"
      /\ \A r \in FakeAdds[8] : r[1] = "sos_requests"
  BY InIs DEF FakeAdds
<1>3. /\ \A r \in FakeAdds[9] : r[1] \in {"notifications", "devices"}
      /\ \A r \in FakeAdds[10] : r[1] \in {"payments", "insurance_policies"}
      /\ \A r \in FakeAdds[11] : r[1] = "condition_images"
  BY InIs, FakeRows DEF FakeAdds, FakeNotified, FakePaid
<1>4. \A r \in FakeAdds[i] : WrittenBy(r[1]) = i
  BY <1>1, <1>2, <1>3 DEF WrittenBy
<1>5. \A t \in FakeUses[i] : WrittenBy(t) <= i
  BY DEF FakeUses, WrittenBy
<1> QED  BY <1>4, <1>5

\* When payments are made up, and a policy.
Payable(d) == /\ Owners(d) # {} /\ Keys(d, "subscription_plans") # {}
              /\ Keys(d, "service_centers") # {}
Insurable(d) == /\ "fake" \in Keys(d, "insurance_tariffs")
                /\ d.customer # None /\ Garage(d.customer) \cap Keys(d, "cars") # {}

\* The images of a car and a kind: as many as its latest service is short of.
Pictured(d, r) ==
  LET k == r[2][1]
      latest == IF d.rows[<<"services", "demo">>] > 0 THEN "demo" ELSE "own"
      batch == IF latest = "demo" THEN "demo" ELSE k
  IN IF /\ d.customer # None /\ k \in Garage(d.customer) \cap Keys(d, "cars")
        /\ r[2][2] = latest /\ batch \in Batches
     THEN Fill(d.rows[r], d.rows[<<"services", batch>>]) ELSE 0

\* What the sections add.
FakeAdding(d) ==
  /\ SeedFake(d)[1].adds = Missing(d, FakeAdds[1])
  /\ SeedFake(d)[2].adds = Missing(d, FakeAdds[2])
  /\ SeedFake(d)[3].adds = ThinCentres(d, "mechanics", {"erp", "fake", "demo"})
  /\ SeedFake(d)[4].adds = When(Customers(d) # {}, ThinCentres(d, "reviews", Texts))
  /\ SeedFake(d)[5].adds = PerRow(d, "service_transitions", In("services", Batches))
  /\ SeedFake(d)[6].adds = PerRow(d, "mileage_readings", In("cars", Plates))
  /\ SeedFake(d)[7].adds = OfCustomer(d, "trips")
  /\ SeedFake(d)[8].adds = When(d.customer # None /\ Keys(d, "sos_providers") # {},
                                Missing(d, FakeAdds[8]))
  /\ SeedFake(d)[9].adds = Both(OfCustomer(d, "notifications"),
                                When(d.customer # None,
                                     PerRow(d, "devices", In("users", Users))))
  /\ SeedFake(d)[10].adds = Both(When(Payable(d), Missing(d, In("payments", {"fake"}))),
                                 When(Insurable(d), OfCustomer(d, "insurance_policies")))
  /\ SeedFake(d)[11].adds = [r \in FakeImages |-> Pictured(d, r)]

\* They do.
LEMMA FakeAddsAre == ASSUME NEW d \in Data PROVE FakeAdding(d)
<1>1. /\ SeedFake(d)[1].adds = Missing(d, FakeAdds[1])
      /\ SeedFake(d)[2].adds = Missing(d, FakeAdds[2])
  BY PartsAre DEF SeedFake, SeedPlans, SeedFakeInsurance, FakeAdds, FakeInsured
<1>2. /\ SeedFake(d)[3].adds = ThinCentres(d, "mechanics", {"erp", "fake", "demo"})
      /\ SeedFake(d)[4].adds = When(Customers(d) # {}, ThinCentres(d, "reviews", Texts))
  BY PartsAre DEF SeedFake, SeedMechanics, SeedReviews
<1>3. /\ SeedFake(d)[5].adds = PerRow(d, "service_transitions", In("services", Batches))
      /\ SeedFake(d)[6].adds = PerRow(d, "mileage_readings", In("cars", Plates))
  BY PartsAre DEF SeedFake, SeedServiceTransitions, SeedMileageReadings
<1>4. SeedFake(d)[7].adds = OfCustomer(d, "trips")
  BY PartsAre DEF SeedFake, SeedTrips
<1>5. SeedFake(d)[8].adds = When(d.customer # None /\ Keys(d, "sos_providers") # {},
                                 Missing(d, FakeAdds[8]))
  BY PartsAre DEF SeedFake, SeedSosRequests, FakeAdds
<1>6. SeedFake(d)[9].adds = Both(OfCustomer(d, "notifications"),
                                 When(d.customer # None,
                                      PerRow(d, "devices", In("users", Users))))
  BY PartsAre DEF SeedFake, SeedNotifications
<1>7. SeedFake(d)[10].adds = Both(When(Payable(d), Missing(d, In("payments", {"fake"}))),
                                  When(Insurable(d), OfCustomer(d, "insurance_policies")))
  BY PartsAre DEF SeedFake, SeedPaymentsAndPolicies, Payable, Insurable
<1>8. SeedFake(d)[11].adds = [r \in FakeImages |-> Pictured(d, r)]
  <2> DEFINE adds == SeedConditionImages(d).adds
  <2>1. adds = [r \in FakeImages |-> adds[r]]
    BY ImagesAdd DEF Adds
  <2>2. \A r \in FakeImages : adds[r] = Pictured(d, r)
    BY ImagesAdd DEF Pictured
  <2>3. SeedFake(d)[11] = SeedConditionImages(d)
    BY DEF SeedFake
  <2> HIDE DEF adds
  <2>4. adds = [r \in FakeImages |-> Pictured(d, r)]
    BY <2>1, <2>2
  <2> QED  BY <2>3, <2>4 DEF adds
<1> QED  BY <1>1, <1>2, <1>3, <1>4, <1>5, <1>6, <1>7, <1>8 DEF FakeAdding

\* They are rows.
LEMMA FakeAddsRows ==
  /\ \A i \in 1 .. 11 : FakeAdds[i] \subseteq Rows
  /\ \A z \in CentreNames, s \in {"erp", "fake", "demo"} : <<"mechanics", <<z, s>>>> \in Rows
  /\ \A z \in CentreNames, s \in Texts : <<"reviews", <<z, s>>>> \in Rows
<1>1. \A i \in 1 .. 11 : FakeAdds[i] \subseteq Rows
  <2>1. \A i \in 1 .. 11 : Regular(SeedFake(NoData)[i], NoData, FakeUses[i], FALSE,
                                   FakeAdds[i], <<>>)
    BY FakeIs, NoDataIsData
  <2> QED  BY <2>1 DEF Regular, IsSection, Adds
<1>2. \A z \in CentreNames, s \in {"erp", "fake", "demo"} :
        <<"mechanics", <<z, s>>>> \in In("mechanics", CentreNames \X {"erp", "fake", "demo"})
  BY InIs
<1>3. \A z \in CentreNames, s \in Texts :
        <<"reviews", <<z, s>>>> \in In("reviews", CentreNames \X Texts)
  BY InIs
<1> QED  BY <1>1, <1>2, <1>3, RowsAre

\* A car is as short of images where the cars and services are the same.
LEMMA PicturedSame ==
  ASSUME NEW d \in Data, NEW e \in Data, SameUsers(d, e), NEW U, SameIn(d, e, U),
         "cars" \in U, "services" \in U, NEW r, e.rows[r] = d.rows[r]
  PROVE  Pictured(e, r) = Pictured(d, r)
<1>1. Keys(e, "cars") = Keys(d, "cars")
  BY KeysSame
<1>2. \A b \in Batches : e.rows[<<"services", b>>] = d.rows[<<"services", b>>]
  BY RowsAre, InIs DEF SameIn
<1>3. "demo" \in Batches
  BY DEF Batches
<1> QED  BY <1>1, <1>2, <1>3 DEF Pictured, SameUsers

\* A section adds the same where the tables it names are the same.
LEMMA FakeKeeps ==
  ASSUME NEW d \in Data, NEW e \in Data, SameUsers(d, e), NEW i \in 1 .. 11,
         SameIn(d, e, FakeUses[i])
  PROVE  SeedFake(e)[i].adds = SeedFake(d)[i].adds
<1> DEFINE U == FakeUses[i]
<1>0. \A r \in FakeAdds[i] : r \in Rows /\ r[1] \in U
  <2>1. Regular(SeedFake(d)[i], d, FakeUses[i], FALSE, FakeAdds[i], <<>>)
    BY FakeIs
  <2> QED  BY <2>1 DEF Regular, IsSection, Adds
<1>1. FakeAdds[i] \in SUBSET Rows /\ SameIn(d, e, U)
  BY <1>0
<1>2. e.customer = d.customer
  BY DEF SameUsers
<1>a. FakeAdding(d) /\ FakeAdding(e)
  BY FakeAddsAre
<1>3. CASE i \in {1, 2}
  <2> HIDE DEF U
  <2>1. Missing(e, FakeAdds[i]) = Missing(d, FakeAdds[i])
    BY <1>0, <1>1, MissingSame
  <2> QED  BY <1>3, <2>1, <1>a DEF FakeAdding
<1>4. CASE i = 3
  <2>1. "mechanics" \in U /\ "service_centers" \in U
    BY <1>4 DEF FakeUses
  <2> HIDE DEF U
  <2> DEFINE S == {"erp", "fake", "demo"}
  <2>2. \A z \in CentreNames, s \in S : <<"mechanics", <<z, s>>>> \in Rows
    BY FakeAddsRows
  <2> HIDE DEF S
  <2>3. ThinCentres(e, "mechanics", S) = ThinCentres(d, "mechanics", S)
    BY <1>1, <2>1, <2>2, ThinSame
  <2> QED  BY <1>4, <2>3, <1>a DEF FakeAdding, S
<1>5. CASE i = 4
  <2>1. "reviews" \in U /\ "service_centers" \in U
    BY <1>5 DEF FakeUses
  <2> HIDE DEF U
  <2>2. ThinCentres(e, "reviews", Texts) = ThinCentres(d, "reviews", Texts)
    BY <1>1, <2>1, FakeAddsRows, ThinSame
  <2>3. Customers(e) = Customers(d)
    BY RolesSame
  <2> QED  BY <1>5, <2>2, <2>3, <1>a DEF FakeAdding
<1>6. CASE i = 5
  <2>1. "service_transitions" \in U /\ "services" \in U
    BY <1>6 DEF FakeUses
  <2> HIDE DEF U
  <2>2. PerRow(e, "service_transitions", In("services", Batches))
        = PerRow(d, "service_transitions", In("services", Batches))
    BY <1>1, <2>1, RowsAre, PerRowSame
  <2> QED  BY <1>6, <2>2, <1>a DEF FakeAdding
<1>7. CASE i = 6
  <2>1. "mileage_readings" \in U /\ "cars" \in U
    BY <1>7 DEF FakeUses
  <2> HIDE DEF U
  <2>2. PerRow(e, "mileage_readings", In("cars", Plates))
        = PerRow(d, "mileage_readings", In("cars", Plates))
    BY <1>1, <2>1, RowsAre, PerRowSame
  <2> QED  BY <1>7, <2>2, <1>a DEF FakeAdding
<1>8. CASE i = 7
  <2>1. "trips" \in U
    BY <1>8 DEF FakeUses
  <2> HIDE DEF U
  <2>2. OfCustomer(e, "trips") = OfCustomer(d, "trips")
    BY <1>1, <2>1, RowsAre, OfCustomerSame
  <2> QED  BY <1>8, <2>2, <1>a DEF FakeAdding
<1>9. CASE i = 8
  <2>1. "sos_providers" \in U
    BY <1>9 DEF FakeUses
  <2> HIDE DEF U
  <2>2. Missing(e, FakeAdds[8]) = Missing(d, FakeAdds[8])
    BY <1>0, <1>1, <1>9, MissingSame
  <2>3. Keys(e, "sos_providers") = Keys(d, "sos_providers")
    BY <1>1, <2>1, KeysSame
  <2> QED  BY <1>2, <1>9, <2>2, <2>3, <1>a DEF FakeAdding
<1>10. CASE i = 9
  <2>1. "notifications" \in U /\ "devices" \in U /\ "users" \in U
    BY <1>10 DEF FakeUses
  <2> HIDE DEF U
  <2>2. OfCustomer(e, "notifications") = OfCustomer(d, "notifications")
    BY <1>1, <2>1, RowsAre, OfCustomerSame
  <2>3. PerRow(e, "devices", In("users", Users)) = PerRow(d, "devices", In("users", Users))
    BY <1>1, <2>1, RowsAre, PerRowSame
  <2> QED  BY <1>2, <1>10, <2>2, <2>3, <1>a DEF FakeAdding
<1>11. CASE i = 10
  <2>1. /\ "payments" \in U /\ "insurance_policies" \in U /\ "subscription_plans" \in U
        /\ "service_centers" \in U /\ "insurance_tariffs" \in U /\ "cars" \in U
    BY <1>11 DEF FakeUses
  <2> HIDE DEF U
  <2>2. /\ Keys(e, "subscription_plans") = Keys(d, "subscription_plans")
        /\ Keys(e, "service_centers") = Keys(d, "service_centers")
    BY <1>1, <2>1, KeysSame
  <2>3. /\ Keys(e, "insurance_tariffs") = Keys(d, "insurance_tariffs")
        /\ Keys(e, "cars") = Keys(d, "cars")
    BY <1>1, <2>1, KeysSame
  <2>4. Owners(e) = Owners(d)
    BY RolesSame
  <2>5. Payable(e) = Payable(d) /\ Insurable(e) = Insurable(d)
    BY <1>2, <2>2, <2>3, <2>4 DEF Payable, Insurable
  <2>6. OfCustomer(e, "insurance_policies") = OfCustomer(d, "insurance_policies")
    BY <1>1, <2>1, RowsAre, OfCustomerSame
  <2>7. Missing(e, In("payments", {"fake"})) = Missing(d, In("payments", {"fake"}))
    <3> DEFINE R == In("payments", {"fake"})
    <3>1. R \in SUBSET Rows /\ \A r \in R : r[1] \in U
      BY <2>1, RowsAre, InIs
    <3> HIDE DEF R
    <3>2. Missing(e, R) = Missing(d, R)
      BY <1>1, <3>1, MissingSame
    <3> QED  BY <3>2 DEF R
  <2> QED  BY <1>11, <2>5, <2>6, <2>7, <1>a DEF FakeAdding
<1>12. CASE i = 11
  <2>1. "cars" \in U /\ "services" \in U /\ FakeAdds[i] = FakeImages
    BY <1>12 DEF FakeUses, FakeAdds
  <2>2. \A r \in FakeImages : e.rows[r] = d.rows[r]
    BY <1>0, <2>1 DEF SameIn
  <2> HIDE DEF U
  <2>3. \A r \in FakeImages : Pictured(e, r) = Pictured(d, r)
    BY <1>1, <2>1, <2>2, PicturedSame
  <2> QED  BY <1>12, <2>3, <1>a DEF FakeAdding
<1>13. i \in {1, 2, 3, 4, 5, 6, 7, 8, 9, 10, 11}
  OBVIOUS
<1> QED  BY <1>3, <1>4, <1>5, <1>6, <1>7, <1>8, <1>9, <1>10, <1>11, <1>12, <1>13

\* A car that got its images is short of none.
LEMMA PicturedDone ==
  ASSUME NEW d \in Data, NEW e \in Data, SameUsers(d, e), NEW U, SameIn(d, e, U),
         "cars" \in U, "services" \in U, NEW r \in FakeImages,
         e.rows[r] = d.rows[r] + Pictured(d, r)
  PROVE  Pictured(e, r) = 0
<1>1. Keys(e, "cars") = Keys(d, "cars") /\ e.customer = d.customer
  BY KeysSame DEF SameUsers
<1>2. \A b \in Batches : /\ e.rows[<<"services", b>>] = d.rows[<<"services", b>>]
                         /\ d.rows[<<"services", b>>] \in Nat
  BY RowsAre, InIs, SeedingAssumption DEF SameIn, Data
<1>3. d.rows[r] \in Nat
  BY FakeRows, SeedingAssumption DEF Data
<1> DEFINE k == r[2][1]
           latest == IF d.rows[<<"services", "demo">>] > 0 THEN "demo" ELSE "own"
           batch == IF latest = "demo" THEN "demo" ELSE k
           due == /\ d.customer # None /\ k \in Garage(d.customer) \cap Keys(d, "cars")
                  /\ r[2][2] = latest /\ batch \in Batches
<1>4. "demo" \in Batches
  BY DEF Batches
<1>5. /\ Pictured(d, r) = IF due THEN Fill(d.rows[r], d.rows[<<"services", batch>>]) ELSE 0
      /\ Pictured(e, r) = IF due THEN Fill(e.rows[r], e.rows[<<"services", batch>>]) ELSE 0
  BY <1>1, <1>2, <1>4 DEF Pictured
<1>6. CASE due
  <2> DEFINE have == d.rows[r]
             of == d.rows[<<"services", batch>>]
  <2>1. have \in Nat /\ of \in Nat /\ e.rows[<<"services", batch>>] = of
    BY <1>2, <1>3, <1>6
  <2>2. e.rows[r] = have + Fill(have, of) /\ Pictured(e, r) = Fill(e.rows[r], of)
    BY <1>5, <1>6, <2>1
  <2> HIDE DEF have, of
  <2>3. Fill(have + Fill(have, of), of) = 0
    BY <2>1, FillIs
  <2> QED  BY <2>2, <2>3
<1>7. CASE ~due
  BY <1>5, <1>7
<1> QED  BY <1>6, <1>7

\* A section that was written, and looks again, adds nothing.
LEMMA FakeDone ==
  ASSUME NEW d \in Data, NEW e \in Data, SameUsers(d, e), NEW i \in 1 .. 11,
         Wrote(SeedFake(d)[i], d, e)
  PROVE  Zero(SeedFake(e)[i].adds)
<1> DEFINE f == SeedFake(d)[i].adds
           U == {t \in FakeUses[i] : WrittenBy(t) # i}
<1>1. /\ FakeAdding(d) /\ FakeAdding(e)
      /\ e.customer = d.customer
      /\ FakeAdds[i] \in SUBSET Rows
  BY FakeAddsAre, FakeAddsRows DEF SameUsers
<1>2. DOMAIN f = FakeAdds[i]
  BY FakeIs DEF Regular
<1>3. Grown(d, e, f)
  BY DEF Grown, Wrote
<1>4. \A r \in Rows \ FakeAdds[i] : e.rows[r] = d.rows[r]
  BY <1>2 DEF Wrote
<1>5. SameIn(d, e, U)
  BY <1>4, FakeOrder DEF SameIn
<1> HIDE DEF f
<1>6. CASE i \in {1, 2}
  <2>1. f = Missing(d, FakeAdds[i]) /\ SeedFake(e)[i].adds = Missing(e, FakeAdds[i])
    BY <1>1, <1>6 DEF FakeAdding, f
  <2> QED  BY <1>1, <1>3, <2>1, MissingDone
<1>7. CASE i = 3
  <2> DEFINE S == {"erp", "fake", "demo"}
  <2>1. /\ f = ThinCentres(d, "mechanics", S)
        /\ SeedFake(e)[i].adds = ThinCentres(e, "mechanics", S)
    BY <1>1, <1>7 DEF FakeAdding, f
  <2>2. "fake" \in S /\ \A z \in CentreNames, s \in S : <<"mechanics", <<z, s>>>> \in Rows
    BY FakeAddsRows
  <2>3. \A z \in CentreNames, s \in S \ {"fake"} : <<"mechanics", <<z, s>>>> \notin FakeAdds[i]
    BY <1>7 DEF FakeAdds, In
  <2>4. \A z \in CentreNames : /\ <<"service_centers", z>> \in Rows
                               /\ <<"service_centers", z>> \notin FakeAdds[i]
    BY <1>7, RowsAre, InIs DEF FakeAdds, In
  <2> HIDE DEF S
  <2>5. \A z \in CentreNames : e.rows[<<"service_centers", z>>] = d.rows[<<"service_centers", z>>]
    BY <1>4, <2>4
  <2>6. \A z \in CentreNames, s \in S \ {"fake"} :
          e.rows[<<"mechanics", <<z, s>>>>] = d.rows[<<"mechanics", <<z, s>>>>]
    BY <1>4, <2>2, <2>3
  <2>7. Zero(ThinCentres(e, "mechanics", S))
    BY <1>3, <2>1, <2>2, <2>5, <2>6, ThinDone
  <2> QED  BY <2>1, <2>7
<1>8. CASE i = 4
  <2> DEFINE thin == ThinCentres(d, "reviews", Texts)
             then == ThinCentres(e, "reviews", Texts)
             g == Customers(d) # {}
  <2>1. f = When(g, thin) /\ SeedFake(e)[i].adds = When(g, then)
    BY <1>1, <1>8, RolesSame DEF FakeAdding, f
  <2>2. "fake" \in Texts /\ \A z \in CentreNames, s \in Texts : <<"reviews", <<z, s>>>> \in Rows
    BY FakeAddsRows DEF Texts
  <2>3. \A z \in CentreNames, s \in Texts \ {"fake"} : <<"reviews", <<z, s>>>> \notin FakeAdds[i]
    BY <1>8 DEF FakeAdds, In
  <2>4. \A z \in CentreNames : /\ <<"service_centers", z>> \in Rows
                               /\ <<"service_centers", z>> \notin FakeAdds[i]
    BY <1>8, RowsAre, InIs DEF FakeAdds, In
  <2>5. \A z \in CentreNames : e.rows[<<"service_centers", z>>] = d.rows[<<"service_centers", z>>]
    BY <1>4, <2>4
  <2>6. \A z \in CentreNames, s \in Texts \ {"fake"} :
          e.rows[<<"reviews", <<z, s>>>>] = d.rows[<<"reviews", <<z, s>>>>]
    BY <1>4, <2>2, <2>3
  <2>7. Grown(d, e, thin) => Zero(then)
    BY <2>2, <2>5, <2>6, ThinDone
  <2>8. DOMAIN then = DOMAIN thin
    BY ThinIs
  <2> HIDE DEF thin, then, g
  <2>9. g \in BOOLEAN
    BY DEF g
  <2>10. Zero(When(g, then))
    BY <1>3, <2>1, <2>7, <2>8, <2>9, WhenDone
  <2> QED  BY <2>1, <2>10
<1>9. CASE i = 5
  <2>1. /\ f = PerRow(d, "service_transitions", In("services", Batches))
        /\ SeedFake(e)[i].adds = PerRow(e, "service_transitions", In("services", Batches))
    BY <1>1, <1>9 DEF FakeAdding, f
  <2>2. \A b \in Batches : <<"services", b>> \in Rows /\ <<"services", b>> \notin FakeAdds[i]
    BY <1>9, RowsAre, InIs DEF FakeAdds, In
  <2>3. \A b \in Batches : e.rows[<<"services", b>>] = d.rows[<<"services", b>>]
    BY <1>4, <2>2
  <2>4. Zero(PerRow(e, "service_transitions", In("services", Batches)))
    BY <1>3, <2>1, <2>3, RowsAre, PerRowDone
  <2> QED  BY <2>1, <2>4
<1>10. CASE i = 6
  <2>1. /\ f = PerRow(d, "mileage_readings", In("cars", Plates))
        /\ SeedFake(e)[i].adds = PerRow(e, "mileage_readings", In("cars", Plates))
    BY <1>1, <1>10 DEF FakeAdding, f
  <2>2. \A k \in Plates : <<"cars", k>> \in Rows /\ <<"cars", k>> \notin FakeAdds[i]
    BY <1>10, RowsAre, InIs DEF FakeAdds, In
  <2>3. \A k \in Plates : e.rows[<<"cars", k>>] = d.rows[<<"cars", k>>]
    BY <1>4, <2>2
  <2>4. Zero(PerRow(e, "mileage_readings", In("cars", Plates)))
    BY <1>3, <2>1, <2>3, RowsAre, PerRowDone
  <2> QED  BY <2>1, <2>4
<1>11. CASE i = 7
  <2>1. f = OfCustomer(d, "trips") /\ SeedFake(e)[i].adds = OfCustomer(e, "trips")
    BY <1>1, <1>11 DEF FakeAdding, f
  <2> QED  BY <1>1, <1>3, <2>1, RowsAre, OfCustomerDone
<1>12. CASE i = 8
  <2> DEFINE R == FakeAdds[8]
             g == d.customer # None /\ Keys(d, "sos_providers") # {}
  <2>1. "sos_providers" \in U
    BY <1>12 DEF FakeUses, WrittenBy
  <2> HIDE DEF U
  <2>2. Keys(e, "sos_providers") = Keys(d, "sos_providers")
    BY <1>5, <2>1, KeysSame
  <2>3. f = When(g, Missing(d, R)) /\ SeedFake(e)[i].adds = When(g, Missing(e, R))
    BY <1>1, <1>12, <2>2 DEF FakeAdding, f
  <2>4. R \in SUBSET Rows /\ g \in BOOLEAN
    BY FakeAddsRows
  <2> HIDE DEF R, g
  <2>5. Grown(d, e, Missing(d, R)) => Zero(Missing(e, R))
    BY <2>4, MissingDone
  <2>6. DOMAIN Missing(e, R) = DOMAIN Missing(d, R)
    BY DEF Missing
  <2>7. Zero(When(g, Missing(e, R)))
    BY <1>3, <2>3, <2>4, <2>5, <2>6, WhenDone
  <2> QED  BY <2>3, <2>7
<1>13. CASE i = 9
  <2> DEFINE mine == OfCustomer(d, "notifications")
             own == OfCustomer(e, "notifications")
             per == PerRow(d, "devices", In("users", Users))
             each == PerRow(e, "devices", In("users", Users))
             g == d.customer # None
  <2>1. f = Both(mine, When(g, per)) /\ SeedFake(e)[i].adds = Both(own, When(g, each))
    BY <1>1, <1>13 DEF FakeAdding, f
  <2>2. \A u \in Users : <<"users", u>> \in Rows /\ <<"users", u>> \notin FakeAdds[i]
    BY <1>13, RowsAre, InIs DEF FakeAdds, FakeNotified, In
  <2>3. \A u \in Users : e.rows[<<"users", u>>] = d.rows[<<"users", u>>]
    BY <1>4, <2>2
  <2>4. Grown(d, e, mine) => Zero(own)
    BY <1>1, RowsAre, OfCustomerDone
  <2>5. Grown(d, e, per) => Zero(each)
    BY <2>3, RowsAre, PerRowDone
  <2>6. /\ DOMAIN mine = In("notifications", Users)
        /\ DOMAIN per = In("devices", Users) /\ DOMAIN each = In("devices", Users)
    <3>1. DOMAIN mine = In("notifications", Users)
      BY DEF OfCustomer, In
    <3>2. DOMAIN per = In("devices", Users)
      BY PerRowIs
    <3>3. DOMAIN each = In("devices", Users)
      BY PerRowIs
    <3> QED  BY <3>1, <3>2, <3>3
  <2>7. DOMAIN mine \cap DOMAIN per = {}
    BY <2>6, InIs
  <2> HIDE DEF mine, own, per, each, g
  <2>8. DOMAIN When(g, per) = DOMAIN per
    BY DEF When
  <2>9. Grown(d, e, mine) /\ Grown(d, e, When(g, per))
    BY <1>3, <2>1, <2>7, <2>8, BothGrown
  <2>10. g \in BOOLEAN
    BY DEF g
  <2>11. Zero(When(g, each))
    BY <2>5, <2>6, <2>9, <2>10, WhenDone
  <2>12. Zero(Both(own, When(g, each)))
    BY <2>4, <2>9, <2>11, BothZero
  <2> QED  BY <2>1, <2>12
<1>14. CASE i = 10
  <2> DEFINE R == In("payments", {"fake"})
             paid == Missing(d, R)
             pays == Missing(e, R)
             held == OfCustomer(d, "insurance_policies")
             holds == OfCustomer(e, "insurance_policies")
             g == Payable(d)
             h == Insurable(d)
  <2>1. /\ "subscription_plans" \in U /\ "service_centers" \in U
        /\ "insurance_tariffs" \in U /\ "cars" \in U
    BY <1>14 DEF FakeUses, WrittenBy
  <2> HIDE DEF U
  <2>2. /\ Keys(e, "subscription_plans") = Keys(d, "subscription_plans")
        /\ Keys(e, "service_centers") = Keys(d, "service_centers")
    BY <1>5, <2>1, KeysSame
  <2>3. /\ Keys(e, "insurance_tariffs") = Keys(d, "insurance_tariffs")
        /\ Keys(e, "cars") = Keys(d, "cars")
    BY <1>5, <2>1, KeysSame
  <2>4. Owners(e) = Owners(d)
    BY RolesSame
  <2>5. Payable(e) = g /\ Insurable(e) = h
    BY <1>1, <2>2, <2>3, <2>4 DEF Payable, Insurable
  <2>6. /\ f = Both(When(g, paid), When(h, held))
        /\ SeedFake(e)[i].adds = Both(When(g, pays), When(h, holds))
    BY <1>1, <1>14, <2>5 DEF FakeAdding, f
  <2>7. R \in SUBSET Rows
    BY RowsAre
  <2>8. /\ DOMAIN paid = R /\ DOMAIN pays = R
        /\ DOMAIN held = In("insurance_policies", Users)
        /\ DOMAIN holds = In("insurance_policies", Users)
    BY DEF Missing, OfCustomer, In
  <2>9. R \cap In("insurance_policies", Users) = {}
    BY InIs
  <2> HIDE DEF R
  <2>10. Grown(d, e, paid) => Zero(pays)
    BY <2>7, MissingDone
  <2>11. Grown(d, e, held) => Zero(holds)
    BY <1>1, RowsAre, OfCustomerDone
  <2>12. g \in BOOLEAN /\ h \in BOOLEAN
    BY DEF Payable, Insurable
  <2> HIDE DEF paid, pays, held, holds, g, h
  <2>13. DOMAIN When(g, paid) = DOMAIN paid /\ DOMAIN When(h, held) = DOMAIN held
    BY DEF When
  <2>14. Grown(d, e, When(g, paid)) /\ Grown(d, e, When(h, held))
    BY <1>3, <2>6, <2>8, <2>9, <2>13, BothGrown
  <2>15. Zero(When(g, pays))
    BY <2>8, <2>10, <2>12, <2>14, WhenDone
  <2>16. Zero(When(h, holds))
    BY <2>8, <2>11, <2>12, <2>14, WhenDone
  <2> QED  BY <2>6, <2>15, <2>16, BothZero
<1>15. CASE i = 11
  <2>1. /\ f = [r \in FakeImages |-> Pictured(d, r)]
        /\ SeedFake(e)[i].adds = [r \in FakeImages |-> Pictured(e, r)]
    BY <1>1, <1>15 DEF FakeAdding, f
  <2>2. "cars" \in U /\ "services" \in U
    BY <1>15 DEF FakeUses, WrittenBy
  <2> HIDE DEF U
  <2>3. \A r \in FakeImages : e.rows[r] = d.rows[r] + Pictured(d, r)
    BY <1>3, <2>1 DEF Grown
  <2>4. \A r \in FakeImages : Pictured(e, r) = 0
    BY <1>5, <2>2, <2>3, PicturedDone
  <2> QED  BY <2>1, <2>4 DEF Zero
<1>16. i \in {1, 2, 3, 4, 5, 6, 7, 8, 9, 10, 11}
  OBVIOUS
<1> QED  BY <1>6, <1>7, <1>8, <1>9, <1>10, <1>11, <1>12, <1>13, <1>14, <1>15, <1>16

\* The fake seed is steady as long as the users are the same.
LEMMA FakeSteady ==
  ASSUME NEW d \in Data, NEW e \in Data, SameUsers(d, e)
  PROVE  Steady(SeedFake(d), SeedFake(e), d, e)
<1>1. /\ Len(SeedFake(d)) = 11
      /\ \A i \in 1 .. 11 :
           Regular(SeedFake(d)[i], d, FakeUses[i], FALSE, FakeAdds[i], <<>>)
  BY FakeIs
<1>2. \A i \in 1 .. 11 :
        Regular(SeedFake(e)[i], e, FakeUses[i], FALSE, FakeAdds[i], <<>>)
  BY FakeIs
<1>3. DOMAIN <<>> = {}
  OBVIOUS
<1> SUFFICES ASSUME NEW n \in 1 .. 11, Wrote(SeedFake(d)[n], d, e),
                    \A i \in 1 .. n - 1 : Quiet(SeedFake(d)[i], d),
                    NEW i \in 1 .. n
             PROVE  Quiet(SeedFake(e)[i], e)
  BY <1>1 DEF Steady
<1>4. i \in 1 .. 11 /\ SeedFake(e)[i].roles = <<>>
  BY <1>2 DEF Regular
<1>5. Zero(SeedFake(e)[i].adds)
  <2>1. CASE i = n
    BY <2>1, FakeDone
  <2>2. CASE i # n
    <3>1. Quiet(SeedFake(d)[i], d) /\ i < n
      BY <2>2
    <3>2. \A r \in Rows \ FakeAdds[n] : e.rows[r] = d.rows[r]
      BY <1>1 DEF Wrote, Regular
    <3>3. \A r \in FakeAdds[n] : r[1] \notin FakeUses[i]
      <4>1. \A r \in FakeAdds[n] : WrittenBy(r[1]) = n
        BY FakeOrder
      <4>2. \A t \in FakeUses[i] : WrittenBy(t) <= i
        BY <1>4, FakeOrder
      <4> QED  BY <3>1, <4>1, <4>2
    <3>4. SameIn(d, e, FakeUses[i])
      BY <3>2, <3>3 DEF SameIn
    <3>5. SeedFake(e)[i].adds = SeedFake(d)[i].adds
      BY <1>4, <3>4, FakeKeeps
    <3> QED  BY <3>1, <3>5 DEF Quiet, Zero
  <2> QED  BY <2>1, <2>2
<1> QED  BY <1>3, <1>4, <1>5 DEF Quiet, Zero

-----------------------------------------------------------------------------
(***************************************************************************)
(* A run that nobody crossed: its sections so far are quiet.  A script     *)
(* that ended so, with no change since, is quiet throughout.               *)
(***************************************************************************)
QuietRuns ==
  \A o \in Operators : (Running(o) /\ job[o].alone /\ job[o].script \in Idempotent) =>
    /\ job[o].old \in {None, data}
    /\ \A i \in 1 .. job[o].section - 1 : Quiet(Sections(job[o].script, data)[i], data)

QuietScripts ==
  \A s \in settled \cap Idempotent : \A i \in 1 .. Len(Sections(s, data)) :
    Quiet(Sections(s, data)[i], data)

\* The inductive invariant of RerunChangesNothing.
RerunInv == DataInv /\ QuietRuns /\ QuietScripts

\* These scripts delete nothing, and are steady.
LEMMA IdempotentIs ==
  ASSUME NEW s \in Idempotent, NEW d \in Data, NEW i \in 1 .. Len(Sections(s, d))
  PROVE  s \in Scripts /\ Sections(s, d)[i].clears = FALSE
<1>1. CASE s = "import_erp"
  <2>1. Sections(s, d) = ImportErp(d) /\ Len(ImportErp(d)) = 5
    BY <1>1, ErpSeeks DEF Sections
  <2>2. \A k \in 1 .. 5 : ImportErp(d)[k].clears = FALSE
    <3>1. /\ ErpUsers(d).clears = FALSE /\ ErpCentre(d).clears = FALSE
          /\ ErpMechanics(d).clears = FALSE /\ ErpVehicles(d).clears = FALSE
          /\ ErpReviews(d).clears = FALSE
      BY ErpSections DEF Regular
    <3> QED  BY <3>1 DEF ImportErp
  <2> QED  BY <1>1, <2>1, <2>2 DEF Scripts
<1>2. CASE s = "import_user"
  <2>1. Sections(s, d) = ImportUser(d) /\ Len(ImportUser(d)) = 8
    BY <1>2, UserSeeks DEF Sections
  <2>2. \A k \in 1 .. 8 : ImportUser(d)[k].clears = FALSE
    <3>1. /\ EnsureUsers(d).clears = FALSE /\ ImportCars(d).clears = FALSE
          /\ ImportCentres(d).clears = FALSE /\ ImportHistory(d).clears = FALSE
          /\ ImportSos(d).clears = FALSE /\ ImportStories(d).clears = FALSE
          /\ ImportFuelStations(d).clears = FALSE /\ ImportContent(d).clears = FALSE
      BY UserSections DEF Regular
    <3> QED  BY <3>1 DEF ImportUser
  <2> QED  BY <1>2, <2>1, <2>2 DEF Scripts
<1>3. CASE s = "seed_fake"
  <2>1. Sections(s, d) = SeedFake(d) /\ Len(SeedFake(d)) = 11
    BY <1>3, FakeIs DEF Sections
  <2>2. \A k \in 1 .. 11 : SeedFake(d)[k].clears = FALSE
    BY FakeIs DEF Regular
  <2> QED  BY <1>3, <2>1, <2>2 DEF Scripts
<1>4. CASE s = "seed"
  <2>1. Sections(s, d) = Seed(d) /\ Len(Seed(d)) = 1
    BY <1>4 DEF Sections, Seed
  <2>2. Seed(d)[1].clears = FALSE
    BY OtherSections DEF Regular
  <2>3. i = 1
    BY <2>1
  <2> QED  BY <1>4, <2>1, <2>2, <2>3 DEF Scripts
<1> QED  BY <1>1, <1>2, <1>3, <1>4 DEF Idempotent

\* So are the four scripts that say they may be run again.
LEMMA IdempotentSteady ==
  ASSUME NEW s \in Idempotent, NEW d \in Data, NEW e \in Data,
         s = "seed_fake" => SameUsers(d, e)
  PROVE  Steady(Sections(s, d), Sections(s, e), d, e)
<1>1. CASE s = "import_erp"
  BY <1>1, ErpSteady DEF Sections
<1>2. CASE s = "import_user"
  BY <1>2, UserSteady DEF Sections
<1>3. CASE s = "seed_fake"
  BY <1>3, FakeSteady DEF Sections
<1>4. CASE s = "seed"
  BY <1>4, SeedSteady DEF Sections
<1> QED  BY <1>1, <1>2, <1>3, <1>4 DEF Idempotent

\* The commit of a section of a run that nobody crossed: the sections so far
\* are quiet, the one committed among them.
LEMMA RunGoesOn ==
  ASSUME DataInv, QuietRuns, NEW o \in Operators, InSection(o),
         job[o].alone, job[o].script \in Idempotent,
         NEW d \in Outcomes(SectionOf(o, job[o].old), SectionOf(o, data), data),
         \A r \in Rows : d.rows[r] > data.rows[r] => d.rows[r] <= Limit(d, r),
         NEW e \in WithRoles(o, d)
  PROVE  \A i \in 1 .. job[o].section : Quiet(Sections(job[o].script, e)[i], e)
<1> DEFINE script == job[o].script
           n == job[o].section
           s == SectionOf(o, data)
<1>1. data \in Data /\ RunsOK /\ Running(o) /\ JobsOK
  BY DEF DataInv, SchemaInv, TypeOK, InSection
<1>2. job[o].old = data /\ \A i \in 1 .. n - 1 : Quiet(Sections(script, data)[i], data)
  BY <1>1 DEF QuietRuns, InSection
<1>3. /\ e \in Data
      /\ \A r \in Rows \ DOMAIN s.adds : e.rows[r] = Left(s, data, r)
      /\ \A r \in DOMAIN s.adds : e.rows[r] = Left(s, data, r) + s.adds[r]
      /\ \A u \in Users :
           e.role[u] = IF u \in DOMAIN s.roles /\ e.rows[<<"users", u>>] > 0
                       THEN s.roles[u] ELSE data.role[u]
      /\ ~RewritesUsers(o, e) => e.customer = data.customer
  BY <1>2, WrittenIs
<1>4. /\ script \in Scripts /\ n \in 1 .. Len(Sections(script, NoData))
      /\ Len(Sections(script, data)) = Len(Sections(script, NoData))
      /\ s = Sections(script, data)[n]
  <2>1. script \in Scripts /\ n \in 1 .. Len(Sections(script, NoData))
    BY <1>1 DEF RunsOK
  <2>2. Len(Sections(script, data)) = Len(Sections(script, NoData))
    BY <1>1, <2>1, ScriptsFit, NoDataIsData DEF AllFit
  <2> QED  BY <2>1, <2>2 DEF SectionOf
<1>5. script \in Idempotent
  OBVIOUS
<1> HIDE DEF script, n, s
<1>6. n \in 1 .. Len(Sections(script, data)) /\ s.clears = FALSE
  BY <1>1, <1>4, <1>5, IdempotentIs
<1>7. Wrote(s, data, e)
  BY <1>1, <1>3, <1>6 DEF Wrote, Left
<1>8. script = "seed_fake" => SameUsers(data, e)
  <2> SUFFICES ASSUME script = "seed_fake"  PROVE SameUsers(data, e)
    OBVIOUS
  <2>1. Regular(s, data, FakeUses[n], FALSE, FakeAdds[n], <<>>) /\ n \in 1 .. 11
    <3>1. Sections(script, data) = SeedFake(data) /\ Len(SeedFake(data)) = 11
      BY <1>1, FakeIs DEF Sections
    <3> QED  BY <1>1, <1>4, <1>6, <3>1, FakeIs
  <2>2. DOMAIN s.roles = {} /\ DOMAIN s.adds = FakeAdds[n]
    BY <2>1 DEF Regular
  <2>3. e.role = data.role
    <3>1. /\ e.role \in [Users -> UserRoles \cup {None}]
          /\ data.role \in [Users -> UserRoles \cup {None}]
      BY <1>1, <1>3 DEF Data
    <3>2. \A u \in Users : e.role[u] = data.role[u]
      BY <1>3, <2>2
    <3> QED  BY <3>1, <3>2
  <2>4. Keys(e, "users") = Keys(data, "users")
    <3> DEFINE U == {"users"}
    <3>1. \A r \in FakeAdds[n] : WrittenBy(r[1]) = n
      BY <2>1, FakeOrder
    <3>2. WrittenBy("users") = 0
      BY DEF WrittenBy
    <3>3. \A r \in FakeAdds[n] : r[1] # "users"
      BY <2>1, <3>1, <3>2
    <3>4. SameIn(data, e, U) /\ "users" \in U
      BY <1>7, <2>2, <3>3 DEF SameIn, Wrote
    <3> HIDE DEF U
    <3> QED  BY <3>4, KeysSame
  <2>5. ~RewritesUsers(o, e)
    BY <2>3, <2>4 DEF RewritesUsers, script
  <2> QED  BY <1>3, <2>3, <2>5 DEF SameUsers
<1>9. Steady(Sections(script, data), Sections(script, e), data, e)
  BY <1>1, <1>3, <1>5, <1>8, IdempotentSteady
<1>10. \A i \in 1 .. n : Quiet(Sections(script, e)[i], e)
  BY <1>2, <1>4, <1>6, <1>7, <1>9 DEF Steady, n, script
<1> QED  BY <1>10 DEF n, script

\* A run is quiet while it stays as it is and the data do; or it is not alone.
RunQuiet(j, d) ==
  (j.kind = "script" /\ j.alone /\ j.script \in Idempotent) =>
    /\ j.old \in {None, d}
    /\ \A i \in 1 .. j.section - 1 : Quiet(Sections(j.script, d)[i], d)

\* QuietRuns, job by job.
LEMMA QuietRunsIs == QuietRuns <=> \A o \in Operators : RunQuiet(job[o], data)
  BY DEF QuietRuns, RunQuiet, Running

\* It holds at first.
LEMMA RerunInit == Init => RerunInv
<1> SUFFICES ASSUME Init  PROVE RerunInv
  OBVIOUS
<1>1. DataInv
  BY DataInit
<1>2. QuietRuns /\ QuietScripts
  BY DEF Init, Idle, Running, QuietRuns, QuietScripts
<1> QED  BY <1>1, <1>2 DEF RerunInv

\* A step of o that leaves the data.
LEMMA QuietStep ==
  ASSUME RerunInv, DataInv', NEW o \in Operators, data' = data, settled' = settled,
         \A p \in Operators \ {o} : job'[p] = job[p], RunQuiet(job'[o], data)
  PROVE  RerunInv'
<1>1. \A p \in Operators : RunQuiet(job'[p], data')
  BY QuietRunsIs DEF RerunInv
<1>2. QuietRuns'
  BY <1>1 DEF QuietRuns, RunQuiet, Running
<1>3. QuietScripts'
  BY DEF RerunInv, QuietScripts
<1> QED  BY <1>2, <1>3 DEF RerunInv

\* A step of o that may change them, and marks the runs it crosses.
LEMMA QuietCommit ==
  ASSUME RerunInv, DataInv', NEW o \in Operators, RunQuiet(job'[o], data'),
         \A p \in Operators \ {o} : \/ job'[p] = job[p] /\ (data' = data \/ ~Running(p))
                                    \/ job'[p].alone = FALSE,
         QuietScripts'
  PROVE  RerunInv'
<1>1. ASSUME NEW p \in Operators  PROVE RunQuiet(job'[p], data')
  <2>1. CASE p = o
    BY <2>1
  <2>2. CASE p # o /\ job'[p] = job[p] /\ data' = data
    BY <2>2, QuietRunsIs DEF RerunInv
  <2>3. CASE p # o /\ job'[p] = job[p] /\ ~Running(p)
    BY <2>3 DEF RunQuiet, Running
  <2>4. CASE p # o /\ job'[p].alone = FALSE
    BY <2>4 DEF RunQuiet
  <2> QED  BY <2>1, <2>2, <2>3, <2>4
<1>2. QuietRuns'
  BY <1>1 DEF QuietRuns, RunQuiet, Running
<1> QED  BY <1>2 DEF RerunInv

\* Every step keeps it.
LEMMA RerunNext == RerunInv /\ [Next]_vars => RerunInv'
<1> SUFFICES ASSUME RerunInv, [Next]_vars  PROVE RerunInv'
  OBVIOUS
<1>1. /\ DataInv /\ QuietRuns /\ QuietScripts /\ JobsOK /\ RunsOK
      /\ data \in Data /\ settled \subseteq Scripts
  BY DEF RerunInv, DataInv, SchemaInv, TypeOK
<1>2. DataInv'
  BY <1>1, DataNext
<1>3. ASSUME NEW o \in Operators, NEW j, job' = [job EXCEPT ![o] = j],
             data' = data, settled' = settled, RunQuiet(j, data)
      PROVE  RerunInv'
  <2>1. job'[o] = j /\ \A p \in Operators \ {o} : job'[p] = job[p]
    BY <1>1, <1>3 DEF JobsOK
  <2> QED  BY <1>2, <1>3, <2>1, QuietStep
<1>4. RunQuiet(Idle, data)
  BY DEF RunQuiet, Idle
<1>5. ASSUME NEW o \in Operators, StartAlembic(o)  PROVE RerunInv'
  <2>1. PICK goal \in Goals \ {version} :
          Starts(o, [kind |-> "alembic", read |-> version, at |-> version,
                     goal |-> goal, work |-> None])
    BY <1>5 DEF StartAlembic
  <2> DEFINE j == [kind |-> "alembic", read |-> version, at |-> version,
                   goal |-> goal, work |-> None]
  <2>2. RunQuiet(j, data)
    BY DEF RunQuiet
  <2> HIDE DEF j
  <2>3. job' = [job EXCEPT ![o] = j] /\ data' = data /\ settled' = settled
    BY <2>1 DEF Starts, j
  <2> QED  BY <1>3, <2>2, <2>3
<1>6. ASSUME NEW o \in Operators, StartScript(o)  PROVE RerunInv'
  <2>1. PICK s \in scene.jobs \cap Scripts :
          Starts(o, RunOf(s, 1, None, TRUE))
    BY <1>6 DEF StartScript, RunOf
  <2> DEFINE j == RunOf(s, 1, None, TRUE)
  <2>2. j.old = None /\ j.section = 1
    BY DEF RunOf
  <2>3. job' = [job EXCEPT ![o] = j] /\ data' = data /\ settled' = settled
    BY <2>1 DEF Starts
  <2> HIDE DEF j
  <2>4. RunQuiet(j, data)
    <3>1. 1 .. j.section - 1 = {}
      BY <2>2
    <3> QED  BY <2>2, <3>1 DEF RunQuiet
  <2> QED  BY <1>3, <2>3, <2>4
<1>7. ASSUME NEW o \in Operators, RunMigration(o)  PROVE RerunInv'
  <2>1. RunQuiet(job'[o], data)
    <3>1. job'[o].kind = "alembic"
      <4> DEFINE at == NextAt(o)
                 work == [version |-> NextAt(o), catalog |-> Result(o)]
      <4>1. job'[o] = [[job[o] EXCEPT !.at = at] EXCEPT !.work = work]
        BY <1>1, <1>7 DEF RunMigration, JobsOK
      <4>2. IsCommand(job[o])
        BY <1>1, <1>7, KindOfJob DEF JobsOK, RunMigration, MayAlter, Migrating
      <4> HIDE DEF at, work
      <4>3. job'[o] = [kind |-> "alembic", read |-> job[o].read, at |-> at,
                       goal |-> job[o].goal, work |-> work]
        BY <4>1, <4>2, CommandMoves
      <4> QED  BY <4>3
    <3> QED  BY <3>1 DEF RunQuiet
  <2>2. /\ \A p \in Operators \ {o} : job'[p] = job[p]
        /\ data' = data /\ settled' = settled
    BY <1>1, <1>7 DEF RunMigration, JobsOK
  <2> QED  BY <1>2, <2>1, <2>2, QuietStep
<1>8. ASSUME NEW o \in Operators, MigrationRaises(o) \/ SectionRaises(o) \/ Abort(o)
      PROVE  RerunInv'
  <2>1. job' = [job EXCEPT ![o] = Idle] /\ data' = data /\ settled' = settled
    BY <1>8 DEF MigrationRaises, SectionRaises, Abort
  <2> QED  BY <1>3, <1>4, <2>1
<1>9. ASSUME NEW o \in Operators, OpenSection(o)  PROVE RerunInv'
  <2>1. IsRun(job[o]) /\ RunQuiet(job[o], data) /\ job[o].kind = "script"
    BY <1>1, <1>9, KindOfJob, QuietRunsIs DEF JobsOK, OpenSection, MayRead, Running
  <2> DEFINE j == RunOf(job[o].script, job[o].section, data, job[o].alone)
  <2>2. [job[o] EXCEPT !.old = data] = j
    BY <2>1, RunMoves
  <2>3. job' = [job EXCEPT ![o] = j] /\ data' = data /\ settled' = settled
    <3>1. job' = [job EXCEPT ![o] = [job[o] EXCEPT !.old = data]]
      BY <1>1, <1>9 DEF OpenSection, JobsOK
    <3> QED  BY <1>9, <2>2, <3>1 DEF OpenSection
  <2>4. RunQuiet(j, data)
    <3>1. /\ j.old = data /\ j.script = job[o].script /\ j.section = job[o].section
          /\ j.alone = job[o].alone
      BY DEF RunOf
    <3> HIDE DEF j
    <3> QED  BY <2>1, <3>1 DEF RunQuiet
  <2> HIDE DEF j
  <2> QED  BY <1>3, <2>3, <2>4
<1>10. ASSUME NEW o \in Operators, CommitMigration(o)  PROVE RerunInv'
  <2>1. /\ job' = [p \in Operators |->
                     IF p = o THEN Idle
                     ELSE IF Running(p) /\ data' # data THEN [job[p] EXCEPT !.alone = FALSE]
                     ELSE job[p]]
        /\ settled' = IF data' = data THEN settled ELSE {}
    BY <1>10 DEF CommitMigration
  <2>2. job'[o] = Idle
    BY <2>1
  <2>3. ASSUME NEW p \in Operators \ {o}
        PROVE  \/ job'[p] = job[p] /\ (data' = data \/ ~Running(p))
               \/ job'[p].alone = FALSE
    <3>1. CASE Running(p) /\ data' # data
      <4>1. IsRun(job[p])
        BY <1>1, <3>1, KindOfJob DEF JobsOK, Running
      <4>2. job'[p] = RunOf(job[p].script, job[p].section, job[p].old, FALSE)
        BY <2>1, <3>1, <4>1, RunMoves
      <4> QED  BY <4>2 DEF RunOf
    <3>2. CASE ~(Running(p) /\ data' # data)
      BY <2>1, <3>2
    <3> QED  BY <3>1, <3>2
  <2>4. QuietScripts'
    BY <1>1, <2>1 DEF QuietScripts
  <2>5. RunQuiet(job'[o], data')
    BY <2>2 DEF RunQuiet, Idle
  <2> QED  BY <1>2, <2>3, <2>4, <2>5, QuietCommit
<1>11. ASSUME NEW o \in Operators, WriteSection(o)  PROVE RerunInv'
  <2>1. InSection(o) /\ IsRun(job[o]) /\ Running(o)
    BY <1>1, <1>11, KindOfJob DEF JobsOK, WriteSection, InSection, Running
  <2>2. PICK d \in Outcomes(SectionOf(o, job[o].old), SectionOf(o, data), data) :
          \/ /\ \A r \in Rows : d.rows[r] > data.rows[r] => d.rows[r] <= Limit(d, r)
             /\ \E e \in WithRoles(o, d) : CommitSection(o, e)
          \/ job' = [job EXCEPT ![o] = Idle] /\ UNCHANGED <<data, settled>>
    BY <1>11 DEF WriteSection
  <2>3. CASE job' = [job EXCEPT ![o] = Idle] /\ UNCHANGED <<data, settled>>
    BY <1>3, <1>4, <2>3
  <2>4. ASSUME \A r \in Rows : d.rows[r] > data.rows[r] => d.rows[r] <= Limit(d, r),
               NEW e \in WithRoles(o, d), CommitSection(o, e)
        PROVE  RerunInv'
    <3>1. data' = e /\ settled' = (IF e = data THEN settled ELSE {})
                         \cup (IF IsLast(o) /\ job[o].alone THEN {job[o].script} ELSE {})
      BY <2>4 DEF CommitSection
    <3>2. /\ job'[o] = IF IsLast(o) THEN Idle
                       ELSE RunOf(job[o].script, job[o].section + 1, None, job[o].alone)
          /\ \A p \in Operators \ {o} :
               job'[p] = IF Running(p) /\ e # data
                         THEN RunOf(job[p].script, job[p].section, job[p].old, FALSE)
                         ELSE job[p]
      BY <1>1, <2>1, <2>4, SectionCommitted
    <3>3. ASSUME job[o].alone, job[o].script \in Idempotent
          PROVE  \A i \in 1 .. job[o].section : Quiet(Sections(job[o].script, e)[i], e)
      BY <1>1, <2>1, <2>4, <3>3, RunGoesOn
    <3>4. /\ job[o].section \in Nat /\ job[o].script \in Scripts
          /\ IsLast(o) => job[o].section = Len(Sections(job[o].script, e))
      <4>1. /\ job[o].script \in Scripts
            /\ job[o].section \in 1 .. Len(Sections(job[o].script, NoData))
        BY <1>1, <2>1 DEF RunsOK
      <4>2. IsLast(o) <=> job[o].section = Len(Sections(job[o].script, NoData))
        BY <1>1, <2>1, SectionsFit
      <4>3. e \in Data
        BY <1>2, <3>1 DEF DataInv, TypeOK
      <4>4. Len(Sections(job[o].script, e)) = Len(Sections(job[o].script, NoData))
        BY <4>1, <4>3, ScriptsFit, NoDataIsData DEF AllFit
      <4> QED  BY <4>1, <4>2, <4>4
    <3>5. RunQuiet(job'[o], data')
      <4>1. CASE IsLast(o)
        BY <3>2, <4>1 DEF RunQuiet, Idle
      <4>2. CASE ~IsLast(o)
        <5>1. /\ job'[o].old = None /\ job'[o].script = job[o].script
              /\ job'[o].section = job[o].section + 1 /\ job'[o].alone = job[o].alone
          BY <3>2, <4>2 DEF RunOf
        <5>2. 1 .. job'[o].section - 1 = 1 .. job[o].section
          BY <3>4, <5>1
        <5> QED  BY <3>1, <3>3, <5>1, <5>2 DEF RunQuiet
      <4> QED  BY <4>1, <4>2
    <3>6. ASSUME NEW p \in Operators \ {o}
          PROVE  \/ job'[p] = job[p] /\ (data' = data \/ ~Running(p))
                 \/ job'[p].alone = FALSE
      <4>1. CASE Running(p) /\ e # data
        <5>1. job'[p] = RunOf(job[p].script, job[p].section, job[p].old, FALSE)
          BY <3>2, <4>1
        <5> QED  BY <5>1 DEF RunOf
      <4>2. CASE ~(Running(p) /\ e # data)
        BY <3>1, <3>2, <4>2
      <4> QED  BY <4>1, <4>2
    <3>7. QuietScripts'
      <4> SUFFICES ASSUME NEW s \in settled' \cap Idempotent,
                          NEW i \in 1 .. Len(Sections(s, e))
                   PROVE  Quiet(Sections(s, e)[i], e)
        BY <3>1 DEF QuietScripts
      <4>1. CASE s \in settled /\ e = data
        BY <1>1, <4>1 DEF QuietScripts
      <4>2. CASE IsLast(o) /\ job[o].alone /\ s = job[o].script
        BY <3>3, <3>4, <4>2
      <4> QED  BY <3>1, <4>1, <4>2
    <3> QED  BY <1>2, <3>5, <3>6, <3>7, QuietCommit
  <2> QED  BY <2>2, <2>3, <2>4
<1>12. CASE UNCHANGED vars
  <2>1. job' = job /\ data' = data /\ settled' = settled
    BY <1>12 DEF vars
  <2>2. QuietRuns' /\ QuietScripts'
    BY <1>1, <2>1 DEF QuietRuns, QuietScripts, Running
  <2> QED  BY <1>2, <2>2 DEF RerunInv
<1> QED  BY <1>5, <1>6, <1>7, <1>8, <1>9, <1>10, <1>11, <1>12 DEF Next

\* "Re-runs are safe": the importers, the fake seed and the page seed, once run
\* to the end with no other writer meanwhile or since, would add no row and
\* change no role, also after runs of them that died half-way.
THEOREM RerunsAreSafe == Spec => []RerunChangesNothing
<1>1. RerunInv => RerunChangesNothing
  <2> SUFFICES ASSUME RerunInv, NEW s \in settled \cap Idempotent,
                      NEW i \in DOMAIN Sections(s, data)
               PROVE  Quiet(Sections(s, data)[i], data)
    BY DEF RerunChangesNothing, Quiet
  <2>1. s \in Scripts /\ data \in Data
    BY DEF RerunInv, DataInv, TypeOK
  <2>2. DOMAIN Sections(s, data) = 1 .. Len(Sections(s, data))
    BY <2>1, ScriptsFit DEF AllFit
  <2> QED  BY <2>2 DEF RerunInv, QuietScripts
<1> QED  BY <1>1, RerunInit, RerunNext, PTL DEF Spec

=============================================================================
