------------------------------ MODULE Seeding -------------------------------
(***************************************************************************)
(* The seed and import scripts: what each section of a script (the         *)
(* statements between two commits) adds, given the rows it finds.          *)
(*                                                                         *)
(* A row <<table, key>> stands for all the rows that one guard of a script *)
(* decides about together (the mechanics an importer adds to its centre,   *)
(* the pages of one file); data.rows counts how often they are there.      *)
(* Values that no guard looks at are left out; of the users the role is    *)
(* kept.                                                                   *)
(*                                                                         *)
(* Several queries end in .first() without an ORDER BY.  data.customer is  *)
(* the customer such a query returns: which one is the server's choice,    *)
(* and it may change whenever a row of users is written.                   *)
(***************************************************************************)
EXTENDS Integers

CONSTANTS MaxJobs,     \* bound: scripts and migration commands that are started
          None         \* no customer, no role

ASSUME SeedingAssumption == MaxJobs \in Nat

-----------------------------------------------------------------------------
(***************************************************************************)
(* Rows.  "shared" is the phone +998901234567, the workshop's owner for    *)
(* one importer and the demo customer for the other; "plain" is the same   *)
(* number without the plus sign.                                           *)
(***************************************************************************)
Users == {"admin", "shared", "mexanik1", "jasur", "demo_owner", "plain"}
UserRoles == {"customer", "mechanic", "owner", "admin"}
CentreNames == {"autopro", "data", "ulov"}
Plates == {"erp", "user", "demo", "rich"}
Batches == {"erp", "user", "demo"}                 \* of services
Texts == {"erp", "fake"}                           \* of mechanics, reviews
Slugs == {"general", "speed", "user", "content", "bulk"}

In(table, keys) == {table} \X keys

Rows ==
  In("users", Users) \cup In("service_centers", CentreNames)
  \cup In("mechanics", CentreNames \X {"erp", "fake", "demo"})
  \cup In("cars", Plates) \cup In("services", Batches)
  \cup In("reviews", CentreNames \X Texts)
  \cup In("sos_providers", {"user"}) \cup In("stories", {"user", "content", "rich"})
  \cup In("fuel_stations", {"user", "rich"}) \cup In("content_pages", Slugs)
  \cup In("subscription_plans", {"fake"})
  \cup In("insurance_companies", {"both", "fake", "insurance"})
  \cup In("insurance_tariffs", {"fake", "insurance"})
  \cup In("service_transitions", Batches) \cup In("mileage_readings", Plates)
  \cup In("trips", Users) \cup In("sos_requests", {"fake"})
  \cup In("notifications", Users) \cup In("devices", Users)
  \cup In("payments", {"fake"}) \cup In("insurance_policies", Users)
  \cup In("condition_images", Plates \X {"own", "demo"})

ASSUME NoneAssumption == None \notin Users \cup UserRoles

Data == [rows : [Rows -> 0 .. MaxJobs + 1], role : [Users -> UserRoles \cup {None}],
         customer : Users \cup {None}]

NoData == [rows |-> [r \in Rows |-> 0], role |-> [u \in Users |-> None],
           customer |-> None]

ASSUME DataAssumption == None \notin Data

\* The keys that have rows in d.
Keys(d, table) == {r[2] : r \in {x \in Rows : x[1] = table /\ d.rows[x] > 0}}
Customers(d) == {u \in Users : d.role[u] = "customer"}
Owners(d) == {u \in Users : d.role[u] = "owner"}

\* The cars of a user.  The demo car is its seed's first owner's.
Garage(u) == CASE u = "jasur" -> {"erp"} [] u = "shared" -> {"user"}
               [] u = "plain" -> {"rich"} [] OTHER -> {}

\* How many of these rows a section adds: those it does not find; all of
\* them; enough for every row of the parent to have one; both of two.
Missing(d, rows) == [r \in rows |-> IF d.rows[r] = 0 THEN 1 ELSE 0]
All(rows) == [r \in rows |-> 1]
Fill(have, due) == IF have < due THEN due - have ELSE 0
PerRow(d, table, parents) ==
  [r \in {table} \X {p[2] : p \in parents} |->
     Fill(d.rows[r], d.rows[CHOOSE p \in parents : p[2] = r[2]])]
Both(f, g) == [r \in DOMAIN f \cup DOMAIN g |-> IF r \in DOMAIN f THEN f[r] ELSE g[r]]
When(guard, adds) == [r \in DOMAIN adds |-> IF guard THEN adds[r] ELSE 0]

\* A section: the tables its statements name, whether it deletes all pages,
\* what it adds, the roles it gives.
Section(uses, adds) ==
  [uses |-> uses, clears |-> FALSE, adds |-> adds, roles |-> <<>>]
Giving(section, roles) == [section EXCEPT !.roles = roles]
Clearing(section) == [section EXCEPT !.clears = TRUE]

-----------------------------------------------------------------------------
(***************************************************************************)
(* import_erp_json: every upsert rewrites the user it finds.               *)
(***************************************************************************)
ErpUsers(d) ==
  Giving(Section({"users"}, Missing(d, In("users", {"admin", "shared", "mexanik1"}))),
         [admin |-> "admin", shared |-> "owner", mexanik1 |-> "mechanic"])

ErpCentre(d) ==
  Section({"users", "service_centers"},
          Missing(d, In("service_centers", {"autopro"})))

ErpMechanics(d) ==
  Section({"mechanics"}, Missing(d, In("mechanics", {<<"autopro", "erp">>})))

ErpVehicles(d) ==
  Giving(Section({"users", "cars", "services", "service_items"},
                 Missing(d, In("users", {"jasur"}) \cup In("cars", {"erp"})
                              \cup In("services", {"erp"}))),
         [jasur |-> "customer"])

ErpReviews(d) ==
  Section({"reviews"}, Missing(d, In("reviews", {<<"autopro", "erp">>})))

ImportErp(d) ==
  <<ErpUsers(d), ErpCentre(d), ErpMechanics(d), ErpVehicles(d), ErpReviews(d)>>

-----------------------------------------------------------------------------
(***************************************************************************)
(* import_user_json                                                        *)
(***************************************************************************)
EnsureUsers(d) ==
  Giving(Section({"users"}, Missing(d, In("users", {"demo_owner", "shared"}))),
         [demo_owner |-> "owner", shared |-> "customer"])

ImportCars(d) == Section({"cars"}, Missing(d, In("cars", {"user"})))

\* Mutant: the centre is added without a look for its name.
ImportCentres_Always(d) ==
  Section({"service_centers"}, All(In("service_centers", {"data"})))
ImportCentres(d) ==
  Section({"service_centers"}, Missing(d, In("service_centers", {"data"})))

ImportHistory(d) ==
  Section({"services", "service_centers", "service_items"},
          Missing(d, In("services", {"user"})))

ImportSos(d) == Section({"sos_providers"}, Missing(d, In("sos_providers", {"user"})))
ImportStories(d) == Section({"stories"}, Missing(d, In("stories", {"user"})))
ImportFuelStations(d) ==
  Section({"fuel_stations"}, Missing(d, In("fuel_stations", {"user"})))

ImportContent(d) ==
  Section({"content_pages"},
          Missing(d, In("content_pages", {"general", "speed", "user"})))

ImportUser(d) ==
  <<EnsureUsers(d), ImportCars(d), ImportCentres(d), ImportHistory(d),
    ImportSos(d), ImportStories(d), ImportFuelStations(d), ImportContent(d)>>

-----------------------------------------------------------------------------
(***************************************************************************)
(* seed_fake_data: most sections look whether the parent has rows at all.  *)
(***************************************************************************)
SeedPlans(d) ==
  Section({"subscription_plans"}, Missing(d, In("subscription_plans", {"fake"})))

SeedFakeInsurance(d) ==
  Section({"insurance_companies", "insurance_tariffs"},
          Missing(d, In("insurance_companies", {"both", "fake"})
                       \cup In("insurance_tariffs", {"fake"})))

\* A centre that has no two mechanics (no five reviews) gets some; the others
\* of its name count.
ThinCentres(d, table, sources) ==
  [r \in {table} \X (CentreNames \X {"fake"}) |->
     LET z == r[2][1]
         filled == {s \in sources : d.rows[<<table, <<z, s>>>>] > 0}
     IN IF filled = {} THEN d.rows[<<"service_centers", z>>] ELSE 0]

SeedMechanics(d) ==
  Section({"service_centers", "mechanics"},
          ThinCentres(d, "mechanics", {"erp", "fake", "demo"}))

SeedReviews(d) ==
  Section({"users", "service_centers", "reviews"},
          When(Customers(d) # {}, ThinCentres(d, "reviews", Texts)))

SeedServiceTransitions(d) ==
  Section({"services", "users", "service_transitions"},
          PerRow(d, "service_transitions", In("services", Batches)))

SeedMileageReadings(d) ==
  Section({"cars", "mileage_readings"},
          PerRow(d, "mileage_readings", In("cars", Plates)))

\* For the customer the unordered query returns.
OfCustomer(d, table) ==
  [r \in {table} \X Users |->
     IF r[2] = d.customer /\ d.rows[r] = 0 THEN 1 ELSE 0]

\* Mutant: "at least three trips" is not looked at.
SeedTrips_Always(d) ==
  Section({"users", "trips", "cars", "trip_points"},
          [r \in {"trips"} \X Users |-> IF r[2] = d.customer THEN 1 ELSE 0])
SeedTrips(d) ==
  Section({"users", "trips", "cars", "trip_points"}, OfCustomer(d, "trips"))

SeedSosRequests(d) ==
  Section({"users", "sos_requests", "sos_providers"},
          When(d.customer # None /\ Keys(d, "sos_providers") # {},
               Missing(d, In("sos_requests", {"fake"}))))

SeedNotifications(d) ==
  Section({"users", "notifications", "devices"},
          Both(OfCustomer(d, "notifications"),
               When(d.customer # None, PerRow(d, "devices", In("users", Users)))))

SeedPaymentsAndPolicies(d) ==
  Section({"users", "subscription_plans", "service_centers", "payments",
           "insurance_tariffs", "insurance_companies", "insurance_policies", "cars"},
          Both(When(/\ Owners(d) # {} /\ Keys(d, "subscription_plans") # {}
                    /\ Keys(d, "service_centers") # {},
                    Missing(d, In("payments", {"fake"}))),
               When(/\ "fake" \in Keys(d, "insurance_tariffs")
                    /\ d.customer # None /\ Garage(d.customer) \cap Keys(d, "cars") # {},
                    OfCustomer(d, "insurance_policies"))))

\* For the latest completed service of each car of the customer: one of the
\* demo seed's, which are of the last days and fall on every car, if there
\* are any.
SeedConditionImages(d) ==
  Section({"users", "cars", "services", "condition_images"},
    [r \in In("condition_images", Plates \X {"own", "demo"}) |->
       LET k == r[2][1]
           latest == IF d.rows[<<"services", "demo">>] > 0 THEN "demo" ELSE "own"
           batch == IF latest = "demo" THEN "demo" ELSE k
       IN IF /\ d.customer # None /\ k \in Garage(d.customer) \cap Keys(d, "cars")
             /\ r[2][2] = latest /\ batch \in Batches
          THEN Fill(d.rows[r], d.rows[<<"services", batch>>]) ELSE 0])

SeedFake(d) ==
  <<SeedPlans(d), SeedFakeInsurance(d), SeedMechanics(d), SeedReviews(d),
    SeedServiceTransitions(d), SeedMileageReadings(d), SeedTrips(d),
    SeedSosRequests(d), SeedNotifications(d), SeedPaymentsAndPolicies(d),
    SeedConditionImages(d)>>

-----------------------------------------------------------------------------
(***************************************************************************)
(* The single-purpose seeds.                                               *)
(***************************************************************************)
Seed(d) ==
  <<Section({"content_pages"}, Missing(d, In("content_pages", {"general", "speed"})))>>

\* No look for what is there: the unique key of the pages stops a second run,
\* unless the pages were cleared in between.
SeedContent(d) ==
  <<Section({"content_pages", "stories"},
            All(In("content_pages", {"speed", "content"}) \cup In("stories", {"content"})))>>

SeedBulk(d) ==
  <<Clearing(Section({"content_pages"}, All(In("content_pages", {"general", "bulk"}))))>>

ImportCms(d) ==
  <<Clearing(Section({"content_pages"}, <<>>)),
    Section({"content_pages"}, All(In("content_pages", {"general", "speed"})))>>

SeedInsurance(d) ==
  <<Section({"insurance_companies", "insurance_tariffs"},
            Missing(d, In("insurance_companies", {"both", "insurance"})
                         \cup In("insurance_tariffs", {"insurance"})))>>

\* An owner, a centre and a car if there is none at all, mechanics for every
\* centre without its own; then fifty services more, whatever is there.
DemoBase(d) ==
  LET none == Keys(d, "service_centers") = {}
      mechanics(r) == IF r[2][1] = "ulov" /\ none THEN 1
                      ELSE Fill(d.rows[r], d.rows[<<"service_centers", r[2][1]>>])
  IN
  Giving(Section({"users", "service_centers", "cars", "mechanics"},
           Both(Both(When(Owners(d) = {}, All(In("users", {"plain"}))),
                     When(none, All(In("service_centers", {"ulov"})))),
                Both(When(Keys(d, "cars") = {}, All(In("cars", {"demo"}))),
                     [r \in In("mechanics", CentreNames \X {"demo"}) |-> mechanics(r)]))),
         [plain |-> "owner"])

DemoServices(d) ==
  Section({"cars", "services", "service_items"}, All(In("services", {"demo"})))

SeedDemo(d) == <<DemoBase(d), DemoServices(d)>>

\* Its user has the number without the plus sign; it ends where there is none.
SeedRich(d) ==
  <<Section({"users", "cars", "stories", "fuel_stations"},
            When("plain" \in Keys(d, "users"),
                 Missing(d, In("cars", {"rich"}) \cup In("stories", {"rich"})
                              \cup In("fuel_stations", {"rich"}))))>>

-----------------------------------------------------------------------------
\* The sections of a script, run against d.
Sections(script, d) ==
  CASE script = "import_erp" -> ImportErp(d)
    [] script = "import_user" -> ImportUser(d)
    [] script = "seed_fake" -> SeedFake(d)
    [] script = "seed" -> Seed(d)
    [] script = "seed_content" -> SeedContent(d)
    [] script = "seed_bulk" -> SeedBulk(d)
    [] script = "import_cms" -> ImportCms(d)
    [] script = "seed_insurance" -> SeedInsurance(d)
    [] script = "seed_demo" -> SeedDemo(d)
    [] script = "seed_rich" -> SeedRich(d)

Scripts == {"import_erp", "import_user", "seed_fake", "seed", "seed_content",
            "seed_bulk", "import_cms", "seed_insurance", "seed_demo", "seed_rich"}

\* Those whose documentation says they may be run again.
Idempotent == {"import_erp", "import_user", "seed_fake", "seed"}

\* How often a row may be there before a unique key refuses it (users.phone,
\* cars.plate, mechanics.login, code of plans and tariffs, the key of pages).
\* The logins of the fake seed are random, those of the demo seed one set per
\* centre.
Limit(d, r) ==
  CASE r[1] \in {"users", "cars", "subscription_plans", "insurance_tariffs",
                 "content_pages"} -> 1
    [] r[1] = "mechanics" /\ r[2][2] = "erp" -> 1
    [] r[1] = "mechanics" /\ r[2][2] = "demo" -> d.rows[<<"service_centers", r[2][1]>>]
    [] OTHER -> MaxJobs + 1

\* The outcome of a section that read d and meets now: every row it looked
\* for at one of the two moments is added as it then seemed.  No section gives
\* two sets of rows the same key.
Outcomes(old, new, now) ==
  LET base == IF new.clears
              THEN [now EXCEPT !.rows = [r \in Rows |-> IF r[1] = "content_pages"
                                                        THEN 0 ELSE @[r]]]
              ELSE now
      doubtful == {r \in DOMAIN new.adds : new.adds[r] # old.adds[r]}
      more(late, r) == IF r \notin DOMAIN new.adds THEN 0
                       ELSE IF r \in late THEN new.adds[r] ELSE old.adds[r]
  IN {[base EXCEPT !.rows = [r \in Rows |-> base.rows[r] + more(late, r)]] :
        late \in SUBSET doubtful}
=============================================================================
