------------------------------- MODULE Schema -------------------------------
(***************************************************************************)
(* The migrations: what each revision's upgrade() and downgrade() do to    *)
(* the catalogue of the database, operation by operation, and what         *)
(* PostgreSQL refuses (the dependencies between types, tables, keys and    *)
(* indexes).  Columns are in the model only as the types, references, keys *)
(* and indexes they carry.                                                 *)
(*                                                                         *)
(* Revisions are numbered along the chain:                                 *)
(*    1  0001_initial_auth        5  0005_phase6_billing                   *)
(*    2  0002_customer_core       6  e52e9a810976                          *)
(*    3  0003_phase3_erp          7  7aa22029ef2f                          *)
(*    4  0004_phase5_secondary    8  0006_phase9_audit                     *)
(***************************************************************************)
EXTENDS Integers, Sequences

Base == 0
Newest == 8    \* head
Revisions == Base .. Newest

-----------------------------------------------------------------------------
(***************************************************************************)
(* A catalogue: the enumerated types, and the tables with the types and    *)
(* rows they depend on.  ok: no operation on the way here was refused.     *)
(* A reference is <<column, table, ON DELETE>>, a key a tuple of columns,  *)
(* an index <<name after ix_table_, columns>>.                             *)
(***************************************************************************)
Empty == [enums |-> {}, tables |-> [t \in {} |-> {}], ok |-> TRUE]

Table(enums, fks, keys) ==
  [enums |-> enums, fks |-> fks, keys |-> keys, indexes |-> {}]

CreateEnum(e) == [op |-> "create_enum", on |-> e]
DropEnum(e) == [op |-> "drop_enum", on |-> e]
CreateTable(t, body) == [op |-> "create_table", on |-> t, body |-> body]
DropTable(t) == [op |-> "drop_table", on |-> t]
AddFk(t, fk) == [op |-> "add_fk", on |-> t, fk |-> fk]
DropFk(t, col) == [op |-> "drop_fk", on |-> t, col |-> col]
AddIndex(t, ix) == [op |-> "add_index", on |-> t, ix |-> ix]
DropIndex(t, name) == [op |-> "drop_index", on |-> t, name |-> name]
DropIndexIfExists(t, name) == [op |-> "drop_index_if_exists", on |-> t, name |-> name]

\* One index per column, named after it.
Indexes(t, cols) == [i \in DOMAIN cols |-> AddIndex(t, <<cols[i], <<cols[i]>>>>)]
NoIndexes(t, names) == [i \in DOMAIN names |-> DropIndex(t, names[i])]
Enums(es) == [i \in DOMAIN es |-> CreateEnum(es[i])]
\* Mutant: dropping a type is forgotten.
NoEnums_Keeps(es) == <<>>
NoEnums(es) == [i \in DOMAIN es |-> DropEnum(es[i])]

\* PostgreSQL, and create/drop of a type with checkfirst; an unnamed
\* constraint cannot be dropped: no statement can be written for it.
Unnamed == "None"

Allowed(c, o) ==
  LET there == o.on \in DOMAIN c.tables
      known(fk) == fk[2] \in DOMAIN c.tables
  IN
  \/ o.op \in {"create_enum", "drop_index_if_exists"}
  \/ o.op = "drop_enum" /\ \A t \in DOMAIN c.tables : o.on \notin c.tables[t].enums
  \/ /\ o.op = "create_table" /\ ~there
     /\ o.body.enums \subseteq c.enums /\ \A fk \in o.body.fks : known(fk)
  \/ /\ o.op = "drop_table" /\ there
     /\ \A t \in DOMAIN c.tables \ {o.on} : \A fk \in c.tables[t].fks : fk[2] # o.on
  \/ o.op = "add_fk" /\ there /\ known(o.fk)
  \/ /\ o.op = "drop_fk" /\ there /\ o.col # Unnamed
     /\ \E fk \in c.tables[o.on].fks : fk[1] = o.col
  \/ o.op = "add_index" /\ there /\ \A ix \in c.tables[o.on].indexes : ix[1] # o.ix[1]
  \/ o.op = "drop_index" /\ there /\ \E ix \in c.tables[o.on].indexes : ix[1] = o.name

Effect(c, o) ==
  CASE o.op = "create_enum" -> [c EXCEPT !.enums = @ \cup {o.on}]
    [] o.op = "drop_enum" -> [c EXCEPT !.enums = @ \ {o.on}]
    [] o.op = "create_table" ->
         [c EXCEPT !.tables = [t \in DOMAIN @ \cup {o.on} |->
                                 IF t = o.on THEN o.body ELSE @[t]]]
    [] o.op = "drop_table" ->
         [c EXCEPT !.tables = [t \in DOMAIN @ \ {o.on} |-> @[t]]]
    [] o.op = "add_fk" -> [c EXCEPT !.tables[o.on].fks = @ \cup {o.fk}]
    [] o.op = "drop_fk" ->
         [c EXCEPT !.tables[o.on].fks = {fk \in @ : fk[1] # o.col}]
    [] o.op = "add_index" -> [c EXCEPT !.tables[o.on].indexes = @ \cup {o.ix}]
    [] o.op \in {"drop_index", "drop_index_if_exists"} ->
         [c EXCEPT !.tables[o.on].indexes = {ix \in @ : ix[1] # o.name}]

\* A migration script: its operations in order, up to the first that raises.
Step(c, o) == IF c.ok /\ Allowed(c, o) THEN Effect(c, o) ELSE [c EXCEPT !.ok = FALSE]

Run(ops, c) ==
  LET after[i \in 0 .. Len(ops)] == IF i = 0 THEN c ELSE Step(after[i - 1], ops[i])
  IN after

Execute(ops, c) == Run(ops, c)[Len(ops)]

-----------------------------------------------------------------------------
(***************************************************************************)
(* 0001: users and their sessions.  users.center_id refers to nothing yet. *)
(***************************************************************************)
OfUser == {<<"user_id", "users", "CASCADE">>}

CreateUsers ==
  <<CreateEnum("user_role"),
    CreateTable("users", Table({"user_role"}, {}, {<<"phone">>}))>>
  \o Indexes("users", <<"email", "role", "center_id">>)

CreateRefreshTokens ==
  <<CreateTable("refresh_tokens", Table({}, OfUser, {<<"token_hash">>}))>>
  \o Indexes("refresh_tokens", <<"user_id", "expires_at">>)

DropAuth ==
  NoIndexes("refresh_tokens", <<"expires_at", "user_id">>)
  \o <<DropTable("refresh_tokens")>>
  \o NoIndexes("users", <<"center_id", "role", "email">>)
  \o <<DropTable("users"), DropEnum("user_role")>>

-----------------------------------------------------------------------------
(***************************************************************************)
(* 0002: the customer's tables.  reviews refers to centres and services    *)
(* that are not there yet.                                                 *)
(***************************************************************************)
CustomerEnums ==
  Enums(<<"plate_type", "mileage_source", "content_kind", "device_platform">>)

CreateCars ==
  <<CreateTable("cars", Table({"plate_type"}, {<<"owner_id", "users", "CASCADE">>},
                              {<<"plate">>, <<"vin">>}))>>
  \o Indexes("cars", <<"owner_id">>)

CreateMileageReadings ==
  <<CreateTable("mileage_readings",
      Table({"mileage_source"}, {<<"car_id", "cars", "CASCADE">>}, {}))>>
  \o Indexes("mileage_readings", <<"car_id">>)
  \o <<AddIndex("mileage_readings", <<"recorded_at", <<"car_id", "recorded_at">>>>)>>

CreateReviews ==
  <<CreateTable("reviews", Table({}, OfUser, {}))>>
  \o Indexes("reviews", <<"user_id", "center_id">>)

CreateContentPages ==
  <<CreateTable("content_pages",
      Table({"content_kind"}, {}, {<<"kind", "lang", "slug">>}))>>
  \o Indexes("content_pages", <<"kind">>)

CreateNotifications ==
  <<CreateTable("notifications", Table({}, OfUser, {}))>>
  \o Indexes("notifications", <<"user_id", "kind">>)
  \o <<AddIndex("notifications", <<"read_at", <<"user_id", "read_at">>>>)>>

CreateDevices ==
  <<CreateTable("devices",
      Table({"device_platform"}, OfUser, {<<"user_id", "token">>}))>>
  \o Indexes("devices", <<"user_id">>)

DropCustomerCore ==
  NoIndexes("devices", <<"user_id">>) \o <<DropTable("devices")>>
  \o NoIndexes("notifications", <<"read_at", "kind", "user_id">>)
  \o <<DropTable("notifications")>>
  \o NoIndexes("content_pages", <<"kind">>) \o <<DropTable("content_pages")>>
  \o NoIndexes("reviews", <<"center_id", "user_id">>) \o <<DropTable("reviews")>>
  \o NoIndexes("mileage_readings", <<"recorded_at", "car_id">>)
  \o <<DropTable("mileage_readings")>>
  \o NoIndexes("cars", <<"owner_id">>) \o <<DropTable("cars")>>
  \o NoEnums(<<"device_platform", "content_kind", "mileage_source", "plate_type">>)

-----------------------------------------------------------------------------
(***************************************************************************)
(* 0003: the workshop's tables, and the references 0001 and 0002 left out. *)
(***************************************************************************)
OfService == <<"service_id", "services", "CASCADE">>
OfCenter(rule) == <<"center_id", "service_centers", rule>>

CreateServiceCenters ==
  Enums(<<"service_status", "condition_image_stage">>)
  \o <<CreateTable("service_centers",
         Table({}, {<<"owner_user_id", "users", "CASCADE">>}, {}))>>
  \o Indexes("service_centers", <<"owner_user_id">>)

CreateMechanics ==
  <<CreateTable("mechanics", Table({}, {OfCenter("CASCADE")}, {<<"login">>}))>>
  \o Indexes("mechanics", <<"center_id">>)
  \o <<AddIndex("mechanics", <<"center_active", <<"center_id", "deleted_at IS NULL">>>>)>>

CreateServices ==
  <<CreateTable("services",
      Table({"service_status"},
            {<<"car_id", "cars", "RESTRICT">>, OfCenter("RESTRICT"),
             <<"mechanic_id", "mechanics", "SET NULL">>}, {}))>>
  \o Indexes("services", <<"car_id", "center_id", "mechanic_id">>)
  \o <<AddIndex("services", <<"center_status", <<"center_id", "status">>>>)>>

CreateServiceItems ==
  <<CreateTable("service_items", Table({}, {OfService}, {}))>>
  \o Indexes("service_items", <<"service_id">>)

CreateServiceTransitions ==
  <<CreateTable("service_transitions",
      Table({"service_status"}, {OfService, <<"by_user_id", "users", "SET NULL">>}, {})),
    AddIndex("service_transitions", <<"service_at", <<"service_id", "at DESC">>>>)>>

CreateConditionImages ==
  <<CreateTable("condition_images",
      Table({"condition_image_stage"},
            {OfService, <<"uploaded_by", "users", "SET NULL">>}, {}))>>
  \o Indexes("condition_images", <<"service_id">>)

BackFillReferences ==
  <<AddFk("users", OfCenter("SET NULL")), AddFk("reviews", OfCenter("CASCADE")),
    AddFk("reviews", <<"service_id", "services", "SET NULL">>)>>

\* Mutant: the reference of users to its centre is not dropped first.
DropErp_KeepsUserCentre ==
  <<DropFk("reviews", "service_id"), DropFk("reviews", "center_id")>>
  \o NoIndexes("condition_images", <<"service_id">>) \o <<DropTable("condition_images")>>
  \o NoIndexes("service_transitions", <<"service_at">>)
  \o <<DropTable("service_transitions")>>
  \o NoIndexes("service_items", <<"service_id">>) \o <<DropTable("service_items")>>
  \o NoIndexes("services", <<"center_status", "mechanic_id", "center_id", "car_id">>)
  \o <<DropTable("services")>> \o NoIndexes("mechanics", <<"center_id">>)
  \o <<DropTable("mechanics")>> \o NoIndexes("service_centers", <<"owner_user_id">>)
  \o <<DropTable("service_centers")>>

DropErp ==
  <<DropFk("reviews", "service_id"), DropFk("reviews", "center_id"),
    DropFk("users", "center_id")>>
  \o NoIndexes("condition_images", <<"service_id">>) \o <<DropTable("condition_images")>>
  \o NoIndexes("service_transitions", <<"service_at">>)
  \o <<DropTable("service_transitions")>>
  \o NoIndexes("service_items", <<"service_id">>) \o <<DropTable("service_items")>>
  \o NoIndexes("services", <<"center_status", "mechanic_id", "center_id", "car_id">>)
  \o <<DropTable("services")>>
  \o <<DropIndexIfExists("mechanics", "center_active")>>
  \o NoIndexes("mechanics", <<"center_id">>) \o <<DropTable("mechanics")>>
  \o <<DropIndexIfExists("service_centers", "location")>>
  \o NoIndexes("service_centers", <<"owner_user_id">>) \o <<DropTable("service_centers")>>
  \o NoEnums(<<"condition_image_stage", "service_status">>)

-----------------------------------------------------------------------------
(***************************************************************************)
(* 0004 and 0005: trips, SOS, fuel, insurance; plans and payments.         *)
(***************************************************************************)
SecondaryEnums == Enums(<<"sos_category", "sos_request_status", "payment_status">>)

CreateTrips ==
  <<CreateTable("trips", Table({}, OfUser \cup {<<"car_id", "cars", "SET NULL">>}, {}))>>
  \o Indexes("trips", <<"user_id", "car_id">>)
  \o <<CreateTable("trip_points", Table({}, {<<"trip_id", "trips", "CASCADE">>}, {}))>>
  \o Indexes("trip_points", <<"trip_id">>)

CreateSos ==
  <<CreateTable("sos_providers", Table({"sos_category"}, {}, {}))>>
  \o Indexes("sos_providers", <<"category", "city">>)
  \o <<CreateTable("sos_requests",
         Table({"sos_request_status"},
               OfUser \cup {<<"provider_id", "sos_providers", "SET NULL">>}, {}))>>
  \o Indexes("sos_requests", <<"user_id">>)

CreateFuelStations == <<CreateTable("fuel_stations", Table({}, {}, {}))>>

CreateInsurance ==
  <<CreateTable("insurance_tariffs", Table({}, {}, {<<"code">>})),
    CreateTable("insurance_policies",
      Table({"payment_status"},
            OfUser \cup {<<"car_id", "cars", "RESTRICT">>,
                         <<"tariff_id", "insurance_tariffs", "RESTRICT">>}, {}))>>
  \o Indexes("insurance_policies", <<"user_id">>)

DropSecondary ==
  NoIndexes("insurance_policies", <<"user_id">>)
  \o <<DropTable("insurance_policies"), DropTable("insurance_tariffs"),
       DropIndexIfExists("fuel_stations", "location"), DropTable("fuel_stations")>>
  \o NoIndexes("sos_requests", <<"user_id">>) \o <<DropTable("sos_requests")>>
  \o NoIndexes("sos_providers", <<"city", "category">>) \o <<DropTable("sos_providers")>>
  \o NoIndexes("trip_points", <<"trip_id">>) \o <<DropTable("trip_points")>>
  \o NoIndexes("trips", <<"car_id", "user_id">>) \o <<DropTable("trips")>>
  \o NoEnums(<<"payment_status", "sos_request_status", "sos_category">>)

CreateBilling ==
  Enums(<<"payment_provider", "payment_kind">>)
  \o <<CreateTable("subscription_plans", Table({}, {}, {<<"code">>})),
       CreateTable("payments",
         Table({"payment_kind", "payment_provider", "payment_status"},
               OfUser \cup {<<"plan_id", "subscription_plans", "SET NULL">>},
               {<<"external_ref">>}))>>
  \o Indexes("payments", <<"user_id", "target_id">>)

DropBilling ==
  NoIndexes("payments", <<"target_id", "user_id">>)
  \o <<DropTable("payments"), DropTable("subscription_plans")>>
  \o NoEnums(<<"payment_kind", "payment_provider">>)

-----------------------------------------------------------------------------
(***************************************************************************)
(* e52e9a810976, autogenerated: companies, and every index and reference   *)
(* the models do not declare goes.  7aa22029ef2f: stories.  0006: audit.   *)
(***************************************************************************)
AddCompanies ==
  <<CreateTable("insurance_companies", Table({}, {}, {})),
    AddFk("insurance_policies", <<"company_id", "insurance_companies", "RESTRICT">>),
    DropIndex("mechanics", "center_active"),
    DropIndex("mileage_readings", "recorded_at"),
    DropIndex("notifications", "read_at"),
    AddIndex("notifications", <<"read_at", <<"read_at">>>>),
    DropIndex("refresh_tokens", "expires_at"),
    DropFk("reviews", "center_id"), DropFk("reviews", "service_id"),
    DropIndex("service_transitions", "service_at"),
    AddIndex("service_transitions", <<"service_id", <<"service_id">>>>),
    DropIndex("services", "center_status"),
    DropIndex("users", "center_id"), DropIndex("users", "role"),
    DropFk("users", "center_id")>>

DropCompanies ==
  <<AddFk("users", OfCenter("SET NULL")),
    AddIndex("users", <<"role", <<"role">>>>),
    AddIndex("users", <<"center_id", <<"center_id">>>>),
    AddIndex("services", <<"center_status", <<"center_id", "status">>>>),
    DropIndex("service_transitions", "service_id"),
    AddIndex("service_transitions", <<"service_at", <<"service_id", "at DESC">>>>),
    AddFk("reviews", <<"service_id", "services", "SET NULL">>),
    AddFk("reviews", OfCenter("CASCADE")),
    AddIndex("refresh_tokens", <<"expires_at", <<"expires_at">>>>),
    DropIndex("notifications", "read_at"),
    AddIndex("notifications", <<"read_at", <<"user_id", "read_at">>>>),
    AddIndex("mileage_readings", <<"recorded_at", <<"car_id", "recorded_at">>>>),
    AddIndex("mechanics", <<"center_active", <<"center_id", "deleted_at IS NULL">>>>),
    DropFk("insurance_policies", Unnamed),
    DropTable("insurance_companies")>>

CreateStories == <<CreateTable("stories", Table({}, {OfCenter("CASCADE")}, {}))>>
DropStories == <<DropTable("stories")>>

\* Mutant: the index on the time of an audit row is forgotten.
CreateAuditLogs_NoAt ==
  <<CreateTable("audit_logs", Table({}, {<<"actor_user_id", "users", "SET NULL">>}, {}))>>
  \o Indexes("audit_logs", <<"actor_user_id", "action", "entity_type", "entity_id">>)

CreateAuditLogs ==
  <<CreateTable("audit_logs", Table({}, {<<"actor_user_id", "users", "SET NULL">>}, {}))>>
  \o Indexes("audit_logs", <<"actor_user_id", "action", "entity_type", "entity_id", "at">>)
DropAuditLogs ==
  NoIndexes("audit_logs", <<"at", "entity_id", "entity_type", "action", "actor_user_id">>)
  \o <<DropTable("audit_logs")>>

-----------------------------------------------------------------------------
(***************************************************************************)
(* The chain.                                                              *)
(***************************************************************************)
Upgrade ==
  <<CreateUsers \o CreateRefreshTokens,
    CustomerEnums \o CreateCars \o CreateMileageReadings \o CreateReviews
      \o CreateContentPages \o CreateNotifications \o CreateDevices,
    CreateServiceCenters \o CreateMechanics \o CreateServices
      \o CreateServiceItems \o CreateServiceTransitions
      \o CreateConditionImages \o BackFillReferences,
    SecondaryEnums \o CreateTrips \o CreateSos \o CreateFuelStations
      \o CreateInsurance,
    CreateBilling, AddCompanies, CreateStories, CreateAuditLogs>>

Downgrade ==
  <<DropAuth, DropCustomerCore, DropErp, DropSecondary, DropBilling,
    DropCompanies, DropStories, DropAuditLogs>>

\* The catalogue a revision stands for: what its upgrades build from nothing.
At[r \in Revisions] ==
  IF r = Base THEN Empty ELSE Execute(Upgrade[r], At[r - 1])

-----------------------------------------------------------------------------
(***************************************************************************)
(* What the models declare (Base.metadata): ForeignKey, unique and index   *)
(* of every __tablename__.                                                 *)
(***************************************************************************)
Model(enums, fks, keys, cols) ==
  [Table(enums, fks, keys) EXCEPT !.indexes = {<<c, <<c>>>> : c \in cols}]

DeclaredByUsers == [users |-> Model({"user_role"}, {}, {<<"phone">>}, {"email"})]
DeclaredByAuth ==
  [refresh_tokens |-> Model({}, OfUser, {<<"token_hash">>}, {"user_id"})]
DeclaredByAudit ==
  [audit_logs |-> Model({}, {<<"actor_user_id", "users", "SET NULL">>}, {},
     {"actor_user_id", "action", "entity_type", "entity_id", "at"})]
DeclaredByCars ==
  [cars |-> Model({"plate_type"}, {<<"owner_id", "users", "CASCADE">>},
     {<<"plate">>, <<"vin">>}, {"owner_id"}),
   mileage_readings |-> Model({"mileage_source"}, {<<"car_id", "cars", "CASCADE">>},
     {}, {"car_id"})]
DeclaredByReviews == [reviews |-> Model({}, OfUser, {}, {"user_id", "center_id"})]
DeclaredByContent ==
  [content_pages |-> Model({"content_kind"}, {}, {<<"kind", "lang", "slug">>}, {"kind"})]
DeclaredByStories == [stories |-> Model({}, {OfCenter("CASCADE")}, {}, {})]
DeclaredByNotifications ==
  [notifications |-> Model({}, OfUser, {}, {"user_id", "kind", "read_at"}),
   devices |-> Model({"device_platform"}, OfUser, {<<"user_id", "token">>}, {"user_id"})]
DeclaredByCenters ==
  [service_centers |-> Model({}, {<<"owner_user_id", "users", "CASCADE">>}, {},
     {"owner_user_id"})]
DeclaredByMechanics ==
  [mechanics |-> Model({}, {OfCenter("CASCADE")}, {<<"login">>}, {"center_id"})]
DeclaredByServices ==
  [services |-> Model({"service_status"},
     {<<"car_id", "cars", "RESTRICT">>, OfCenter("RESTRICT"),
      <<"mechanic_id", "mechanics", "SET NULL">>}, {},
     {"car_id", "center_id", "mechanic_id"}),
   service_items |-> Model({}, {OfService}, {}, {"service_id"}),
   service_transitions |-> Model({"service_status"},
     {OfService, <<"by_user_id", "users", "SET NULL">>}, {}, {"service_id"}),
   condition_images |-> Model({"condition_image_stage"},
     {OfService, <<"uploaded_by", "users", "SET NULL">>}, {}, {"service_id"})]
DeclaredByTrips ==
  [trips |-> Model({}, OfUser \cup {<<"car_id", "cars", "SET NULL">>}, {},
     {"user_id", "car_id"}),
   trip_points |-> Model({}, {<<"trip_id", "trips", "CASCADE">>}, {}, {"trip_id"})]
DeclaredBySos ==
  [sos_providers |-> Model({"sos_category"}, {}, {}, {"category", "city"}),
   sos_requests |-> Model({"sos_request_status"},
     OfUser \cup {<<"provider_id", "sos_providers", "SET NULL">>}, {}, {"user_id"})]
DeclaredByFuelStations == [fuel_stations |-> Model({}, {}, {}, {})]
DeclaredByInsurance ==
  [insurance_companies |-> Model({}, {}, {}, {}),
   insurance_tariffs |-> Model({}, {}, {<<"code">>}, {}),
   insurance_policies |-> Model({"payment_status"},
     OfUser \cup {<<"car_id", "cars", "RESTRICT">>,
                  <<"tariff_id", "insurance_tariffs", "RESTRICT">>,
                  <<"company_id", "insurance_companies", "RESTRICT">>}, {}, {"user_id"})]
DeclaredByBilling ==
  [subscription_plans |-> Model({}, {}, {<<"code">>}, {}),
   payments |-> Model({"payment_kind", "payment_provider", "payment_status"},
     OfUser \cup {<<"plan_id", "subscription_plans", "SET NULL">>},
     {<<"external_ref">>}, {"user_id", "target_id"})]

Metadata ==
  LET all == <<DeclaredByUsers, DeclaredByAuth, DeclaredByAudit, DeclaredByCars,
               DeclaredByReviews, DeclaredByContent, DeclaredByStories,
               DeclaredByNotifications, DeclaredByCenters, DeclaredByMechanics,
               DeclaredByServices, DeclaredByTrips, DeclaredBySos,
               DeclaredByFuelStations, DeclaredByInsurance, DeclaredByBilling>>
      names == UNION {DOMAIN all[i] : i \in DOMAIN all}
      owner(t) == CHOOSE i \in DOMAIN all : t \in DOMAIN all[i]
  IN [t \in names |-> all[owner(t)][t]]
=============================================================================
