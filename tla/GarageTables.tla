---------------------------- MODULE GarageTables ----------------------------
(***************************************************************************)
(* The customer's and the workshop's tables, and what every request to     *)
(* them has in common.                                                     *)
(*                                                                         *)
(* A request is two steps around whatever other requests do in between:    *)
(*  - it reads: the handler's SELECTs, its checks, and the row it keeps    *)
(*    (READ COMMITTED, nothing is read FOR UPDATE);                        *)
(*  - it writes: its INSERTs, UPDATEs and DELETEs and the commit.  An      *)
(*    UPDATE rewrites the columns it names in the row it then finds, an    *)
(*    INSERT meets the unique and foreign keys as they then are.           *)
(* Row locks make the statements of one request one step for the others:   *)
(* whoever needs a written row waits for the commit.  A request that is    *)
(* refused (401 to 422) leaves no trace and is no step.  One that raises   *)
(* later, on a constraint, a failed publish, a lost database or a dying    *)
(* worker, is rolled back: Abort.                                          *)
(*                                                                         *)
(* Column values no rule looks at (names, colours, dates, prices) are left *)
(* out; an edit of such columns is recorded as the request that made it.   *)
(***************************************************************************)
EXTENDS Integers, FiniteSets

CONSTANTS
  Cars, Trips, Centers, Mechanics,   \* row ids that can be given out
  Customers, Staff,                  \* who calls
  Role,                              \* Staff -> {"mechanic", "owner", "admin"}
  Home,                              \* Staff -> the center_id in the token
  Plates,                            \* plates, as they are stored
  Shape,                             \* Plates -> the type that the plate looks like
  Vins, Logins,
  Clients,                           \* requests in flight at a time
  Scenes,                            \* bound: which kinds of request meet in a behaviour
  MaxKm,                             \* bound: mileage
  MaxBatch,                          \* bound: points of one batch
  MaxReq,                            \* bound: requests
  Null,                              \* SQL NULL, or a row id not given out
  Deleted                            \* a row id whose row was deleted

PlateTypes == {"standard", "legal", "other"}
Km == 0 .. MaxKm
Ids == 1 .. MaxReq

ASSUME GarageAssumption ==
  /\ MaxKm \in Nat /\ MaxBatch \in Nat /\ MaxReq \in Nat
  /\ Shape \in [Plates -> PlateTypes]
  /\ Role \in [Staff -> {"mechanic", "owner", "admin"}]
  /\ Home \in [Staff -> Centers \cup {Null}]
  /\ Null # Deleted

VARIABLES
  car, reading,                      \* cars, mileage_readings
  center, mechanic, service, photo, review,
  trip,                              \* trips with their points
  tariff, policy,
  req,                               \* per client: the request in flight
  arrived,                           \* requests so far
  crossed,                           \* rows that two requests had in hand at once
  scene                              \* the kinds of request of this behaviour

vehicles == <<car, reading>>
workshop == <<center, mechanic, service, photo, review>>
journeys == <<trip>>
insurance == <<tariff, policy>>
tables == <<vehicles, workshop, journeys, insurance>>
vars == <<tables, req, arrived, crossed, scene>>

CarRow == [owner : Customers, plate : Plates, plate_type : PlateTypes,
           vin : Vins \cup {Null}, mileage : Km]

MileageReading == [car : Cars, value : Km, source : {"user", "service"},
                   by : Ids \cup {0}]

CenterRow == [owner : Staff, edited : Ids \cup {0}]

MechanicRow == [center : Centers, login : Logins, deleted : BOOLEAN,
                edited : Ids \cup {0}]

Service == [id : Ids \cup {0}, car : Cars, center : Centers,
            mechanic : Mechanics \cup {Null}, mileage_at_intake : Km]

ConditionImage == [id : Ids, service : Ids \cup {0}, by : Staff]

Review == [id : Ids, user : Customers, center : Centers]

TripPoint == Ids \X (1 .. MaxBatch)

\* distance_km, duration and speed of a finished trip are those of the points
\* counted: none while the distance is the column's default, 0.
Trip == [user : Customers, car : Cars \cup {Null}, finished : BOOLEAN,
         points : SUBSET TripPoint, counted : SUBSET TripPoint]

InsurancePolicy == [id : Ids, user : Customers, car : Cars,
                    tariff : {"default"}, payment_status : {"pending", "paid"}]

ASSUME RowAssumption ==
  /\ \A x \in {Null, Deleted} : /\ x \notin CarRow /\ x \notin CenterRow
                                /\ x \notin MechanicRow /\ x \notin Trip
  /\ Null \notin Km

\* The ids that name a row of the table.
Rows(table) == {k \in DOMAIN table : table[k] \notin {Null, Deleted}}

-----------------------------------------------------------------------------
Idle == [op |-> "idle"]
InFlight == {c \in Clients : req[c] # Idle}

\* A request of this kind may come.
Ready(c, op) == req[c] = Idle /\ arrived < MaxReq /\ op \in scene

\* A request of user u for the row key has read and checked what it needs;
\* args is its validated body, snap the row it keeps.
Reads(c, op, u, key, args, snap) ==
  /\ arrived' = arrived + 1
  /\ req' = [req EXCEPT ![c] = [op |-> op, id |-> arrived + 1, user |-> u,
                                key |-> key, args |-> args, snap |-> snap]]
  /\ crossed' = crossed \cup {k \in {key} : \E d \in InFlight : req[d].key = k}
  /\ UNCHANGED <<tables, scene>>

\* The request of c, of this kind, is ready to write and ends with it.
Writes(c, op) ==
  /\ req[c].op = op
  /\ req' = [req EXCEPT ![c] = Idle]
  /\ UNCHANGED <<arrived, crossed, scene>>

\* get_db, the except branch; or the server ends the transaction.
Abort(c) ==
  /\ req[c] # Idle
  /\ req' = [req EXCEPT ![c] = Idle]
  /\ UNCHANGED <<tables, arrived, crossed, scene>>

\* get_current_customer, get_current_staff, get_current_owner.
CurrentCustomer == Customers
CurrentStaff == Staff
CurrentOwner == {u \in Staff : Role[u] \in {"owner", "admin"}}
=============================================================================
