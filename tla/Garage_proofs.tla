---------------------------- MODULE Garage_proofs ----------------------------
(***************************************************************************)
(* Proofs about Garage for any number of cars, centres, mechanics, trips,  *)
(* callers, overlapping requests and kinds of request that meet.           *)
(*                                                                         *)
(* The argument.  What a request checked when it read may be gone when it  *)
(* writes, so nothing follows from its checks alone: a write relies on the *)
(* keys it meets then (foreign and unique), and on what no other request   *)
(* can take back: services, trips, points and tariffs stay, an id that was *)
(* given out is not given out again, and a mechanic does not change        *)
(* centres.  And a row that was in one request's hands only is, when that  *)
(* request writes, as it was when it read.                                 *)
(***************************************************************************)
EXTENDS Garage, TLAPS

CarOps == {"create_car", "patch_car", "record_mileage", "delete_car",
           "create_service", "buy_policy", "create_policy"}
MileageOps == {"patch_car", "record_mileage", "create_service"}
CenterOps == {"create_center", "patch_center", "delete_center", "create_review"}
MechanicOps == {"create_mechanic", "patch_mechanic", "delete_mechanic"}
TripOps == {"start_trip", "append_points", "finish_trip"}
CustomerOps == {"create_car", "create_review", "start_trip", "buy_policy",
                "create_policy"}

\* The mileage that a request would leave on the car it has read.
Wanted(f) == IF f.op = "record_mileage" THEN f.args.value ELSE f.args.mileage

\* What a request in flight keeps, and what is still true of it.
RequestOK(c) ==
  LET f == req[c] IN
  f # Idle =>
    /\ f.id \in 1 .. arrived
    /\ f.op \in CarOps => f.key \in Cars
    /\ f.op \in CenterOps => f.key \in Centers
    /\ f.op \in MechanicOps => f.key \in Mechanics
    /\ f.op \in TripOps => f.key \in Trips
    /\ f.op \in CustomerOps => f.user \in Customers
    /\ f.op = "create_car" => f.args \in CarCreateIn
    /\ f.op = "patch_car" => f.args \in CarPatchIn
    /\ f.op = "record_mileage" => f.args.value \in Km
    /\ f.op \in MileageOps =>
         /\ f.snap \in CarRow
         /\ Wanted(f) # Null => Wanted(f) >= f.snap.mileage
    /\ f.op = "create_center" => f.user \in CurrentOwner
    /\ f.op = "create_mechanic" => f.args.center \in Centers /\ f.args.login \in Logins
    /\ f.op = "create_service" =>
         /\ f.user \in Staff /\ f.args \in ServiceCreateIn
         /\ LET m == f.args.mechanic IN
            m # Null => /\ mechanic[m] # Null
                        /\ m \in Rows(mechanic) => mechanic[m].center = f.args.center
    /\ f.op = "add_photo" => f.user \in Staff /\ \E s \in service : s.id = f.key
    /\ f.op = "start_trip" => f.args.car \in Cars \cup {Null}
    /\ f.op = "append_points" => trip[f.key] \in Trip /\ f.args.batch \in 1 .. MaxBatch
    /\ f.op = "finish_trip" => /\ trip[f.key] \in Trip /\ f.snap \in Trip
                               /\ f.snap.points \subseteq trip[f.key].points
    /\ f.op = "create_policy" => tariff # {}

\* Two requests with one row in hand: the row is in crossed.
CrossingsAreKnown ==
  \A c, d \in Clients :
    c # d /\ req[c] # Idle /\ req[d] # Idle /\ req[c].key = req[d].key =>
      req[c].key \in crossed

\* What a request alone with its row read is what the row still shows.
StillCurrent(c) ==
  LET f == req[c] IN
  (f # Idle /\ f.key \notin crossed) =>
    /\ f.op \in MileageOps => car[f.key] \in CarRow /\ car[f.key].mileage = f.snap.mileage
    /\ f.op \in {"append_points", "finish_trip"} =>
         trip[f.key] \in Trip /\ ~trip[f.key].finished
    /\ f.op = "finish_trip" => trip[f.key].points = f.snap.points

OwnersOwn == \A z \in Rows(center) : center[z].owner \in CurrentOwner

Tables ==
  /\ TypeOK /\ DOMAIN req = Clients
  /\ \A c \in Clients : RequestOK(c)
  /\ OwnersOwn
  /\ \A s \in service : s.id \in 0 .. arrived

InHand ==
  /\ CrossingsAreKnown
  /\ \A c \in Clients : StillCurrent(c)

-----------------------------------------------------------------------------
(***************************************************************************)
(* The two kinds of step.                                                  *)
(***************************************************************************)
ReadStep(c) ==
  \/ CreateCarRead(c) \/ PatchCarRead(c) \/ RecordMileageRead(c) \/ DeleteCarRead(c)
  \/ CreateCenterRead(c) \/ PatchCenterRead(c) \/ DeleteCenterRead(c)
  \/ CreateMechanicRead(c) \/ PatchMechanicRead(c) \/ DeleteMechanicRead(c)
  \/ CreateService(c) \/ Intake(c) \/ AddConditionPhotoRead(c) \/ CreateReviewRead(c)
  \/ StartTripRead(c) \/ AppendPointsRead(c) \/ FinishTripRead(c)
  \/ BuyPolicyRead(c) \/ CreatePolicyRead(c)

WriteStep(c) ==
  \/ CreateCarWrite(c) \/ PatchCarWrite(c) \/ RecordMileageWrite(c) \/ DeleteCarWrite(c)
  \/ CreateCenterWrite(c) \/ PatchCenterWrite(c) \/ DeleteCenterWrite(c)
  \/ CreateMechanicWrite(c) \/ PatchMechanicWrite(c) \/ DeleteMechanicWrite(c)
  \/ CreateServiceWrite(c) \/ AddConditionPhotoWrite(c) \/ CreateReviewWrite(c)
  \/ StartTripWrite(c) \/ AppendPointsWrite(c) \/ FinishTripWrite(c)
  \/ BuyPolicyWrite(c) \/ CreatePolicyWrite(c)

\* Every step is a read, a write or the end of one request, or a stutter.
LEMMA StepCases ==
  ASSUME [Next]_vars
  PROVE  (\E c \in Clients : ReadStep(c) \/ WriteStep(c) \/ Abort(c)) \/ UNCHANGED vars
  BY DEF Next, VehiclesNext, WorkshopNext, JourneysNext, CreateCar, PatchCar,
     PostMileage, DeleteCar, CreateCenter, PatchCenter, DeleteCenter,
     CreateMechanic, PatchMechanic, DeleteMechanic, OpenService,
     AddConditionPhoto, CreateReview, StartTrip, AppendPoints, FinishTrip,
     BuyPolicy, CreatePolicy, ReadStep, WriteStep

Operations == CarOps \cup CenterOps \cup MechanicOps \cup TripOps \cup {"add_photo"}

\* A request that reads writes no table.
LEMMA ReadsOnly ==
  ASSUME NEW c \in Clients, ReadStep(c)
  PROVE  \E op \in Operations : \E u, key, args, snap :
           Ready(c, op) /\ Reads(c, op, u, key, args, snap)
<1> USE DEF Operations, CarOps, CenterOps, MechanicOps, TripOps
<1>1. CASE CreateCarRead(c) \/ PatchCarRead(c) \/ RecordMileageRead(c) \/ DeleteCarRead(c)
  BY <1>1, Zenon DEF CreateCarRead, PatchCarRead, RecordMileageRead, DeleteCarRead
<1>2. CASE CreateCenterRead(c) \/ PatchCenterRead(c) \/ DeleteCenterRead(c)
  BY <1>2, Zenon DEF CreateCenterRead, PatchCenterRead, DeleteCenterRead
<1>3. CASE CreateMechanicRead(c) \/ PatchMechanicRead(c) \/ DeleteMechanicRead(c)
  BY <1>3, Zenon DEF CreateMechanicRead, PatchMechanicRead, DeleteMechanicRead
<1>4. CASE CreateService(c) \/ Intake(c)
  BY <1>4, Zenon DEF CreateService, Intake, ReadForService
<1>5. CASE AddConditionPhotoRead(c) \/ CreateReviewRead(c)
  BY <1>5, Zenon DEF AddConditionPhotoRead, CreateReviewRead
<1>6. CASE StartTripRead(c) \/ AppendPointsRead(c) \/ FinishTripRead(c)
  BY <1>6, Zenon DEF StartTripRead, AppendPointsRead, FinishTripRead
<1>7. CASE BuyPolicyRead(c) \/ CreatePolicyRead(c)
  BY <1>7, Zenon DEF BuyPolicyRead, CreatePolicyRead
<1>8. QED
  BY <1>1, <1>2, <1>3, <1>4, <1>5, <1>6, <1>7 DEF ReadStep

\* A request that writes ends.
LEMMA WritesEnd ==
  ASSUME NEW c \in Clients, WriteStep(c) \/ Abort(c)
  PROVE  /\ req' = [req EXCEPT ![c] = Idle]
         /\ UNCHANGED <<arrived, crossed, scene>>
<1> USE DEF Writes
<1>1. CASE CreateCarWrite(c) \/ PatchCarWrite(c) \/ RecordMileageWrite(c) \/ DeleteCarWrite(c)
  BY <1>1 DEF CreateCarWrite, PatchCarWrite, RecordMileageWrite, DeleteCarWrite
<1>2. CASE CreateCenterWrite(c) \/ PatchCenterWrite(c) \/ DeleteCenterWrite(c)
  BY <1>2 DEF CreateCenterWrite, PatchCenterWrite, DeleteCenterWrite
<1>3. CASE CreateMechanicWrite(c) \/ PatchMechanicWrite(c) \/ DeleteMechanicWrite(c)
  BY <1>3 DEF CreateMechanicWrite, PatchMechanicWrite, DeleteMechanicWrite
<1>4. CASE CreateServiceWrite(c)
  BY <1>4 DEF CreateServiceWrite
<1>5. CASE AddConditionPhotoWrite(c) \/ CreateReviewWrite(c)
  BY <1>5 DEF AddConditionPhotoWrite, CreateReviewWrite
<1>6. CASE StartTripWrite(c) \/ AppendPointsWrite(c) \/ FinishTripWrite(c)
  BY <1>6 DEF StartTripWrite, AppendPointsWrite, FinishTripWrite
<1>7. CASE BuyPolicyWrite(c) \/ CreatePolicyWrite(c)
  BY <1>7 DEF BuyPolicyWrite, CreatePolicyWrite
<1>8. CASE Abort(c)
  BY <1>8 DEF Abort
<1>9. QED
  BY <1>1, <1>2, <1>3, <1>4, <1>5, <1>6, <1>7, <1>8 DEF WriteStep

\* A request that writes had read: it was in flight.
LEMMA WriterHolds ==
  ASSUME NEW c \in Clients, WriteStep(c)
  PROVE  req[c] # Idle
<1> DEFINE WritesOne == \E op \in Operations : Writes(c, op)
<1> USE DEF Operations, CarOps, CenterOps, MechanicOps, TripOps
<1>1. CASE CreateCarWrite(c) \/ PatchCarWrite(c) \/ RecordMileageWrite(c) \/ DeleteCarWrite(c)
  <2>1. WritesOne
    BY <1>1, Zenon DEF CreateCarWrite, PatchCarWrite, RecordMileageWrite, DeleteCarWrite
  <2> QED  BY <2>1 DEF Writes, Idle
<1>2. CASE CreateCenterWrite(c) \/ PatchCenterWrite(c) \/ DeleteCenterWrite(c)
  <2>1. WritesOne
    BY <1>2, Zenon DEF CreateCenterWrite, PatchCenterWrite, DeleteCenterWrite
  <2> QED  BY <2>1 DEF Writes, Idle
<1>3. CASE CreateMechanicWrite(c) \/ PatchMechanicWrite(c) \/ DeleteMechanicWrite(c)
  <2>1. WritesOne
    BY <1>3, Zenon DEF CreateMechanicWrite, PatchMechanicWrite, DeleteMechanicWrite
  <2> QED  BY <2>1 DEF Writes, Idle
<1>4. CASE CreateServiceWrite(c) \/ AddConditionPhotoWrite(c) \/ CreateReviewWrite(c)
  <2>1. WritesOne
    BY <1>4, Zenon DEF CreateServiceWrite, AddConditionPhotoWrite, CreateReviewWrite
  <2> QED  BY <2>1 DEF Writes, Idle
<1>5. CASE StartTripWrite(c) \/ AppendPointsWrite(c) \/ FinishTripWrite(c)
  <2>1. WritesOne
    BY <1>5, Zenon DEF StartTripWrite, AppendPointsWrite, FinishTripWrite
  <2> QED  BY <2>1 DEF Writes, Idle
<1>6. CASE BuyPolicyWrite(c) \/ CreatePolicyWrite(c)
  <2>1. WritesOne
    BY <1>6, Zenon DEF BuyPolicyWrite, CreatePolicyWrite
  <2> QED  BY <2>1 DEF Writes, Idle
<1> QED
  BY <1>1, <1>2, <1>3, <1>4, <1>5, <1>6 DEF WriteStep

-----------------------------------------------------------------------------
(***************************************************************************)
(* Requests.                                                               *)
(***************************************************************************)
\* What a request keeps as it arrives.
LEMMA ArrivalOK ==
  ASSUME Tables, NEW c \in Clients, ReadStep(c)
  PROVE  RequestOK(c)'
<1> USE GarageAssumption DEF Tables, TypeOK, Ids
<1>a. arrived' = arrived + 1 /\ arrived \in Nat
  BY ReadsOnly DEF Reads
<1> USE DEF Reads, Ready, RequestOK, tables, vehicles, workshop, journeys, insurance,
            CarOps, MileageOps, CenterOps, MechanicOps, TripOps, CustomerOps, Wanted
<1>1. CASE CreateCarRead(c)
  BY <1>a, <1>1, BodiesAssumption DEF CreateCarRead, CurrentCustomer
<1>2. CASE PatchCarRead(c)
  BY <1>a, <1>2, BodiesAssumption DEF PatchCarRead, CurrentCustomer, Owned, Rows
<1>3. CASE RecordMileageRead(c)
  BY <1>a, <1>3 DEF RecordMileageRead, CurrentCustomer, Owned, Rows, MileageReadingIn, Km, CarRow
<1>4. CASE DeleteCarRead(c)
  BY <1>a, <1>4 DEF DeleteCarRead
<1>5. CASE CreateCenterRead(c)
  BY <1>a, <1>5 DEF CreateCenterRead
<1>6. CASE PatchCenterRead(c)
  BY <1>a, <1>6 DEF PatchCenterRead
<1>7. CASE DeleteCenterRead(c)
  BY <1>a, <1>7 DEF DeleteCenterRead
<1>8. CASE CreateMechanicRead(c)
  BY <1>a, <1>8 DEF CreateMechanicRead
<1>9. CASE PatchMechanicRead(c)
  BY <1>a, <1>9 DEF PatchMechanicRead
<1>10. CASE DeleteMechanicRead(c)
  BY <1>a, <1>10 DEF DeleteMechanicRead
<1>11. CASE CreateService(c) \/ Intake(c)
  <2>1. PICK u \in Staff, k \in Rows(car), args \in ServiceCreateIn :
          ReadForService(c, u, k, args)
    BY <1>11 DEF CreateService, Intake, CurrentStaff, ReadForService, LookupVehicle, ByVin
  <2>2. k \in Cars /\ car[k] \in CarRow
    BY DEF Rows
  <2>3. args.mechanic # Null => /\ args.mechanic \in Rows(mechanic)
                                /\ mechanic[args.mechanic].center = args.center
    BY <2>1 DEF ReadForService, ValidateMechanicForCenter, Active
  <2>4. QED
    BY <1>a, <2>1, <2>2, <2>3 DEF ReadForService, Rows, ServiceCreateIn
<1>12. CASE AddConditionPhotoRead(c)
  BY <1>a, <1>12 DEF AddConditionPhotoRead, CurrentStaff
<1>13. CASE CreateReviewRead(c)
  BY <1>a, <1>13 DEF CreateReviewRead, CurrentCustomer
<1>14. CASE StartTripRead(c)
  BY <1>a, <1>14 DEF StartTripRead, CurrentCustomer, TripStartIn
<1>15. CASE AppendPointsRead(c)
  BY <1>a, <1>15 DEF AppendPointsRead, OwnedTrip, Rows, TripPointsBatchIn
<1>16. CASE FinishTripRead(c)
  BY <1>a, <1>16 DEF FinishTripRead, OwnedTrip, Rows
<1>17. CASE BuyPolicyRead(c)
  BY <1>a, <1>17 DEF BuyPolicyRead, CurrentCustomer, Rows
<1>18. CASE CreatePolicyRead(c)
  BY <1>a, <1>18 DEF CreatePolicyRead, CurrentCustomer, MayQuote
<1>19. QED
  BY <1>1, <1>2, <1>3, <1>4, <1>5, <1>6, <1>7, <1>8, <1>9, <1>10, <1>11, <1>12,
     <1>13, <1>14, <1>15, <1>16, <1>17, <1>18 DEF ReadStep

-----------------------------------------------------------------------------
(***************************************************************************)
(* Writes: every table keeps its kind, and what a request relies on stays. *)
(***************************************************************************)
Stays ==
  /\ service \subseteq service' /\ tariff \subseteq tariff'
  /\ \A t \in Trips : trip[t] \in Trip =>
       trip'[t] \in Trip /\ trip[t].points \subseteq trip'[t].points
  /\ \A m \in Mechanics : mechanic[m] # Null =>
       /\ mechanic'[m] # Null
       /\ mechanic'[m] \in MechanicRow =>
            mechanic[m] \in MechanicRow /\ mechanic'[m].center = mechanic[m].center

\* The ids in use are those that show a row of the table's kind.
LEMMA RowsAre ==
  ASSUME TypeOK
  PROVE  /\ \A k \in Cars : k \in Rows(car) <=> car[k] \in CarRow
         /\ \A z \in Centers : z \in Rows(center) <=> center[z] \in CenterRow
         /\ \A m \in Mechanics : m \in Rows(mechanic) <=> mechanic[m] \in MechanicRow
         /\ \A t \in Trips : t \in Rows(trip) <=> trip[t] \in Trip
         /\ Rows(car) \subseteq Cars /\ Rows(center) \subseteq Centers
         /\ Rows(mechanic) \subseteq Mechanics /\ Rows(trip) \subseteq Trips
  BY RowAssumption DEF TypeOK, Rows

\* The row an UPDATE leaves of a car.
LEMMA UpdatedCar ==
  ASSUME NEW old \in CarRow, NEW args \in CarPatchIn
  PROVE  /\ UpdateFields(old, args) \in CarRow
         /\ UpdateFields(old, args).owner = old.owner
         /\ UpdateFields(old, args).mileage
              = IF args.mileage = Null THEN old.mileage ELSE args.mileage
  BY DEF UpdateFields, CarRow, CarPatchIn, NormalizePlate, RawPlates

LEMMA NewCarType ==
  ASSUME NEW u \in Customers, NEW args \in CarCreateIn
  PROVE  NewCar(u, args) \in CarRow /\ NewCar(u, args).mileage = args.mileage
  BY GarageAssumption
  DEF NewCar, NormPlateWithType, CarRow, CarCreateIn, NormalizePlate, RawPlates,
      DetectPlateType

\* What a request that writes is known to be.
LEMMA WriterIs ==
  ASSUME Tables, NEW c \in Clients, WriteStep(c)
  PROVE  /\ req[c] # Idle /\ RequestOK(c) /\ arrived' = arrived /\ arrived \in Nat
         /\ req[c].id \in Ids
<1>1. req[c] # Idle /\ arrived' = arrived
  BY WriterHolds, WritesEnd
<1>2. RequestOK(c) /\ arrived \in 0 .. MaxReq
  BY DEF Tables, TypeOK
<1>3. req[c].id \in 1 .. arrived
  BY <1>1, <1>2 DEF RequestOK
<1> QED  BY <1>1, <1>2, <1>3, GarageAssumption DEF Ids

LEMMA VehicleWrites ==
  ASSUME Tables, NEW c \in Clients,
         CreateCarWrite(c) \/ PatchCarWrite(c) \/ RecordMileageWrite(c) \/ DeleteCarWrite(c)
  PROVE  TypeOK' /\ Stays
<1>1. /\ req[c] # Idle /\ RequestOK(c) /\ arrived' = arrived /\ arrived \in Nat
      /\ req[c].key \in Cars /\ req[c].id \in Ids
  <2>1. /\ req[c] # Idle /\ RequestOK(c) /\ arrived' = arrived /\ arrived \in Nat
        /\ req[c].id \in Ids
    BY WriterIs DEF WriteStep
  <2>2. req[c].op \in CarOps
    BY DEF CreateCarWrite, PatchCarWrite, RecordMileageWrite, DeleteCarWrite, Writes,
       CarOps
  <2> QED  BY <2>1, <2>2 DEF RequestOK
<1> USE RowAssumption, GarageAssumption
    DEF Tables, TypeOK, RequestOK, Writes, Ids, CarOps, MileageOps, Wanted,
        workshop, journeys, insurance
<1>2. CASE CreateCarWrite(c)
  <2>1. NewCar(req[c].user, req[c].args) \in CarRow
    BY <1>1, <1>2, NewCarType DEF CreateCarWrite, CustomerOps
  <2>2. /\ car' = [car EXCEPT ![req[c].key] = NewCar(req[c].user, req[c].args)]
        /\ reading' \subseteq reading \cup
             {[car |-> req[c].key, value |-> NewCar(req[c].user, req[c].args).mileage,
               source |-> "user", by |-> req[c].id]}
    BY <1>2 DEF CreateCarWrite, Append
  <2>3. reading' \subseteq MileageReading
    BY <1>1, <2>1, <2>2 DEF MileageReading, CarRow
  <2> QED  BY <1>1, <1>2, <2>1, <2>2, <2>3 DEF CreateCarWrite, Stays
<1>3. CASE PatchCarWrite(c)
  BY <1>1, <1>3, UpdatedCar, RowsAre DEF PatchCarWrite, Stays
<1>4. CASE RecordMileageWrite(c)
  <2>1. req[c].args.value \in Km /\ car[req[c].key] \in CarRow
    BY <1>1, <1>4, RowsAre DEF RecordMileageWrite
  <2>2. reading' \subseteq MileageReading
    BY <1>1, <1>4, <2>1 DEF RecordMileageWrite, Append, MileageReading
  <2>3. car' \in [Cars -> CarRow \cup {Null, Deleted}]
    BY <1>1, <1>4, <2>1 DEF RecordMileageWrite, CarRow
  <2> QED  BY <1>1, <1>4, <2>2, <2>3 DEF RecordMileageWrite, Stays
<1>5. CASE DeleteCarWrite(c)
  <2>1. \A t \in Trips : trip[t] \in Trip =>
          /\ trip'[t] \in Trip /\ trip'[t].points = trip[t].points
    BY <1>5 DEF DeleteCarWrite, Rows, Trip
  <2>2. trip' \in [Trips -> Trip \cup {Null}]
    BY <1>5, <2>1 DEF DeleteCarWrite, Rows
  <2>3. reading' \subseteq MileageReading
    BY <1>5 DEF DeleteCarWrite
  <2> QED  BY <1>1, <1>5, <2>1, <2>2, <2>3 DEF DeleteCarWrite, Stays
<1> QED  BY <1>2, <1>3, <1>4, <1>5

LEMMA WorkshopWrites ==
  ASSUME Tables, NEW c \in Clients,
         \/ CreateCenterWrite(c) \/ PatchCenterWrite(c) \/ DeleteCenterWrite(c)
         \/ CreateMechanicWrite(c) \/ PatchMechanicWrite(c) \/ DeleteMechanicWrite(c)
         \/ CreateServiceWrite(c) \/ AddConditionPhotoWrite(c) \/ CreateReviewWrite(c)
  PROVE  TypeOK' /\ Stays
<1>1. /\ req[c] # Idle /\ RequestOK(c) /\ arrived' = arrived /\ arrived \in Nat
      /\ req[c].id \in Ids
  BY WriterIs DEF WriteStep
<1> USE RowAssumption, GarageAssumption
    DEF Tables, TypeOK, RequestOK, Writes, Ids, CenterOps, MechanicOps,
        vehicles, journeys, insurance
<1>2. CASE CreateCenterWrite(c)
  BY <1>1, <1>2 DEF CreateCenterWrite, CurrentOwner, CenterRow, Stays
<1>3. CASE PatchCenterWrite(c)
  BY <1>1, <1>3, RowsAre DEF PatchCenterWrite, CenterRow, Stays
<1>4. CASE DeleteCenterWrite(c)
  BY <1>1, <1>4 DEF DeleteCenterWrite, Stays
<1>5. CASE CreateMechanicWrite(c)
  BY <1>1, <1>5 DEF CreateMechanicWrite, MechanicRow, Stays
<1>6. CASE PatchMechanicWrite(c)
  BY <1>1, <1>6, RowsAre DEF PatchMechanicWrite, MechanicRow, Stays
<1>7. CASE DeleteMechanicWrite(c)
  <2>1. CASE req[c].key \in Rows(mechanic)
    <3>1. mechanic[req[c].key] \in MechanicRow /\ req[c].key \in Mechanics
      BY <2>1, RowsAre
    <3>2. mechanic' = [mechanic EXCEPT ![req[c].key].deleted = TRUE]
      BY <1>7, <2>1 DEF DeleteMechanicWrite
    <3>3. /\ [mechanic[req[c].key] EXCEPT !.deleted = TRUE] \in MechanicRow
          /\ [mechanic[req[c].key] EXCEPT !.deleted = TRUE].center
               = mechanic[req[c].key].center
      BY <3>1 DEF MechanicRow
    <3>4. mechanic' \in [Mechanics -> MechanicRow \cup {Null, Deleted}]
      BY <3>1, <3>2, <3>3
    <3>5. UNCHANGED <<car, reading, center, service, photo, review, trip, tariff, policy>>
      BY <1>7 DEF DeleteMechanicWrite
    <3>6. \A m \in Mechanics \ {req[c].key} : mechanic'[m] = mechanic[m]
      BY <3>1, <3>2
    <3>7. mechanic'[req[c].key] = [mechanic[req[c].key] EXCEPT !.deleted = TRUE]
      BY <3>1, <3>2
    <3>8. Stays
      BY <3>1, <3>3, <3>5, <3>6, <3>7 DEF Stays
    <3> QED  BY <1>1, <3>4, <3>5, <3>8
  <2>2. CASE req[c].key \notin Rows(mechanic)
    BY <1>1, <1>7, <2>2 DEF DeleteMechanicWrite, Stays
  <2> QED  BY <2>1, <2>2
<1>8. CASE CreateServiceWrite(c)
  <2>1. /\ req[c].op = "create_service" /\ req[c].args \in ServiceCreateIn
        /\ req[c].key \in Cars /\ car[req[c].key] \in CarRow
    BY <1>1, <1>8, RowsAre DEF CreateServiceWrite, CarOps
  <2>2. service' \subseteq Service
    BY <1>1, <1>8, <2>1 DEF CreateServiceWrite, Service, ServiceCreateIn
  <2>3. car' \in [Cars -> CarRow \cup {Null, Deleted}]
    BY <1>1, <1>8, <2>1 DEF CreateServiceWrite, CarRow, ServiceCreateIn
  <2>4. reading' \subseteq MileageReading
    BY <1>1, <1>8, <2>1 DEF CreateServiceWrite, Append, MileageReading, ServiceCreateIn
  <2> QED  BY <1>1, <1>8, <2>2, <2>3, <2>4 DEF CreateServiceWrite, Stays
<1>9. CASE AddConditionPhotoWrite(c)
  BY <1>1, <1>9 DEF AddConditionPhotoWrite, ConditionImage, Service, Stays
<1>10. CASE CreateReviewWrite(c)
  BY <1>1, <1>10 DEF CreateReviewWrite, Review, CustomerOps, Stays
<1> QED
  BY <1>2, <1>3, <1>4, <1>5, <1>6, <1>7, <1>8, <1>9, <1>10

LEMMA JourneyWrites ==
  ASSUME Tables, NEW c \in Clients,
         \/ StartTripWrite(c) \/ AppendPointsWrite(c) \/ FinishTripWrite(c)
         \/ BuyPolicyWrite(c) \/ CreatePolicyWrite(c)
  PROVE  TypeOK' /\ Stays
<1>1. /\ req[c] # Idle /\ RequestOK(c) /\ arrived' = arrived /\ arrived \in Nat
      /\ req[c].id \in Ids
  BY WriterIs DEF WriteStep
<1> USE RowAssumption, GarageAssumption
    DEF Tables, TypeOK, RequestOK, Writes, Ids, TripOps, vehicles, workshop, journeys, insurance
<1>2. CASE StartTripWrite(c)
  BY <1>1, <1>2 DEF StartTripWrite, CustomerOps, Trip, Stays
<1>3. CASE AppendPointsWrite(c)
  <2>1. /\ req[c].key \in Trips /\ trip[req[c].key] \in Trip
        /\ {req[c].id} \X (1 .. req[c].args.batch) \subseteq TripPoint
    BY <1>1, <1>3 DEF AppendPointsWrite, TripPoint
  <2> QED  BY <1>1, <1>3, <2>1 DEF AppendPointsWrite, Trip, Stays
<1>4. CASE FinishTripWrite(c)
  <2> DEFINE t == req[c].key
             d == Distance(req[c].snap.points)
  <2>1. t \in Trips /\ trip[t] \in Trip /\ req[c].snap \in Trip
    BY <1>1, <1>4 DEF FinishTripWrite
  <2>2. d \in SUBSET TripPoint
    BY <2>1 DEF Distance, Trip
  <2>3. trip' = [trip EXCEPT ![t] = [trip[t] EXCEPT !.finished = TRUE,
                                       !.counted = IF d # {} THEN d ELSE trip[t].counted]]
    BY <1>4, <2>1 DEF FinishTripWrite
  <2> DEFINE row == [trip[t] EXCEPT !.finished = TRUE,
                                    !.counted = IF d # {} THEN d ELSE trip[t].counted]
  <2> HIDE DEF d, t
  <2>4. row \in Trip /\ row.points = trip[t].points
    BY <2>1, <2>2 DEF Trip
  <2> HIDE DEF row
  <2>5. trip' = [trip EXCEPT ![t] = row]
    BY <2>3 DEF row
  <2>6. trip' \in [Trips -> Trip \cup {Null}]
    BY <2>1, <2>4, <2>5
  <2>7. UNCHANGED <<car, reading, center, mechanic, service, photo, review, tariff, policy>>
    BY <1>4 DEF FinishTripWrite
  <2>8. Stays
    BY <2>1, <2>4, <2>5, <2>7 DEF Stays
  <2> QED  BY <1>1, <2>6, <2>7, <2>8
<1>5. CASE BuyPolicyWrite(c) \/ CreatePolicyWrite(c)
  <2>1. req[c].key \in Cars /\ req[c].user \in Customers
    BY <1>1, <1>5 DEF BuyPolicyWrite, CreatePolicyWrite, CarOps, CustomerOps
  <2>2. \A paid \in {"pending", "paid"} : NewPolicy(req[c], paid) \in InsurancePolicy
    BY <1>1, <2>1 DEF NewPolicy, InsurancePolicy
  <2>3. policy' \subseteq InsurancePolicy
    BY <1>5, <2>2 DEF BuyPolicyWrite, CreatePolicyWrite
  <2> QED  BY <1>1, <1>5, <2>3 DEF BuyPolicyWrite, CreatePolicyWrite, Stays
<1> QED  BY <1>2, <1>3, <1>4, <1>5

LEMMA WriteStays ==
  ASSUME Tables, NEW c \in Clients, WriteStep(c)
  PROVE  TypeOK' /\ Stays
  BY VehicleWrites, WorkshopWrites, JourneyWrites DEF WriteStep

-----------------------------------------------------------------------------
(***************************************************************************)
(* The tables and the requests, through every step.                        *)
(***************************************************************************)
\* What stays is all that a request relies on while others write.
LEMMA OthersKeep ==
  ASSUME Tables, TypeOK', Stays, NEW d \in Clients, req'[d] = req[d],
         arrived' \in Nat, arrived' >= arrived
  PROVE  RequestOK(d)'
<1>1. SUFFICES ASSUME req[d] # Idle  PROVE RequestOK(d)'
  BY DEF RequestOK
<1>2. RequestOK(d) /\ TypeOK
  BY DEF Tables
<1> DEFINE f == req[d]
<1>3. f.id \in 1 .. arrived'
  BY <1>1, <1>2, GarageAssumption DEF RequestOK, TypeOK
<1>4. f.op = "create_service" =>
        LET m == f.args.mechanic IN
        m # Null => /\ mechanic'[m] # Null
                    /\ m \in Rows(mechanic)' => mechanic'[m].center = f.args.center
  <2>1. SUFFICES ASSUME f.op = "create_service", f.args.mechanic # Null
                 PROVE  /\ mechanic'[f.args.mechanic] # Null
                        /\ f.args.mechanic \in Rows(mechanic)' =>
                             mechanic'[f.args.mechanic].center = f.args.center
    OBVIOUS
  <2>2. /\ f.args.mechanic \in Mechanics
        /\ mechanic[f.args.mechanic] # Null
        /\ f.args.mechanic \in Rows(mechanic) =>
             mechanic[f.args.mechanic].center = f.args.center
    BY <1>1, <1>2, <2>1 DEF RequestOK, ServiceCreateIn
  <2>3. f.args.mechanic \in Rows(mechanic)' => mechanic'[f.args.mechanic] \in MechanicRow
    BY <2>2 DEF Rows, TypeOK
  <2>4. mechanic[f.args.mechanic] \in MechanicRow => f.args.mechanic \in Rows(mechanic)
    BY <1>2, <2>2, RowsAre
  <2> QED  BY <2>2, <2>3, <2>4 DEF Stays
<1>5. f.op = "add_photo" => \E s \in service' : s.id = f.key
  BY <1>1, <1>2 DEF RequestOK, Stays
<1>6. f.op \in {"append_points", "finish_trip"} => trip'[f.key] \in Trip
  BY <1>1, <1>2 DEF RequestOK, Stays, TripOps
<1>7. f.op = "finish_trip" => f.snap.points \subseteq trip'[f.key].points
  BY <1>1, <1>2 DEF RequestOK, Stays, TripOps
<1>8. f.op = "create_policy" => tariff' # {}
  BY <1>1, <1>2 DEF RequestOK, Stays
<1>9. QED
  BY <1>1, <1>2, <1>3, <1>4, <1>5, <1>6, <1>7, <1>8, Zenon DEF RequestOK, Wanted

LEMMA NothingLost ==
  ASSUME UNCHANGED tables, TypeOK
  PROVE  Stays
  BY DEF Stays, tables, vehicles, workshop, journeys, insurance

\* The owners of centres, and the ids of services.
LEMMA OwnersStay ==
  ASSUME Tables, NEW c \in Clients, WriteStep(c)
  PROVE  OwnersOwn' /\ (\A s \in service' : s.id \in 0 .. arrived')
<1>1. /\ TypeOK /\ OwnersOwn /\ \A s \in service : s.id \in 0 .. arrived
      /\ RequestOK(c) /\ arrived' = arrived /\ TypeOK'
  BY WritesEnd, WriteStays DEF Tables
<1>2. CASE CreateCenterWrite(c)
  <2>1. req[c].key \in Centers /\ req[c].user \in CurrentOwner
    BY <1>1, <1>2 DEF CreateCenterWrite, Writes, RequestOK, CenterOps, Idle
  <2> QED  BY <1>1, <1>2, <2>1 DEF CreateCenterWrite, OwnersOwn, Rows, TypeOK
<1>3. CASE PatchCenterWrite(c)
  <2>1. req[c].key \in Centers /\ center[req[c].key] \in CenterRow
    BY <1>1, <1>3, RowsAre DEF PatchCenterWrite
  <2>2. [center[req[c].key] EXCEPT !.edited = req[c].id].owner = center[req[c].key].owner
    BY <2>1 DEF CenterRow
  <2>3. center' = [center EXCEPT ![req[c].key] =
                     [center[req[c].key] EXCEPT !.edited = req[c].id]]
    BY <1>3 DEF PatchCenterWrite
  <2>4. \A z \in Rows(center') : z \in Rows(center) /\ center'[z].owner = center[z].owner
    BY <1>1, <1>3, <2>1, <2>2, <2>3 DEF PatchCenterWrite, Rows, TypeOK
  <2>5. OwnersOwn'
    BY <1>1, <2>4 DEF OwnersOwn, CurrentOwner
  <2>6. service' = service
    BY <1>3 DEF PatchCenterWrite
  <2> QED  BY <1>1, <2>5, <2>6
<1>4. CASE DeleteCenterWrite(c)
  BY <1>1, <1>4 DEF DeleteCenterWrite, OwnersOwn, Rows, TypeOK
<1>5. CASE CreateServiceWrite(c)
  <2>1. req[c].id \in 1 .. arrived /\ arrived \in Nat
    BY <1>1, <1>5, GarageAssumption
    DEF CreateServiceWrite, Writes, RequestOK, Idle, TypeOK
  <2> QED  BY <1>1, <1>5, <2>1 DEF CreateServiceWrite, OwnersOwn, Rows
<1>6. CASE \/ CreateCarWrite(c) \/ PatchCarWrite(c) \/ RecordMileageWrite(c)
           \/ DeleteCarWrite(c)
  BY <1>1, <1>6 DEF CreateCarWrite, PatchCarWrite, RecordMileageWrite,
     DeleteCarWrite, workshop, OwnersOwn, Rows
<1>7. CASE \/ CreateMechanicWrite(c) \/ PatchMechanicWrite(c) \/ DeleteMechanicWrite(c)
           \/ AddConditionPhotoWrite(c) \/ CreateReviewWrite(c)
  BY <1>1, <1>7 DEF CreateMechanicWrite, PatchMechanicWrite,
     DeleteMechanicWrite, AddConditionPhotoWrite, CreateReviewWrite, OwnersOwn, Rows
<1>8. CASE \/ StartTripWrite(c) \/ AppendPointsWrite(c) \/ FinishTripWrite(c)
           \/ BuyPolicyWrite(c) \/ CreatePolicyWrite(c)
  BY <1>1, <1>8 DEF StartTripWrite, AppendPointsWrite, FinishTripWrite,
     BuyPolicyWrite, CreatePolicyWrite, workshop, OwnersOwn, Rows
<1>9. QED
  BY <1>2, <1>3, <1>4, <1>5, <1>6, <1>7, <1>8 DEF WriteStep

\* Every step keeps Tables.
LEMMA TablesNext ==
  ASSUME Tables, [Next]_vars
  PROVE  Tables'
<1>1. TypeOK /\ DOMAIN req = Clients /\ arrived \in Nat
  BY GarageAssumption DEF Tables, TypeOK
<1>2. CASE UNCHANGED vars
  BY <1>2 DEF vars, tables, vehicles, workshop, journeys, insurance, Tables,
     TypeOK, RequestOK, OwnersOwn, Rows, Wanted
<1>3. ASSUME NEW c \in Clients, ReadStep(c)
      PROVE  Tables'
  <2>1. /\ UNCHANGED tables /\ arrived' = arrived + 1 /\ arrived < MaxReq
        /\ \A d \in Clients \ {c} : req'[d] = req[d]
        /\ DOMAIN req' = Clients
    BY <1>1, <1>3, ReadsOnly DEF Reads, Ready
  <2>2. TypeOK'
    BY <1>1, <2>1, GarageAssumption
    DEF TypeOK, tables, vehicles, workshop, journeys, insurance
  <2>3. \A d \in Clients : RequestOK(d)'
    BY <1>1, <1>3, <2>1, <2>2, ArrivalOK, OthersKeep, NothingLost
  <2>4. OwnersOwn' /\ \A s \in service' : s.id \in 0 .. arrived'
    BY <1>1, <2>1 DEF Tables, OwnersOwn, Rows, tables, workshop
  <2> QED  BY <2>1, <2>2, <2>3, <2>4 DEF Tables
<1>4. ASSUME NEW c \in Clients, WriteStep(c)
      PROVE  Tables'
  <2>1. /\ req' = [req EXCEPT ![c] = Idle] /\ arrived' = arrived /\ TypeOK' /\ Stays
    BY <1>4, WritesEnd, WriteStays
  <2>2. \A d \in Clients \ {c} : RequestOK(d)'
    BY <1>1, <2>1, OthersKeep
  <2>3. RequestOK(c)'
    BY <1>1, <2>1 DEF RequestOK
  <2> QED  BY <1>1, <1>4, <2>1, <2>2, <2>3, OwnersStay DEF Tables
<1>5. ASSUME NEW c \in Clients, Abort(c)
      PROVE  Tables'
  <2>1. req' = [req EXCEPT ![c] = Idle] /\ UNCHANGED <<tables, arrived>>
    BY <1>5 DEF Abort
  <2>2. TypeOK' /\ OwnersOwn' /\ \A s \in service' : s.id \in 0 .. arrived'
    BY <1>1, <2>1 DEF Tables, TypeOK, OwnersOwn, Rows, tables, vehicles, workshop,
                      journeys, insurance
  <2>3. \A d \in Clients \ {c} : RequestOK(d)'
    BY <1>1, <2>1, <2>2, OthersKeep, NothingLost
  <2>4. RequestOK(c)'
    BY <1>1, <2>1 DEF RequestOK
  <2> QED  BY <1>1, <2>1, <2>2, <2>3, <2>4 DEF Tables
<1>6. QED
  BY <1>2, <1>3, <1>4, <1>5, StepCases

LEMMA InitTables ==
  ASSUME Init
  PROVE  Tables /\ InHand
<1> USE GarageAssumption, PopulatedAssumption
<1> DEFINE k == CHOOSE x \in Cars : TRUE
           u == CHOOSE x \in Customers : TRUE
           p == CHOOSE x \in Plates : TRUE
           t == CHOOSE x \in Trips : TRUE
           z == CHOOSE x \in Centers : TRUE
           free == CHOOSE x \in Centers : x # z
           o == CHOOSE x \in Staff : Role[x] = "owner"
           m == CHOOSE x \in Mechanics : TRUE
           login == CHOOSE x \in Logins : TRUE
<1>1. /\ k \in Cars /\ u \in Customers /\ p \in Plates /\ t \in Trips
      /\ z \in Centers /\ m \in Mechanics /\ login \in Logins
      /\ o \in Staff /\ Role[o] = "owner"
  OBVIOUS
<1>2. /\ car = [y \in Cars |-> IF y = k
                  THEN [owner |-> u, plate |-> p, plate_type |-> Shape[p],
                        vin |-> Null, mileage |-> 1] ELSE Null]
      /\ reading = {[car |-> k, value |-> 1, source |-> "user", by |-> 0]}
      /\ center = [x \in Centers |-> IF x = free THEN Null
                                     ELSE [owner |-> o, edited |-> 0]]
      /\ mechanic = [y \in Mechanics |-> IF y = m
                       THEN [center |-> z, login |-> login, deleted |-> FALSE,
                             edited |-> 0] ELSE Null]
      /\ trip = [y \in Trips |-> IF y = t
                   THEN [user |-> u, car |-> k, finished |-> FALSE,
                         points |-> {}, counted |-> {}] ELSE Null]
      /\ service = {} /\ photo = {} /\ review = {} /\ tariff = {} /\ policy = {}
      /\ req = [c \in Clients |-> Idle] /\ arrived = 0 /\ crossed = {}
  BY DEF Init
<1> HIDE DEF k, u, p, t, z, free, o, m, login
<1>3. car \in [Cars -> CarRow \cup {Null, Deleted}]
  BY <1>1, <1>2 DEF CarRow, Km
<1>4. reading \subseteq MileageReading
  BY <1>1, <1>2 DEF MileageReading, Km
<1>5. center \in [Centers -> CenterRow \cup {Null, Deleted}]
  BY <1>1, <1>2 DEF CenterRow
<1>6. mechanic \in [Mechanics -> MechanicRow \cup {Null, Deleted}]
  BY <1>1, <1>2 DEF MechanicRow
<1>7. trip \in [Trips -> Trip \cup {Null}]
  BY <1>1, <1>2 DEF Trip
<1>8. TypeOK
  <2>1. /\ service = {} /\ photo = {} /\ review = {} /\ tariff = {} /\ policy = {}
        /\ arrived \in 0 .. MaxReq
    BY <1>2
  <2> QED  BY <2>1, <1>3, <1>4, <1>5, <1>6, <1>7, Zenon DEF TypeOK
<1>9. OwnersOwn
  BY <1>1, <1>2 DEF OwnersOwn, Rows, CurrentOwner
<1>10. /\ DOMAIN req = Clients /\ \A c \in Clients : req[c] = Idle
       /\ \A s \in service : s.id \in 0 .. arrived
  BY <1>2
<1>11. \A c \in Clients : RequestOK(c) /\ StillCurrent(c)
  BY <1>10 DEF RequestOK, StillCurrent
<1>12. CrossingsAreKnown
  BY <1>10 DEF CrossingsAreKnown
<1> QED  BY <1>8, <1>9, <1>10, <1>11, <1>12 DEF Tables, InHand

\* The tables hold rows of their kinds and a request in flight keeps what it
\* may rely on, whatever the others write: Tables is inductive.
THEOREM TablesInvariant == Spec => []Tables
<1>1. Init => Tables
  BY InitTables
<1>2. Tables /\ [Next]_vars => Tables'
  BY TablesNext
<1> QED  BY <1>1, <1>2, PTL DEF Spec

\* Every table holds rows of its kind, also after overlapping writes.
THEOREM GarageTypeCorrect == Spec => []TypeOK
<1>1. Tables => TypeOK
  BY DEF Tables
<1> QED  BY <1>1, TablesInvariant, PTL

\* Every list that may be asked for is answered: a centre's owner is never a
\* mechanic in the eyes of the second rule.
THEOREM QueuesAreAnswered == Spec => []ListsAreAnswered
<1>1. ASSUME Tables  PROVE ListsAreAnswered
  <2>1. \A u \in CurrentStaff, z \in Centers :
          AssertOpsAccess(u, z) => ListCenterServices(u, z)
    BY <1>1 DEF Tables, OwnersOwn, CurrentStaff, CurrentOwner, AssertOpsAccess,
       ListCenterServices, ServicesOfCenter, ListItems, GetForUser,
       AssertViewAccess, AssertCanMutate, OwnsCenter, IsAdmin
  <2>2. \A u \in CurrentCustomer : ListMyServices(u)
    BY DEF CurrentCustomer, ListMyServices, ServicesOfUser, ListItems, GetForUser,
       AssertViewAccess
  <2>3. \A u \in CurrentCustomer, k \in Rows(car) :
          Owned(k, u) => ListVehicleHistory(u, k)
    BY DEF CurrentCustomer, ListVehicleHistory, ListForCar, ServicesOfCar,
       ListItems, GetForUser, AssertViewAccess
  <2> QED  BY <2>1, <2>2, <2>3 DEF ListsAreAnswered
<1> QED  BY <1>1, TablesInvariant, PTL

-----------------------------------------------------------------------------
(***************************************************************************)
(* Rows in hand.                                                           *)
(***************************************************************************)
\* A request that writes leaves the rows of other requests as they are, but
\* that a trip may forget its car.
LEMMA WritesOwnKey ==
  ASSUME Tables, NEW c \in Clients, WriteStep(c)
  PROVE  /\ \A k \in Cars \ {req[c].key} : car'[k] = car[k]
         /\ \A t \in Trips \ {req[c].key} : trip[t] \in Trip =>
              /\ trip'[t] \in Trip /\ trip'[t].points = trip[t].points
              /\ trip'[t].finished = trip[t].finished
<1>1. car \in [Cars -> CarRow \cup {Null, Deleted}] /\ trip \in [Trips -> Trip \cup {Null}]
  BY DEF Tables, TypeOK
<1>2. CASE CreateCarWrite(c) \/ PatchCarWrite(c) \/ RecordMileageWrite(c)
  BY <1>1, <1>2 DEF CreateCarWrite, PatchCarWrite, RecordMileageWrite, journeys
<1>3. CASE DeleteCarWrite(c)
  BY <1>1, <1>3 DEF DeleteCarWrite, Trip
<1>4. CASE CreateServiceWrite(c)
  BY <1>1, <1>4 DEF CreateServiceWrite, journeys, vehicles
<1>5. CASE \/ CreateCenterWrite(c) \/ PatchCenterWrite(c) \/ DeleteCenterWrite(c)
           \/ CreateMechanicWrite(c) \/ PatchMechanicWrite(c) \/ DeleteMechanicWrite(c)
           \/ AddConditionPhotoWrite(c) \/ CreateReviewWrite(c)
  BY <1>5 DEF CreateCenterWrite, PatchCenterWrite, DeleteCenterWrite,
     CreateMechanicWrite, PatchMechanicWrite, DeleteMechanicWrite,
     AddConditionPhotoWrite, CreateReviewWrite, vehicles, journeys
<1>6. CASE StartTripWrite(c) \/ AppendPointsWrite(c)
  BY <1>1, <1>6 DEF StartTripWrite, AppendPointsWrite, vehicles
<1>7. CASE FinishTripWrite(c)
  BY <1>1, <1>7 DEF FinishTripWrite, vehicles
<1>8. CASE BuyPolicyWrite(c) \/ CreatePolicyWrite(c)
  BY <1>8 DEF BuyPolicyWrite, CreatePolicyWrite, vehicles, journeys
<1> QED
  BY <1>2, <1>3, <1>4, <1>5, <1>6, <1>7, <1>8 DEF WriteStep

\* A request keeps the row as it is when it reads.
LEMMA ReadsTheRow ==
  ASSUME Tables, NEW c \in Clients, ReadStep(c)
  PROVE  LET f == req'[c] IN
         /\ f.op \in MileageOps =>
              car[f.key] \in CarRow /\ f.snap.mileage = car[f.key].mileage
         /\ f.op \in {"append_points", "finish_trip"} =>
              trip[f.key] \in Trip /\ ~trip[f.key].finished
         /\ f.op = "finish_trip" => f.snap = trip[f.key]
<1>1. c \in DOMAIN req /\ TypeOK
  BY DEF Tables
<1>2. CASE PatchCarRead(c) \/ RecordMileageRead(c)
  <2>1. \E op \in {"patch_car", "record_mileage"} : \E u, k, args :
          k \in Rows(car) /\ Reads(c, op, u, k, args, car[k])
    <3>1. CASE PatchCarRead(c)
      BY <3>1, Zenon DEF PatchCarRead, Owned
    <3>2. CASE RecordMileageRead(c)
      BY <3>2, Zenon DEF RecordMileageRead, Owned
    <3> QED  BY <1>2, <3>1, <3>2
  <2>2. PICK op, u, k, args :
          /\ op \in {"patch_car", "record_mileage"} /\ k \in Rows(car)
          /\ Reads(c, op, u, k, args, car[k])
    BY <2>1, Zenon
  <2>3. /\ req'[c].op = op /\ req'[c].key = k /\ req'[c].snap = car[k]
        /\ car[k] \in CarRow
    BY <1>1, <2>2, RowsAre DEF Reads
  <2>4. req'[c].op \notin {"append_points", "finish_trip"}
    BY <2>2, <2>3
  <2> QED  BY <2>3, <2>4
<1>3. CASE CreateService(c) \/ Intake(c)
  <2>1. PICK u \in Staff, k \in Rows(car), args \in ServiceCreateIn :
          Reads(c, "create_service", u, k, args, car[k])
    BY <1>3 DEF CreateService, Intake, CurrentStaff, ReadForService
  <2>2. /\ req'[c].op = "create_service" /\ req'[c].key = k /\ req'[c].snap = car[k]
        /\ car[k] \in CarRow
    BY <1>1, <2>1, RowsAre DEF Reads
  <2> QED  BY <2>2
<1>4. CASE AppendPointsRead(c)
  BY <1>1, <1>4, RowsAre DEF AppendPointsRead, OwnedTrip, Reads, MileageOps
<1>5. CASE FinishTripRead(c)
  BY <1>1, <1>5, RowsAre DEF FinishTripRead, OwnedTrip, Reads, MileageOps
<1>6. CASE CreateCarRead(c) \/ DeleteCarRead(c) \/ StartTripRead(c)
  BY <1>1, <1>6 DEF CreateCarRead, DeleteCarRead, StartTripRead, Reads, MileageOps
<1>7. CASE \/ CreateCenterRead(c) \/ PatchCenterRead(c) \/ DeleteCenterRead(c)
           \/ CreateMechanicRead(c) \/ PatchMechanicRead(c) \/ DeleteMechanicRead(c)
  BY <1>1, <1>7 DEF CreateCenterRead, PatchCenterRead, DeleteCenterRead,
     CreateMechanicRead, PatchMechanicRead, DeleteMechanicRead, Reads, MileageOps
<1>8. CASE \/ AddConditionPhotoRead(c) \/ CreateReviewRead(c)
           \/ BuyPolicyRead(c) \/ CreatePolicyRead(c)
  BY <1>1, <1>8 DEF AddConditionPhotoRead, CreateReviewRead, BuyPolicyRead,
     CreatePolicyRead, Reads, MileageOps
<1> QED
  BY <1>2, <1>3, <1>4, <1>5, <1>6, <1>7, <1>8 DEF ReadStep

\* Whoever writes a row that another request has in hand has crossed it.
LEMMA InHandNext ==
  ASSUME Tables, InHand, [Next]_vars
  PROVE  InHand'
<1>1. TypeOK /\ DOMAIN req = Clients /\ \A c \in Clients : RequestOK(c)
  BY DEF Tables
<1>2. CASE UNCHANGED vars
  BY <1>2 DEF vars, tables, vehicles, workshop, journeys, insurance, InHand,
     CrossingsAreKnown, StillCurrent
<1>3. ASSUME NEW c \in Clients, ReadStep(c)
      PROVE  InHand'
  <2>1. PICK op, u, key, args, snap :
          op \in Operations /\ Ready(c, op) /\ Reads(c, op, u, key, args, snap)
    BY <1>3, ReadsOnly
  <2>2. /\ \A d \in Clients \ {c} : req'[d] = req[d]
        /\ req'[c].key = key /\ req[c] = Idle
        /\ UNCHANGED <<car, trip>> /\ crossed \subseteq crossed'
        /\ \A d \in Clients : req[d] # Idle /\ req[d].key = key => key \in crossed'
    BY <1>1, <2>1 DEF Reads, Ready, InFlight, tables, vehicles, journeys
  <2>3. CrossingsAreKnown'
    <3>1. SUFFICES ASSUME NEW d \in Clients, NEW e \in Clients, d # e,
                          req'[d] # Idle, req'[e] # Idle, req'[d].key = req'[e].key
                   PROVE  req'[d].key \in crossed'
      BY DEF CrossingsAreKnown
    <3> QED  BY <2>2, <3>1 DEF InHand, CrossingsAreKnown
  <2>4. ASSUME NEW d \in Clients \ {c}  PROVE StillCurrent(d)'
    BY <2>2 DEF InHand, StillCurrent
  <2>5. StillCurrent(c)'
    BY <1>3, <2>2, ReadsTheRow DEF StillCurrent
  <2> QED  BY <2>3, <2>4, <2>5 DEF InHand
<1>4. ASSUME NEW c \in Clients, WriteStep(c) \/ Abort(c)
      PROVE  InHand'
  <2>1. req' = [req EXCEPT ![c] = Idle] /\ crossed' = crossed
    BY <1>4, WritesEnd
  <2>2. CrossingsAreKnown'
    BY <1>1, <2>1 DEF InHand, CrossingsAreKnown
  <2>3. StillCurrent(c)'
    BY <1>1, <2>1 DEF StillCurrent
  <2>4. ASSUME NEW d \in Clients \ {c}  PROVE StillCurrent(d)'
    <3>1. SUFFICES ASSUME req[d] # Idle, req[d].key \notin crossed
                   PROVE  StillCurrent(d)'
      BY <1>1, <2>1 DEF StillCurrent
    <3>2. req'[d] = req[d] /\ StillCurrent(d)
      BY <1>1, <2>1 DEF InHand
    <3>3. CASE Abort(c)
      BY <2>1, <3>2, <3>3 DEF Abort, tables, vehicles, journeys, StillCurrent
    <3>4. CASE WriteStep(c)
      <4>1. req[c] # Idle
        BY <3>4, WriterHolds
      <4>2. req[d].key # req[c].key
        BY <3>1, <4>1 DEF InHand, CrossingsAreKnown
      <4>3. /\ req[d].op \in MileageOps => req[d].key \in Cars
            /\ req[d].op \in {"append_points", "finish_trip"} => req[d].key \in Trips
        BY <1>1, <3>1 DEF RequestOK, MileageOps, CarOps, TripOps
      <4> QED
        BY <1>1, <2>1, <3>1, <3>2, <3>4, <4>2, <4>3, WritesOwnKey DEF StillCurrent
    <3> QED  BY <1>4, <3>3, <3>4
  <2> QED  BY <2>2, <2>3, <2>4 DEF InHand
<1> QED  BY <1>2, <1>3, <1>4, StepCases

\* Crossed rows are known, and a row in the hands of one request only stays
\* as it was read.
THEOREM InHandInvariant == Spec => [](Tables /\ InHand)
<1>1. Init => Tables /\ InHand
  BY InitTables
<1>2. (Tables /\ InHand) /\ [Next]_vars => (Tables /\ InHand)'
  BY TablesNext, InHandNext
<1> QED  BY <1>1, <1>2, PTL DEF Spec

-----------------------------------------------------------------------------
(***************************************************************************)
(* Keys.                                                                   *)
(***************************************************************************)
\* What a step may do to the cars: one row may be new or edited, within the
\* unique keys; every other change is of a mileage, or removes a row.
LEMMA CarKeys ==
  ASSUME Tables, NEW c \in Clients, WriteStep(c)
  PROVE  \E k \in Cars :
           /\ \A l \in Rows(car') \ {k} :
                /\ l \in Rows(car) /\ car'[l].plate = car[l].plate
                /\ car'[l].vin = car[l].vin
           /\ k \in Rows(car') =>
                \/ UniqueKeysAllow(k, car'[k])
                \/ /\ k \in Rows(car) /\ car'[k].plate = car[k].plate
                   /\ car'[k].vin = car[k].vin
<1>1. TypeOK /\ RequestOK(c) /\ car \in [Cars -> CarRow \cup {Null, Deleted}]
  BY DEF Tables, TypeOK
<1>2. CASE CreateCarWrite(c)
  <2>1. req[c].key \in Cars
    BY <1>1, <1>2 DEF CreateCarWrite, Writes, RequestOK, CarOps, Idle
  <2> QED  BY <1>1, <1>2, <2>1 DEF CreateCarWrite, Rows
<1>3. CASE PatchCarWrite(c)
  <2>1. req[c].key \in Cars
    BY <1>1, <1>3 DEF PatchCarWrite, Rows
  <2> QED  BY <1>1, <1>3, <2>1 DEF PatchCarWrite, Rows
<1>4. ASSUME \/ UNCHANGED car
             \/ \E k \in Rows(car) : \E km : car' = [car EXCEPT ![k].mileage = km]
             \/ \E k : car' = [car EXCEPT ![k] = Deleted]
      PROVE  /\ \A l \in Rows(car') : /\ l \in Rows(car) /\ car'[l].plate = car[l].plate
                                      /\ car'[l].vin = car[l].vin
  <2>1. CASE UNCHANGED car
    BY <2>1
  <2>2. ASSUME NEW k \in Rows(car), NEW km, car' = [car EXCEPT ![k].mileage = km]
        PROVE  \A l \in Rows(car') : /\ l \in Rows(car) /\ car'[l].plate = car[l].plate
                                     /\ car'[l].vin = car[l].vin
    <3>1. k \in Cars /\ car[k] \in CarRow
      BY <1>1, <2>2, RowsAre
    <3>2. /\ car'[k] = [car[k] EXCEPT !.mileage = km]
          /\ \A l \in Cars \ {k} : car'[l] = car[l]
          /\ DOMAIN car' = Cars /\ DOMAIN car = Cars
      BY <1>1, <2>2, <3>1
    <3>3. car'[k].plate = car[k].plate /\ car'[k].vin = car[k].vin
      BY <3>1, <3>2 DEF CarRow
    <3> QED  BY <2>2, <3>2, <3>3 DEF Rows
  <2>3. ASSUME NEW k, car' = [car EXCEPT ![k] = Deleted]
        PROVE  \A l \in Rows(car') : /\ l \in Rows(car) /\ car'[l].plate = car[l].plate
                                     /\ car'[l].vin = car[l].vin
    BY <1>1, <2>3 DEF Rows
  <2> QED  BY <1>4, <2>1, <2>2, <2>3
<1>5. CASE RecordMileageWrite(c) \/ CreateServiceWrite(c) \/ DeleteCarWrite(c)
  <2>1. /\ req[c].key \in Cars
        /\ \/ UNCHANGED car
           \/ \E k \in Rows(car) : \E km : car' = [car EXCEPT ![k].mileage = km]
           \/ \E k : car' = [car EXCEPT ![k] = Deleted]
    <3>1. req[c].key \in Cars
      BY <1>1, <1>5 DEF RecordMileageWrite, CreateServiceWrite, DeleteCarWrite,
         Writes, RequestOK, CarOps, Idle
    <3>2. CASE RecordMileageWrite(c)
      BY <3>1, <3>2, Zenon DEF RecordMileageWrite
    <3>3. CASE CreateServiceWrite(c)
      BY <3>1, <3>3, Zenon DEF CreateServiceWrite, vehicles
    <3>4. CASE DeleteCarWrite(c)
      BY <3>1, <3>4, Zenon DEF DeleteCarWrite
    <3> QED  BY <1>5, <3>1, <3>2, <3>3, <3>4
  <2> QED  BY <1>4, <2>1
<1>6. ASSUME UNCHANGED car, \E k \in Cars : TRUE
      PROVE  \E k \in Cars :
           /\ \A l \in Rows(car') \ {k} :
                /\ l \in Rows(car) /\ car'[l].plate = car[l].plate
                /\ car'[l].vin = car[l].vin
           /\ k \in Rows(car') =>
                \/ UniqueKeysAllow(k, car'[k])
                \/ /\ k \in Rows(car) /\ car'[k].plate = car[k].plate
                   /\ car'[k].vin = car[k].vin
  BY <1>6
<1>7. \E k \in Cars : TRUE
  BY PopulatedAssumption
<1>8. CASE \/ CreateCenterWrite(c) \/ PatchCenterWrite(c) \/ DeleteCenterWrite(c)
           \/ CreateMechanicWrite(c) \/ PatchMechanicWrite(c) \/ DeleteMechanicWrite(c)
           \/ AddConditionPhotoWrite(c) \/ CreateReviewWrite(c)
  BY <1>6, <1>7, <1>8 DEF CreateCenterWrite, PatchCenterWrite, DeleteCenterWrite,
     CreateMechanicWrite, PatchMechanicWrite, DeleteMechanicWrite,
     AddConditionPhotoWrite, CreateReviewWrite, vehicles
<1>9. CASE \/ StartTripWrite(c) \/ AppendPointsWrite(c) \/ FinishTripWrite(c)
           \/ BuyPolicyWrite(c) \/ CreatePolicyWrite(c)
  BY <1>6, <1>7, <1>9 DEF StartTripWrite, AppendPointsWrite, FinishTripWrite,
     BuyPolicyWrite, CreatePolicyWrite, vehicles
<1> QED
  BY <1>2, <1>3, <1>5, <1>8, <1>9 DEF WriteStep

\* The same for mechanics, whose login never changes.
LEMMA MechanicKeys ==
  ASSUME Tables, NEW c \in Clients, WriteStep(c)
  PROVE  \/ \A m \in Rows(mechanic') : /\ m \in Rows(mechanic)
                                       /\ mechanic'[m].login = mechanic[m].login
         \/ \E k \in Mechanics :
              /\ \A m \in Rows(mechanic') \ {k} :
                   m \in Rows(mechanic) /\ mechanic'[m].login = mechanic[m].login
              /\ \A m \in Rows(mechanic) : mechanic[m].login # mechanic'[k].login
<1>1. /\ TypeOK /\ RequestOK(c)
      /\ mechanic \in [Mechanics -> MechanicRow \cup {Null, Deleted}]
  BY DEF Tables, TypeOK
<1>2. CASE CreateMechanicWrite(c)
  <2>1. req[c].key \in Mechanics
    BY <1>1, <1>2 DEF CreateMechanicWrite, Writes, RequestOK, MechanicOps, Idle
  <2> QED  BY <1>1, <1>2, <2>1 DEF CreateMechanicWrite, LoginKeyAllows, Rows
<1>3. CASE PatchMechanicWrite(c)
  <2>1. req[c].key \in Mechanics /\ mechanic[req[c].key] \in MechanicRow
    BY <1>1, <1>3, RowsAre DEF PatchMechanicWrite
  <2>2. [mechanic[req[c].key] EXCEPT !.edited = req[c].id].login
          = mechanic[req[c].key].login
    BY <2>1 DEF MechanicRow
  <2>3. mechanic' = [mechanic EXCEPT ![req[c].key] =
                       [mechanic[req[c].key] EXCEPT !.edited = req[c].id]]
    BY <1>3 DEF PatchMechanicWrite
  <2> QED  BY <1>1, <1>3, <2>1, <2>2, <2>3 DEF PatchMechanicWrite, Rows
<1>4. CASE DeleteMechanicWrite(c)
  <2>1. CASE req[c].key \in Rows(mechanic)
    <3>1. req[c].key \in Mechanics /\ mechanic[req[c].key] \in MechanicRow
      BY <1>1, <2>1, RowsAre
    <3>2. [mechanic[req[c].key] EXCEPT !.deleted = TRUE].login
            = mechanic[req[c].key].login
      BY <3>1 DEF MechanicRow
    <3>3. mechanic' = [mechanic EXCEPT ![req[c].key] =
                         [mechanic[req[c].key] EXCEPT !.deleted = TRUE]]
      BY <1>4, <2>1 DEF DeleteMechanicWrite
    <3> QED  BY <1>1, <2>1, <3>1, <3>2, <3>3 DEF Rows
  <2>2. CASE req[c].key \notin Rows(mechanic)
    BY <1>4, <2>2 DEF DeleteMechanicWrite
  <2> QED  BY <2>1, <2>2
<1>5. CASE DeleteCenterWrite(c)
  <2>1. mechanic' = [m \in Mechanics |->
                       IF m \in Rows(mechanic) /\ mechanic[m].center = req[c].key
                       THEN Deleted ELSE mechanic[m]]
    BY <1>5 DEF DeleteCenterWrite
  <2>2. \A m \in Rows(mechanic') : m \in Rows(mechanic) /\ mechanic'[m] = mechanic[m]
    BY <1>1, <2>1 DEF Rows
  <2> QED  BY <2>2
<1>6. CASE \/ CreateCarWrite(c) \/ PatchCarWrite(c) \/ RecordMileageWrite(c)
           \/ DeleteCarWrite(c)
  BY <1>6 DEF CreateCarWrite, PatchCarWrite, RecordMileageWrite,
     DeleteCarWrite, workshop
<1>7. CASE \/ CreateCenterWrite(c) \/ PatchCenterWrite(c) \/ CreateServiceWrite(c)
           \/ AddConditionPhotoWrite(c) \/ CreateReviewWrite(c)
  BY <1>7 DEF CreateCenterWrite, PatchCenterWrite, CreateServiceWrite,
     AddConditionPhotoWrite, CreateReviewWrite
<1>8. CASE \/ StartTripWrite(c) \/ AppendPointsWrite(c) \/ FinishTripWrite(c)
           \/ BuyPolicyWrite(c) \/ CreatePolicyWrite(c)
  BY <1>8 DEF StartTripWrite, AppendPointsWrite, FinishTripWrite,
     BuyPolicyWrite, CreatePolicyWrite, workshop
<1> QED
  BY <1>2, <1>3, <1>4, <1>5, <1>6, <1>7, <1>8 DEF WriteStep

\* One car per plate and VIN, one mechanic per login.
THEOREM KeysStayUnique == Spec => []KeysAreUnique
<1>1. ASSUME Init  PROVE KeysAreUnique
  <2>1. \A k \in Rows(car) : k = CHOOSE x \in Cars : TRUE
    BY <1>1 DEF Init, Rows
  <2>2. \A m \in Rows(mechanic) : m = CHOOSE x \in Mechanics : TRUE
    BY <1>1 DEF Init, Rows
  <2> QED  BY <2>1, <2>2 DEF KeysAreUnique
<1>2. ASSUME Tables, KeysAreUnique, NEW c \in Clients, WriteStep(c)
      PROVE  KeysAreUnique'
  <2>1. ASSUME NEW k \in Rows(car'), NEW l \in Rows(car'), k # l
        PROVE  /\ car'[k].plate # car'[l].plate
               /\ car'[k].vin # Null => car'[k].vin # car'[l].vin
    BY <1>2, <2>1, CarKeys DEF KeysAreUnique, UniqueKeysAllow, ByPlate, ByVin
  <2>2. ASSUME NEW m \in Rows(mechanic'), NEW n \in Rows(mechanic'), m # n
        PROVE  mechanic'[m].login # mechanic'[n].login
    BY <1>2, <2>2, MechanicKeys DEF KeysAreUnique
  <2> QED  BY <2>1, <2>2 DEF KeysAreUnique, Rows
<1>3. Tables /\ KeysAreUnique /\ [Next]_vars => KeysAreUnique'
  BY <1>2, StepCases, ReadsOnly
  DEF Reads, Abort, vars, tables, vehicles, workshop, KeysAreUnique, Rows
<1> QED  BY <1>1, <1>3, TablesInvariant, PTL DEF Spec

-----------------------------------------------------------------------------
(***************************************************************************)
(* References.                                                             *)
(***************************************************************************)
\* Cars: readings, services, policies and trips.
CarRefs ==
  /\ \A r \in reading : r.car \in Rows(car)
  /\ \A s \in service : s.car \in Rows(car)
  /\ \A p \in policy : p.car \in Rows(car)
  /\ \A t \in Rows(trip) : trip[t].car # Null => trip[t].car \in Rows(car)

\* Centres: services with their mechanics, and mechanics.
CenterRefs ==
  /\ \A s \in service :
       /\ s.center \in Rows(center)
       /\ s.mechanic # Null => /\ s.mechanic \in Rows(mechanic)
                               /\ mechanic[s.mechanic].center = s.center
  /\ \A m \in Rows(mechanic) : mechanic[m].center \in Rows(center)

OtherRefs ==
  /\ \A p \in policy : p.tariff \in tariff
  /\ \A p \in photo : \E s \in service : s.id = p.service

LEMMA RefsAre == ReferencesAgree <=> CarRefs /\ CenterRefs /\ OtherRefs
  BY DEF ReferencesAgree, CarRefs, CenterRefs, OtherRefs

\* A row that only loses or gains columns' values stays a row.
LEMMA RowStays ==
  ASSUME Tables, TypeOK', NEW c \in Clients,
         CreateCarWrite(c) \/ PatchCarWrite(c) \/ RecordMileageWrite(c) \/ CreateServiceWrite(c)
  PROVE  Rows(car) \subseteq Rows(car') /\ req[c].key \in Rows(car')
<1>1. /\ TypeOK /\ RequestOK(c) /\ car \in [Cars -> CarRow \cup {Null, Deleted}]
      /\ car' \in [Cars -> CarRow \cup {Null, Deleted}]
  BY DEF Tables, TypeOK
<1>2. CASE CreateCarWrite(c)
  <2>1. req[c].key \in Cars /\ NewCar(req[c].user, req[c].args) \in CarRow
    BY <1>1, <1>2, NewCarType
    DEF CreateCarWrite, Writes, RequestOK, CarOps, CustomerOps, Idle
  <2> QED  BY <1>1, <1>2, <2>1, RowAssumption DEF CreateCarWrite, Rows
<1>3. CASE PatchCarWrite(c)
  <2>1. /\ req[c].key \in Cars /\ car[req[c].key] \in CarRow
        /\ UpdateFields(car[req[c].key], req[c].args) \in CarRow
    BY <1>1, <1>3, RowsAre, UpdatedCar DEF PatchCarWrite, Writes, RequestOK, Idle
  <2> QED  BY <1>1, <1>3, <2>1, RowAssumption DEF PatchCarWrite, Rows
<1>4. ASSUME NEW km \in Km, car' = [car EXCEPT ![req[c].key].mileage = km],
             req[c].key \in Rows(car)
      PROVE  Rows(car) \subseteq Rows(car') /\ req[c].key \in Rows(car')
  <2>1. req[c].key \in Cars /\ car[req[c].key] \in CarRow
    BY <1>1, <1>4, RowsAre
  <2>2. [car[req[c].key] EXCEPT !.mileage = km] \in CarRow
    BY <2>1 DEF CarRow
  <2>3. car' = [car EXCEPT ![req[c].key] = [car[req[c].key] EXCEPT !.mileage = km]]
    BY <1>4
  <2> QED  BY <1>1, <1>4, <2>1, <2>2, <2>3, RowAssumption DEF Rows
<1>5. CASE RecordMileageWrite(c)
  <2>1. req[c].args.value \in Km
    BY <1>1, <1>5 DEF RecordMileageWrite, Writes, RequestOK, Idle
  <2>2. car' = [car EXCEPT ![req[c].key].mileage = req[c].args.value]
    BY <1>5, Zenon DEF RecordMileageWrite
  <2>3. req[c].key \in Rows(car)
    BY <1>5, Zenon DEF RecordMileageWrite
  <2> QED  BY <1>4, <2>1, <2>2, <2>3
<1>6. CASE CreateServiceWrite(c)
  <2>1. req[c].args.mileage \in Km
    BY <1>1, <1>6 DEF CreateServiceWrite, Writes, RequestOK, Idle, ServiceCreateIn
  <2>2. \/ car' = [car EXCEPT ![req[c].key].mileage = req[c].args.mileage]
        \/ car' = car
    BY <1>6, Zenon DEF CreateServiceWrite, vehicles
  <2>3. req[c].key \in Rows(car)
    BY <1>6, Zenon DEF CreateServiceWrite
  <2> QED  BY <1>4, <2>1, <2>2, <2>3
<1> QED  BY <1>2, <1>3, <1>5, <1>6

\* A deletion leaves no reference to the car; an insert finds its car.
LEMMA CarRefsNext ==
  ASSUME Tables, TypeOK', CarRefs, NEW c \in Clients, WriteStep(c)
  PROVE  CarRefs'
<1>1. /\ TypeOK /\ RequestOK(c) /\ car \in [Cars -> CarRow \cup {Null, Deleted}]
      /\ trip \in [Trips -> Trip \cup {Null}]
  BY DEF Tables, TypeOK
<1>2. CASE CreateCarWrite(c)
  <2>1. /\ reading' \subseteq reading \cup
             {[car |-> req[c].key, value |-> NewCar(req[c].user, req[c].args).mileage,
               source |-> "user", by |-> req[c].id]}
        /\ UNCHANGED <<service, policy, trip>>
    BY <1>2 DEF CreateCarWrite, Append, workshop, journeys, insurance
  <2> QED  BY <1>2, <2>1, RowStays DEF CarRefs, Rows
<1>3. CASE PatchCarWrite(c)
  <2>1. UNCHANGED <<reading, service, policy, trip>>
    BY <1>3 DEF PatchCarWrite, workshop, journeys, insurance
  <2> QED  BY <1>3, <2>1, RowStays DEF CarRefs, Rows
<1>4. CASE RecordMileageWrite(c)
  <2>1. /\ reading' = reading \cup {[car |-> req[c].key, value |-> req[c].args.value,
                                     source |-> "user", by |-> req[c].id]}
        /\ UNCHANGED <<service, policy, trip>>
    BY <1>4 DEF RecordMileageWrite, Append, workshop, journeys, insurance
  <2> QED  BY <1>4, <2>1, RowStays DEF CarRefs, Rows
<1>5. CASE CreateServiceWrite(c)
  <2>1. /\ reading' \subseteq reading \cup
             {[car |-> req[c].key, value |-> req[c].args.mileage, source |-> "service",
               by |-> req[c].id]}
        /\ service' = service \cup
             {[id |-> req[c].id, car |-> req[c].key, center |-> req[c].args.center,
               mechanic |-> req[c].args.mechanic,
               mileage_at_intake |-> req[c].args.mileage]}
        /\ UNCHANGED <<policy, trip>>
    BY <1>5 DEF CreateServiceWrite, Append, vehicles, journeys, insurance
  <2> QED  BY <1>5, <2>1, RowStays DEF CarRefs, Rows
<1>6. CASE DeleteCarWrite(c)
  <2> DEFINE k == req[c].key
  <2>1. /\ ~Restricted(k) /\ car' = [car EXCEPT ![k] = Deleted]
        /\ reading' = {r \in reading : r.car # k}
        /\ UNCHANGED <<service, policy>>
        /\ trip' = [t \in Trips |-> IF t \in Rows(trip) /\ trip[t].car = k
                                    THEN [trip[t] EXCEPT !.car = Null] ELSE trip[t]]
    BY <1>6 DEF DeleteCarWrite, workshop, insurance
  <2> HIDE DEF k
  <2>2. \A l \in Rows(car) \ {k} : l \in Rows(car')
    BY <1>1, <2>1 DEF Rows
  <2>3. ASSUME NEW t \in Rows(trip'), trip'[t].car # Null
        PROVE  trip'[t].car \in Rows(car')
    <3>1. t \in Trips /\ t \in Rows(trip) /\ trip[t] \in Trip
      BY <1>1, <2>1, <2>3, RowsAre DEF Rows
    <3>2. trip[t].car # k /\ trip'[t] = trip[t]
      BY <2>1, <2>3, <3>1 DEF Trip
    <3> QED  BY <2>2, <2>3, <3>1, <3>2 DEF CarRefs
  <2> QED  BY <2>1, <2>2, <2>3 DEF CarRefs, Restricted, Rows
<1>7. CASE StartTripWrite(c)
  <2>1. req[c].key \in Trips
    BY <1>1, <1>7 DEF StartTripWrite, Writes, RequestOK, TripOps, Idle
  <2> QED  BY <1>1, <1>7, <2>1 DEF StartTripWrite, CarRefs, Rows, vehicles, workshop, insurance
<1>8. CASE AppendPointsWrite(c) \/ FinishTripWrite(c)
  <2>1. /\ req[c].key \in Trips /\ trip[req[c].key] \in Trip
        /\ UNCHANGED <<car, reading, service, policy>>
    BY <1>1, <1>8 DEF AppendPointsWrite, FinishTripWrite, Writes, RequestOK, TripOps,
       Idle, vehicles, workshop, insurance
  <2>2. \A t \in Trips \ {req[c].key} : trip'[t] = trip[t]
    BY <1>1, <1>8 DEF AppendPointsWrite, FinishTripWrite
  <2>3. trip'[req[c].key].car = trip[req[c].key].car
    <3>1. CASE AppendPointsWrite(c)
      BY <1>1, <2>1, <3>1 DEF AppendPointsWrite, Trip
    <3>2. CASE FinishTripWrite(c)
      BY <1>1, <2>1, <3>2 DEF FinishTripWrite, Trip
    <3> QED  BY <1>8, <3>1, <3>2
  <2>4. DOMAIN trip' = Trips /\ req[c].key \in Rows(trip)
    BY <1>1, <2>1, RowsAre DEF TypeOK
  <2> QED  BY <1>1, <2>1, <2>2, <2>3, <2>4 DEF CarRefs, Rows
<1>9. CASE BuyPolicyWrite(c) \/ CreatePolicyWrite(c)
  <2>1. /\ \E paid : policy' = policy \cup {NewPolicy(req[c], paid)}
        /\ req[c].key \in Rows(car)
        /\ UNCHANGED <<car, reading, service, trip>>
    BY <1>9 DEF BuyPolicyWrite, CreatePolicyWrite, vehicles, workshop, journeys
  <2> QED  BY <2>1 DEF CarRefs, Rows, NewPolicy
<1>10. CASE \/ CreateCenterWrite(c) \/ PatchCenterWrite(c) \/ DeleteCenterWrite(c)
            \/ CreateMechanicWrite(c) \/ PatchMechanicWrite(c) \/ DeleteMechanicWrite(c)
            \/ AddConditionPhotoWrite(c) \/ CreateReviewWrite(c)
  <2>1. UNCHANGED <<car, reading, service, policy, trip>>
    BY <1>10 DEF CreateCenterWrite, PatchCenterWrite, DeleteCenterWrite,
       CreateMechanicWrite, PatchMechanicWrite, DeleteMechanicWrite,
       AddConditionPhotoWrite, CreateReviewWrite, vehicles, journeys, insurance
  <2> QED  BY <2>1 DEF CarRefs, Rows
<1> QED
  BY <1>2, <1>3, <1>4, <1>5, <1>6, <1>7, <1>8, <1>9, <1>10 DEF WriteStep

\* A centre goes with its mechanics and only without services; a mechanic
\* stays at its centre.
LEMMA CenterRefsNext ==
  ASSUME Tables, TypeOK', CenterRefs, NEW c \in Clients, WriteStep(c)
  PROVE  CenterRefs'
<1>1. /\ TypeOK /\ RequestOK(c)
      /\ center \in [Centers -> CenterRow \cup {Null, Deleted}]
      /\ center' \in [Centers -> CenterRow \cup {Null, Deleted}]
      /\ mechanic \in [Mechanics -> MechanicRow \cup {Null, Deleted}]
      /\ mechanic' \in [Mechanics -> MechanicRow \cup {Null, Deleted}]
  BY DEF Tables, TypeOK
<1>2. CASE CreateCenterWrite(c) \/ PatchCenterWrite(c)
  <2>1. \A z \in Centers \ {req[c].key} : center'[z] = center[z]
    BY <1>1, <1>2 DEF CreateCenterWrite, PatchCenterWrite
  <2>2. /\ UNCHANGED <<mechanic, service>> /\ req[c].key \in Centers
    BY <1>1, <1>2 DEF CreateCenterWrite, PatchCenterWrite, Rows, Writes, RequestOK,
       CenterOps, Idle
  <2>3. center'[req[c].key] \in CenterRow
    <3>1. CASE CreateCenterWrite(c)
      BY <1>1, <2>2, <3>1 DEF CreateCenterWrite, CenterRow, Writes, RequestOK,
         CurrentOwner, Idle
    <3>2. CASE PatchCenterWrite(c)
      <4>1. center[req[c].key] \in CenterRow /\ req[c].id \in Ids
        BY <1>1, <3>2, RowsAre, GarageAssumption
        DEF PatchCenterWrite, Writes, RequestOK, Idle, TypeOK, Ids
      <4> QED  BY <1>1, <2>2, <3>2, <4>1 DEF PatchCenterWrite, CenterRow
    <3> QED  BY <1>2, <3>1, <3>2
  <2>4. Rows(center) \subseteq Rows(center')
    BY <1>1, <2>1, <2>2, <2>3, RowAssumption DEF Rows
  <2> QED  BY <2>2, <2>4 DEF CenterRefs, Rows
<1>3. CASE DeleteCenterWrite(c)
  <2> DEFINE z == req[c].key
  <2>1. /\ \A s \in service : s.center # z
        /\ center' = [center EXCEPT ![z] = Deleted] /\ UNCHANGED service
        /\ mechanic' = [m \in Mechanics |->
                          IF m \in Rows(mechanic) /\ mechanic[m].center = z
                          THEN Deleted ELSE mechanic[m]]
    BY <1>3 DEF DeleteCenterWrite
  <2> HIDE DEF z
  <2>2. Rows(center) \ {z} \subseteq Rows(center')
    BY <1>1, <2>1 DEF Rows
  <2>3. \A m \in Rows(mechanic) : mechanic[m].center # z =>
          m \in Rows(mechanic') /\ mechanic'[m] = mechanic[m]
    BY <1>1, <2>1 DEF Rows
  <2>4. \A m \in Rows(mechanic') :
          m \in Rows(mechanic) /\ mechanic'[m] = mechanic[m] /\ mechanic[m].center # z
    BY <1>1, <2>1 DEF Rows
  <2>5. /\ \A s \in service' :
             /\ s.center \in Rows(center')
             /\ s.mechanic # Null => /\ s.mechanic \in Rows(mechanic')
                                     /\ mechanic'[s.mechanic].center = s.center
        /\ \A m \in Rows(mechanic') : mechanic'[m].center \in Rows(center')
    BY <2>1, <2>2, <2>3, <2>4 DEF CenterRefs
  <2> QED  BY <2>5 DEF CenterRefs, Rows
<1>4. CASE CreateMechanicWrite(c)
  <2> DEFINE row == [center |-> req[c].args.center, login |-> req[c].args.login,
                     deleted |-> FALSE, edited |-> 0]
  <2>1. /\ req[c].key \in Mechanics /\ row \in MechanicRow
        /\ row.center \in Rows(center)
        /\ UNCHANGED <<center, service>>
        /\ mechanic' = [mechanic EXCEPT ![req[c].key] = row]
        /\ mechanic[req[c].key] = Null
    BY <1>1, <1>4 DEF CreateMechanicWrite, Writes, RequestOK, MechanicOps, Idle, MechanicRow
  <2> HIDE DEF row
  <2>2. \A m \in Rows(mechanic) : m \in Rows(mechanic') /\ mechanic'[m] = mechanic[m]
    BY <1>1, <2>1 DEF Rows
  <2>3. \A m \in Rows(mechanic') : m \in Rows(mechanic) \/ mechanic'[m] = row
    BY <1>1, <2>1 DEF Rows
  <2>4. /\ \A s \in service' :
             /\ s.center \in Rows(center')
             /\ s.mechanic # Null => /\ s.mechanic \in Rows(mechanic')
                                     /\ mechanic'[s.mechanic].center = s.center
        /\ \A m \in Rows(mechanic') : mechanic'[m].center \in Rows(center')
    BY <2>1, <2>2, <2>3 DEF CenterRefs
  <2> QED  BY <2>4 DEF CenterRefs, Rows
<1>5. CASE PatchMechanicWrite(c) \/ DeleteMechanicWrite(c)
  <2>1. UNCHANGED <<center, service>>
    BY <1>5 DEF PatchMechanicWrite, DeleteMechanicWrite
  <2>2. \/ UNCHANGED mechanic
        \/ /\ req[c].key \in Rows(mechanic)
           /\ \/ mechanic' = [mechanic EXCEPT ![req[c].key] =
                                [mechanic[req[c].key] EXCEPT !.edited = req[c].id]]
              \/ mechanic' = [mechanic EXCEPT ![req[c].key] =
                                [mechanic[req[c].key] EXCEPT !.deleted = TRUE]]
    BY <1>5, Zenon DEF PatchMechanicWrite, DeleteMechanicWrite
  <2>3. CASE UNCHANGED mechanic
    BY <2>1, <2>3 DEF CenterRefs, Rows
  <2>4. CASE ~UNCHANGED mechanic
    <3>1. req[c].key \in Mechanics /\ mechanic[req[c].key] \in MechanicRow
      BY <1>1, <2>2, <2>4, RowsAre
    <3>2. req[c].id \in Ids
      BY <1>1, <1>5, GarageAssumption
      DEF PatchMechanicWrite, DeleteMechanicWrite, Writes, RequestOK, Idle, TypeOK, Ids
    <3>3. PICK row \in MechanicRow :
            /\ row.center = mechanic[req[c].key].center
            /\ mechanic' = [mechanic EXCEPT ![req[c].key] = row]
      <4>1. /\ [mechanic[req[c].key] EXCEPT !.edited = req[c].id] \in MechanicRow
            /\ [mechanic[req[c].key] EXCEPT !.edited = req[c].id].center
                 = mechanic[req[c].key].center
            /\ [mechanic[req[c].key] EXCEPT !.deleted = TRUE] \in MechanicRow
            /\ [mechanic[req[c].key] EXCEPT !.deleted = TRUE].center
                 = mechanic[req[c].key].center
        BY <3>1, <3>2 DEF MechanicRow
      <4> QED  BY <2>2, <2>4, <4>1, Zenon
    <3>4. /\ Rows(mechanic') = Rows(mechanic)
          /\ \A m \in Rows(mechanic) : mechanic'[m].center = mechanic[m].center
      BY <1>1, <2>2, <2>4, <3>1, <3>3, RowAssumption DEF Rows
    <3>5. Rows(center') = Rows(center)
      BY <2>1
    <3>6. /\ \A s \in service' :
               /\ s.center \in Rows(center')
               /\ s.mechanic # Null => /\ s.mechanic \in Rows(mechanic')
                                       /\ mechanic'[s.mechanic].center = s.center
          /\ \A m \in Rows(mechanic') : mechanic'[m].center \in Rows(center')
      BY <2>1, <3>4, <3>5 DEF CenterRefs
    <3> QED  BY <3>6 DEF CenterRefs, Rows
  <2> QED  BY <2>3, <2>4
<1>6. CASE CreateServiceWrite(c)
  <2> DEFINE a == req[c].args
  <2>1. /\ a.center \in Rows(center)
        /\ a.mechanic # Null => a.mechanic \in Rows(mechanic)
        /\ service' = service \cup
             {[id |-> req[c].id, car |-> req[c].key, center |-> a.center,
               mechanic |-> a.mechanic, mileage_at_intake |-> a.mileage]}
        /\ UNCHANGED <<center, mechanic>>
    BY <1>6 DEF CreateServiceWrite
  <2>2. a.mechanic # Null => mechanic[a.mechanic].center = a.center
    BY <1>1, <1>6, <2>1 DEF CreateServiceWrite, Writes, RequestOK, Idle
  <2> QED  BY <2>1, <2>2 DEF CenterRefs, Rows
<1>7. CASE \/ CreateCarWrite(c) \/ PatchCarWrite(c) \/ RecordMileageWrite(c)
           \/ DeleteCarWrite(c)
  BY <1>7 DEF CreateCarWrite, PatchCarWrite, RecordMileageWrite, DeleteCarWrite,
     workshop, CenterRefs, Rows
<1>8. CASE AddConditionPhotoWrite(c) \/ CreateReviewWrite(c)
  BY <1>8 DEF AddConditionPhotoWrite, CreateReviewWrite, CenterRefs, Rows
<1>9. CASE \/ StartTripWrite(c) \/ AppendPointsWrite(c) \/ FinishTripWrite(c)
           \/ BuyPolicyWrite(c) \/ CreatePolicyWrite(c)
  BY <1>9 DEF StartTripWrite, AppendPointsWrite, FinishTripWrite, BuyPolicyWrite,
     CreatePolicyWrite, workshop, CenterRefs, Rows
<1> QED
  BY <1>2, <1>3, <1>4, <1>5, <1>6, <1>7, <1>8, <1>9 DEF WriteStep

\* Tariffs and services are never deleted.
LEMMA OtherRefsNext ==
  ASSUME Tables, OtherRefs, NEW c \in Clients, WriteStep(c)
  PROVE  OtherRefs'
<1>1. RequestOK(c) /\ Stays /\ tariff \subseteq {"default"}
  BY WriteStays DEF Tables, TypeOK
<1>2. CASE AddConditionPhotoWrite(c)
  <2>1. \E s \in service : s.id = req[c].key
    BY <1>1, <1>2 DEF AddConditionPhotoWrite, Writes, RequestOK, Idle
  <2> QED  BY <1>2, <2>1 DEF AddConditionPhotoWrite, OtherRefs, insurance
<1>3. CASE BuyPolicyWrite(c)
  <2>1. /\ tariff' = {"default"} /\ UNCHANGED <<photo, service>>
        /\ policy' = policy \cup {NewPolicy(req[c], "paid")}
    BY <1>3 DEF BuyPolicyWrite, workshop
  <2>2. NewPolicy(req[c], "paid").tariff = "default"
    BY DEF NewPolicy
  <2> QED  BY <1>1, <2>1, <2>2 DEF OtherRefs
<1>4. CASE CreatePolicyWrite(c)
  <2>1. tariff = {"default"}
    <3>1. tariff # {}
      BY <1>1, <1>4 DEF CreatePolicyWrite, Writes, RequestOK, Idle
    <3> QED  BY <1>1, <3>1
  <2>2. /\ UNCHANGED <<photo, service, tariff>>
        /\ policy' = policy \cup {NewPolicy(req[c], "pending")}
    BY <1>4 DEF CreatePolicyWrite, workshop
  <2>3. NewPolicy(req[c], "pending").tariff = "default"
    BY DEF NewPolicy
  <2> QED  BY <2>1, <2>2, <2>3 DEF OtherRefs
<1>5. CASE CreateServiceWrite(c)
  BY <1>5 DEF CreateServiceWrite, OtherRefs, insurance
<1>6. CASE \/ CreateCarWrite(c) \/ PatchCarWrite(c) \/ RecordMileageWrite(c)
           \/ DeleteCarWrite(c)
  BY <1>6 DEF CreateCarWrite, PatchCarWrite, RecordMileageWrite, DeleteCarWrite,
     workshop, insurance, OtherRefs
<1>7. CASE \/ CreateCenterWrite(c) \/ PatchCenterWrite(c) \/ DeleteCenterWrite(c)
           \/ CreateMechanicWrite(c) \/ PatchMechanicWrite(c) \/ DeleteMechanicWrite(c)
           \/ CreateReviewWrite(c)
  BY <1>7 DEF CreateCenterWrite, PatchCenterWrite, DeleteCenterWrite,
     CreateMechanicWrite, PatchMechanicWrite, DeleteMechanicWrite,
     CreateReviewWrite, insurance, OtherRefs
<1>8. CASE StartTripWrite(c) \/ AppendPointsWrite(c) \/ FinishTripWrite(c)
  BY <1>8 DEF StartTripWrite, AppendPointsWrite, FinishTripWrite, workshop,
     insurance, OtherRefs
<1> QED
  BY <1>2, <1>3, <1>4, <1>5, <1>6, <1>7, <1>8 DEF WriteStep

\* No row names a row that is not there.
THEOREM ReferencesStayGood == Spec => []ReferencesAgree
<1>1. ASSUME Init  PROVE ReferencesAgree
  <2>1. TypeOK
    BY <1>1, InitTables DEF Tables
  <2>2. CarRefs
    <3>1. ASSUME NEW k \in Cars, car[k] \in CarRow  PROVE k \in Rows(car)
      BY <2>1, <3>1, RowsAre
    <3> DEFINE k == CHOOSE x \in Cars : TRUE
               t == CHOOSE x \in Trips : TRUE
    <3>2. k \in Cars
      BY PopulatedAssumption
    <3>3. /\ car[k] # Null /\ car[k] # Deleted /\ \A r \in reading : r.car = k
          /\ \A x \in Rows(trip) : trip[x].car = k
          /\ service = {} /\ policy = {}
      <4>1. car \in [Cars -> CarRow \cup {Null, Deleted}]
        BY <2>1 DEF TypeOK
      <4>2. car[k] = [owner |-> CHOOSE x \in Customers : TRUE,
                      plate |-> CHOOSE x \in Plates : TRUE,
                      plate_type |-> Shape[CHOOSE x \in Plates : TRUE],
                      vin |-> Null, mileage |-> 1]
        BY <1>1, <3>2, Zenon DEF Init
      <4>3. car[k] \in CarRow
        BY <4>2, PopulatedAssumption, GarageAssumption DEF CarRow, Km
      <4>4. /\ \A r \in reading : r.car = k /\ service = {} /\ policy = {}
        BY <1>1 DEF Init
      <4>5. \A x \in Rows(trip) : trip[x].car = k
        BY <1>1 DEF Init, Rows
      <4> QED  BY <4>3, <4>4, <4>5, <1>1, RowAssumption DEF Init
    <3> HIDE DEF k
    <3>4. k \in Rows(car)
      BY <2>1, <3>2, <3>3 DEF Rows, TypeOK
    <3> QED  BY <3>3, <3>4 DEF CarRefs
  <2>3. CenterRefs /\ OtherRefs
    <3> DEFINE z == CHOOSE x \in Centers : TRUE
               free == CHOOSE x \in Centers : x # z
               o == CHOOSE x \in Staff : Role[x] = "owner"
    <3>1. z \in Centers /\ free # z /\ o \in Staff
      <4>1. (\E x \in Centers : TRUE) /\ \E x \in Staff : Role[x] = "owner"
        BY PopulatedAssumption
      <4>2. z \in Centers /\ o \in Staff
        BY <4>1
      <4>3. \E x \in Centers : x # z
        BY PopulatedAssumption
      <4> QED  BY <4>2, <4>3
    <3>2. /\ center = [x \in Centers |-> IF x = free THEN Null
                                         ELSE [owner |-> o, edited |-> 0]]
          /\ \A m \in Rows(mechanic) : mechanic[m].center = z
          /\ service = {} /\ photo = {} /\ policy = {}
      BY <1>1 DEF Init, Rows
    <3> HIDE DEF z, free, o
    <3>3. z \in Rows(center)
      <4>1. center[z] = [owner |-> o, edited |-> 0]
        BY <3>1, <3>2
      <4>2. center[z] \in CenterRow
        BY <3>1, <4>1 DEF CenterRow
      <4> QED  BY <2>1, <3>1, <4>2, RowsAre
    <3> QED  BY <3>2, <3>3 DEF CenterRefs, OtherRefs
  <2> QED  BY <2>2, <2>3, RefsAre
<1>2. ASSUME Tables, ReferencesAgree, NEW c \in Clients, WriteStep(c)
      PROVE  ReferencesAgree'
  <2>1. CarRefs' /\ CenterRefs' /\ OtherRefs'
    BY <1>2, RefsAre, WriteStays, CarRefsNext, CenterRefsNext, OtherRefsNext
  <2> QED  BY <2>1 DEF ReferencesAgree, CarRefs, CenterRefs, OtherRefs, Rows
<1>3. Tables /\ ReferencesAgree /\ [Next]_vars => ReferencesAgree'
  BY <1>2, StepCases, ReadsOnly
  DEF Reads, Abort, vars, tables, vehicles, workshop, journeys, insurance,
      ReferencesAgree, Rows
<1> QED  BY <1>1, <1>3, TablesInvariant, PTL DEF Spec

-----------------------------------------------------------------------------
(***************************************************************************)
(* Mileage.                                                                *)
(***************************************************************************)
\* What a write may do to the mileages: a new car, whose history is seeded;
\* the mileage a request brings, and perhaps the reading and the service of
\* it; or a car goes.
LEMMA MileageWrites ==
  ASSUME Tables, NEW c \in Clients, WriteStep(c)
  PROVE  LET k == req[c].key
             km == Wanted(req[c])
             grows(v) == /\ \A r \in reading' \ reading : r.car = k /\ r.value = v
                         /\ \A s \in service' \ service : s.car = k /\ s.mileage_at_intake = v
         IN
         \/ /\ k \in Cars /\ car[k] = Null /\ car'[k] \in CarRow
            /\ grows(car'[k].mileage) /\ service' = service
            /\ \A l \in Cars \ {k} : car'[l] = car[l]
         \/ /\ req[c].op \in MileageOps /\ k \in Rows(car) /\ car'[k] \in CarRow
            /\ \A l \in Cars \ {k} : car'[l] = car[l]
            /\ \/ /\ car'[k].mileage = car[k].mileage /\ km = Null
                  /\ UNCHANGED <<reading, service>>
               \/ car'[k].mileage = km /\ km # Null /\ grows(km)
               \/ /\ car'[k].mileage = car[k].mileage /\ km = req[c].snap.mileage
                  /\ grows(km)
         \/ /\ \A l \in Rows(car') : l \in Rows(car) /\ car'[l] = car[l]
            /\ reading' \subseteq reading /\ service' = service
<1>1. /\ TypeOK /\ RequestOK(c) /\ TypeOK'
      /\ car \in [Cars -> CarRow \cup {Null, Deleted}]
      /\ car' \in [Cars -> CarRow \cup {Null, Deleted}]
  BY WriteStays DEF Tables, TypeOK
<1> DEFINE k == req[c].key
           km == Wanted(req[c])
<1>2. CASE CreateCarWrite(c)
  <2>1. req[c].key \in Cars /\ NewCar(req[c].user, req[c].args) \in CarRow
    BY <1>1, <1>2, NewCarType
    DEF CreateCarWrite, Writes, RequestOK, CarOps, CustomerOps, Idle
  <2>2. /\ car[k] = Null /\ service' = service
        /\ car' = [car EXCEPT ![k] = NewCar(req[c].user, req[c].args)]
        /\ reading' \subseteq reading \cup
             {[car |-> k, value |-> NewCar(req[c].user, req[c].args).mileage,
               source |-> "user", by |-> req[c].id]}
    BY <1>2 DEF CreateCarWrite, Append, workshop
  <2>3. car'[k] = NewCar(req[c].user, req[c].args) /\ \A l \in Cars \ {k} : car'[l] = car[l]
    BY <1>1, <2>1, <2>2
  <2>4. \A r \in reading' \ reading : r.car = k /\ r.value = car'[k].mileage
    BY <2>2, <2>3
  <2> QED  BY <2>1, <2>2, <2>3, <2>4
<1>3. CASE PatchCarWrite(c)
  <2>1. /\ k \in Rows(car) /\ k \in Cars /\ car[k] \in CarRow
        /\ req[c].op = "patch_car" /\ req[c].args \in CarPatchIn
    BY <1>1, <1>3, RowsAre DEF PatchCarWrite, Writes, RequestOK, Idle
  <2>2. car' = [car EXCEPT ![k] = UpdateFields(car[k], req[c].args)]
        /\ UNCHANGED <<reading, service>>
    BY <1>3 DEF PatchCarWrite, workshop
  <2>3. /\ car'[k] \in CarRow
        /\ car'[k].mileage = IF km = Null THEN car[k].mileage ELSE km
        /\ \A l \in Cars \ {k} : car'[l] = car[l]
    BY <1>1, <2>1, <2>2, UpdatedCar DEF Wanted
  <2> QED  BY <2>1, <2>2, <2>3 DEF MileageOps
<1>4. ASSUME NEW v \in Km, k \in Rows(car), car' = [car EXCEPT ![k].mileage = v]
      PROVE  /\ car'[k] \in CarRow /\ car'[k].mileage = v
             /\ \A l \in Cars \ {k} : car'[l] = car[l]
  <2>1. k \in Cars /\ car[k] \in CarRow
    BY <1>1, <1>4, RowsAre
  <2>2. /\ [car[k] EXCEPT !.mileage = v] \in CarRow
        /\ [car[k] EXCEPT !.mileage = v].mileage = v
    BY <2>1 DEF CarRow
  <2>3. car' = [car EXCEPT ![k] = [car[k] EXCEPT !.mileage = v]]
    BY <1>4
  <2> QED  BY <1>1, <2>1, <2>2, <2>3
<1>5. CASE RecordMileageWrite(c)
  <2>1. /\ req[c].op = "record_mileage" /\ req[c].args.value \in Km
        /\ km = req[c].args.value /\ k \in Rows(car)
    BY <1>1, <1>5 DEF RecordMileageWrite, Writes, RequestOK, Idle, Wanted
  <2>2. car' = [car EXCEPT ![k].mileage = km]
    BY <1>5, <2>1, Zenon DEF RecordMileageWrite
  <2>3. /\ service' = service
        /\ reading' = reading \cup {[car |-> k, value |-> km, source |-> "user",
                                     by |-> req[c].id]}
    BY <1>5, <2>1 DEF RecordMileageWrite, Append, workshop
  <2>4. \A r \in reading' \ reading : r.car = k /\ r.value = km
    BY <2>3
  <2>5. km # Null
    BY <2>1, RowAssumption
  <2> QED  BY <1>4, <2>1, <2>2, <2>3, <2>4, <2>5 DEF MileageOps
<1>6. CASE CreateServiceWrite(c)
  <2>1. /\ req[c].op = "create_service" /\ req[c].args.mileage \in Km
        /\ km = req[c].args.mileage /\ k \in Rows(car) /\ k \in Cars
        /\ car[k] \in CarRow /\ req[c].snap \in CarRow
        /\ km # Null => km >= req[c].snap.mileage
    BY <1>1, <1>6, RowsAre
    DEF CreateServiceWrite, Writes, RequestOK, Idle, Wanted, ServiceCreateIn, MileageOps
  <2>2. km # Null
    BY <2>1, RowAssumption
  <2>3. \A s \in service' \ service : s.car = k /\ s.mileage_at_intake = km
    BY <1>6, <2>1 DEF CreateServiceWrite
  <2>4. CASE km > req[c].snap.mileage
    <3>1. car' = [car EXCEPT ![k].mileage = km]
      BY <1>6, <2>1, <2>4, Zenon DEF CreateServiceWrite
    <3>2. \A r \in reading' \ reading : r.car = k /\ r.value = km
      BY <1>6, <2>1, <2>4 DEF CreateServiceWrite, Append
    <3> QED  BY <1>4, <2>1, <2>2, <2>3, <3>1, <3>2 DEF MileageOps
  <2>5. CASE ~(km > req[c].snap.mileage)
    <3>1. car' = car /\ reading' = reading
      BY <1>6, <2>1, <2>5 DEF CreateServiceWrite, vehicles
    <3>2. km = req[c].snap.mileage
      BY <2>1, <2>2, <2>5, GarageAssumption DEF CarRow, Km
    <3> QED  BY <2>1, <2>3, <3>1, <3>2 DEF MileageOps
  <2> QED  BY <2>4, <2>5
<1>7. CASE DeleteCarWrite(c)
  <2>1. /\ car' = [car EXCEPT ![k] = Deleted] /\ service' = service
        /\ reading' \subseteq reading
    BY <1>7 DEF DeleteCarWrite, workshop
  <2>2. \A l \in Rows(car') : l \in Rows(car) /\ car'[l] = car[l]
    BY <1>1, <2>1 DEF Rows
  <2> QED  BY <2>1, <2>2
<1>8. CASE \/ CreateCenterWrite(c) \/ PatchCenterWrite(c) \/ DeleteCenterWrite(c)
           \/ CreateMechanicWrite(c) \/ PatchMechanicWrite(c) \/ DeleteMechanicWrite(c)
           \/ AddConditionPhotoWrite(c) \/ CreateReviewWrite(c)
  <2>1. UNCHANGED <<car, reading, service>>
    BY <1>8 DEF CreateCenterWrite, PatchCenterWrite, DeleteCenterWrite,
       CreateMechanicWrite, PatchMechanicWrite, DeleteMechanicWrite,
       AddConditionPhotoWrite, CreateReviewWrite, vehicles
  <2> QED  BY <2>1
<1>9. CASE \/ StartTripWrite(c) \/ AppendPointsWrite(c) \/ FinishTripWrite(c)
           \/ BuyPolicyWrite(c) \/ CreatePolicyWrite(c)
  <2>1. UNCHANGED <<car, reading, service>>
    BY <1>9 DEF StartTripWrite, AppendPointsWrite, FinishTripWrite,
       BuyPolicyWrite, CreatePolicyWrite, vehicles, workshop
  <2> QED  BY <2>1
<1> QED
  BY <1>2, <1>3, <1>5, <1>6, <1>7, <1>8, <1>9 DEF WriteStep

\* A write ends a request that was in flight.
LEMMA WriterInFlight ==
  ASSUME Tables, NEW c \in Clients, WriteStep(c)
  PROVE  c \in InFlight /\ req'[c] = Idle
<1>1. req[c] # Idle
  BY WriterHolds
<1>2. req' = [req EXCEPT ![c] = Idle] /\ DOMAIN req = Clients
  BY WritesEnd DEF Tables
<1> QED  BY <1>1, <1>2 DEF InFlight

\* The odometer falls only by a request that read another mileage than the
\* one it overwrites.
THEOREM FallsTakeAStaleRead == Spec => OdometerFallsOnStaleRead
<1> DEFINE Falls ==
      \A k \in Rows(car) :
        (car'[k] \notin {Null, Deleted} /\ car'[k].mileage < car[k].mileage) =>
          \E c \in InFlight : /\ req[c].key = k /\ req'[c] = Idle
                              /\ req[c].snap.mileage # car[k].mileage
<1>1. ASSUME Tables, [Next]_vars  PROVE [Falls]_vars
  <2>1. SUFFICES ASSUME NEW k \in Rows(car), car'[k] \notin {Null, Deleted},
                        car'[k].mileage < car[k].mileage
                 PROVE  \E c \in InFlight : /\ req[c].key = k /\ req'[c] = Idle
                                            /\ req[c].snap.mileage # car[k].mileage
    OBVIOUS
  <2>2. TypeOK /\ k \in Cars /\ car[k] \in CarRow /\ car[k].mileage \in Nat
    BY <1>1, RowsAre, GarageAssumption DEF Tables, CarRow, Km
  <2>3. car' # car
    BY <2>1, <2>2
  <2>4. PICK c \in Clients : WriteStep(c)
    BY <1>1, <2>3, StepCases, ReadsOnly DEF Reads, Abort, vars, tables, vehicles
  <2>5. TypeOK' /\ RequestOK(c) /\ c \in InFlight /\ req'[c] = Idle
    BY <1>1, <2>4, WriteStays, WriterInFlight DEF Tables
  <2>6. k \in Rows(car')
    BY <2>1, <2>2, <2>5 DEF Rows, TypeOK
  <2>7. /\ req[c].op \in MileageOps /\ req[c].key = k
        /\ car'[k].mileage = Wanted(req[c]) /\ Wanted(req[c]) # Null
    BY <1>1, <2>1, <2>2, <2>4, <2>6, MileageWrites DEF Rows
  <2>8. /\ Wanted(req[c]) >= req[c].snap.mileage /\ req[c].snap.mileage \in Nat
    BY <2>5, <2>7, GarageAssumption DEF RequestOK, InFlight, CarRow, Km
  <2>9. car'[k].mileage \in Nat
    BY <2>5, <2>1, <2>2, GarageAssumption DEF TypeOK, CarRow, Km
  <2>10. req[c].snap.mileage # car[k].mileage
    BY <2>1, <2>2, <2>7, <2>8, <2>9
  <2> QED  BY <2>5, <2>7, <2>10
<1>2. Tables /\ [Next]_vars => [Falls]_vars
  BY <1>1
<1> QED  BY <1>2, TablesInvariant, PTL DEF Spec, OdometerFallsOnStaleRead

\* A car that no two requests had in hand at once shows at least every
\* mileage recorded of it.
THEOREM OdometerStaysOnTop == Spec => []OdometerTopsHistory
<1>1. ASSUME Init  PROVE OdometerTopsHistory
  <2> DEFINE x == CHOOSE y \in Cars : TRUE
  <2>1. /\ car[x].mileage = 1 /\ \A r \in reading : r.car = x /\ r.value = 1
        /\ service = {}
    BY <1>1, PopulatedAssumption DEF Init
  <2> HIDE DEF x
  <2> QED  BY <2>1 DEF OdometerTopsHistory
<1>2. ASSUME Tables, InHand, ReferencesAgree, OdometerTopsHistory,
             NEW c \in Clients, WriteStep(c)
      PROVE  OdometerTopsHistory'
  <2>1. SUFFICES ASSUME NEW k \in Rows(car'), k \notin crossed
                 PROVE  /\ \A r \in reading' : r.car = k => r.value <= car'[k].mileage
                        /\ \A s \in service' : s.car = k =>
                             s.mileage_at_intake <= car'[k].mileage
    BY <1>2, WritesEnd DEF OdometerTopsHistory, Rows
  <2> DEFINE key == req[c].key
             km == Wanted(req[c])
             grows(v) == /\ \A r \in reading' \ reading : r.car = key /\ r.value = v
                         /\ \A s \in service' \ service :
                              s.car = key /\ s.mileage_at_intake = v
  <2>2. /\ TypeOK /\ TypeOK' /\ RequestOK(c) /\ StillCurrent(c) /\ req[c] # Idle
        /\ k \in Cars /\ car'[k] \in CarRow
    BY <1>2, <2>1, WriteStays, WriterInFlight DEF Tables, InHand, InFlight, Rows, TypeOK
  <2>3. /\ \A r \in reading \cup reading' : r.value \in Nat
        /\ \A s \in service \cup service' : s.mileage_at_intake \in Nat
        /\ car'[k].mileage \in Nat
        /\ \A r \in reading : r.car \in Rows(car)
        /\ \A s \in service : s.car \in Rows(car)
    BY <1>2, <2>2, GarageAssumption
    DEF TypeOK, MileageReading, Service, CarRow, Km, ReferencesAgree
  <2>4. /\ k \in Rows(car) =>
             /\ car[k].mileage \in Nat
             /\ \A r \in reading : r.car = k => r.value <= car[k].mileage
             /\ \A s \in service : s.car = k => s.mileage_at_intake <= car[k].mileage
    BY <1>2, <2>1, <2>2, RowsAre, GarageAssumption DEF OdometerTopsHistory, CarRow, Km
  <2>5. CASE /\ key \in Cars /\ car[key] = Null /\ car'[key] \in CarRow
             /\ grows(car'[key].mileage) /\ service' = service
             /\ \A l \in Cars \ {key} : car'[l] = car[l]
    <3>1. CASE k = key
      <4>1. key \notin Rows(car)
        BY <2>5 DEF Rows
      <4> QED  BY <2>3, <2>5, <3>1, <4>1
    <3>2. CASE k # key
      <4>1. k \in Rows(car) /\ car'[k] = car[k]
        BY <2>1, <2>2, <2>5, <3>2 DEF Rows, TypeOK
      <4> QED  BY <2>4, <2>5, <3>2, <4>1
    <3> QED  BY <3>1, <3>2
  <2>6. CASE /\ req[c].op \in MileageOps /\ key \in Rows(car) /\ car'[key] \in CarRow
             /\ \A l \in Cars \ {key} : car'[l] = car[l]
             /\ \/ /\ car'[key].mileage = car[key].mileage /\ km = Null
                   /\ UNCHANGED <<reading, service>>
                \/ car'[key].mileage = km /\ km # Null /\ grows(km)
                \/ /\ car'[key].mileage = car[key].mileage /\ km = req[c].snap.mileage
                   /\ grows(km)
    <3>1. CASE k = key
      <4>1. car[k].mileage = req[c].snap.mileage
        BY <2>1, <2>2, <2>6, <3>1 DEF StillCurrent
      <4>2. km # Null => km >= req[c].snap.mileage
        BY <2>2, <2>6 DEF RequestOK
      <4>3. car'[k].mileage >= car[k].mileage /\ (~(km = Null /\ UNCHANGED <<reading, service>>) => car'[k].mileage = km)
        BY <2>3, <2>4, <2>6, <3>1, <4>1, <4>2
      <4>4. \A r \in reading' : r.car = k => r.value <= car'[k].mileage
        BY <2>3, <2>4, <2>6, <3>1, <4>3
      <4>5. \A s \in service' : s.car = k => s.mileage_at_intake <= car'[k].mileage
        BY <2>3, <2>4, <2>6, <3>1, <4>3
      <4> QED  BY <4>4, <4>5
    <3>2. CASE k # key
      <4>1. k \in Rows(car) /\ car'[k] = car[k]
        BY <2>1, <2>2, <2>6, <3>2 DEF Rows, TypeOK
      <4> QED  BY <2>4, <2>6, <3>2, <4>1
    <3> QED  BY <3>1, <3>2
  <2>7. CASE /\ \A l \in Rows(car') : l \in Rows(car) /\ car'[l] = car[l]
             /\ reading' \subseteq reading /\ service' = service
    BY <2>1, <2>4, <2>7
  <2> QED  BY <1>2, <2>5, <2>6, <2>7, MileageWrites, Zenon
<1>3. ASSUME Tables, InHand, ReferencesAgree, OdometerTopsHistory, [Next]_vars
      PROVE  OdometerTopsHistory'
  <2>1. CASE UNCHANGED tables /\ crossed \subseteq crossed'
    BY <1>3, <2>1 DEF OdometerTopsHistory, Rows, tables, vehicles, workshop
  <2>2. CASE \E c \in Clients : WriteStep(c)
    BY <1>2, <1>3, <2>2
  <2> QED  BY <1>3, <2>1, <2>2, StepCases, ReadsOnly DEF Reads, Abort, vars
<1>4. Tables /\ InHand /\ ReferencesAgree /\ OdometerTopsHistory /\ [Next]_vars
        => OdometerTopsHistory'
  BY <1>3
<1> QED
  BY <1>1, <1>4, InHandInvariant, ReferencesStayGood, PTL DEF Spec

-----------------------------------------------------------------------------
(***************************************************************************)
(* Trips.                                                                  *)
(***************************************************************************)
\* The summary of a finished trip counts its points.
THEOREM SummariesCount == Spec => []FinishedTripIsCounted
<1>1. ASSUME Init  PROVE FinishedTripIsCounted
  BY <1>1 DEF Init, FinishedTripIsCounted, Rows
<1>2. ASSUME Tables, InHand, FinishedTripIsCounted, NEW c \in Clients, WriteStep(c)
      PROVE  FinishedTripIsCounted'
  <2>1. SUFFICES ASSUME NEW t \in Rows(trip')
                 PROVE  /\ trip'[t].counted \subseteq trip'[t].points
                        /\ ~trip'[t].finished => trip'[t].counted = {}
                        /\ (trip'[t].finished /\ t \notin crossed) =>
                             trip'[t].counted = Distance(trip'[t].points)
    BY <1>2, WritesEnd DEF FinishedTripIsCounted, Rows
  <2>2. /\ TypeOK /\ TypeOK' /\ RequestOK(c) /\ StillCurrent(c) /\ req[c] # Idle
        /\ t \in Trips /\ trip \in [Trips -> Trip \cup {Null}]
        /\ trip' \in [Trips -> Trip \cup {Null}]
    BY <1>2, <2>1, WriteStays, WriterInFlight DEF Tables, InHand, InFlight, Rows, TypeOK
  <2>3. t \in Rows(trip) =>
          /\ trip[t] \in Trip
          /\ trip[t].counted \subseteq trip[t].points
          /\ ~trip[t].finished => trip[t].counted = {}
          /\ (trip[t].finished /\ t \notin crossed) =>
               trip[t].counted = Distance(trip[t].points)
    BY <1>2, <2>2, RowsAre DEF FinishedTripIsCounted
  <2>4. ASSUME t \in Rows(trip), trip'[t].points = trip[t].points,
               trip'[t].finished = trip[t].finished, trip'[t].counted = trip[t].counted
        PROVE  /\ trip'[t].counted \subseteq trip'[t].points
               /\ ~trip'[t].finished => trip'[t].counted = {}
               /\ (trip'[t].finished /\ t \notin crossed) =>
                    trip'[t].counted = Distance(trip'[t].points)
    BY <2>3, <2>4
  <2>5. CASE StartTripWrite(c)
    <3>1. CASE t = req[c].key
      <4>1. trip'[t].points = {} /\ trip'[t].counted = {} /\ trip'[t].finished = FALSE
        BY <2>2, <2>5, <3>1 DEF StartTripWrite
      <4> QED  BY <4>1
    <3>2. CASE t # req[c].key
      BY <2>1, <2>2, <2>4, <2>5, <3>2 DEF StartTripWrite, Rows
    <3> QED  BY <3>1, <3>2
  <2>6. CASE AppendPointsWrite(c)
    <3>1. CASE t = req[c].key
      <4>1. /\ trip[t] \in Trip
            /\ trip'[t].points = trip[t].points \cup ({req[c].id} \X (1 .. req[c].args.batch))
            /\ trip'[t].counted = trip[t].counted
            /\ trip'[t].finished = trip[t].finished
        BY <2>2, <2>6, <3>1 DEF AppendPointsWrite, Writes, RequestOK, TripOps, Trip
      <4>2. t \notin crossed => ~trip[t].finished
        BY <2>2, <2>6, <3>1 DEF AppendPointsWrite, Writes, StillCurrent
      <4>3. t \in Rows(trip)
        BY <2>2, <4>1, RowsAre
      <4> QED  BY <2>3, <4>1, <4>2, <4>3
    <3>2. CASE t # req[c].key
      BY <2>1, <2>2, <2>4, <2>6, <3>2 DEF AppendPointsWrite, Rows
    <3> QED  BY <3>1, <3>2
  <2>7. CASE FinishTripWrite(c)
    <3>1. CASE t = req[c].key
      <4> DEFINE d == Distance(req[c].snap.points)
      <4>1. trip[t] \in Trip /\ req[c].op = "finish_trip"
        BY <2>2, <2>7, <3>1 DEF FinishTripWrite, Writes, RequestOK
      <4>2. trip' = [trip EXCEPT ![t] =
                       [trip[t] EXCEPT !.finished = TRUE,
                                       !.counted = IF d # {} THEN d ELSE trip[t].counted]]
        BY <2>7, <3>1, <4>1 DEF FinishTripWrite
      <4>3. d \subseteq req[c].snap.points
        BY DEF Distance
      <4>4. /\ req[c].snap.points \subseteq trip[t].points
            /\ t \notin crossed => /\ ~trip[t].finished
                                   /\ req[c].snap.points = trip[t].points
        BY <2>2, <3>1, <4>1 DEF RequestOK, StillCurrent
      <4>5. t \notin crossed => d = Distance(trip[t].points)
        BY <4>4
      <4> HIDE DEF d
      <4>6. /\ trip'[t].finished = TRUE /\ trip'[t].points = trip[t].points
            /\ trip'[t].counted = IF d # {} THEN d ELSE trip[t].counted
        BY <2>2, <4>1, <4>2 DEF Trip
      <4>7. t \in Rows(trip)
        BY <2>2, <4>1, RowsAre
      <4> QED  BY <2>3, <4>3, <4>4, <4>5, <4>6, <4>7
    <3>2. CASE t # req[c].key
      BY <2>1, <2>2, <2>4, <2>7, <3>2 DEF FinishTripWrite, Rows
    <3> QED  BY <3>1, <3>2
  <2>8. CASE DeleteCarWrite(c)
    <3>1. trip' = [x \in Trips |-> IF x \in Rows(trip) /\ trip[x].car = req[c].key
                                   THEN [trip[x] EXCEPT !.car = Null] ELSE trip[x]]
      BY <2>8 DEF DeleteCarWrite
    <3>2. t \in Rows(trip)
      BY <2>1, <2>2, <3>1 DEF Rows
    <3>3. trip[t] \in Trip
      BY <2>3, <3>2
    <3>4. /\ trip'[t].points = trip[t].points /\ trip'[t].counted = trip[t].counted
          /\ trip'[t].finished = trip[t].finished
      BY <2>2, <3>1, <3>3 DEF Trip
    <3> QED  BY <2>4, <3>2, <3>4
  <2>9. CASE UNCHANGED trip
    BY <2>1, <2>4, <2>9
  <2>10. \/ StartTripWrite(c) \/ AppendPointsWrite(c) \/ FinishTripWrite(c)
         \/ DeleteCarWrite(c) \/ UNCHANGED trip
    BY <1>2 DEF WriteStep, CreateCarWrite, PatchCarWrite, RecordMileageWrite,
       CreateCenterWrite, PatchCenterWrite, DeleteCenterWrite, CreateMechanicWrite,
       PatchMechanicWrite, DeleteMechanicWrite, CreateServiceWrite,
       AddConditionPhotoWrite, CreateReviewWrite, BuyPolicyWrite, CreatePolicyWrite,
       journeys
  <2> QED  BY <2>5, <2>6, <2>7, <2>8, <2>9, <2>10
<1>3. ASSUME Tables, InHand, FinishedTripIsCounted, [Next]_vars
      PROVE  FinishedTripIsCounted'
  <2>1. CASE UNCHANGED tables /\ crossed \subseteq crossed'
    BY <1>3, <2>1 DEF FinishedTripIsCounted, Rows, tables, journeys, Distance
  <2>2. CASE \E c \in Clients : WriteStep(c)
    BY <1>2, <1>3, <2>2
  <2> QED  BY <1>3, <2>1, <2>2, StepCases, ReadsOnly DEF Reads, Abort, vars
<1>4. Tables /\ InHand /\ FinishedTripIsCounted /\ [Next]_vars => FinishedTripIsCounted'
  BY <1>3
<1> QED  BY <1>1, <1>4, InHandInvariant, PTL DEF Spec
=============================================================================
