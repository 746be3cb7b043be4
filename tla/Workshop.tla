------------------------------ MODULE Workshop ------------------------------
(***************************************************************************)
(* The workshop's side: service centres, their mechanics, and opening a    *)
(* service on a car; condition photos and reviews of the work.  What       *)
(* happens to an open service afterwards is module ServiceDesk.            *)
(***************************************************************************)
EXTENDS Vehicles

OwnsCenter(u, z) == z \in Rows(center) /\ center[z].owner = u
IsAdmin(u) == Role[u] = "admin"

\* users.id exists for the caller: a roster mechanic's token names a
\* mechanics row instead, and the foreign keys to users refuse it.
HasUserRow(u) == Role[u] # "mechanic"

-----------------------------------------------------------------------------
(***************************************************************************)
(* Who may do what.                                                        *)
(***************************************************************************)
\* service_centers/service.py, _assert_can_mutate and assert_ops_access.
MayMutateCenter(u, z) == z \in Rows(center) /\ (IsAdmin(u) \/ OwnsCenter(u, z))

AssertOpsAccess(u, z) ==
  /\ z \in Rows(center)
  /\ IsAdmin(u) \/ OwnsCenter(u, z) \/ (Role[u] = "mechanic" /\ Home[u] = z)

\* mechanics/service.py, _assert_center_admin.
AssertCenterAdmin(u, z) == z \in Rows(center) /\ (IsAdmin(u) \/ OwnsCenter(u, z))

\* services/service.py, _assert_can_mutate and assert_view_access.
AssertCanMutate_ByOwnership(u, s) == IsAdmin(u) \/ OwnsCenter(u, s.center)

AssertCanMutate(u, s) ==
  \/ IsAdmin(u)
  \/ Role[u] = "mechanic" /\ Home[u] = s.center
  \/ Role[u] = "owner" /\ OwnsCenter(u, s.center)

AssertViewAccess(u, s) ==
  \/ u \in Staff /\ AssertCanMutate(u, s)
  \/ u \in Customers /\ Owned(s.car, u)

-----------------------------------------------------------------------------
(***************************************************************************)
(* Reads of services.  A list is answered if every item of it can be       *)
(* opened: the endpoint fetches the items of each service through          *)
(* list_items, which asks for view access to that one service.             *)
(***************************************************************************)
GetForUser(u, s) == s \in service /\ AssertViewAccess(u, s)
ListItems(u, s) == GetForUser(u, s)

ServicesOfCar(k) == {s \in service : s.car = k}
ServicesOfCenter(z) == {s \in service : s.center = z}
ServicesOfUser(u) == {s \in service : Owned(s.car, u)}

ListForCar(u, k) == k \in Rows(car) /\ (u \in Staff \/ Owned(k, u))

ListVehicleHistory(u, k) ==
  ListForCar(u, k) /\ \A s \in ServicesOfCar(k) : ListItems(u, s)

ListCenterServices(u, z) ==
  AssertOpsAccess(u, z) /\ \A s \in ServicesOfCenter(z) : ListItems(u, s)

ListMyServices(u) == \A s \in ServicesOfUser(u) : ListItems(u, s)

\* GET /vehicles/lookup and the first half of an intake: the VIN first, then
\* the plate, as it was spelled.
LookupVehicle(vin, raw) ==
  IF ByVin(vin) # {} THEN ByVin(vin)
  ELSE {k \in Rows(car) : SpelledAs(raw, car[k].plate)}

-----------------------------------------------------------------------------
(***************************************************************************)
(* Service centres.                                                        *)
(***************************************************************************)
CreateCenterRead(c) ==
  /\ Ready(c, "create_center")
  /\ \E u \in CurrentOwner, z \in Centers :
       /\ center[z] = Null
       /\ Reads(c, "create_center", u, z, Null, Null)

CreateCenterWrite(c) ==
  LET f == req[c] IN
  /\ Writes(c, "create_center")
  /\ center[f.key] = Null
  /\ center' = [center EXCEPT ![f.key] = [owner |-> f.user, edited |-> 0]]
  /\ UNCHANGED <<vehicles, mechanic, service, photo, review, journeys, insurance>>

PatchCenterRead(c) ==
  /\ Ready(c, "patch_center")
  /\ \E u \in CurrentOwner, z \in Centers :
       /\ MayMutateCenter(u, z)
       /\ Reads(c, "patch_center", u, z, Null, center[z])

PatchCenterWrite(c) ==
  LET f == req[c] IN
  /\ Writes(c, "patch_center")
  /\ f.key \in Rows(center)
  /\ center' = [center EXCEPT ![f.key].edited = f.id]
  /\ UNCHANGED <<vehicles, mechanic, service, photo, review, journeys, insurance>>

DeleteCenterRead(c) ==
  /\ Ready(c, "delete_center")
  /\ \E u \in CurrentOwner, z \in Centers :
       /\ MayMutateCenter(u, z)
       /\ Reads(c, "delete_center", u, z, Null, center[z])

\* Services keep a centre from going; its mechanics go with it.
DeleteCenterWrite(c) ==
  LET z == req[c].key IN
  /\ Writes(c, "delete_center")
  /\ \A s \in service : s.center # z
  /\ center' = [center EXCEPT ![z] = Deleted]
  /\ mechanic' = [m \in Mechanics |->
                    IF m \in Rows(mechanic) /\ mechanic[m].center = z
                    THEN Deleted ELSE mechanic[m]]
  /\ UNCHANGED <<vehicles, service, photo, review, journeys, insurance>>

-----------------------------------------------------------------------------
(***************************************************************************)
(* Mechanics.  A login is looked for among those not soft-deleted; its     *)
(* unique key covers the others too.                                       *)
(***************************************************************************)
Active == {m \in Rows(mechanic) : ~mechanic[m].deleted}
GetByLogin(login) == {m \in Active : mechanic[m].login = login}
LoginKeyAllows(login) == \A m \in Rows(mechanic) : mechanic[m].login # login

CreateMechanicRead(c) ==
  /\ Ready(c, "create_mechanic")
  /\ \E u \in CurrentOwner, z \in Centers, m \in Mechanics, login \in Logins :
       /\ mechanic[m] = Null
       /\ AssertCenterAdmin(u, z)
       /\ GetByLogin(login) = {}
       /\ Reads(c, "create_mechanic", u, m, [center |-> z, login |-> login], Null)

CreateMechanicWrite(c) ==
  LET f == req[c] IN
  /\ Writes(c, "create_mechanic")
  /\ mechanic[f.key] = Null
  /\ f.args.center \in Rows(center) /\ LoginKeyAllows(f.args.login)
  /\ mechanic' = [mechanic EXCEPT ![f.key] =
                    [center |-> f.args.center, login |-> f.args.login,
                     deleted |-> FALSE, edited |-> 0]]
  /\ UNCHANGED <<vehicles, center, service, photo, review, journeys, insurance>>

OwnedMechanic(u, m) == m \in Active /\ AssertCenterAdmin(u, mechanic[m].center)

PatchMechanicRead(c) ==
  /\ Ready(c, "patch_mechanic")
  /\ \E u \in CurrentOwner, m \in Mechanics :
       /\ OwnedMechanic(u, m)
       /\ Reads(c, "patch_mechanic", u, m, Null, mechanic[m])

\* update_fields finds a row soft-deleted meanwhile, too.
PatchMechanicWrite(c) ==
  LET f == req[c] IN
  /\ Writes(c, "patch_mechanic")
  /\ f.key \in Rows(mechanic)
  /\ mechanic' = [mechanic EXCEPT ![f.key].edited = f.id]
  /\ UNCHANGED <<vehicles, center, service, photo, review, journeys, insurance>>

DeleteMechanicRead(c) ==
  /\ Ready(c, "delete_mechanic")
  /\ \E u \in CurrentOwner, m \in Mechanics :
       /\ OwnedMechanic(u, m)
       /\ Reads(c, "delete_mechanic", u, m, Null, mechanic[m])

DeleteMechanicWrite(c) ==
  LET m == req[c].key IN
  /\ Writes(c, "delete_mechanic")
  /\ mechanic' = IF m \in Rows(mechanic)
                 THEN [mechanic EXCEPT ![m].deleted = TRUE] ELSE mechanic
  /\ UNCHANGED <<vehicles, center, service, photo, review, journeys, insurance>>

-----------------------------------------------------------------------------
(***************************************************************************)
(* POST /service-centers/{id}/services and /intakes                        *)
(***************************************************************************)
ValidateMechanicForCenter(z, m) ==
  m = Null \/ (m \in Active /\ mechanic[m].center = z)

ServiceCreateIn == [center : Centers, mechanic : Mechanics \cup {Null}, mileage : Km]

ReadForService(c, u, k, args) ==
  /\ AssertOpsAccess(u, args.center)
  /\ k \in Rows(car)
  /\ args.mileage >= car[k].mileage
  /\ ValidateMechanicForCenter(args.center, args.mechanic)
  /\ Reads(c, "create_service", u, k, args, car[k])

CreateService(c) ==
  /\ Ready(c, "create_service")
  /\ \E u \in CurrentStaff, k \in Cars, args \in ServiceCreateIn :
       ReadForService(c, u, k, args)

Intake(c) ==
  /\ Ready(c, "create_service")
  /\ \E u \in CurrentStaff, vin \in Vins \cup {Null}, raw \in RawPlates :
       \E k \in LookupVehicle(vin, raw), args \in ServiceCreateIn :
         ReadForService(c, u, k, args)

\* The service with its items and first transition; then the mileage is
\* snapped onto the car if it is above the one that was read.  The caller is
\* by_user_id of the transition.  (The event is published before the commit.)
CreateServiceWrite_NoSnap(c) ==
  LET f == req[c]  a == f.args IN
  /\ Writes(c, "create_service")
  /\ HasUserRow(f.user) /\ f.key \in Rows(car) /\ a.center \in Rows(center)
  /\ service' = service \cup {[id |-> f.id, car |-> f.key, center |-> a.center,
                               mechanic |-> a.mechanic,
                               mileage_at_intake |-> a.mileage]}
  /\ UNCHANGED <<vehicles, center, mechanic, photo, review, journeys, insurance>>

CreateServiceWrite(c) ==
  LET f == req[c]  a == f.args IN
  /\ Writes(c, "create_service")
  /\ HasUserRow(f.user)
  /\ f.key \in Rows(car) /\ a.center \in Rows(center)
  /\ a.mechanic # Null => a.mechanic \in Rows(mechanic)
  /\ service' = service \cup {[id |-> f.id, car |-> f.key, center |-> a.center,
                               mechanic |-> a.mechanic,
                               mileage_at_intake |-> a.mileage]}
  /\ IF a.mileage > f.snap.mileage
     THEN /\ car' = [car EXCEPT ![f.key].mileage = a.mileage]
          /\ reading' = Append(f.key, a.mileage, "service", f.id)
     ELSE UNCHANGED vehicles
  /\ UNCHANGED <<center, mechanic, photo, review, journeys, insurance>>

-----------------------------------------------------------------------------
(***************************************************************************)
(* POST /services/{id}/condition-photos, at any status of the service, and *)
(* POST /reviews: of any centre_id, which no foreign key covers.           *)
(***************************************************************************)
AddConditionPhotoRead(c) ==
  /\ Ready(c, "add_photo")
  /\ \E u \in CurrentStaff, s \in service :
       /\ AssertCanMutate(u, s)
       /\ Reads(c, "add_photo", u, s.id, Null, Null)

AddConditionPhotoWrite(c) ==
  LET f == req[c] IN
  /\ Writes(c, "add_photo")
  /\ HasUserRow(f.user)
  /\ photo' = photo \cup {[id |-> f.id, service |-> f.key, by |-> f.user]}
  /\ UNCHANGED <<vehicles, center, mechanic, service, review, journeys, insurance>>

CreateReviewRead(c) ==
  /\ Ready(c, "create_review")
  /\ \E u \in CurrentCustomer, z \in Centers :
       Reads(c, "create_review", u, z, Null, Null)

CreateReviewWrite(c) ==
  LET f == req[c] IN
  /\ Writes(c, "create_review")
  /\ review' = review \cup {[id |-> f.id, user |-> f.user, center |-> f.key]}
  /\ UNCHANGED <<vehicles, center, mechanic, service, photo, journeys, insurance>>

CreateCenter(c) == CreateCenterRead(c) \/ CreateCenterWrite(c)
PatchCenter(c) == PatchCenterRead(c) \/ PatchCenterWrite(c)
DeleteCenter(c) == DeleteCenterRead(c) \/ DeleteCenterWrite(c)
CreateMechanic(c) == CreateMechanicRead(c) \/ CreateMechanicWrite(c)
PatchMechanic(c) == PatchMechanicRead(c) \/ PatchMechanicWrite(c)
DeleteMechanic(c) == DeleteMechanicRead(c) \/ DeleteMechanicWrite(c)
OpenService(c) == CreateService(c) \/ Intake(c) \/ CreateServiceWrite(c)
AddConditionPhoto(c) == AddConditionPhotoRead(c) \/ AddConditionPhotoWrite(c)
CreateReview(c) == CreateReviewRead(c) \/ CreateReviewWrite(c)

WorkshopNext(c) ==
  \/ CreateCenter(c) \/ PatchCenter(c) \/ DeleteCenter(c)
  \/ CreateMechanic(c) \/ PatchMechanic(c) \/ DeleteMechanic(c)
  \/ OpenService(c) \/ AddConditionPhoto(c) \/ CreateReview(c)
=============================================================================
