------------------------------ MODULE Vehicles ------------------------------
(***************************************************************************)
(* Cars, their plates and VINs, and their mileage: app/modules/cars and    *)
(* app/core/plate.py.                                                      *)
(***************************************************************************)
EXTENDS GarageTables

(***************************************************************************)
(* Plates.  What a client types is a plate and whether it is spelled the   *)
(* way it is stored (upper case, no separators).                           *)
(***************************************************************************)
RawPlates == Plates \X {"canonical", "spaced"}
NormalizePlate(raw) == raw[1]
DetectPlateType(plate) == Shape[plate]

\* The string compared with the column as the client spelled it.
SpelledAs(raw, plate) == raw = <<plate, "canonical">>

\* The validator of plate runs before plate_type is known, so a declared
\* type is not compared with the plate.
NormPlateWithType(raw) == NormalizePlate(raw)

CarCreateIn ==
  [plate : RawPlates, plate_type : PlateTypes \cup {Null},
   vin : Vins \cup {Null}, mileage : Km]

\* Null: the field is not in the body, or is null, which update_fields drops.
CarPatchIn ==
  [plate : RawPlates \cup {Null}, plate_type : PlateTypes \cup {Null},
   vin : Vins \cup {Null}, mileage : Km \cup {Null}]

MileageReadingIn == Km

\* Bound: the bodies that clients send.
CONSTANTS CarBodies, CarPatches

ASSUME BodiesAssumption ==
  /\ CarBodies \subseteq CarCreateIn
  /\ CarPatches \subseteq CarPatchIn

-----------------------------------------------------------------------------
(***************************************************************************)
(* The cars table.                                                         *)
(***************************************************************************)
ByPlate(plate) == {k \in Rows(car) : car[k].plate = plate}
ByVin(vin) == {k \in Rows(car) : car[k].vin = vin /\ vin # Null}

\* The unique keys of the table, met by the row of k becoming row.
UniqueKeysAllow_PlateOnly(k, row) == ByPlate(row.plate) \subseteq {k}

UniqueKeysAllow(k, row) ==
  ByPlate(row.plate) \cup ByVin(row.vin) \subseteq {k}

CheckUniquePlate(plate, ignore) == ByPlate(plate) \subseteq ignore
CheckUniqueVin(vin, ignore) == ByVin(vin) \subseteq ignore

Owned(k, u) == k \in Rows(car) /\ car[k].owner = u

\* The row after an UPDATE of the columns the body names; None is dropped.
UpdateFields_KeepsNone(old, args) ==
  LET set(column, value) == IF value = Null THEN old[column] ELSE value IN
  [old EXCEPT !.plate = IF args.plate = Null THEN @ ELSE NormalizePlate(args.plate),
              !.plate_type = args.plate_type,
              !.vin = set("vin", args.vin),
              !.mileage = set("mileage", args.mileage)]

UpdateFields(old, args) ==
  LET set(column, value) == IF value = Null THEN old[column] ELSE value IN
  [old EXCEPT !.plate = IF args.plate = Null THEN @ ELSE NormalizePlate(args.plate),
              !.plate_type = set("plate_type", args.plate_type),
              !.vin = set("vin", args.vin),
              !.mileage = set("mileage", args.mileage)]

Append(k, value, source, id) ==
  reading \cup {[car |-> k, value |-> value, source |-> source, by |-> id]}

-----------------------------------------------------------------------------
(***************************************************************************)
(* POST /cars                                                              *)
(***************************************************************************)
CreateCarRead(c) ==
  /\ Ready(c, "create_car")
  /\ \E u \in CurrentCustomer, k \in Cars, args \in CarBodies :
       /\ car[k] = Null
       /\ CheckUniquePlate(NormPlateWithType(args.plate), {})
       /\ CheckUniqueVin(args.vin, {})
       /\ Reads(c, "create_car", u, k, args, Null)

NewCar(u, args) ==
  LET plate == NormPlateWithType(args.plate) IN
  [owner |-> u, plate |-> plate,
   plate_type |-> IF args.plate_type # Null THEN args.plate_type
                  ELSE DetectPlateType(plate),
   vin |-> args.vin, mileage |-> args.mileage]

\* The initial mileage seeds the history.
CreateCarWrite(c) ==
  LET f == req[c]  row == NewCar(f.user, f.args) IN
  /\ Writes(c, "create_car")
  /\ car[f.key] = Null /\ UniqueKeysAllow(f.key, row)
  /\ car' = [car EXCEPT ![f.key] = row]
  /\ reading' = IF row.mileage > 0
                THEN Append(f.key, row.mileage, "user", f.id) ELSE reading
  /\ UNCHANGED <<workshop, journeys, insurance>>

(***************************************************************************)
(* PATCH /cars/{id}                                                        *)
(***************************************************************************)
PatchCarRead_AnyMileage(c) ==
  /\ Ready(c, "patch_car")
  /\ \E u \in CurrentCustomer, k \in Cars, args \in CarPatches :
       /\ Owned(k, u)
       /\ args.plate # Null => CheckUniquePlate(NormPlateWithType(args.plate), {k})
       /\ CheckUniqueVin(args.vin, {k})
       /\ Reads(c, "patch_car", u, k, args, car[k])

PatchCarRead(c) ==
  /\ Ready(c, "patch_car")
  /\ \E u \in CurrentCustomer, k \in Cars, args \in CarPatches :
       /\ Owned(k, u)
       /\ args.plate # Null => CheckUniquePlate(NormPlateWithType(args.plate), {k})
       /\ CheckUniqueVin(args.vin, {k})
       /\ args.mileage # Null => args.mileage >= car[k].mileage
       /\ Reads(c, "patch_car", u, k, args, car[k])

\* The UPDATE also sets the columns of the car this request holds in memory,
\* so the comparison after it finds the new mileage there already and no
\* reading is appended.
PatchCarWrite(c) ==
  LET f == req[c] IN
  /\ Writes(c, "patch_car")
  /\ f.key \in Rows(car)
  /\ LET row == UpdateFields(car[f.key], f.args) IN
     /\ UniqueKeysAllow(f.key, row)
     /\ car' = [car EXCEPT ![f.key] = row]
  /\ UNCHANGED <<reading, workshop, journeys, insurance>>

(***************************************************************************)
(* POST /cars/{id}/mileage.  The value read already is a no-op.            *)
(***************************************************************************)
RecordMileageRead(c) ==
  /\ Ready(c, "record_mileage")
  /\ \E u \in CurrentCustomer, k \in Cars, value \in MileageReadingIn :
       /\ Owned(k, u)
       /\ value > car[k].mileage
       /\ Reads(c, "record_mileage", u, k, [value |-> value], car[k])

RecordMileageWrite(c) ==
  LET f == req[c] IN
  /\ Writes(c, "record_mileage")
  /\ f.key \in Rows(car)
  /\ car' = [car EXCEPT ![f.key].mileage = f.args.value]
  /\ reading' = Append(f.key, f.args.value, "user", f.id)
  /\ UNCHANGED <<workshop, journeys, insurance>>

(***************************************************************************)
(* DELETE /cars/{id}: readings go with the car, trips forget it, services  *)
(* and policies keep it from going.                                        *)
(***************************************************************************)
DeleteCarRead(c) ==
  /\ Ready(c, "delete_car")
  /\ \E u \in CurrentCustomer, k \in Cars :
       /\ Owned(k, u)
       /\ Reads(c, "delete_car", u, k, Null, car[k])

Restricted_ByPolicies(k) == \E p \in policy : p.car = k

Restricted(k) ==
  \/ \E s \in service : s.car = k
  \/ \E p \in policy : p.car = k

DeleteCarWrite(c) ==
  LET k == req[c].key IN
  /\ Writes(c, "delete_car")
  /\ ~Restricted(k)
  /\ car' = [car EXCEPT ![k] = Deleted]
  /\ reading' = {r \in reading : r.car # k}
  /\ trip' = [t \in Trips |-> IF t \in Rows(trip) /\ trip[t].car = k
                              THEN [trip[t] EXCEPT !.car = Null] ELSE trip[t]]
  /\ UNCHANGED <<workshop, insurance>>

CreateCar(c) == CreateCarRead(c) \/ CreateCarWrite(c)
PatchCar(c) == PatchCarRead(c) \/ PatchCarWrite(c)
PostMileage(c) == RecordMileageRead(c) \/ RecordMileageWrite(c)
DeleteCar(c) == DeleteCarRead(c) \/ DeleteCarWrite(c)

VehiclesNext(c) == CreateCar(c) \/ PatchCar(c) \/ PostMileage(c) \/ DeleteCar(c)
=============================================================================
