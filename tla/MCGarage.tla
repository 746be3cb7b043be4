------------------------------ MODULE MCGarage ------------------------------
(***************************************************************************)
(* Small instances of Garage for TLC.                                      *)
(***************************************************************************)
EXTENDS Garage, TLC

CONSTANTS p1, p2, owner, admin, roster, z1, v1

Roles == [u \in Staff |-> IF u = owner THEN "owner"
                          ELSE IF u = admin THEN "admin" ELSE "mechanic"]
Homes == [u \in Staff |-> IF u = roster THEN z1 ELSE Null]
Shapes == [p \in Plates |-> IF p = p1 THEN "standard" ELSE "legal"]

\* A new car without and with a mileage, with a VIN, with a declared type
\* that is not the plate's, on either plate.
Bodies ==
  {[plate |-> <<p1, "spaced">>, plate_type |-> Null, vin |-> v1, mileage |-> 0],
   [plate |-> <<p2, "canonical">>, plate_type |-> "other", vin |-> Null, mileage |-> 1],
   [plate |-> <<p2, "spaced">>, plate_type |-> Null, vin |-> v1, mileage |-> 2]}

Patch == [plate |-> Null, plate_type |-> Null, vin |-> Null, mileage |-> Null]

\* One column at a time, and a plate with a type and a mileage.
Patches ==
  {[Patch EXCEPT !.mileage = km] : km \in Km}
    \cup {[Patch EXCEPT !.plate = <<p, "canonical">>] : p \in Plates}
    \cup {[Patch EXCEPT !.vin = v1],
          [Patch EXCEPT !.plate = <<p2, "spaced">>, !.plate_type = "legal", !.mileage = 1]}

\* Which requests meet: those that share rows.
Identity == {"create_car", "patch_car"}
Mileage == {"patch_car", "record_mileage", "create_service"}
References == {"delete_car", "create_service", "start_trip", "buy_policy",
               "create_policy"}
Tracks == {"start_trip", "append_points", "finish_trip"}
Places == {"create_center", "patch_center", "delete_center", "create_service"}
Roster == {"delete_center", "create_mechanic", "patch_mechanic",
           "delete_mechanic"}
Evidence == {"create_service", "add_photo", "create_review"}
AllScenes == {Identity, Mileage, References, Tracks, Places, Roster,
              Evidence}
MileageScene == {Mileage}

\* Nothing tells two requests in flight apart.
Symmetric == Permutations(Clients)
=============================================================================
