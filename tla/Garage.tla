------------------------------- MODULE Garage -------------------------------
(***************************************************************************)
(* Vehicles, Workshop and Journeys over one database, and what must hold   *)
(* between their tables.                                                   *)
(***************************************************************************)
EXTENDS Journeys

ASSUME PopulatedAssumption ==
  /\ {} \notin {Cars, Customers, Plates, Trips, Mechanics, Logins}
  /\ \E x, y \in Centers : x # y
  /\ \E o \in Staff : Role[o] = "owner"
  /\ MaxKm >= 1

\* A populated database: a customer's car as create leaves it, the centres of
\* an owner, all but one, with a mechanic, a trip under way.
Init ==
  LET k == CHOOSE x \in Cars : TRUE
      u == CHOOSE x \in Customers : TRUE
      p == CHOOSE x \in Plates : TRUE
      t == CHOOSE x \in Trips : TRUE
      z == CHOOSE x \in Centers : TRUE
      free == CHOOSE x \in Centers : x # z
      o == CHOOSE x \in Staff : Role[x] = "owner"
      m == CHOOSE x \in Mechanics : TRUE
      login == CHOOSE x \in Logins : TRUE
      only(x, table, row) == [y \in table |-> IF y = x THEN row ELSE Null]
  IN
  /\ car = only(k, Cars, [owner |-> u, plate |-> p, plate_type |-> Shape[p],
                          vin |-> Null, mileage |-> 1])
  /\ reading = {[car |-> k, value |-> 1, source |-> "user", by |-> 0]}
  /\ center = [x \in Centers |-> IF x = free THEN Null
                                 ELSE [owner |-> o, edited |-> 0]]
  /\ mechanic = only(m, Mechanics, [center |-> z, login |-> login,
                                    deleted |-> FALSE, edited |-> 0])
  /\ trip = only(t, Trips, [user |-> u, car |-> k, finished |-> FALSE,
                            points |-> {}, counted |-> {}])
  /\ service = {} /\ photo = {} /\ review = {} /\ tariff = {} /\ policy = {}
  /\ req = [c \in Clients |-> Idle]
  /\ arrived = 0 /\ crossed = {}
  /\ scene \in Scenes

Next ==
  \E c \in Clients : VehiclesNext(c) \/ WorkshopNext(c) \/ JourneysNext(c)
                       \/ Abort(c)

Spec == Init /\ [][Next]_vars

-----------------------------------------------------------------------------
\* Every table holds rows of its kind.
TypeOK ==
  /\ car \in [Cars -> CarRow \cup {Null, Deleted}]
  /\ reading \subseteq MileageReading
  /\ center \in [Centers -> CenterRow \cup {Null, Deleted}]
  /\ mechanic \in [Mechanics -> MechanicRow \cup {Null, Deleted}]
  /\ service \subseteq Service /\ photo \subseteq ConditionImage
  /\ review \subseteq Review
  /\ trip \in [Trips -> Trip \cup {Null}]
  /\ tariff \subseteq {"default"} /\ policy \subseteq InsurancePolicy
  /\ arrived \in 0 .. MaxReq

\* No reading, service, policy, trip, photo or mechanic names a row that is
\* not there, however deletions of cars and centres meet the requests that
\* refer to them; and the mechanic of a service works at its centre.  (A
\* review may name a centre that is gone: it has no foreign key.)
ReferencesAgree ==
  /\ \A r \in reading : r.car \in Rows(car)
  /\ \A s \in service :
       /\ s.car \in Rows(car) /\ s.center \in Rows(center)
       /\ s.mechanic # Null => /\ s.mechanic \in Rows(mechanic)
                               /\ mechanic[s.mechanic].center = s.center
  /\ \A p \in policy : p.car \in Rows(car) /\ p.tariff \in tariff
  /\ \A t \in Rows(trip) : trip[t].car # Null => trip[t].car \in Rows(car)
  /\ \A p \in photo : \E s \in service : s.id = p.service
  /\ \A m \in Rows(mechanic) : mechanic[m].center \in Rows(center)

\* "One plate, one car", and the same for VINs and logins, also for requests
\* that looked for the key before any of them inserted it.
KeysAreUnique ==
  /\ \A k, l \in Rows(car) : k # l => /\ car[k].plate # car[l].plate
                                      /\ car[k].vin # Null => car[k].vin # car[l].vin
  /\ \A m, n \in Rows(mechanic) :
       m # n => mechanic[m].login # mechanic[n].login

\* "Mileage is monotonically non-decreasing per car": while no two requests
\* had the car in hand at once, it shows at least every mileage ever recorded
\* of it, in its history or at an intake.
OdometerTopsHistory ==
  \A k \in Rows(car) \ crossed :
    /\ \A r \in reading : r.car = k => r.value <= car[k].mileage
    /\ \A s \in service : s.car = k => s.mileage_at_intake <= car[k].mileage

\* Even when requests overlap, the odometer falls only by a request that
\* read another mileage than the one it overwrites.
OdometerFallsOnStaleRead ==
  [][\A k \in Rows(car) :
       (car'[k] \notin {Null, Deleted} /\ car'[k].mileage < car[k].mileage) =>
         \E c \in InFlight : /\ req[c].key = k /\ req'[c] = Idle
                             /\ req[c].snap.mileage # car[k].mileage]_vars

\* The summary of a trip counts all of its points, unless requests for the
\* trip overlapped; it never counts a point the trip does not have, and a
\* trip under way has none yet.
FinishedTripIsCounted ==
  \A t \in Rows(trip) :
    /\ trip[t].counted \subseteq trip[t].points
    /\ ~trip[t].finished => trip[t].counted = {}
    /\ (trip[t].finished /\ t \notin crossed) =>
         trip[t].counted = Distance(trip[t].points)

\* Whoever may ask for a queue, or owns the car or the services asked for,
\* gets an answer: the rule for the list and the rule for each service in it,
\* written in two modules, agree, so that no single service turns the list
\* into a 403.  (Of staff this holds for queues only: see the README.)
ListsAreAnswered ==
  /\ \A u \in CurrentStaff, z \in Centers :
       AssertOpsAccess(u, z) => ListCenterServices(u, z)
  /\ \A u \in CurrentCustomer : ListMyServices(u)
  /\ \A u \in CurrentCustomer, k \in Rows(car) :
       Owned(k, u) => ListVehicleHistory(u, k)

-----------------------------------------------------------------------------
(***************************************************************************)
(* What a comment claims and the code does not do.                         *)
(***************************************************************************)
\* "Every time a Car.mileage is updated, a row is appended here."
EveryUpdateAppends ==
  [][\A k \in Rows(car) :
       (car'[k] \notin {Null, Deleted} /\ car'[k].mileage # car[k].mileage) =>
         \E r \in reading' \ reading : r.car = k /\ r.value = car'[k].mileage]_vars
=============================================================================
