------------------------------ MODULE Journeys ------------------------------
(***************************************************************************)
(* Trips and insurance: app/modules/trips and app/modules/insurance.       *)
(***************************************************************************)
EXTENDS Workshop

(***************************************************************************)
(* Trips.  Points are told apart by the batch that brought them, and lie   *)
(* apart from each other, so two of them make a distance.                  *)
(***************************************************************************)
\* The car of the body is not checked, the foreign key sees to it.
TripStartIn == Cars \cup {Null}

StartTripRead(c) ==
  /\ Ready(c, "start_trip")
  /\ \E u \in CurrentCustomer, t \in Trips, k \in TripStartIn :
       /\ trip[t] = Null
       /\ Reads(c, "start_trip", u, t, [car |-> k], Null)

StartTripWrite(c) ==
  LET f == req[c] IN
  /\ Writes(c, "start_trip")
  /\ trip[f.key] = Null
  /\ f.args.car # Null => f.args.car \in Rows(car)
  /\ trip' = [trip EXCEPT ![f.key] =
                [user |-> f.user, car |-> f.args.car, finished |-> FALSE,
                 points |-> {}, counted |-> {}]]
  /\ UNCHANGED <<vehicles, workshop, insurance>>

OwnedTrip(t, u) == t \in Rows(trip) /\ trip[t].user = u

TripPointsBatchIn == 1 .. MaxBatch

AppendPointsRead_Always(c) ==
  /\ Ready(c, "append_points")
  /\ \E u \in CurrentCustomer, t \in Trips, n \in TripPointsBatchIn :
       /\ OwnedTrip(t, u)
       /\ Reads(c, "append_points", u, t, [batch |-> n], Null)

AppendPointsRead(c) ==
  /\ Ready(c, "append_points")
  /\ \E u \in CurrentCustomer, t \in Trips, n \in TripPointsBatchIn :
       /\ OwnedTrip(t, u)
       /\ ~trip[t].finished
       /\ Reads(c, "append_points", u, t, [batch |-> n], Null)

AppendPointsWrite(c) ==
  LET f == req[c]  batch == {f.id} \X (1 .. f.args.batch) IN
  /\ Writes(c, "append_points")
  /\ trip' = [trip EXCEPT ![f.key].points = @ \cup batch]
  /\ UNCHANGED <<vehicles, workshop, insurance>>

\* A trip read as finished is answered as it is.
FinishTripRead(c) ==
  /\ Ready(c, "finish_trip")
  /\ \E u \in CurrentCustomer, t \in Trips :
       /\ OwnedTrip(t, u)
       /\ ~trip[t].finished
       /\ Reads(c, "finish_trip", u, t, Null, trip[t])

Distance(points) == IF Cardinality(points) >= 2 THEN points ELSE {}

\* The UPDATE names the columns whose value changed in this request's copy
\* of the trip: not the distance, when it is still 0.
FinishTripWrite(c) ==
  LET f == req[c]  d == Distance(f.snap.points) IN
  /\ Writes(c, "finish_trip")
  /\ trip' = [trip EXCEPT ![f.key].finished = TRUE,
                          ![f.key].counted = IF d # {} THEN d ELSE @]
  /\ UNCHANGED <<vehicles, workshop, insurance>>

-----------------------------------------------------------------------------
(***************************************************************************)
(* Insurance.  Companies and tariffs are set up by hand; a purchase that   *)
(* finds no tariff inserts the default one, whose id is fixed.             *)
(***************************************************************************)
BuyPolicyRead(c) ==
  /\ Ready(c, "buy_policy")
  /\ \E u \in CurrentCustomer, k \in Rows(car) :
       Reads(c, "buy_policy", u, k, [known |-> tariff # {}], Null)

NewPolicy(f, payment_status) ==
  [id |-> f.id, user |-> f.user, car |-> f.key, tariff |-> "default",
   payment_status |-> payment_status]

BuyPolicyWrite(c) ==
  LET f == req[c] IN
  /\ Writes(c, "buy_policy")
  /\ f.args.known \/ tariff = {}
  /\ f.key \in Rows(car)
  /\ tariff' = {"default"}
  /\ policy' = policy \cup {NewPolicy(f, "paid")}
  /\ UNCHANGED <<vehicles, workshop, journeys>>

\* quote: an active tariff and a car of the caller.
MayQuote(u, k) == tariff # {} /\ Owned(k, u)

CreatePolicyRead(c) ==
  /\ Ready(c, "create_policy")
  /\ \E u \in CurrentCustomer, k \in Cars :
       /\ MayQuote(u, k)
       /\ Reads(c, "create_policy", u, k, Null, car[k])

CreatePolicyWrite(c) ==
  LET f == req[c] IN
  /\ Writes(c, "create_policy")
  /\ f.key \in Rows(car)
  /\ policy' = policy \cup {NewPolicy(f, "pending")}
  /\ UNCHANGED <<vehicles, workshop, journeys, tariff>>

StartTrip(c) == StartTripRead(c) \/ StartTripWrite(c)
AppendPoints(c) == AppendPointsRead(c) \/ AppendPointsWrite(c)
FinishTrip(c) == FinishTripRead(c) \/ FinishTripWrite(c)
BuyPolicy(c) == BuyPolicyRead(c) \/ BuyPolicyWrite(c)
CreatePolicy(c) == CreatePolicyRead(c) \/ CreatePolicyWrite(c)

JourneysNext(c) ==
  \/ StartTrip(c) \/ AppendPoints(c) \/ FinishTrip(c)
  \/ BuyPolicy(c) \/ CreatePolicy(c)
=============================================================================
