-------------------------- MODULE InMemoryStore --------------------------
(***************************************************************************)
(* core/store/in-memory-store.ts: the store the tests run on, which does a *)
(* whole put in one synchronous step.  It is what KvStore promises to be:  *)
(* core/store/tests/contract.ts runs one list of expectations on both.     *)
(***************************************************************************)
CONSTANTS Ids, Plans, Times, Null

Reservation == [plan : Plans \cup {Null}, starts_at : Times, status : {"to_cancel", "other"}]

VARIABLES
  reservations,         \* #reservations: each id's reservation, or Null
  planReservationIdx,   \* #planReservationIdx: the ids of each plan
  pendingCancelIdx      \* #pendingCancelIdx: what starts_at it has for each id, if any

memory == <<reservations, planReservationIdx, pendingCancelIdx>>

Init ==
  /\ reservations = [i \in Ids |-> Null]
  /\ planReservationIdx = [p \in Plans |-> {}]
  /\ pendingCancelIdx = [i \in Ids |-> {}]

\* The plan left forgets the id, the plan entered learns it.
Refiled(id, new) ==
  LET previous == reservations[id]
      left(p) == previous # Null /\ previous.plan = p /\ new.plan # p
  IN [p \in Plans |-> (planReservationIdx[p] \ (IF left(p) THEN {id} ELSE {}))
                      \cup (IF new.plan = p THEN {id} ELSE {})]

PutReservation(id, new) ==
  /\ planReservationIdx' = Refiled(id, new)
  /\ pendingCancelIdx' =
       [pendingCancelIdx EXCEPT ![id] = IF new.status = "to_cancel" THEN {new.starts_at} ELSE {}]
  /\ reservations' = [reservations EXCEPT ![id] = new]

Next == \E id \in Ids, new \in Reservation : PutReservation(id, new)

Spec == Init /\ [][Next]_memory
=============================================================================
