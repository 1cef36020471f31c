----------------------------- MODULE KvStore -----------------------------
(***************************************************************************)
(* core/store/kv-store.ts: putReservation keeps two secondary indexes next *)
(* to the reservation entries.  A put reads the present entry, works out   *)
(* which index keys to set and delete, and commits all of it in one        *)
(* transaction that checks the entry it read; on a conflict it starts over.*)
(* Any number of puts of any reservations may be under way.                *)
(***************************************************************************)
EXTENDS Naturals

CONSTANTS
  Writers,      \* puts that may be under way at once
  Ids,          \* reservation ids
  Plans,        \* plan ids
  Times,        \* values of starts_at
  Null,         \* JavaScript null
  MaxAttempts   \* tries of one put (10 in the code)

\* "other" stands for every status but to_cancel.
Reservation == [plan : Plans \cup {Null}, starts_at : Times, status : {"to_cancel", "other"}]

ASSUME KvAssumption ==
  /\ Null \notin Plans /\ Null \notin Reservation
  /\ MaxAttempts \in Nat \ {0}

VARIABLES
  entry,    \* reservation/<id>
  planIdx,  \* idx/plan_reservations/<plan>/<id>
  pendIdx,  \* idx/pending_cancel/<starts_at>/<id>
  put,      \* each writer's put: what it writes, what it read
  stale     \* writers whose entry was written since they read it

vars == <<entry, planIdx, pendIdx, put, stale>>

UnderWay == [pc : {"get", "commit"}, id : Ids, new : Reservation,
             previous : Reservation \cup {Null}, attempt : 0 .. MaxAttempts - 1]
NoPut == [pc |-> "idle", id |-> Null, new |-> Null, previous |-> Null, attempt |-> 0]
PutState == UnderWay \cup {NoPut}

TypeOK ==
  /\ entry \in [Ids -> Reservation \cup {Null}]
  /\ planIdx \subseteq Plans \X Ids
  /\ pendIdx \subseteq Times \X Ids
  /\ put \in [Writers -> PutState]
  /\ stale \subseteq Writers

Init ==
  /\ entry = [i \in Ids |-> Null]
  /\ planIdx = {} /\ pendIdx = {}
  /\ put = [w \in Writers |-> NoPut]
  /\ stale = {}

Begin(w) ==
  /\ put[w].pc = "idle"
  /\ \E i \in Ids, r \in Reservation :
       put' = [put EXCEPT ![w] = [pc |-> "get", id |-> i, new |-> r, previous |-> Null, attempt |-> 0]]
  /\ UNCHANGED <<entry, planIdx, pendIdx, stale>>

Get(w) ==
  /\ put[w].pc = "get"
  /\ put' = [put EXCEPT ![w].pc = "commit", ![w].previous = entry[put[w].id]]
  /\ stale' = stale \ {w}
  /\ UNCHANGED <<entry, planIdx, pendIdx>>

\* Mutant: only a put that moves to another plan deletes the old plan key.
PlanKeysKept(id, previous, new) ==
  (planIdx \ (IF previous # Null /\ new.plan \notin {Null, previous.plan}
              THEN {<<previous.plan, id>>} ELSE {}))
  \cup (IF new.plan = Null THEN {} ELSE {<<new.plan, id>>})

\* The plan index after reservation id changes from previous to new.
PlanKeys(id, previous, new) ==
  (planIdx \ (IF previous # Null /\ previous.plan # new.plan THEN {<<previous.plan, id>>} ELSE {}))
  \cup (IF new.plan = Null THEN {} ELSE {<<new.plan, id>>})

\* The pending index: a key follows starts_at and goes when the status does.
PendingKeys(id, previous, new) ==
  LET pending == previous # Null /\ previous.status = "to_cancel"
      moved   == pending /\ previous.starts_at # new.starts_at
  IN (pendIdx \ (IF moved \/ (pending /\ new.status # "to_cancel")
                 THEN {<<previous.starts_at, id>>} ELSE {}))
     \cup (IF new.status = "to_cancel" THEN {<<new.starts_at, id>>} ELSE {})

Rivals(w) == {v \in Writers \ {w} : put[v].pc # "idle" /\ put[v].id = put[w].id}

\* tx.commit() with the checked entry unchanged.
Commit(w) ==
  LET k == put[w] IN
  /\ k.pc = "commit" /\ w \notin stale
  /\ entry' = [entry EXCEPT ![k.id] = k.new]
  /\ planIdx' = PlanKeys(k.id, k.previous, k.new)
  /\ pendIdx' = PendingKeys(k.id, k.previous, k.new)
  /\ put' = [put EXCEPT ![w] = NoPut]
  /\ stale' = stale \cup Rivals(w)

\* Someone else wrote this reservation: read it again, or give up and throw.
Conflict(w) ==
  /\ put[w].pc = "commit" /\ w \in stale
  /\ put' = IF put[w].attempt + 1 < MaxAttempts
            THEN [put EXCEPT ![w].pc = "get", ![w].attempt = @ + 1]
            ELSE [put EXCEPT ![w] = NoPut]
  /\ UNCHANGED <<entry, planIdx, pendIdx, stale>>

Next ==
  \E w \in Writers : Begin(w) \/ Get(w) \/ Commit(w) \/ Conflict(w)

Spec == Init /\ [][Next]_vars

-----------------------------------------------------------------------------
(* Properties.                                                             *)

\* Each index is exactly what the entries say, however puts of the same and of
\* other reservations overlap: a plan's list and the list of pending
\* cancellations miss nothing and name nothing twice.
IndexesMatch ==
  /\ planIdx = {k \in Plans \X Ids : entry[k[2]] # Null /\ entry[k[2]].plan = k[1]}
  /\ pendIdx = {k \in Times \X Ids : /\ entry[k[2]] # Null
                                     /\ entry[k[2]].starts_at = k[1]
                                     /\ entry[k[2]].status = "to_cancel"}

Memory == INSTANCE InMemoryStore WITH
  reservations       <- entry,
  planReservationIdx <- [p \in Plans |-> {i \in Ids : <<p, i>> \in planIdx}],
  pendingCancelIdx   <- [i \in Ids |-> {t \in Times : <<t, i>> \in pendIdx}]

\* core/store/tests/contract.ts: the two stores are one to their callers.  A put of
\* this store, however many tries it takes beside other puts, is the single step of
\* the in-memory store, and until it commits nothing of it is seen.
ImplementsMemory == Memory!Spec
=============================================================================
