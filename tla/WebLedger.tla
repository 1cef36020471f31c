---------------------------- MODULE WebLedger ----------------------------
(***************************************************************************)
(* The deployed reservation ledger, src/web/store.ts, as several requests  *)
(* use it at once.                                                         *)
(*                                                                         *)
(* Every request handler is an asynchronous function over a shared Deno KV *)
(* store: each kv.get, kv.list batch, kv.set, kv.delete and atomic commit  *)
(* is one action here, and any other request may run between two of them.  *)
(* confirmReservation is optimistic: it remembers the versions it read and *)
(* its commit checks them.  Every other operation reads a record and then  *)
(* writes it back without a check.                                         *)
(*                                                                         *)
(* Versionstamps are abstracted to what a check can tell: touched[c] holds *)
(* the keys written since client c last read them, so a check of key k in  *)
(* c's commit fails exactly when k \in touched[c].                         *)
(***************************************************************************)
EXTENDS Naturals, FiniteSets

CONSTANTS
  Clients,      \* concurrent requests (browser tab, LINE, MCP, mail intake)
  Ids,          \* reservation ids newId() can hand out; bounds the ledger
  Plans,        \* plan names
  Null,         \* JavaScript null: no record, no plan, no guard
  MaxDay,       \* the last day of the calendar; bounds today
  MaxAttempts,  \* optimistic attempts of one confirm (4 in the code)
  Ops           \* the operations the clients of this instance use

AllOps == {"create", "confirm", "replace", "patch", "cancel", "restore", "delete"}

ASSUME LedgerAssumption ==
  /\ Ids \cap Plans = {}
  /\ Null \notin Ids \cup Plans
  /\ MaxDay \in Nat
  /\ MaxAttempts \in Nat \ {0}
  /\ Ops \subseteq AllOps

Days == 0 .. MaxDay
Statuses == {"candidate", "confirmed", "to_cancel", "cancelled"}

\* The fields of a WebReservation the ledger rules read.  day is the JST day
\* it ends on (web/lifecycle.ts finishedAtMs).
Reservation == [plan : Plans \cup {Null}, status : Statuses, day : Days]

ASSUME NullAssumption == Null \notin Reservation

VARIABLES
  store,    \* ["web", token, "resv", id]: the record, or Null
  guard,    \* ["web", token, "plan_confirmed", plan]: an id, or Null
  issued,   \* ids newId() has returned; never returned twice
  today,    \* the clock, in JST days
  call,     \* what each client's request is doing between two KV calls
  touched,  \* keys written since the client last read them
  revived   \* history: ids made confirmed by a stale write, not by a commit

vars == <<store, guard, issued, today, call, touched, revived>>

\* idle; a confirm about to read its target, the guard, the guarded record,
\* the next list batch, or to commit; a read-modify-write about to put;
\* a delete about to delete; a failed create about to take its record back.
Pcs == {"idle", "target", "guard", "guarded", "list", "commit", "put", "delete", "undo"}

Locals == [pc       : Pcs,
           id       : Ids \cup {Null},
           rec      : Reservation \cup {Null},  \* the target read, or the record to put
           replace  : BOOLEAN,
           creating : BOOLEAN,                  \* inside createReservation's try block
           attempt  : 0 .. MaxAttempts - 1,
           now      : Days,                     \* nowIso() of this attempt
           seen     : Ids \cup {Null},          \* the guard's value
           todo     : SUBSET Ids,               \* ids the list has not reached
           sibs     : SUBSET Ids]               \* entries the commit turns to_cancel

Call == {k \in Locals :
          /\ k.pc # "idle" => k.id \in Ids
          /\ k.pc \in {"guard", "guarded", "list", "commit", "put"} => k.rec \in Reservation
          /\ k.pc \in {"guard", "guarded", "list"} => k.rec.plan \in Plans
          /\ k.pc = "guarded" => k.seen \in Ids
          /\ k.pc \in {"target", "guard"} => k.sibs = {} /\ k.todo = {}}

Idle == [pc |-> "idle", id |-> Null, rec |-> Null, replace |-> FALSE,
         creating |-> FALSE, attempt |-> 0, now |-> 0, seen |-> Null,
         todo |-> {}, sibs |-> {}]

TypeOK ==
  /\ store \in [Ids -> Reservation \cup {Null}]
  /\ guard \in [Plans -> Ids \cup {Null}]
  /\ issued \subseteq Ids
  /\ today \in Days
  /\ call \in [Clients -> Call]
  /\ touched \in [Clients -> SUBSET (Ids \cup Plans)]
  /\ revived \subseteq Ids

Init ==
  /\ store = [i \in Ids |-> Null]
  /\ guard = [p \in Plans |-> Null]
  /\ issued = {}
  /\ today = 0
  /\ call = [c \in Clients |-> Idle]
  /\ touched = [c \in Clients |-> {}]
  /\ revived = {}

-----------------------------------------------------------------------------
(* What the handlers compute.                                              *)

Has(i, plan, status) ==
  store[i] # Null /\ store[i].plan = plan /\ store[i].status = status

\* Mutant: the last day itself already counts as over.
IsFinishedEarly(r, now) == now >= r.day

\* lifecycle.ts isFinished: over once the END of its last day has passed.
IsFinished(r, now) == now > r.day

\* A confirm holds versions of what it has read since reading its target.
Holding(c) == call[c].pc \in {"guard", "guarded", "list", "commit"}

\* Client c writes these keys, which gives each of them a new version.
Touch(c, keys) ==
  touched' = [d \in Clients |-> IF d # c /\ Holding(d) THEN touched[d] \cup keys ELSE {}]

\* Client c reads these keys: it now holds their present versions.
Holds(c, keys) == touched' = [touched EXCEPT ![c] = @ \ keys]

\* Client c's attempt is over; what it held no longer matters.
Forget(c) == touched' = [touched EXCEPT ![c] = {}]

\* Mutants: the commit leaves out the guard, or the siblings.
CheckedNoGuard(c) ==
  {call[c].id} \cup (IF call[c].rec.plan = Null THEN {} ELSE call[c].sibs)
CheckedNoSiblings(c) ==
  {call[c].id} \cup (IF call[c].rec.plan = Null THEN {} ELSE {call[c].rec.plan})

\* The keys the commit checks: target, guard and siblings.
Checked(c) ==
  {call[c].id} \cup (IF call[c].rec.plan = Null THEN {}
                     ELSE {call[c].rec.plan} \cup call[c].sibs)

Conflict(c) == Checked(c) \cap touched[c] # {}

\* Client c's request goes on as k.
Becomes(c, k) == call' = [call EXCEPT ![c] = k]

Return(c) == Becomes(c, Idle)

\* A WebTransitionError; createReservation catches it and deletes its record.
Throw(c) ==
  Becomes(c, IF call[c].creating THEN [Idle EXCEPT !.pc = "undo", !.id = call[c].id]
                                 ELSE Idle)

StartConfirm(c, i, replace, creating) ==
  Becomes(c, [Idle EXCEPT !.pc = "target", !.id = i,
                          !.replace = replace, !.creating = creating])

\* The record a read-modify-write will put back, whatever happens in between.
StartPut(c, i, r) == Becomes(c, [Idle EXCEPT !.pc = "put", !.id = i, !.rec = r])

-----------------------------------------------------------------------------
(* createReservation: put a candidate under a fresh id; when the caller     *)
(* asked for a confirmed one, run confirmReservation on it.                *)

\* Mutant: a confirmed reservation is put as such, past confirmReservation.
CreateAsConfirmed(c) ==
  /\ "create" \in Ops /\ call[c].pc = "idle"
  /\ \E i \in Ids \ issued, plan \in Plans \cup {Null}, day \in Days, confirmed \in BOOLEAN :
       /\ store' = [store EXCEPT ![i] = [plan |-> plan, day |-> day,
                        status |-> IF confirmed THEN "confirmed" ELSE "candidate"]]
       /\ issued' = issued \cup {i}
       /\ Touch(c, {i})
  /\ UNCHANGED <<guard, today, revived, call>>

Create(c) ==
  /\ "create" \in Ops /\ call[c].pc = "idle"
  /\ \E i \in Ids \ issued, plan \in Plans \cup {Null}, day \in Days, confirmed \in BOOLEAN :
       /\ store' = [store EXCEPT ![i] = [plan |-> plan, status |-> "candidate", day |-> day]]
       /\ issued' = issued \cup {i}
       /\ Touch(c, {i})
       /\ IF confirmed THEN StartConfirm(c, i, FALSE, TRUE) ELSE UNCHANGED call
  /\ UNCHANGED <<guard, today, revived>>

\* The catch block: kv.delete, whatever the record has become.
UndoCreate(c) ==
  /\ call[c].pc = "undo"
  /\ store' = [store EXCEPT ![call[c].id] = Null]
  /\ revived' = revived \ {call[c].id}
  /\ Touch(c, {call[c].id})
  /\ Return(c)
  /\ UNCHANGED <<guard, issued, today>>

-----------------------------------------------------------------------------
(* confirmReservationWithEffects, one KV call per action.                  *)

Confirm(c) ==
  /\ call[c].pc = "idle"
  /\ \E i \in issued, replace \in BOOLEAN :
       /\ (IF replace THEN "replace" ELSE "confirm") \in Ops
       /\ StartConfirm(c, i, replace, FALSE)
  /\ UNCHANGED <<store, guard, issued, today, touched, revived>>

ReadTarget(c) ==
  LET r == store[call[c].id] IN
  /\ call[c].pc = "target"
  /\ \/ r = Null /\ Return(c)
     \/ r # Null /\ r.status # "candidate" /\ Throw(c)
     \/ /\ r # Null /\ r.status = "candidate"
        /\ Becomes(c, [call[c] EXCEPT !.pc = IF r.plan = Null THEN "commit" ELSE "guard",
                                      !.rec = r, !.now = today])
  /\ UNCHANGED <<store, guard, issued, today, touched, revived>>

ReadGuard(c) ==
  LET plan == call[c].rec.plan IN
  /\ call[c].pc = "guard"
  /\ Becomes(c, [call[c] EXCEPT !.pc = IF guard[plan] = Null THEN "list" ELSE "guarded",
                                !.seen = guard[plan],
                                !.todo = Ids \ {call[c].id}])
  /\ Holds(c, {plan})
  /\ UNCHANGED <<store, guard, issued, today, revived>>

\* An old guard can outlive its winner: it blocks only while the record it
\* names is confirmed in this plan.  The read takes part in no version check.
ReadGuarded(c) ==
  /\ call[c].pc = "guarded"
  /\ IF Has(call[c].seen, call[c].rec.plan, "confirmed") /\ ~call[c].replace
     THEN Throw(c) /\ Forget(c)
     ELSE /\ Becomes(c, [call[c] EXCEPT !.pc = "list"])
          /\ UNCHANGED touched
  /\ UNCHANGED <<store, guard, issued, today, revived>>

\* kv.list reads in batches of a hundred entries, each a snapshot of its own.
\* Where the boundaries fall among one plan's records depends on how many
\* other records the ledger holds: any split.
ListBatch(c) ==
  LET plan == call[c].rec.plan IN
  /\ call[c].pc = "list"
  /\ \E batch \in SUBSET call[c].todo :
       LET winners == {i \in batch : Has(i, plan, "confirmed")}
           live    == {i \in batch : Has(i, plan, "candidate")
                                      /\ ~IsFinished(store[i], call[c].now)}
           rest    == call[c].todo \ batch
       IN /\ batch = {} => call[c].todo = {}
          /\ IF winners # {} /\ ~call[c].replace
             THEN Throw(c) /\ Forget(c)
             ELSE /\ Becomes(c, [call[c] EXCEPT !.pc = IF rest = {} THEN "commit" ELSE "list",
                                                !.todo = rest,
                                                !.sibs = @ \cup winners \cup live])
                  /\ Holds(c, batch)
  /\ UNCHANGED <<store, guard, issued, today, revived>>

\* tx.commit() with every checked version unchanged: the winner, its losers
\* and the guard are written together.  The values written are those read,
\* which the checks make the present ones.
Commit(c) ==
  LET id == call[c].id  plan == call[c].rec.plan  sibs == call[c].sibs IN
  /\ call[c].pc = "commit" /\ ~Conflict(c)
  /\ store' = [i \in Ids |->
                 CASE i = id   -> [call[c].rec EXCEPT !.status = "confirmed"]
                   [] i \in sibs \ {id} -> [store[i] EXCEPT !.status = "to_cancel"]
                   [] OTHER    -> store[i]]
  /\ guard' = [p \in Plans |-> IF p = plan THEN id ELSE guard[p]]
  /\ revived' = revived \ ({id} \cup sibs)
  /\ Touch(c, Checked(c))
  /\ Return(c)
  /\ UNCHANGED <<issued, today>>

Retry(c) ==
  /\ call[c].pc = "commit" /\ Conflict(c)
  /\ IF call[c].attempt + 1 < MaxAttempts
     THEN Becomes(c, [Idle EXCEPT
            !.pc = "target", !.id = call[c].id, !.replace = call[c].replace,
            !.creating = call[c].creating, !.attempt = call[c].attempt + 1])
     ELSE Throw(c)
  /\ Forget(c)
  /\ UNCHANGED <<store, guard, issued, today, revived>>

-----------------------------------------------------------------------------
(* The read-modify-write operations: the record is read when the request   *)
(* starts and written back by Put, unchecked.                              *)

\* A confirmed reservation cannot move to another plan.
Patch(c) ==
  /\ "patch" \in Ops /\ call[c].pc = "idle"
  /\ \E i \in issued, plan \in Plans \cup {Null}, day \in Days :
       /\ store[i] # Null
       /\ store[i].status = "confirmed" => plan = store[i].plan
       /\ StartPut(c, i, [store[i] EXCEPT !.plan = plan, !.day = day])
  /\ UNCHANGED <<store, guard, issued, today, touched, revived>>

Cancel(c) ==
  /\ "cancel" \in Ops /\ call[c].pc = "idle"
  /\ \E i \in issued :
       /\ store[i] # Null
       /\ StartPut(c, i, [store[i] EXCEPT !.status = "cancelled"])
  /\ UNCHANGED <<store, guard, issued, today, touched, revived>>

Restore(c) ==
  /\ "restore" \in Ops /\ call[c].pc = "idle"
  /\ \E i \in issued :
       /\ store[i] # Null /\ store[i].status \in {"cancelled", "to_cancel"}
       /\ StartPut(c, i, [store[i] EXCEPT !.status = "candidate"])
  /\ UNCHANGED <<store, guard, issued, today, touched, revived>>

\* revived records the puts that make a reservation confirmed in a plan in
\* which it was no longer confirmed.
Put(c) ==
  LET id == call[c].id  r == call[c].rec IN
  /\ call[c].pc = "put"
  /\ store' = [store EXCEPT ![id] = r]
  /\ revived' = CASE r.status # "confirmed"          -> revived \ {id}
                   [] Has(id, r.plan, "confirmed")    -> revived
                   [] OTHER                           -> revived \cup {id}
  /\ Touch(c, {id})
  /\ Return(c)
  /\ UNCHANGED <<guard, issued, today>>

Delete(c) ==
  /\ "delete" \in Ops /\ call[c].pc = "idle"
  /\ \E i \in issued :
       /\ store[i] # Null
       /\ Becomes(c, [Idle EXCEPT !.pc = "delete", !.id = i])
  /\ UNCHANGED <<store, guard, issued, today, touched, revived>>

Remove(c) ==
  /\ call[c].pc = "delete"
  /\ store' = [store EXCEPT ![call[c].id] = Null]
  /\ revived' = revived \ {call[c].id}
  /\ Touch(c, {call[c].id})
  /\ Return(c)
  /\ UNCHANGED <<guard, issued, today>>

-----------------------------------------------------------------------------

\* The isolate is gone between two KV calls; nothing resumes the request.
Crash(c) ==
  /\ call[c].pc # "idle"
  /\ Return(c)
  /\ Forget(c)
  /\ UNCHANGED <<store, guard, issued, today, revived>>

Midnight ==
  /\ today < MaxDay
  /\ today' = today + 1
  /\ UNCHANGED <<store, guard, issued, call, touched, revived>>

\* The next KV call of a request already under way.
Step(c) ==
  \/ UndoCreate(c) \/ ReadTarget(c) \/ ReadGuard(c) \/ ReadGuarded(c)
  \/ ListBatch(c) \/ Commit(c) \/ Retry(c) \/ Put(c) \/ Remove(c)

Begin(c) ==
  \/ Create(c) \/ Confirm(c) \/ Patch(c) \/ Cancel(c) \/ Restore(c) \/ Delete(c)

Next == Midnight \/ \E c \in Clients : Begin(c) \/ Step(c) \/ Crash(c)

Spec == Init /\ [][Next]_vars

-----------------------------------------------------------------------------
(* Properties.                                                             *)

\* The plan's confirmed reservations.
Confirmed(p) == {i \in Ids : Has(i, p, "confirmed")}

\* The comment at store.ts:391: "There can be neither two winners nor partial
\* settlement."  Taken over every operation of the ledger, at any moment at
\* most one reservation of a plan is confirmed.
OneWinnerPerPlan ==
  \A p \in Plans : \A i, j \in Confirmed(p) : i = j

\* What the guard buys: every confirmed reservation that a commit made so holds
\* its plan's guard, whatever stale writes, deletes and crashes happen around
\* it.  Two commits can therefore never leave two winners in a plan: a second
\* winner is always one that a read-modify-write brought back.
WinnerHoldsGuard ==
  \A p \in Plans : \A i \in Confirmed(p) \ revived : guard[p] = i

\* No partial settlement: when a confirm commits in a plan, no other reservation
\* of the plan stays confirmed (unless a stale write revived it), and a live
\* candidate is left over only if it entered the plan after the list read it.
SettlementIsWhole ==
  [][\A c \in Clients : Commit(c) =>
       \A i \in Ids \ {call[c].id}, p \in Plans \cap {call[c].rec.plan} :
         /\ i \in Confirmed(p)' => i \in revived
         /\ Has(i, p, "candidate")' /\ call[c].now <= store[i].day => i \in touched[c]]_vars

\* A settlement only tells the user to cancel what really lost to it: at the
\* instant of the commit each loser is in the winner's plan, and is either a
\* candidate or, for a replacing confirm only, the old winner.  An edit, a
\* cancel or a restore that slips in between is never overwritten.
LosersReallyLost ==
  [][\A c \in Clients : Commit(c) =>
       \A i \in Ids \ {call[c].id} : store'[i] # store[i] =>
         /\ store[i].plan = call[c].rec.plan
         /\ \/ store[i].status = "candidate"
            \/ store[i].status = "confirmed" /\ call[c].replace]_vars

\* The abstract ledger this one implements: what a plan's winner may do.
settled == [p \in Plans |-> LET W == Confirmed(p) \ revived IN
                              IF W = {} THEN Null ELSE CHOOSE i \in W : TRUE]
intent == [c \in Clients |-> IF Holding(c) \/ call[c].pc = "target"
                              THEN IF call[c].replace THEN "replace" ELSE "confirm"
                              ELSE "none"]
Abstract == INSTANCE PlanWinner WITH winner <- settled, asked <- intent

\* Seen through its settled winners the ledger is PlanWinner: a plain confirm
\* never displaces a winner, and a winner never appears without a confirm.
ImplementsPlanWinner == Abstract!Spec
=============================================================================
