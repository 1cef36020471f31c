------------------------- MODULE WebLedgerProofs -------------------------
(***************************************************************************)
(* Proofs about WebLedger, for any clients, ids, plans and attempts.       *)
(*                                                                         *)
(* WinnerHoldsGuard is not inductive: whether a commit keeps it depends on *)
(* what the confirm read in earlier actions.  Attempt(c) says what client  *)
(* c's reads are still worth, as long as what it read was not touched.     *)
(***************************************************************************)
EXTENDS WebLedger, TLAPS

\* The other reservations that hold plan p.
Rivals(c, p) == (Confirmed(p) \ revived) \ {call[c].id}

\* A confirm between reading its target and committing.
Attempt(c) ==
  LET k == call[c]  p == call[c].rec.plan IN
  /\ k.id \in Ids
  /\ k.rec \in Reservation
  /\ p = Null => k.pc = "commit" /\ k.sibs = {}
  /\ k.id \notin touched[c] => store[k.id] = k.rec
  /\ k.rec.status = "candidate"
  /\ k.pc = "guarded" => k.todo = Ids \ {k.id} /\ k.sibs = {}
  /\ k.id \notin k.todo \cup k.sibs /\ k.todo \cap k.sibs = {}
  /\ k.pc # "guard" /\ p \in Plans /\ p \notin touched[c] => guard[p] = k.seen
  /\ \A s \in k.sibs \ touched[c] :
        /\ store[s] # Null /\ store[s].plan = p
        /\ store[s].status = "candidate" \/ (store[s].status = "confirmed" /\ k.replace)
  /\ p \in Plans \ touched[c] => \A x \in Rivals(c, p) :
        /\ k.pc = "list" => k.replace /\ x \in k.todo \cup k.sibs
        /\ k.pc = "commit" => k.replace /\ x \in k.sibs

\* The inductive invariant.
IInv ==
  /\ TypeOK
  /\ WinnerHoldsGuard
  /\ \A c \in Clients : Holding(c) => Attempt(c)

-----------------------------------------------------------------------------
(* Types.  Idle stays folded: IdleCall and IdleFields say what is needed.   *)

\* The record of a client with no request is well typed.
LEMMA IdleCall == Idle \in Call
BY LedgerAssumption DEF Idle, Call, Locals, Pcs, Days

\* A client with no request has listed nothing.
LEMMA IdleFields == Idle.sibs = {} /\ Idle.todo = {} /\ Idle.pc = "idle"
BY DEF Idle

\* Becomes changes one client's request and keeps the others.
LEMMA BecomesType ==
  ASSUME TypeOK, NEW c \in Clients, NEW k \in Call, Becomes(c, k)
  PROVE  call' \in [Clients -> Call] /\ call'[c] = k
         /\ \A d \in Clients \ {c} : call'[d] = call[d]
BY DEF TypeOK, Becomes

\* A confirm that starts is well typed.
LEMMA StartConfirmType ==
  ASSUME TypeOK, NEW c \in Clients, NEW i \in Ids, NEW b \in BOOLEAN, NEW e \in BOOLEAN,
         StartConfirm(c, i, b, e)
  PROVE  call' \in [Clients -> Call]
<1>1. [Idle EXCEPT !.pc = "target", !.id = i, !.replace = b, !.creating = e] \in Call
  BY IdleCall, IdleFields DEF Call, Locals, Pcs
<1> QED
  BY <1>1, BecomesType DEF StartConfirm

\* So is a read-modify-write with a record to put.
LEMMA StartPutType ==
  ASSUME TypeOK, NEW c \in Clients, NEW i \in Ids, NEW r \in Reservation, StartPut(c, i, r)
  PROVE  call' \in [Clients -> Call]
<1>1. [Idle EXCEPT !.pc = "put", !.id = i, !.rec = r] \in Call
  BY IdleCall DEF Call, Locals, Pcs
<1> QED
  BY <1>1, BecomesType DEF StartPut

\* So is a request that returns,
LEMMA ReturnType ==
  ASSUME TypeOK, NEW c \in Clients, Return(c)
  PROVE  call' \in [Clients -> Call]
BY IdleCall, BecomesType DEF Return

\* or throws.
LEMMA ThrowType ==
  ASSUME TypeOK, NEW c \in Clients, call[c].pc # "idle", Throw(c)
  PROVE  call' \in [Clients -> Call]
<1>1. [Idle EXCEPT !.pc = "undo", !.id = call[c].id] \in Call
  BY IdleCall DEF TypeOK, Call, Locals, Pcs
<1> QED
  BY <1>1, IdleCall, BecomesType DEF Throw

\* Touching reservations and guards keeps touched typed.
LEMMA TouchType ==
  ASSUME TypeOK, NEW c \in Clients, NEW keys \in SUBSET (Ids \cup Plans), Touch(c, keys)
  PROVE  touched' \in [Clients -> SUBSET (Ids \cup Plans)]
BY DEF TypeOK, Touch

\* An edit, a cancellation or a restoration starts with a record to put back.
LEMMA PutIsTyped ==
  ASSUME TypeOK, NEW c \in Clients, Patch(c) \/ Cancel(c) \/ Restore(c)
  PROVE  \E i \in Ids \cap issued, r \in Reservation : StartPut(c, i, r)
<1>1. \A i \in issued : i \in Ids \cap issued /\ (store[i] # Null => store[i] \in Reservation)
  BY DEF TypeOK
<1>2. \A r \in Reservation, plan \in Plans \cup {Null}, day \in Days :
         [r EXCEPT !.plan = plan, !.day = day] \in Reservation
  BY DEF Reservation
<1>3. \A r \in Reservation, st \in Statuses : [r EXCEPT !.status = st] \in Reservation
  BY DEF Reservation
<1>4. CASE Patch(c)
  BY <1>1, <1>2, <1>4 DEF Patch
<1>5. CASE Cancel(c)
  <2>1. PICK i \in issued : store[i] # Null
                /\ StartPut(c, i, [store[i] EXCEPT !.status = "cancelled"])
    BY <1>5 DEF Cancel
  <2> QED
    BY <2>1, <1>1, <1>3 DEF Statuses
<1>6. CASE Restore(c)
  <2>1. PICK i \in issued : store[i] # Null
                /\ StartPut(c, i, [store[i] EXCEPT !.status = "candidate"])
    BY <1>6 DEF Restore
  <2> QED
    BY <2>1, <1>1, <1>3 DEF Statuses
<1> QED
  BY <1>4, <1>5, <1>6

\* No step of the ledger takes a variable out of its type.
LEMMA TypeStep == IInv /\ [Next]_vars => TypeOK'
<1> SUFFICES ASSUME IInv, [Next]_vars PROVE TypeOK'
  OBVIOUS
<1> USE DEF IInv
<1>1. CASE UNCHANGED vars
  BY <1>1 DEF vars, TypeOK
<1>2. CASE Midnight
  BY <1>2, LedgerAssumption DEF Midnight, Days, TypeOK
<1>3. ASSUME NEW c \in Clients, Create(c) PROVE TypeOK'
  <2> PICK i \in Ids \ issued, plan \in Plans \cup {Null}, day \in Days, confirmed \in BOOLEAN :
        /\ store' = [store EXCEPT ![i] = [plan |-> plan, status |-> "candidate", day |-> day]]
        /\ issued' = issued \cup {i}
        /\ Touch(c, {i})
        /\ IF confirmed THEN StartConfirm(c, i, FALSE, TRUE) ELSE UNCHANGED call
    BY <1>3 DEF Create
  <2>1. call' \in [Clients -> Call]
    BY StartConfirmType DEF TypeOK
  <2>2. touched' \in [Clients -> SUBSET (Ids \cup Plans)]
    BY TouchType
  <2>3. [plan |-> plan, status |-> "candidate", day |-> day] \in Reservation
    BY DEF Reservation, Statuses
  <2> QED
    BY <1>3, <2>1, <2>2, <2>3 DEF Create, TypeOK
<1>4. ASSUME NEW c \in Clients, Confirm(c) PROVE TypeOK'
  <2>1. call' \in [Clients -> Call]
    BY <1>4, StartConfirmType DEF Confirm, TypeOK
  <2> QED
    BY <1>4, <2>1 DEF Confirm, TypeOK
<1>5. ASSUME NEW c \in Clients, Patch(c) \/ Cancel(c) \/ Restore(c) PROVE TypeOK'
  <2>1. \E i \in Ids, r \in Reservation : StartPut(c, i, r)
    BY <1>5, PutIsTyped DEF IInv
  <2>2. call' \in [Clients -> Call]
    BY <2>1, StartPutType
  <2> QED
    BY <1>5, <2>2 DEF Patch, Cancel, Restore, TypeOK
<1>6. ASSUME NEW c \in Clients, Delete(c) PROVE TypeOK'
  <2>1. PICK i \in Ids : Becomes(c, [Idle EXCEPT !.pc = "delete", !.id = i])
    BY <1>6 DEF Delete, TypeOK
  <2>2. [Idle EXCEPT !.pc = "delete", !.id = i] \in Call
    BY IdleCall DEF Call, Locals, Pcs
  <2> QED
    BY <1>6, <2>1, <2>2, BecomesType DEF Delete, TypeOK
<1>7. ASSUME NEW c \in Clients, Crash(c) PROVE TypeOK'
  BY <1>7, ReturnType DEF Crash, Forget, TypeOK
<1>8. ASSUME NEW c \in Clients, ReadTarget(c) PROVE TypeOK'
  <2> DEFINE r == store[call[c].id]
             k == [call[c] EXCEPT !.pc = IF r.plan = Null THEN "commit" ELSE "guard",
                                  !.rec = r, !.now = today]
  <2>1. call[c] \in Call /\ call[c].id \in Ids
    BY <1>8 DEF ReadTarget, TypeOK, Call
  <2>2. ASSUME r # Null PROVE k \in Call
    <3>1. r \in Reservation /\ today \in Days
      BY <2>1, <2>2 DEF TypeOK
    <3>2. k \in Locals
      BY <2>1, <3>1 DEF Call, Locals, Pcs
    <3>3. k.id \in Ids /\ k.rec = r /\ k.pc = (IF r.plan = Null THEN "commit" ELSE "guard")
          /\ k.sibs = {} /\ k.todo = {}
      BY <1>8, <2>1 DEF ReadTarget, Call, Locals
    <3>4. r.plan # Null => r.plan \in Plans
      BY <3>1 DEF Reservation
    <3> HIDE DEF k
    <3> QED
      BY <3>1, <3>2, <3>3, <3>4 DEF Call
  <2>3. call' \in [Clients -> Call]
    BY <1>8, <2>2, ReturnType, ThrowType, BecomesType DEF ReadTarget
  <2> QED
    BY <1>8, <2>3 DEF ReadTarget, TypeOK
<1>9. ASSUME NEW c \in Clients, ReadGuard(c) PROVE TypeOK'
  <2> DEFINE p == call[c].rec.plan
             k == [call[c] EXCEPT !.pc = IF guard[p] = Null THEN "list" ELSE "guarded",
                                  !.seen = guard[p], !.todo = Ids \ {call[c].id}]
  <2>1. call[c] \in Call /\ p \in Plans /\ guard[p] \in Ids \cup {Null}
    BY <1>9 DEF ReadGuard, TypeOK, Call, Locals, Reservation
  <2>2. k \in Call
    BY <1>9, <2>1 DEF ReadGuard, TypeOK, Call, Locals, Pcs
  <2>3. call' \in [Clients -> Call]
    BY <1>9, <2>2, BecomesType DEF ReadGuard
  <2> QED
    BY <1>9, <2>3 DEF ReadGuard, Holds, TypeOK
<1>10. ASSUME NEW c \in Clients, ReadGuarded(c) PROVE TypeOK'
  <2>1. [call[c] EXCEPT !.pc = "list"] \in Call
    BY <1>10 DEF ReadGuarded, TypeOK, Call, Locals, Pcs
  <2>2. call' \in [Clients -> Call]
    BY <1>10, <2>1, ThrowType, BecomesType DEF ReadGuarded
  <2> QED
    BY <1>10, <2>2 DEF ReadGuarded, Forget, TypeOK
<1>11. ASSUME NEW c \in Clients, ListBatch(c) PROVE TypeOK'
  <2>1. ASSUME NEW rest \in SUBSET Ids, NEW sibs \in SUBSET Ids
        PROVE  [call[c] EXCEPT !.pc = IF rest = {} THEN "commit" ELSE "list",
                               !.todo = rest, !.sibs = sibs] \in Call
    <3> DEFINE k == [call[c] EXCEPT !.pc = IF rest = {} THEN "commit" ELSE "list",
                                    !.todo = rest, !.sibs = sibs]
    <3>1. call[c] \in Call /\ call[c].pc = "list"
      BY <1>11 DEF ListBatch, TypeOK
    <3>2. k \in Locals
      BY <3>1 DEF Call, Locals, Pcs
    <3>3. k.id = call[c].id /\ k.rec = call[c].rec /\ k.pc \in {"commit", "list"}
      BY <3>1 DEF Call, Locals
    <3> QED
      BY <3>1, <3>2, <3>3 DEF Call
  <2>2. call[c].todo \subseteq Ids /\ call[c].sibs \subseteq Ids
    BY DEF TypeOK, Call, Locals
  <2>3. call' \in [Clients -> Call]
    <3> DEFINE winners(batch) == {i \in batch : Has(i, call[c].rec.plan, "confirmed")}
               live(batch) == {i \in batch : Has(i, call[c].rec.plan, "candidate")
                                             /\ ~IsFinished(store[i], call[c].now)}
               next(batch) == [call[c] EXCEPT
                  !.pc = IF call[c].todo \ batch = {} THEN "commit" ELSE "list",
                  !.todo = call[c].todo \ batch,
                  !.sibs = call[c].sibs \cup winners(batch) \cup live(batch)]
    <3>1. PICK batch \in SUBSET call[c].todo :
             \/ Throw(c)
             \/ Becomes(c, next(batch))
      BY <1>11 DEF ListBatch
    <3>2. next(batch) \in Call
      BY <2>1, <2>2
    <3>3. call[c].pc # "idle"
      BY <1>11 DEF ListBatch
    <3> QED
      BY <3>1, <3>2, <3>3, ThrowType, BecomesType
  <2> QED
    BY <1>11, <2>3 DEF ListBatch, Holds, Forget, TypeOK
<1>12. ASSUME NEW c \in Clients, Retry(c) PROVE TypeOK'
  <2> DEFINE k == [Idle EXCEPT !.pc = "target", !.id = call[c].id, !.replace = call[c].replace,
                               !.creating = call[c].creating, !.attempt = call[c].attempt + 1]
  <2>1. call[c] \in Call /\ call[c].id \in Ids
    BY <1>12 DEF Retry, TypeOK, Call
  <2>2. call[c].attempt + 1 < MaxAttempts => k \in Call
    <3>1. ASSUME call[c].attempt + 1 < MaxAttempts
          PROVE  call[c].attempt + 1 \in 0 .. MaxAttempts - 1
      BY <3>1, <2>1, LedgerAssumption DEF Call, Locals
    <3>2. call[c].replace \in BOOLEAN /\ call[c].creating \in BOOLEAN
      BY <2>1 DEF Call, Locals
    <3> QED
      BY <2>1, <3>1, <3>2, IdleCall, IdleFields DEF Call, Locals, Pcs
  <2>3. call' \in [Clients -> Call]
    BY <1>12, <2>2, ThrowType, BecomesType DEF Retry
  <2> QED
    BY <1>12, <2>3 DEF Retry, Forget, TypeOK
<1>13. ASSUME NEW c \in Clients, Commit(c) PROVE TypeOK'
  <2>1. call[c] \in Call /\ call[c].id \in Ids /\ call[c].rec \in Reservation
    BY <1>13 DEF Commit, TypeOK, Call, Locals
  <2>2. Checked(c) \subseteq Ids \cup Plans
    BY <2>1 DEF Checked, Call, Locals, Reservation
  <2>3. touched' \in [Clients -> SUBSET (Ids \cup Plans)]
    BY <1>13, <2>2, TouchType DEF Commit
  <2>4. call' \in [Clients -> Call]
    BY <1>13, ReturnType DEF Commit
  <2>5. [call[c].rec EXCEPT !.status = "confirmed"] \in Reservation
    BY <2>1 DEF Reservation, Statuses
  <2>6. \A s \in call[c].sibs : [store[s] EXCEPT !.status = "to_cancel"] \in Reservation \cup {Null}
    <3>1. ASSUME NEW s \in call[c].sibs PROVE store[s] \in Reservation
      <4>1. call[c].rec.plan # Null
        BY <1>13, <3>1 DEF Commit, Attempt, Holding
      <4>2. s \notin touched[c]
        BY <1>13, <3>1, <4>1 DEF Commit, Conflict, Checked
      <4>3. store[s] # Null
        BY <1>13, <3>1, <4>2 DEF Commit, Attempt, Holding
      <4> QED
        BY <2>1, <3>1, <4>3 DEF TypeOK, Call, Locals
    <3> QED
      BY <3>1 DEF Reservation, Statuses
  <2>7. store' \in [Ids -> Reservation \cup {Null}]
    BY <1>13, <2>5, <2>6 DEF Commit, TypeOK
  <2>8. guard' \in [Plans -> Ids \cup {Null}] /\ revived' \subseteq Ids
    BY <1>13, <2>1 DEF Commit, TypeOK
  <2> QED
    BY <1>13, <2>3, <2>4, <2>7, <2>8 DEF Commit, TypeOK
<1>14. ASSUME NEW c \in Clients, UndoCreate(c) \/ Remove(c) PROVE TypeOK'
  <2>1. call[c].id \in Ids
    BY <1>14 DEF UndoCreate, Remove, TypeOK, Call
  <2>2. touched' \in [Clients -> SUBSET (Ids \cup Plans)] /\ call' \in [Clients -> Call]
    BY <1>14, <2>1, TouchType, ReturnType DEF UndoCreate, Remove
  <2> QED
    BY <1>14, <2>1, <2>2 DEF UndoCreate, Remove, TypeOK
<1>15. ASSUME NEW c \in Clients, Put(c) PROVE TypeOK'
  <2>1. call[c].id \in Ids /\ call[c].rec \in Reservation
    BY <1>15 DEF Put, TypeOK, Call, Locals
  <2>2. touched' \in [Clients -> SUBSET (Ids \cup Plans)] /\ call' \in [Clients -> Call]
    BY <1>15, <2>1, TouchType, ReturnType DEF Put
  <2>3. revived' \subseteq Ids
    BY <1>15, <2>1 DEF Put, TypeOK
  <2> QED
    BY <1>15, <2>1, <2>2, <2>3 DEF Put, TypeOK
<1> QED
  BY <1>1, <1>2, <1>3, <1>4, <1>5, <1>6, <1>7, <1>8, <1>9, <1>10, <1>11, <1>12, <1>13, <1>14, <1>15
     DEF Next, Begin, Step

-----------------------------------------------------------------------------
(* What a confirm has read survives the steps of other clients.            *)

\* Keys K are written, or none; client d does not move.
LEMMA AttemptFrame ==
  ASSUME TypeOK, NEW d \in Clients, Attempt(d), NEW K,
         call'[d] = call[d], touched'[d] = touched[d] \cup K,
         \A i \in Ids \ K : store'[i] = store[i],
         \A p \in Plans \ K : guard'[p] = guard[p],
         \A p \in Plans \ K : (Confirmed(p) \ revived)' \subseteq Confirmed(p) \ revived
  PROVE  Attempt(d)'
<1> DEFINE k == call[d]  p == call[d].rec.plan
<1>1. k.sibs \subseteq Ids
  BY DEF TypeOK, Call, Locals
<1>2. k.id \in Ids /\ (k.id \notin touched'[d] => store'[k.id] = k.rec)
  BY DEF Attempt
<1>3. k.pc # "guard" /\ p \in Plans /\ p \notin touched'[d] => guard'[p] = k.seen
  BY DEF Attempt
<1>4. \A s \in k.sibs \ touched'[d] :
        /\ store'[s] # Null /\ store'[s].plan = p
        /\ store'[s].status = "candidate" \/ (store'[s].status = "confirmed" /\ k.replace)
  BY <1>1 DEF Attempt
<1>5. ASSUME p \in Plans \ touched'[d], NEW x \in Rivals(d, p)'
      PROVE  /\ k.pc = "list" => k.replace /\ x \in k.todo \cup k.sibs
             /\ k.pc = "commit" => k.replace /\ x \in k.sibs
  <2>1. x \in Rivals(d, p)
    BY <1>5 DEF Rivals
  <2> QED
    BY <1>5, <2>1 DEF Attempt
<1> QED
  BY <1>2, <1>3, <1>4, <1>5 DEF Attempt, Rivals

\* Client c moves without writing anything.
LEMMA QuietStep ==
  ASSUME IInv, NEW c \in Clients, UNCHANGED <<store, guard, revived>>,
         \A d \in Clients \ {c} : call'[d] = call[d] /\ touched'[d] = touched[d],
         Holding(c)' => Attempt(c)'
  PROVE  WinnerHoldsGuard' /\ \A d \in Clients : Holding(d)' => Attempt(d)'
<1>1. WinnerHoldsGuard'
  BY DEF IInv, WinnerHoldsGuard, Confirmed, Has
<1>2. ASSUME NEW d \in Clients \ {c}, Holding(d)' PROVE Attempt(d)'
  <2>1. Attempt(d)
    BY <1>2 DEF IInv, Holding
  <2>2. \A p \in Plans : (Confirmed(p) \ revived)' = Confirmed(p) \ revived
    BY DEF Confirmed, Has
  <2>3. touched'[d] = touched[d] \cup {}
    OBVIOUS
  <2> QED
    BY <2>1, <2>2, <2>3, AttemptFrame DEF IInv
<1> QED
  BY <1>1, <1>2

\* Client c writes keys and is no longer confirming.
LEMMA WritingStep ==
  ASSUME IInv, NEW c \in Clients, NEW K \in SUBSET (Ids \cup Plans), Touch(c, K),
         \A d \in Clients \ {c} : call'[d] = call[d], ~Holding(c)',
         \A i \in Ids \ K : store'[i] = store[i],
         \A p \in Plans \ K : guard'[p] = guard[p],
         \A p \in Plans \ K : (Confirmed(p) \ revived)' \subseteq Confirmed(p) \ revived
  PROVE  \A d \in Clients : Holding(d)' => Attempt(d)'
<1> SUFFICES ASSUME NEW d \in Clients \ {c}, Holding(d)' PROVE Attempt(d)'
  OBVIOUS
<1>1. Holding(d) /\ Attempt(d)
  BY DEF IInv, Holding
<1>2. touched'[d] = touched[d] \cup K
  BY <1>1 DEF Touch
<1> QED
  BY <1>1, <1>2, AttemptFrame DEF IInv

\* A write of one reservation keeps every guard's winner, if whoever becomes
\* confirmed by it is counted as revived.
LEMMA OneWrite ==
  ASSUME IInv, NEW i \in Ids, UNCHANGED guard,
         \A j \in Ids \ {i} : store'[j] = store[j] /\ (j \in revived' <=> j \in revived),
         \A p \in Plans : i \in (Confirmed(p) \ revived)' => i \in Confirmed(p) \ revived
  PROVE  /\ WinnerHoldsGuard'
         /\ \A p \in Plans : (Confirmed(p) \ revived)' \subseteq Confirmed(p) \ revived
<1>1. \A p \in Plans : (Confirmed(p) \ revived)' \subseteq Confirmed(p) \ revived
  BY DEF Confirmed, Has
<1> QED
  BY <1>1 DEF IInv, WinnerHoldsGuard

-----------------------------------------------------------------------------
(* The inductive step, one lemma per kind of action.                       *)

\* Idle with a new pc has that pc.
LEMMA IdlePc == Idle.pc = "idle" /\ \A pc \in Pcs, i \in Ids : [Idle EXCEPT !.pc = pc, !.id = i].pc = pc
BY IdleCall DEF Call, Locals, Idle

\* A confirm that returns or throws, like a crash, holds nothing any more.
LEMMA ReturnStops ==
  ASSUME TypeOK, NEW c \in Clients, Return(c) \/ (Throw(c) /\ call[c].id \in Ids)
  PROVE  ~Holding(c)' /\ \A d \in Clients \ {c} : call'[d] = call[d]
<1>1. CASE Return(c)
  BY <1>1, IdlePc, IdleCall, BecomesType DEF Return, Holding
<1>2. CASE Throw(c) /\ call[c].id \in Ids
  <2>1. [Idle EXCEPT !.pc = "undo", !.id = call[c].id] \in Call
    BY <1>2, IdleCall DEF Call, Locals, Pcs
  <2>2. [Idle EXCEPT !.pc = "undo", !.id = call[c].id].pc = "undo"
    BY <1>2, IdlePc DEF Pcs
  <2> QED
    BY <1>2, <2>1, <2>2, IdlePc, IdleCall, BecomesType DEF Throw, Holding
<1> QED
  BY <1>1, <1>2

\* A request that begins has not read anything a commit will check.
LEMMA BeginStops ==
  ASSUME TypeOK, NEW c \in Clients, NEW i \in Ids,
         \/ \E b, e \in BOOLEAN : StartConfirm(c, i, b, e)
         \/ \E r \in Reservation : StartPut(c, i, r)
         \/ Becomes(c, [Idle EXCEPT !.pc = "delete", !.id = i])
  PROVE  ~Holding(c)' /\ \A d \in Clients \ {c} : call'[d] = call[d]
<1>1. ASSUME NEW b \in BOOLEAN, NEW e \in BOOLEAN, StartConfirm(c, i, b, e)
      PROVE  ~Holding(c)' /\ \A d \in Clients \ {c} : call'[d] = call[d]
  <2> DEFINE k == [Idle EXCEPT !.pc = "target", !.id = i, !.replace = b, !.creating = e]
  <2>1. k \in Call /\ k.pc = "target"
    BY IdleCall, IdleFields DEF Call, Locals, Pcs
  <2> QED
    BY <1>1, <2>1, BecomesType DEF StartConfirm, Holding
<1>2. ASSUME NEW r \in Reservation, StartPut(c, i, r)
      PROVE  ~Holding(c)' /\ \A d \in Clients \ {c} : call'[d] = call[d]
  <2> DEFINE k == [Idle EXCEPT !.pc = "put", !.id = i, !.rec = r]
  <2>1. k \in Call /\ k.pc = "put"
    BY IdleCall DEF Call, Locals, Pcs
  <2> QED
    BY <1>2, <2>1, BecomesType DEF StartPut, Holding
<1>3. CASE Becomes(c, [Idle EXCEPT !.pc = "delete", !.id = i])
  <2> DEFINE k == [Idle EXCEPT !.pc = "delete", !.id = i]
  <2>1. k \in Call /\ k.pc = "delete"
    BY IdleCall DEF Call, Locals, Pcs
  <2> QED
    BY <1>3, <2>1, BecomesType DEF Holding
<1> QED
  BY <1>1, <1>2, <1>3

AttemptsOK == \A c \in Clients : Holding(c) => Attempt(c)

\* A request that begins writes at most a fresh candidate.
LEMMA BeginInv ==
  ASSUME IInv, NEW c \in Clients, Begin(c) PROVE WinnerHoldsGuard' /\ AttemptsOK'
<1> USE DEF AttemptsOK
<1>1. CASE Create(c)
  <2>1. PICK i \in Ids \ issued, plan \in Plans \cup {Null}, day \in Days, confirmed \in BOOLEAN :
        /\ store' = [store EXCEPT ![i] = [plan |-> plan, status |-> "candidate", day |-> day]]
        /\ Touch(c, {i})
        /\ IF confirmed THEN StartConfirm(c, i, FALSE, TRUE) ELSE UNCHANGED call
        /\ UNCHANGED <<guard, revived>>
        /\ call[c].pc = "idle"
    BY <1>1 DEF Create
  <2>2. ~Holding(c)' /\ \A d \in Clients \ {c} : call'[d] = call[d]
    BY <2>1, BeginStops DEF IInv, Holding
  <2>3. \A j \in Ids \ {i} : store'[j] = store[j]
    BY <2>1 DEF IInv, TypeOK
  <2>4. store'[i].status = "candidate"
    BY <2>1 DEF IInv, TypeOK
  <2>5. /\ WinnerHoldsGuard'
        /\ \A p \in Plans : (Confirmed(p) \ revived)' \subseteq Confirmed(p) \ revived
    BY <2>1, <2>3, <2>4, OneWrite DEF Confirmed, Has
  <2> QED
    BY <2>1, <2>2, <2>3, <2>5, WritingStep
<1>2. CASE Confirm(c)
  <2>1. ~Holding(c)' /\ \A d \in Clients \ {c} : call'[d] = call[d]
    BY <1>2, BeginStops DEF IInv, TypeOK, Confirm
  <2> QED
    BY <1>2, <2>1, QuietStep DEF Confirm
<1>3. CASE Patch(c) \/ Cancel(c) \/ Restore(c)
  <2>1. ~Holding(c)' /\ \A d \in Clients \ {c} : call'[d] = call[d]
    BY <1>3, BeginStops, PutIsTyped DEF IInv
  <2> QED
    BY <1>3, <2>1, QuietStep DEF Patch, Cancel, Restore
<1>4. CASE Delete(c)
  <2>1. ~Holding(c)' /\ \A d \in Clients \ {c} : call'[d] = call[d]
    BY <1>4, BeginStops DEF IInv, TypeOK, Delete
  <2> QED
    BY <1>4, <2>1, QuietStep DEF Delete
<1> QED
  BY <1>1, <1>2, <1>3, <1>4 DEF Begin

\* Unchecked writes: what they make confirmed counts as revived.
LEMMA PutInv ==
  ASSUME IInv, NEW c \in Clients, UndoCreate(c) \/ Put(c) \/ Remove(c)
  PROVE  WinnerHoldsGuard' /\ AttemptsOK'
<1> USE DEF AttemptsOK
<1> DEFINE i == call[c].id
<1>1. i \in Ids
  BY DEF UndoCreate, Put, Remove, IInv, TypeOK, Call
<1>2. ~Holding(c)' /\ \A d \in Clients \ {c} : call'[d] = call[d]
  BY ReturnStops DEF UndoCreate, Put, Remove, IInv
<1>3. \A j \in Ids \ {i} : store'[j] = store[j] /\ (j \in revived' <=> j \in revived)
  BY <1>1 DEF UndoCreate, Put, Remove, IInv, TypeOK
<1>4. \A p \in Plans : i \in (Confirmed(p) \ revived)' => i \in Confirmed(p) \ revived
  <2>1. CASE UndoCreate(c) \/ Remove(c)
    BY <1>1, <2>1 DEF UndoCreate, Remove, IInv, TypeOK, Confirmed, Has
  <2>2. CASE Put(c)
    BY <1>1, <2>2 DEF Put, IInv, TypeOK, Confirmed, Has
  <2> QED
    BY <2>1, <2>2
<1>5. /\ WinnerHoldsGuard'
      /\ \A p \in Plans : (Confirmed(p) \ revived)' \subseteq Confirmed(p) \ revived
  BY <1>1, <1>3, <1>4, OneWrite DEF UndoCreate, Put, Remove
<1>6. Touch(c, {i}) /\ UNCHANGED guard
  BY DEF UndoCreate, Put, Remove
<1> QED
  BY <1>1, <1>2, <1>3, <1>5, <1>6, WritingStep

\* Reading the target starts an attempt with nothing listed.
LEMMA ReadTargetInv ==
  ASSUME IInv, NEW c \in Clients, ReadTarget(c) PROVE WinnerHoldsGuard' /\ AttemptsOK'
<1> USE DEF AttemptsOK
<1> DEFINE r == store[call[c].id]
           k == [call[c] EXCEPT !.pc = IF r.plan = Null THEN "commit" ELSE "guard",
                                !.rec = r, !.now = today]
<1>1. call[c] \in Call /\ call[c].id \in Ids /\ call[c].pc = "target"
  BY DEF ReadTarget, IInv, TypeOK, Call
<1>2. CASE r = Null \/ r.status # "candidate"
  BY <1>1, <1>2, ReturnStops, QuietStep DEF ReadTarget, IInv
<1>3. CASE r # Null /\ r.status = "candidate"
  <2>1. r \in Reservation
    BY <1>1, <1>3 DEF IInv, TypeOK
  <2>2. /\ k \in Locals /\ k.id = call[c].id /\ k.rec = r
        /\ k.sibs = call[c].sibs /\ k.todo = call[c].todo
        /\ k.pc = (IF r.plan = Null THEN "commit" ELSE "guard")
    BY <1>1, <2>1 DEF Call, Locals, Pcs, IInv, TypeOK
  <2>3. call' = [call EXCEPT ![c] = k]
    BY <1>3 DEF ReadTarget, Becomes
  <2>4. call'[c] = k /\ \A d \in Clients \ {c} : call'[d] = call[d]
    BY <2>3 DEF IInv, TypeOK
  <2>5. call[c].sibs = {} /\ call[c].todo = {}
    BY <1>1 DEF Call
  <2>6. r.plan # Null => r.plan \in Plans
    BY <2>1 DEF Reservation
  <2>7. store' = store /\ guard' = guard /\ revived' = revived /\ touched' = touched
    BY DEF ReadTarget
  <2> HIDE DEF k
  <2>8. Attempt(c)'
    BY <1>1, <1>3, <2>1, <2>2, <2>4, <2>5, <2>6, <2>7, LedgerAssumption DEF Attempt
  <2> QED
    BY <2>4, <2>7, <2>8, QuietStep
<1> QED
  BY <1>2, <1>3

\* Reading the guard: from here on it is version-checked.
LEMMA ReadGuardInv ==
  ASSUME IInv, NEW c \in Clients, ReadGuard(c) PROVE WinnerHoldsGuard' /\ AttemptsOK'
<1> USE DEF AttemptsOK
<1> DEFINE p == call[c].rec.plan
           k == [call[c] EXCEPT !.pc = IF guard[p] = Null THEN "list" ELSE "guarded",
                                !.seen = guard[p], !.todo = Ids \ {call[c].id}]
<1>1. call[c] \in Call /\ call[c].pc = "guard" /\ p \in Plans /\ Attempt(c)
  BY DEF ReadGuard, IInv, TypeOK, Call, Holding
<1>2. call' = [call EXCEPT ![c] = k] /\ touched' = [touched EXCEPT ![c] = @ \ {p}]
  BY DEF ReadGuard, Becomes, Holds
<1>3. call'[c] = k /\ touched'[c] = touched[c] \ {p}
      /\ \A d \in Clients \ {c} : call'[d] = call[d] /\ touched'[d] = touched[d]
  BY <1>2 DEF IInv, TypeOK
<1>4. /\ k.id = call[c].id /\ k.rec = call[c].rec /\ k.sibs = {} /\ k.seen = guard[p]
      /\ k.todo = Ids \ {call[c].id} /\ k.replace = call[c].replace
      /\ k.pc = (IF guard[p] = Null THEN "list" ELSE "guarded")
  BY <1>1 DEF Call, Locals
<1>5. store' = store /\ guard' = guard /\ revived' = revived
  BY DEF ReadGuard
<1>6. guard[p] \in Ids \cup {Null}
  BY <1>1 DEF IInv, TypeOK
<1>7. call[c].id \notin touched'[c] => store[call[c].id] = call[c].rec
  BY <1>1, <1>3, LedgerAssumption DEF Attempt
<1> HIDE DEF k
<1>8. \A x \in Rivals(c, p)' : x \in Ids /\ guard[p] = x
  BY <1>1, <1>3, <1>4, <1>5 DEF Rivals, Confirmed, Has, IInv, WinnerHoldsGuard
<1>9. Attempt(c)'
  <2>1. \A x \in Rivals(c, p)' : k.pc # "list" /\ k.pc # "commit"
    BY <1>4, <1>8, LedgerAssumption
  <2> QED
    BY <1>1, <1>3, <1>4, <1>5, <1>6, <1>7, <2>1, LedgerAssumption DEF Attempt
<1> QED
  BY <1>3, <1>5, <1>9, QuietStep

\* A plain confirm that goes on past the guard read knows there is no rival.
LEMMA ReadGuardedInv ==
  ASSUME IInv, NEW c \in Clients, ReadGuarded(c) PROVE WinnerHoldsGuard' /\ AttemptsOK'
<1> USE DEF AttemptsOK
<1> DEFINE p == call[c].rec.plan
           k == [call[c] EXCEPT !.pc = "list"]
<1>1. /\ call[c] \in Call /\ call[c].pc = "guarded" /\ p \in Plans /\ Attempt(c)
      /\ call[c].id \in Ids
  BY DEF ReadGuarded, IInv, TypeOK, Call, Holding
<1>2. store' = store /\ guard' = guard /\ revived' = revived
  BY DEF ReadGuarded
<1>3. CASE Throw(c) /\ Forget(c)
  <2>1. \A d \in Clients \ {c} : touched'[d] = touched[d]
    BY <1>3 DEF Forget, IInv, TypeOK
  <2> QED
    BY <1>1, <1>2, <1>3, <2>1, ReturnStops, QuietStep DEF IInv
<1>4. CASE /\ ~(Has(call[c].seen, p, "confirmed") /\ ~call[c].replace)
           /\ Becomes(c, k) /\ UNCHANGED touched
  <2>1. /\ k \in Locals /\ k.id = call[c].id /\ k.rec = call[c].rec /\ k.sibs = call[c].sibs
        /\ k.seen = call[c].seen /\ k.todo = call[c].todo /\ k.replace = call[c].replace
        /\ k.pc = "list"
    BY <1>1 DEF Call, Locals, Pcs
  <2>2. call'[c] = k /\ \A d \in Clients \ {c} : call'[d] = call[d]
    BY <1>4 DEF Becomes, IInv, TypeOK
  <2> HIDE DEF k
  <2>3. ASSUME p \notin touched[c], NEW x \in Rivals(c, p)
        PROVE  call[c].replace /\ x \in call[c].todo \cup call[c].sibs
    <3>1. x \in Confirmed(p) \ revived /\ x # call[c].id /\ x \in Ids
      BY <2>3 DEF Rivals, Confirmed
    <3>2. guard[p] = x /\ guard[p] = call[c].seen
      BY <1>1, <2>3, <3>1 DEF Attempt, IInv, WinnerHoldsGuard
    <3>3. call[c].replace
      BY <1>4, <3>1, <3>2 DEF Confirmed
    <3>4. call[c].todo = Ids \ {call[c].id}
      BY <1>1 DEF Attempt
    <3> QED
      BY <3>1, <3>3, <3>4
  <2>4. Rivals(c, p)' = Rivals(c, p) /\ p' = p
    BY <1>2, <2>1, <2>2 DEF Rivals, Confirmed, Has
  <2>5. Attempt(c)'
    BY <1>1, <1>2, <1>4, <2>1, <2>2, <2>3, <2>4, LedgerAssumption DEF Attempt
  <2> QED
    BY <1>2, <1>4, <2>2, <2>5, QuietStep
<1> QED
  BY <1>3, <1>4 DEF ReadGuarded

\* The list moves every rival from todo to sibs.
LEMMA ListBatchInv ==
  ASSUME IInv, NEW c \in Clients, ListBatch(c) PROVE WinnerHoldsGuard' /\ AttemptsOK'
<1> USE DEF AttemptsOK
<1> DEFINE p == call[c].rec.plan
           winners(batch) == {i \in batch : Has(i, p, "confirmed")}
           live(batch) == {i \in batch : Has(i, p, "candidate")
                                         /\ ~IsFinished(store[i], call[c].now)}
           k(batch) == [call[c] EXCEPT
                          !.pc = IF call[c].todo \ batch = {} THEN "commit" ELSE "list",
                          !.todo = call[c].todo \ batch,
                          !.sibs = @ \cup winners(batch) \cup live(batch)]
<1>1. /\ call[c] \in Call /\ call[c].pc = "list" /\ p \in Plans /\ Attempt(c)
      /\ call[c].id \in Ids
  BY DEF ListBatch, IInv, TypeOK, Call, Holding
<1>2. store' = store /\ guard' = guard /\ revived' = revived
  BY DEF ListBatch
<1>3. PICK batch \in SUBSET call[c].todo :
        \/ Throw(c) /\ Forget(c)
        \/ /\ winners(batch) = {} \/ call[c].replace
           /\ Becomes(c, k(batch)) /\ Holds(c, batch)
  BY DEF ListBatch
<1>4. CASE Throw(c) /\ Forget(c)
  <2>1. \A d \in Clients \ {c} : touched'[d] = touched[d]
    BY <1>4 DEF Forget, IInv, TypeOK
  <2> QED
    BY <1>1, <1>2, <1>4, <2>1, ReturnStops, QuietStep DEF IInv
<1>5. CASE /\ winners(batch) = {} \/ call[c].replace
           /\ Becomes(c, k(batch)) /\ Holds(c, batch)
  <2> DEFINE n == k(batch)  new == winners(batch) \cup live(batch)
  <2>1. /\ n.id = call[c].id /\ n.rec = call[c].rec /\ n.sibs = call[c].sibs \cup new
        /\ n.seen = call[c].seen /\ n.todo = call[c].todo \ batch
        /\ n.replace = call[c].replace
        /\ n.pc = (IF call[c].todo \ batch = {} THEN "commit" ELSE "list")
    BY <1>1 DEF Call, Locals
  <2>2. /\ call'[c] = n /\ touched'[c] = touched[c] \ batch
        /\ \A d \in Clients \ {c} : call'[d] = call[d] /\ touched'[d] = touched[d]
    BY <1>5 DEF Becomes, Holds, IInv, TypeOK
  <2>3. batch \subseteq Ids /\ call[c].sibs \subseteq Ids /\ call[c].id \notin batch
    BY <1>1 DEF Call, Locals, Attempt
  <2> HIDE DEF k, n
  <2>4. ASSUME NEW s \in call[c].sibs \cup new, s \notin touched[c] \ batch
        PROVE  /\ store[s] # Null /\ store[s].plan = p
               /\ store[s].status = "candidate" \/ (store[s].status = "confirmed" /\ call[c].replace)
    <3>1. CASE s \in new
      BY <1>5, <3>1 DEF Has
    <3>2. CASE s \in call[c].sibs /\ s \notin touched[c]
      BY <1>1, <3>2 DEF Attempt
    <3>3. CASE s \in batch /\ s \in call[c].sibs
      BY <1>1, <3>3 DEF Attempt
    <3> QED
      BY <2>4, <3>1, <3>2, <3>3
  <2>5. ASSUME p \notin touched[c] \ batch, NEW x \in Rivals(c, p)
        PROVE  call[c].replace /\ x \in n.todo \cup n.sibs
    <3>1. p \notin touched[c]
      BY <2>3, <2>5, <1>1, LedgerAssumption
    <3>2. call[c].replace /\ x \in call[c].todo \cup call[c].sibs
      BY <1>1, <2>5, <3>1 DEF Attempt
    <3>3. x \in batch => x \in winners(batch)
      BY <2>5 DEF Rivals, Confirmed
    <3> QED
      BY <2>1, <3>2, <3>3
  <2>6. Rivals(c, p)' = Rivals(c, p) /\ p' = p
    BY <1>2, <2>1, <2>2 DEF Rivals, Confirmed, Has
  <2>7. n.pc = "commit" => n.todo = {}
    BY <2>1
  <2>8. call[c].id \notin n.todo /\ call[c].id \notin touched[c] \ batch => store[call[c].id] = call[c].rec
    BY <1>1, <2>3 DEF Attempt
  <2>9. Attempt(c)'
    BY <1>1, <1>2, <2>1, <2>2, <2>3, <2>4, <2>5, <2>6, <2>7, <2>8, LedgerAssumption DEF Attempt
  <2> QED
    BY <1>2, <2>2, <2>9, QuietStep
<1> QED
  BY <1>3, <1>4, <1>5

\* An attempt that ends, for whatever reason, holds nothing any more.
LEMMA StopInv ==
  ASSUME IInv, NEW c \in Clients, Retry(c) \/ Crash(c) PROVE WinnerHoldsGuard' /\ AttemptsOK'
<1> USE DEF AttemptsOK
<1>1. \A d \in Clients \ {c} : touched'[d] = touched[d]
  BY DEF Retry, Crash, Forget, IInv, TypeOK
<1>2. ~Holding(c)' /\ \A d \in Clients \ {c} : call'[d] = call[d]
  <2>1. CASE Return(c) \/ Throw(c)
    BY <2>1, ReturnStops DEF Retry, Crash, Return, Throw, IInv, TypeOK, Call
  <2>2. ASSUME Retry(c), ~Throw(c)
        PROVE  ~Holding(c)' /\ \A d \in Clients \ {c} : call'[d] = call[d]
    <3> DEFINE k == [Idle EXCEPT !.pc = "target", !.id = call[c].id, !.replace = call[c].replace,
                                 !.creating = call[c].creating, !.attempt = call[c].attempt + 1]
    <3>1. k.pc = "target"
      BY IdleCall DEF Call, Locals
    <3>2. Becomes(c, k)
      BY <2>2 DEF Retry
    <3>3. call'[c] = k /\ \A d \in Clients \ {c} : call'[d] = call[d]
      BY <3>2 DEF Becomes, IInv, TypeOK
    <3> QED
      BY <3>1, <3>3 DEF Holding
  <2> QED
    BY <2>1, <2>2 DEF Crash
<1> QED
  BY <1>1, <1>2, QuietStep DEF Retry, Crash

-----------------------------------------------------------------------------
(* The commit.                                                             *)

\* What an unconflicted commit knows: it writes what it read, every sibling
\* is a candidate of the plan or an old winner it may replace, and every other
\* settled winner of the plan is among the siblings.
LEMMA CommitKnows ==
  ASSUME IInv, NEW c \in Clients, Commit(c)
  PROVE  LET k == call[c]  p == call[c].rec.plan IN
         /\ k.id \in Ids /\ k.rec \in Reservation /\ store[k.id] = k.rec
         /\ k.rec.status = "candidate" /\ k.id \notin k.sibs /\ k.sibs \subseteq Ids
         /\ p = Null => k.sibs = {}
         /\ \A s \in k.sibs :
              /\ store[s] \in Reservation /\ store[s].plan = p
              /\ store[s].status = "candidate" \/ (store[s].status = "confirmed" /\ k.replace)
         /\ p \in Plans => p \notin touched[c] /\ Rivals(c, p) \subseteq k.sibs
         /\ p \in Plans /\ ~k.replace => Rivals(c, p) = {}
<1> DEFINE k == call[c]  p == call[c].rec.plan
<1>1. Attempt(c) /\ k.pc = "commit" /\ k \in Call /\ ~Conflict(c)
  BY DEF Commit, IInv, TypeOK, Holding
<1>2. k.id \in Ids /\ k.rec \in Reservation /\ k.sibs \subseteq Ids /\ k.id \notin k.sibs
      /\ k.rec.status = "candidate" /\ (p = Null => k.sibs = {})
  BY <1>1 DEF Attempt, Call, Locals
<1>3. k.id \notin touched[c] /\ (p # Null => p \notin touched[c] /\ k.sibs \cap touched[c] = {})
  BY <1>1 DEF Conflict, Checked
<1>4. p \in Plans => p # Null
  BY LedgerAssumption
<1>5. \A s \in k.sibs : s \in k.sibs \ touched[c]
  BY <1>2, <1>3
<1>6. \A s \in k.sibs :
        /\ store[s] # Null /\ store[s].plan = p
        /\ store[s].status = "candidate" \/ (store[s].status = "confirmed" /\ k.replace)
  BY <1>1, <1>5 DEF Attempt
<1>7. p \in Plans => \A x \in Rivals(c, p) : k.replace /\ x \in k.sibs
  BY <1>1, <1>3, <1>4 DEF Attempt
<1>8. store[k.id] = k.rec
  BY <1>1, <1>3 DEF Attempt
<1>9. \A s \in k.sibs : store[s] \in Reservation
  BY <1>2, <1>6 DEF IInv, TypeOK
<1> QED
  BY <1>2, <1>3, <1>4, <1>6, <1>7, <1>8, <1>9

\* What it writes.
LEMMA CommitWrites ==
  ASSUME IInv, NEW c \in Clients, Commit(c)
  PROVE  LET k == call[c]  p == call[c].rec.plan IN
         /\ \A i \in {k.id}, q \in Plans, st \in Statuses :
              Has(i, q, st)' <=> q = p /\ st = "confirmed"
         /\ \A s \in k.sibs, q \in Plans, st \in Statuses :
              Has(s, q, st)' <=> q = p /\ st = "to_cancel"
         /\ \A i \in Ids \ (k.sibs \cup {k.id}) : store'[i] = store[i]
         /\ \A q \in Plans : guard'[q] = IF q = p THEN k.id ELSE guard[q]
         /\ revived' = revived \ ({k.id} \cup k.sibs)
<1> DEFINE k == call[c]  p == call[c].rec.plan
<1>1. /\ k.id \in Ids /\ k.rec \in Reservation /\ k.id \notin k.sibs /\ k.sibs \subseteq Ids
      /\ \A s \in k.sibs : store[s] \in Reservation /\ store[s].plan = p
  BY CommitKnows
<1>2. store'[k.id] = [k.rec EXCEPT !.status = "confirmed"]
  BY <1>1 DEF Commit
<1>3. \A s \in k.sibs : store'[s] = [store[s] EXCEPT !.status = "to_cancel"]
  BY <1>1 DEF Commit
<1>4. \A i \in Ids \ (k.sibs \cup {k.id}) : store'[i] = store[i]
  BY DEF Commit
<1>5. TypeOK'
  BY TypeStep DEF Next, Step
<1>6. ASSUME NEW r \in Reservation, NEW st \in Statuses
      PROVE  LET w == [r EXCEPT !.status = st] IN
             w # Null /\ w.plan = r.plan /\ w.status = st
  <2>1. [r EXCEPT !.status = st] \in Reservation
    BY DEF Reservation
  <2>2. [r EXCEPT !.status = st].plan = r.plan /\ [r EXCEPT !.status = st].status = st
    BY DEF Reservation
  <2> QED
    BY <2>1, <2>2, NullAssumption
<1>7. {"confirmed", "to_cancel"} \subseteq Statuses
  BY DEF Statuses
<1>8. /\ store'[k.id] # Null /\ store'[k.id].plan = p /\ store'[k.id].status = "confirmed"
  BY <1>1, <1>2, <1>6, <1>7
<1>9. \A s \in k.sibs : /\ store'[s] # Null
                        /\ store'[s].plan = p /\ store'[s].status = "to_cancel"
  <2> TAKE s \in k.sibs
  <2>1. store[s] \in Reservation /\ store[s].plan = p
    BY <1>1
  <2>2. LET w == [store[s] EXCEPT !.status = "to_cancel"] IN
        w # Null /\ w.plan = store[s].plan /\ w.status = "to_cancel"
    BY <1>6, <1>7, <2>1
  <2> QED
    BY <1>3, <2>1, <2>2
<1>10. \A i \in {k.id}, q \in Plans, st \in Statuses :
         Has(i, q, st)' <=> q = p /\ st = "confirmed"
  BY <1>8 DEF Has
<1>11. ASSUME NEW s \in k.sibs, NEW q \in Plans, NEW st \in Statuses
       PROVE  Has(s, q, st)' <=> q = p /\ st = "to_cancel"
  <2>1. store'[s] # Null /\ store'[s].plan = p /\ store'[s].status = "to_cancel"
    BY <1>9
  <2> QED
    BY <2>1 DEF Has
<1>12. /\ \A q \in Plans : guard'[q] = IF q = p THEN k.id ELSE guard[q]
       /\ revived' = revived \ ({k.id} \cup k.sibs)
  BY DEF Commit
<1> QED
  BY <1>4, <1>10, <1>11, <1>12

\* A commit leaves its plan exactly one settled winner, and the guard names it.
LEMMA CommitInv ==
  ASSUME IInv, NEW c \in Clients, Commit(c) PROVE WinnerHoldsGuard' /\ AttemptsOK'
<1> DEFINE k == call[c]  p == call[c].rec.plan
<1>1. /\ k.id \in Ids /\ k.rec \in Reservation /\ k.id \notin k.sibs /\ k.sibs \subseteq Ids
      /\ p \in Plans \cup {Null} /\ (p = Null => k.sibs = {})
      /\ p \in Plans => Rivals(c, p) \subseteq k.sibs
  BY CommitKnows DEF Reservation
<1>2. "confirmed" \in Statuses
  BY DEF Statuses
<1>0. \A i \in {k.id}, q \in Plans : Has(i, q, "confirmed")' => q = p
  BY <1>2, CommitWrites
<1>3. ASSUME NEW q \in Plans, NEW x \in (Confirmed(q) \ revived)', x # k.id
      PROVE  x \in Confirmed(q) \ revived /\ x \notin k.sibs
  BY <1>1, <1>2, <1>3, CommitWrites DEF Confirmed, Has, Statuses
<1>4. ASSUME NEW q \in Plans, NEW x \in (Confirmed(q) \ revived)' PROVE guard'[q] = x
  <2>1. CASE x = k.id
    <3>1. q = p
      BY <1>0, <1>4, <2>1 DEF Confirmed
    <3> QED
      BY <2>1, <3>1, CommitWrites
  <2>2. CASE x # k.id
    <3>1. x \in Confirmed(q) \ revived /\ x \notin k.sibs
      BY <1>3, <1>4, <2>2
    <3>2. q # p
      BY <1>1, <2>2, <3>1 DEF Rivals
    <3> QED
      BY <3>1, <3>2, CommitWrites DEF IInv, WinnerHoldsGuard
  <2> QED
    BY <2>1, <2>2
<1>5. WinnerHoldsGuard'
  BY <1>4 DEF WinnerHoldsGuard
<1>6. ~Holding(c)' /\ \A d \in Clients \ {c} : call'[d] = call[d]
  BY ReturnStops DEF Commit, IInv
<1>7. AttemptsOK'
  <2> DEFINE K == Checked(c)
  <2>1. K \subseteq Ids \cup Plans /\ k.id \in K /\ (p = Null \/ p \in K) /\ k.sibs \subseteq K
    BY <1>1 DEF Checked
  <2>2. Touch(c, K)
    BY DEF Commit
  <2>3. \A i \in Ids \ K : store'[i] = store[i]
    BY <2>1, CommitWrites
  <2>4. \A q \in Plans \ K : guard'[q] = guard[q]
    BY <2>1, CommitWrites, LedgerAssumption
  <2>5. \A q \in Plans \ K : (Confirmed(q) \ revived)' \subseteq Confirmed(q) \ revived
    <3> SUFFICES ASSUME NEW q \in Plans \ K, NEW x \in (Confirmed(q) \ revived)'
                 PROVE  x \in Confirmed(q) \ revived
      OBVIOUS
    <3>1. x # k.id
      <4>1. CASE x = k.id
        <5>1. q = p
          BY <1>0, <4>1 DEF Confirmed
        <5> QED
          BY <2>1, <5>1, LedgerAssumption
      <4> QED
        BY <4>1
    <3> QED
      BY <1>3, <3>1
  <2> HIDE DEF K
  <2> QED
    BY <1>6, <2>1, <2>2, <2>3, <2>4, <2>5, WritingStep DEF AttemptsOK
<1> QED
  BY <1>5, <1>7

-----------------------------------------------------------------------------
(* The theorems.                                                           *)

\* An empty ledger satisfies the invariant.
LEMMA InitInv == Init => IInv
<1> SUFFICES ASSUME Init PROVE IInv
  OBVIOUS
<1>1. TypeOK
  BY IdleCall, LedgerAssumption DEF Init, TypeOK, Days
<1>2. WinnerHoldsGuard
  BY DEF Init, WinnerHoldsGuard, Confirmed, Has
<1>3. \A c \in Clients : ~Holding(c)
  BY IdleFields DEF Init, Holding
<1> QED
  BY <1>1, <1>2, <1>3 DEF IInv

\* Every action preserves it.
LEMMA StepInv == IInv /\ [Next]_vars => IInv'
<1> SUFFICES ASSUME IInv, [Next]_vars PROVE IInv'
  OBVIOUS
<1>1. TypeOK'
  BY TypeStep
<1>2. WinnerHoldsGuard' /\ AttemptsOK'
  <2>1. CASE Midnight \/ UNCHANGED vars
    <3>1. UNCHANGED <<store, guard, call, touched, revived>>
      BY <2>1 DEF Midnight, vars
    <3> QED
      BY <3>1 DEF IInv, AttemptsOK, WinnerHoldsGuard, Confirmed, Has, Holding, Attempt, Rivals
  <2>2. CASE \E c \in Clients : Begin(c)
    BY <2>2, BeginInv
  <2>3. CASE \E c \in Clients : Crash(c)
    BY <2>3, StopInv
  <2>4. CASE \E c \in Clients : Step(c)
    BY <2>4, PutInv, ReadTargetInv, ReadGuardInv, ReadGuardedInv, ListBatchInv,
       StopInv, CommitInv DEF Step
  <2> QED
    BY <2>1, <2>2, <2>3, <2>4 DEF Next
<1> QED
  BY <1>1, <1>2 DEF IInv, AttemptsOK

\* The strengthened invariant holds in every reachable state.
THEOREM Invariance == Spec => []IInv
BY InitInv, StepInv, PTL DEF Spec

\* Every operation of store.ts keeps the ledger well typed: in particular no
\* record loses its plan, status or day, and a commit only runs on records that
\* were read.
THEOREM TypeCorrect == Spec => []TypeOK
<1>1. IInv => TypeOK
  BY DEF IInv
<1> QED
  BY <1>1, Invariance, PTL

\* The optimistic confirm keeps the guard and the settled winner together,
\* whatever reads, edits, deletes, crashes and other confirms run between its
\* own KV calls.
THEOREM GuardCorrect == Spec => []WinnerHoldsGuard
<1>1. IInv => WinnerHoldsGuard
  BY DEF IInv
<1> QED
  BY <1>1, Invariance, PTL

\* Two settled winners never coexist in a plan (store.ts:391, restricted to
\* what commits do).
THEOREM OneSettledWinner ==
  Spec => [](\A p \in Plans : \A i, j \in Confirmed(p) \ revived : i = j)
<1>1. IInv => \A p \in Plans : \A i, j \in Confirmed(p) \ revived : i = j
  BY DEF IInv, WinnerHoldsGuard
<1> QED
  BY <1>1, Invariance, PTL

\* A commit writes no reservation but its own and true losers of its plan: the
\* versions it checks catch every edit, cancel, restore and delete in between.
THEOREM LosersCorrect == Spec => LosersReallyLost
<1>1. IInv /\ [Next]_vars =>
        [\A c \in Clients : Commit(c) =>
           \A i \in Ids \ {call[c].id} : store'[i] # store[i] =>
             /\ store[i].plan = call[c].rec.plan
             /\ \/ store[i].status = "candidate"
                \/ store[i].status = "confirmed" /\ call[c].replace]_vars
  <2> SUFFICES ASSUME IInv, NEW c \in Clients, Commit(c), NEW i \in Ids \ {call[c].id},
                      store'[i] # store[i]
               PROVE  /\ store[i].plan = call[c].rec.plan
                      /\ \/ store[i].status = "candidate"
                         \/ store[i].status = "confirmed" /\ call[c].replace
    OBVIOUS
  <2>1. i \in call[c].sibs
    BY CommitWrites
  <2> QED
    BY <2>1, CommitKnows
<1> QED
  BY <1>1, Invariance, PTL DEF Spec, LosersReallyLost

-----------------------------------------------------------------------------
(* The settlement is whole: what the list has passed.                      *)

\* The list has passed every other untouched reservation without leaving out
\* a live candidate of the plan.
Seen(c) ==
  LET k == call[c] IN
  /\ k.pc = "commit" => k.todo = {}
  /\ \A x \in Ids \ ({k.id} \cup k.todo \cup k.sibs \cup touched[c]) :
        ~(Has(x, k.rec.plan, "candidate") /\ k.now <= store[x].day)

Listing(c) == call[c].pc \in {"list", "commit"} /\ call[c].rec.plan \in Plans

SeenOK == \A c \in Clients : Listing(c) => Seen(c)

\* What the others do to an attempt: they leave its request alone, and touch
\* the reservations they write.
LEMMA OthersTouch ==
  ASSUME IInv, NEW c \in Clients, Begin(c) \/ Step(c) \/ Crash(c),
         NEW d \in Clients \ {c}, Holding(d)
  PROVE  /\ call'[d] = call[d] /\ touched[d] \subseteq touched'[d]
         /\ \A i \in Ids : store'[i] # store[i] => i \in touched'[d]
<1>1. TypeOK
  BY DEF IInv
<1>2. CASE Begin(c)
  <2>1. CASE Create(c)
    BY <1>1, <2>1 DEF Create, Touch, StartConfirm, Becomes, TypeOK, Holding
  <2>2. CASE Confirm(c) \/ Patch(c) \/ Cancel(c) \/ Restore(c) \/ Delete(c)
    BY <1>1, <2>2 DEF Confirm, Patch, Cancel, Restore, Delete, StartConfirm, StartPut, Becomes, TypeOK
  <2> QED
    BY <1>2, <2>1, <2>2 DEF Begin
<1>3. CASE UndoCreate(c) \/ Put(c) \/ Remove(c)
  BY <1>1, <1>3 DEF UndoCreate, Put, Remove, Touch, Return, Becomes, TypeOK, Holding
<1>4. CASE ReadTarget(c) \/ ReadGuard(c) \/ ReadGuarded(c) \/ Retry(c) \/ Crash(c)
  BY <1>1, <1>4 DEF ReadTarget, ReadGuard, ReadGuarded, Retry, Crash, Holds, Forget,
                    Return, Throw, Becomes, TypeOK
<1>5. CASE ListBatch(c)
  <2>1. /\ store' = store
        /\ Throw(c) \/ \E k : Becomes(c, k)
        /\ Forget(c) \/ \E keys : Holds(c, keys)
    BY <1>5 DEF ListBatch
  <2> QED
    BY <1>1, <2>1 DEF Throw, Becomes, Forget, Holds, TypeOK
<1>6. CASE Commit(c)
  <2>1. call' = [call EXCEPT ![c] = Idle] /\ touched'[d] = touched[d] \cup Checked(c)
    BY <1>6 DEF Commit, Touch, Return, Becomes, Holding
  <2>2. \A i \in Ids \ (call[c].sibs \cup {call[c].id}) : store'[i] = store[i]
    BY <1>6, CommitWrites
  <2>3. call[c].sibs \cup {call[c].id} \subseteq Checked(c)
    BY <1>6, CommitKnows DEF Checked
  <2> QED
    BY <1>1, <2>1, <2>2, <2>3 DEF TypeOK
<1> QED
  BY <1>2, <1>3, <1>4, <1>5, <1>6 DEF Step

\* No action changes another client's request.
LEMMA OthersAlone ==
  ASSUME IInv, NEW c \in Clients, Begin(c) \/ Step(c) \/ Crash(c), NEW d \in Clients \ {c}
  PROVE  call'[d] = call[d]
<1>1. UNCHANGED call \/ Throw(c) \/ \E k : Becomes(c, k)
  BY DEF Begin, Step, Crash, Create, Confirm, Patch, Cancel, Restore, Delete, UndoCreate,
         ReadTarget, ReadGuard, ReadGuarded, ListBatch, Commit, Retry, Put, Remove,
         Return, StartConfirm, StartPut
<1> QED
  BY <1>1 DEF Throw, Becomes, IInv, TypeOK

\* Only the four reads of an attempt leave its client listing.
LEMMA OwnStops ==
  ASSUME IInv, NEW c \in Clients,
         \/ Begin(c) \/ Crash(c)
         \/ UndoCreate(c) \/ Put(c) \/ Remove(c) \/ Commit(c) \/ Retry(c)
  PROVE  ~Listing(c)'
<1>1. TypeOK /\ call[c] \in Call
  BY DEF IInv, TypeOK
<1>2. CASE \/ Return(c) \/ (Throw(c) /\ call[c].id \in Ids)
  BY <1>1, <1>2, ReturnStops DEF Holding, Listing
<1>3. ASSUME NEW i \in Ids,
             \/ \E b, e \in BOOLEAN : StartConfirm(c, i, b, e)
             \/ \E r \in Reservation : StartPut(c, i, r)
             \/ Becomes(c, [Idle EXCEPT !.pc = "delete", !.id = i])
      PROVE  ~Listing(c)'
  BY <1>1, <1>3, BeginStops DEF Holding, Listing
<1>4. CASE Begin(c)
  <2>1. CASE Create(c)
    <3>1. \/ \E i \in Ids : StartConfirm(c, i, FALSE, TRUE)
          \/ UNCHANGED call /\ call[c].pc = "idle"
      BY <2>1 DEF Create
    <3> QED
      BY <1>3, <3>1 DEF Listing
  <2>2. CASE Confirm(c)
    <3>1. \E i \in Ids, b \in BOOLEAN : StartConfirm(c, i, b, FALSE)
      BY <1>1, <2>2 DEF Confirm, TypeOK
    <3> QED
      BY <1>3, <3>1
  <2>3. CASE Patch(c) \/ Cancel(c) \/ Restore(c)
    BY <1>1, <1>3, <2>3, PutIsTyped
  <2>4. CASE Delete(c)
    BY <1>1, <1>3, <2>4 DEF Delete, TypeOK
  <2> QED
    BY <1>4, <2>1, <2>2, <2>3, <2>4 DEF Begin
<1>5. CASE UndoCreate(c) \/ Put(c) \/ Remove(c) \/ Commit(c) \/ Crash(c)
  BY <1>2, <1>5 DEF UndoCreate, Put, Remove, Commit, Crash
<1>6. CASE Retry(c)
  <2>1. call[c].id \in Ids
    BY <1>1, <1>6 DEF Retry, Call
  <2>2. CASE Throw(c)
    BY <1>2, <2>1, <2>2
  <2>3. CASE call[c].attempt + 1 < MaxAttempts
    <3> DEFINE k == [Idle EXCEPT
            !.pc = "target", !.id = call[c].id, !.replace = call[c].replace,
            !.creating = call[c].creating, !.attempt = call[c].attempt + 1]
    <3>0. /\ call[c].attempt + 1 \in 0 .. MaxAttempts - 1
          /\ call[c].replace \in BOOLEAN /\ call[c].creating \in BOOLEAN
      BY <1>1, <2>3, LedgerAssumption DEF Call, Locals
    <3>1. k \in Locals /\ k.pc = "target" /\ k.sibs = {} /\ k.todo = {} /\ k.id \in Ids
      BY <2>1, <3>0, IdleCall, IdleFields DEF Call, Locals, Pcs
    <3>2. k \in Call
      BY <3>1 DEF Call
    <3>3. Becomes(c, k)
      BY <1>6, <2>3 DEF Retry
    <3> HIDE DEF k
    <3> QED
      BY <1>1, <3>1, <3>2, <3>3, BecomesType DEF Listing
  <2> QED
    BY <1>6, <2>2, <2>3 DEF Retry
<1> QED
  BY <1>4, <1>5, <1>6

\* Each of those reads keeps track of what the list has passed.
LEMMA ListingStep ==
  ASSUME IInv, SeenOK, NEW c \in Clients,
         ReadTarget(c) \/ ReadGuard(c) \/ ReadGuarded(c) \/ ListBatch(c)
  PROVE  Listing(c)' => Seen(c)'
<1>1. TypeOK /\ call[c] \in Call /\ store' = store
  BY DEF IInv, TypeOK, ReadTarget, ReadGuard, ReadGuarded, ListBatch
<1>2. CASE Return(c) \/ (Throw(c) /\ call[c].id \in Ids)
  BY <1>1, <1>2, ReturnStops DEF Holding, Listing
<1>3. call[c].id \in Ids
  BY <1>1 DEF Call, ReadTarget, ReadGuard, ReadGuarded, ListBatch
<1>4. CASE ReadTarget(c)
  <2> DEFINE r == store[call[c].id]
             k == [call[c] EXCEPT !.pc = IF r.plan = Null THEN "commit" ELSE "guard",
                                  !.rec = r, !.now = today]
  <2>1. CASE Return(c) \/ Throw(c)
    BY <1>2, <1>3, <2>1
  <2>2. CASE Becomes(c, k)
    <3>1. call'[c] = k
      BY <1>1, <2>2 DEF Becomes, TypeOK
    <3>2. k.pc = (IF r.plan = Null THEN "commit" ELSE "guard") /\ k.rec = r
      BY <1>1 DEF Call, Locals
    <3> HIDE DEF k
    <3> QED
      BY <3>1, <3>2, LedgerAssumption DEF Listing
  <2> QED
    BY <1>4, <2>1, <2>2 DEF ReadTarget
<1>5. CASE ReadGuard(c)
  <2> DEFINE k == [call[c] EXCEPT !.pc = IF guard[call[c].rec.plan] = Null THEN "list" ELSE "guarded",
                                !.seen = guard[call[c].rec.plan],
                                !.todo = Ids \ {call[c].id}]
  <2>1. call'[c] = k
    BY <1>1, <1>5 DEF ReadGuard, Becomes, TypeOK
  <2>2. k.id = call[c].id /\ k.todo = Ids \ {call[c].id} /\ k.pc # "commit"
    BY <1>1 DEF Call, Locals
  <2> HIDE DEF k
  <2> QED
    BY <2>1, <2>2 DEF Seen
<1>6. CASE ReadGuarded(c)
  <2>1. CASE Throw(c)
    BY <1>2, <1>3, <2>1
  <2>2. CASE Becomes(c, [call[c] EXCEPT !.pc = "list"])
    <3> DEFINE k == [call[c] EXCEPT !.pc = "list"]
    <3>1. call'[c] = k
      BY <1>1, <2>2 DEF Becomes, TypeOK
    <3>2. k.id = call[c].id /\ k.todo = call[c].todo /\ k.pc = "list"
      BY <1>1 DEF Call, Locals
    <3>3. call[c].todo = Ids \ {call[c].id}
      BY <1>6 DEF ReadGuarded, IInv, Holding, Attempt
    <3> HIDE DEF k
    <3> QED
      BY <3>1, <3>2, <3>3 DEF Seen
  <2> QED
    BY <1>6, <2>1, <2>2 DEF ReadGuarded
<1>7. CASE ListBatch(c)
  <2> DEFINE p == call[c].rec.plan
             live(batch) == {i \in batch : Has(i, p, "candidate")
                                           /\ ~IsFinished(store[i], call[c].now)}
             winners(batch) == {i \in batch : Has(i, p, "confirmed")}
             k(batch) == [call[c] EXCEPT
                            !.pc = IF call[c].todo \ batch = {} THEN "commit" ELSE "list",
                            !.todo = call[c].todo \ batch,
                            !.sibs = @ \cup winners(batch) \cup live(batch)]
  <2>1. PICK batch \in SUBSET call[c].todo :
          Throw(c) \/ (Becomes(c, k(batch)) /\ Holds(c, batch))
    BY <1>7 DEF ListBatch
  <2>2. CASE Throw(c)
    BY <1>2, <1>3, <2>2
  <2>3. CASE Becomes(c, k(batch)) /\ Holds(c, batch)
    <3> DEFINE n == k(batch)
    <3>1. /\ n.id = call[c].id /\ n.rec = call[c].rec /\ n.now = call[c].now
          /\ n.todo = call[c].todo \ batch /\ (n.pc = "commit" => n.todo = {})
          /\ n.sibs = call[c].sibs \cup winners(batch) \cup live(batch)
      BY <1>1 DEF Call, Locals
    <3>2. call'[c] = n /\ touched'[c] = touched[c] \ batch
      BY <1>1, <2>3 DEF Becomes, Holds, TypeOK
    <3>3. Listing(c) /\ Seen(c)
      BY <1>1, <1>7 DEF ListBatch, Listing, Call, SeenOK
    <3>4. \A x \in Ids \ live(batch) :
            x \in batch => ~(Has(x, p, "candidate") /\ call[c].now <= store[x].day)
      <4> TAKE x \in Ids \ live(batch)
      <4>1. call[c].now \in Nat
        BY <1>1, LedgerAssumption DEF Call, Locals, Days
      <4>2. Has(x, p, "candidate") => store[x].day \in Nat
        BY <1>1, LedgerAssumption DEF Has, TypeOK, Reservation, Days
      <4> QED
        BY <4>1, <4>2 DEF IsFinished
    <3>5. ASSUME NEW x \in Ids, x \notin {n.id} \cup n.todo \cup n.sibs \cup touched'[c]
          PROVE  ~(Has(x, p, "candidate") /\ call[c].now <= store[x].day)
      <4>1. CASE x \in batch
        BY <3>1, <3>4, <3>5, <4>1
      <4>2. CASE x \notin batch
        BY <3>1, <3>2, <3>3, <3>5, <4>2 DEF Seen
      <4> QED
        BY <4>1, <4>2
    <3> HIDE DEF n, k
    <3> QED
      BY <1>1, <3>1, <3>2, <3>5 DEF Seen, Has
  <2> QED
    BY <2>1, <2>2, <2>3
<1> QED
  BY <1>4, <1>5, <1>6, <1>7

\* Every action preserves SeenOK.
LEMMA SeenStep == IInv /\ SeenOK /\ [Next]_vars => SeenOK'
<1> SUFFICES ASSUME IInv, SeenOK, [Next]_vars, NEW d \in Clients, Listing(d)'
             PROVE  Seen(d)'
  BY DEF SeenOK
<1>1. CASE Midnight \/ UNCHANGED vars
  BY <1>1 DEF Midnight, vars, Listing, Seen, SeenOK, Has
<1>2. ASSUME NEW c \in Clients, Begin(c) \/ Step(c) \/ Crash(c), c # d PROVE Seen(d)'
  <2>1. CASE Holding(d)
    <3>1. /\ call'[d] = call[d] /\ touched[d] \subseteq touched'[d]
          /\ \A i \in Ids : store'[i] # store[i] => i \in touched'[d]
      BY <1>2, <2>1, OthersTouch
    <3>2. Seen(d)
      BY <3>1 DEF Listing, SeenOK
    <3> QED
      BY <3>1, <3>2 DEF Seen, Has
  <2>2. CASE ~Holding(d)
    <3>1. call'[d] = call[d]
      BY <1>2, OthersAlone
    <3> QED
      BY <2>2, <3>1 DEF Listing, Holding
  <2> QED
    BY <2>1, <2>2
<1>3. CASE Begin(d) \/ Step(d) \/ Crash(d)
  BY <1>3, OwnStops, ListingStep DEF Step
<1> QED
  BY <1>1, <1>2, <1>3 DEF Next

\* A commit settles its plan entirely: no other settled winner and no live
\* candidate is left, except one that came in after the list passed it.
THEOREM SettlementCorrect == Spec => SettlementIsWhole
<1>1. Init => SeenOK
  BY IdleFields DEF Init, SeenOK, Listing
<1>2. IInv /\ SeenOK /\ [Next]_vars =>
        [\A c \in Clients : Commit(c) =>
           \A i \in Ids \ {call[c].id}, p \in Plans \cap {call[c].rec.plan} :
             /\ i \in Confirmed(p)' => i \in revived
             /\ Has(i, p, "candidate")' /\ call[c].now <= store[i].day => i \in touched[c]]_vars
  <2> SUFFICES ASSUME IInv, SeenOK, NEW c \in Clients, Commit(c), NEW i \in Ids \ {call[c].id},
                      NEW p \in Plans \cap {call[c].rec.plan}
               PROVE  /\ i \in Confirmed(p)' => i \in revived
                      /\ Has(i, p, "candidate")' /\ call[c].now <= store[i].day => i \in touched[c]
    OBVIOUS
  <2>1. CASE i \in call[c].sibs
    <3>1. {"confirmed", "candidate", "to_cancel"} \subseteq Statuses
      BY DEF Statuses
    <3>2. ~Has(i, p, "confirmed")' /\ ~Has(i, p, "candidate")'
      BY <2>1, <3>1, CommitWrites
    <3> QED
      BY <3>2 DEF Confirmed
  <2>2. CASE i \notin call[c].sibs
    <3>1. store'[i] = store[i]
      BY <2>2, CommitWrites
    <3>2. i \in Confirmed(p)' => i \in revived
      BY <2>2, <3>1, CommitKnows DEF Confirmed, Has, Rivals
    <3>3. call[c].pc = "commit" /\ Listing(c)
      BY DEF Commit, Listing
    <3>4. call[c].todo = {} /\ Seen(c)
      BY <3>3 DEF Seen, SeenOK
    <3> QED
      BY <2>2, <3>1, <3>2, <3>4 DEF Seen, Has
  <2> QED
    BY <2>1, <2>2
<1>3. Spec => []SeenOK
  BY <1>1, SeenStep, Invariance, PTL DEF Spec
<1> QED
  BY <1>2, <1>3, Invariance, PTL DEF Spec, SettlementIsWhole

-----------------------------------------------------------------------------
(* The refinement.  Seen through its settled winners, every step of        *)
(* store.ts is a step of the promise or none.  The mapping needs one more  *)
(* fact than the invariant has: an id that was not handed out names        *)
(* nothing.                                                                *)

\* The settled reservations of plan p.
Settled(p) == Confirmed(p) \ revived

\* What a request asks of the abstract ledger.
Asked(k) ==
  IF k.pc \in {"target", "guard", "guarded", "list", "commit"}
    THEN IF k.replace THEN "replace" ELSE "confirm"
    ELSE "none"

\* Nothing is stored or under way under an id that was not handed out.
IssuedOK ==
  /\ \A i \in Ids \ issued : store[i] = Null
  /\ \A c \in Clients : call[c].pc # "idle" => call[c].id \in issued

-----------------------------------------------------------------------------
\* A request becomes k: what that means for everybody.
LEMMA Became ==
  ASSUME TypeOK, NEW c \in Clients, NEW k, Becomes(c, k)
  PROVE  call'[c] = k /\ \A d \in Clients \ {c} : call'[d] = call[d]
BY DEF TypeOK, Becomes

\* Idle with another pc and id.
LEMMA IdleAs ==
  ASSUME NEW pc \in Pcs, NEW i \in Ids
  PROVE  LET k == [Idle EXCEPT !.pc = pc, !.id = i] IN k.pc = pc /\ k.id = i
BY IdleCall DEF Call, Locals, Idle

\* A request that returns or throws asks nothing any more, and goes on, if it
\* does, under the id it had.
LEMMA Stopped ==
  ASSUME TypeOK, NEW c \in Clients, call[c].pc # "idle", Return(c) \/ Throw(c)
  PROVE  /\ Asked(call'[c]) = "none" /\ \A d \in Clients \ {c} : call'[d] = call[d]
         /\ call'[c].pc # "idle" => call'[c].id = call[c].id
<1>1. call[c].id \in Ids
  BY DEF TypeOK, Call
<1>2. CASE Return(c)
  <2>1. call'[c] = Idle /\ \A d \in Clients \ {c} : call'[d] = call[d]
    BY <1>2, Became DEF Return
  <2> QED
    BY <2>1, IdleFields DEF Asked
<1>3. CASE Throw(c) /\ call[c].creating
  <2> DEFINE k == [Idle EXCEPT !.pc = "undo", !.id = call[c].id]
  <2>1. call'[c] = k /\ \A d \in Clients \ {c} : call'[d] = call[d]
    BY <1>3, Became DEF Throw
  <2>2. k.pc = "undo" /\ k.id = call[c].id
    BY <1>1, IdleAs DEF Pcs
  <2> QED
    BY <2>1, <2>2 DEF Asked
<1>4. CASE Throw(c) /\ ~call[c].creating
  <2>1. call'[c] = Idle /\ \A d \in Clients \ {c} : call'[d] = call[d]
    BY <1>4, Became DEF Throw
  <2> QED
    BY <2>1, IdleFields DEF Asked
<1> QED
  BY <1>2, <1>3, <1>4

\* A confirm that starts asks what it was asked.
LEMMA Started ==
  ASSUME TypeOK, NEW c \in Clients, NEW i \in Ids, NEW b \in BOOLEAN, NEW e \in BOOLEAN,
         StartConfirm(c, i, b, e)
  PROVE  /\ Asked(call'[c]) = (IF b THEN "replace" ELSE "confirm") /\ call'[c].id = i
         /\ \A d \in Clients \ {c} : call'[d] = call[d]
<1> DEFINE k == [Idle EXCEPT !.pc = "target", !.id = i, !.replace = b, !.creating = e]
<1>1. k.pc = "target" /\ k.id = i /\ k.replace = b
  BY IdleCall DEF Call, Locals, Idle
<1>2. call'[c] = k /\ \A d \in Clients \ {c} : call'[d] = call[d]
  BY Became DEF StartConfirm
<1> QED
  BY <1>1, <1>2 DEF Asked

\* A read-modify-write or a delete asks nothing.
LEMMA StartedOther ==
  ASSUME TypeOK, NEW c \in Clients, NEW i \in Ids,
         \/ \E r \in Reservation : StartPut(c, i, r)
         \/ Becomes(c, [Idle EXCEPT !.pc = "delete", !.id = i])
  PROVE  /\ Asked(call'[c]) = "none" /\ call'[c].id = i
         /\ \A d \in Clients \ {c} : call'[d] = call[d]
<1>1. ASSUME NEW r \in Reservation, StartPut(c, i, r)
      PROVE  /\ Asked(call'[c]) = "none" /\ call'[c].id = i
             /\ \A d \in Clients \ {c} : call'[d] = call[d]
  <2> DEFINE k == [Idle EXCEPT !.pc = "put", !.id = i, !.rec = r]
  <2>1. k.pc = "put" /\ k.id = i
    BY IdleCall DEF Call, Locals, Idle
  <2>2. call'[c] = k /\ \A d \in Clients \ {c} : call'[d] = call[d]
    BY <1>1, Became DEF StartPut
  <2> QED
    BY <2>1, <2>2 DEF Asked
<1>2. CASE Becomes(c, [Idle EXCEPT !.pc = "delete", !.id = i])
  <2> DEFINE k == [Idle EXCEPT !.pc = "delete", !.id = i]
  <2>1. k.pc = "delete" /\ k.id = i
    BY IdleAs DEF Pcs
  <2>2. call'[c] = k /\ \A d \in Clients \ {c} : call'[d] = call[d]
    BY <1>2, Became
  <2> QED
    BY <2>1, <2>2 DEF Asked
<1> QED
  BY <1>1, <1>2

\* The steps of a confirm before its commit, and its failures, ask the same or
\* nothing any more, of the same id.
LEMMA GoesOn ==
  ASSUME TypeOK, NEW c \in Clients,
         \/ ReadTarget(c) \/ ReadGuard(c) \/ ReadGuarded(c) \/ ListBatch(c)
         \/ Retry(c) \/ Crash(c)
  PROVE  /\ Asked(call'[c]) \in {Asked(call[c]), "none"}
         /\ \A d \in Clients \ {c} : call'[d] = call[d]
         /\ call[c].pc # "idle" /\ (call'[c].pc # "idle" => call'[c].id = call[c].id)
<1> DEFINE Goal == /\ Asked(call'[c]) \in {Asked(call[c]), "none"}
                   /\ \A d \in Clients \ {c} : call'[d] = call[d]
                   /\ call[c].pc # "idle" /\ (call'[c].pc # "idle" => call'[c].id = call[c].id)
<1>1. call[c] \in Locals
  BY DEF TypeOK, Call
<1>2. ASSUME call[c].pc # "idle", Return(c) \/ Throw(c) PROVE Goal
  BY <1>2, Stopped
<1>3. ASSUME NEW k, Becomes(c, k), call[c].pc \in {"target", "guard", "guarded", "list", "commit"},
             k.pc \in {"target", "guard", "guarded", "list", "commit"},
             k.id = call[c].id, k.replace = call[c].replace
      PROVE  Goal
  BY <1>3, Became DEF Asked
<1>4. CASE ReadTarget(c)
  <2> DEFINE r == store[call[c].id]
             k == [call[c] EXCEPT !.pc = IF r.plan = Null THEN "commit" ELSE "guard",
                                  !.rec = r, !.now = today]
  <2>1. CASE Return(c) \/ Throw(c)
    BY <1>2, <1>4, <2>1 DEF ReadTarget
  <2>2. CASE Becomes(c, k)
    <3>1. k.pc \in {"guard", "commit"} /\ k.id = call[c].id /\ k.replace = call[c].replace
      BY <1>1 DEF Locals
    <3> QED
      BY <1>3, <1>4, <2>2, <3>1 DEF ReadTarget
  <2> QED
    BY <1>4, <2>1, <2>2 DEF ReadTarget
<1>5. CASE ReadGuard(c)
  <2> DEFINE plan == call[c].rec.plan
             k == [call[c] EXCEPT !.pc = IF guard[plan] = Null THEN "list" ELSE "guarded",
                                  !.seen = guard[plan], !.todo = Ids \ {call[c].id}]
  <2>1. k.pc \in {"list", "guarded"} /\ k.id = call[c].id /\ k.replace = call[c].replace
    BY <1>1 DEF Locals
  <2> QED
    BY <1>3, <1>5, <2>1 DEF ReadGuard
<1>6. CASE ReadGuarded(c)
  <2> DEFINE k == [call[c] EXCEPT !.pc = "list"]
  <2>1. k.pc = "list" /\ k.id = call[c].id /\ k.replace = call[c].replace
    BY <1>1 DEF Locals
  <2>2. call[c].pc = "guarded" /\ (Throw(c) \/ Becomes(c, k))
    BY <1>6 DEF ReadGuarded
  <2> QED
    BY <1>2, <1>3, <2>1, <2>2
<1>7. CASE ListBatch(c)
  <2>1. ASSUME NEW rest, NEW found
        PROVE  LET k == [call[c] EXCEPT !.pc = IF rest = {} THEN "commit" ELSE "list",
                                        !.todo = rest, !.sibs = found]
               IN  k.pc \in {"commit", "list"} /\ k.id = call[c].id /\ k.replace = call[c].replace
    BY <1>1 DEF Locals
  <2>2. \/ Throw(c)
        \/ \E rest, found : Becomes(c, [call[c] EXCEPT !.pc = IF rest = {} THEN "commit" ELSE "list",
                                                       !.todo = rest, !.sibs = found])
    BY <1>7 DEF ListBatch
  <2>3. call[c].pc = "list"
    BY <1>7 DEF ListBatch
  <2>4. ASSUME NEW rest, NEW found,
               Becomes(c, [call[c] EXCEPT !.pc = IF rest = {} THEN "commit" ELSE "list",
                                          !.todo = rest, !.sibs = found])
        PROVE  Goal
    <3> DEFINE k == [call[c] EXCEPT !.pc = IF rest = {} THEN "commit" ELSE "list",
                                    !.todo = rest, !.sibs = found]
    <3>1. k.pc \in {"commit", "list"} /\ k.id = call[c].id /\ k.replace = call[c].replace
      BY <2>1
    <3>2. Becomes(c, k)
      BY <2>4
    <3> HIDE DEF k, Goal
    <3> QED
      BY <1>3, <2>3, <3>1, <3>2
  <2> QED
    BY <1>2, <2>2, <2>3, <2>4
<1>8. CASE Retry(c)
  <2> DEFINE k == [Idle EXCEPT !.pc = "target", !.id = call[c].id, !.replace = call[c].replace,
                               !.creating = call[c].creating, !.attempt = call[c].attempt + 1]
  <2>1. k.pc = "target" /\ k.id = call[c].id /\ k.replace = call[c].replace
    BY IdleCall DEF Call, Locals, Idle
  <2>2. call[c].pc = "commit" /\ (Throw(c) \/ Becomes(c, k))
    BY <1>8 DEF Retry
  <2> QED
    BY <1>2, <1>3, <2>1, <2>2
<1>9. CASE Crash(c)
  BY <1>2, <1>9 DEF Crash
<1> QED
  BY <1>4, <1>5, <1>6, <1>7, <1>8, <1>9

-----------------------------------------------------------------------------
\* Everything but a create leaves issued as it is; stored stays among issued.
LEMMA IssuedStep ==
  ASSUME IInv, IssuedOK, [Next]_vars PROVE IssuedOK'
<1> USE DEF IInv
<1>1. CASE Midnight \/ UNCHANGED vars
  BY <1>1 DEF Midnight, vars, IssuedOK
<1>2. ASSUME NEW c \in Clients, issued \subseteq issued',
             \A i \in Ids \ issued' : store'[i] = store[i],
             \A d \in Clients \ {c} : call'[d] = call[d],
             call'[c].pc # "idle" => call'[c].id \in issued'
      PROVE  IssuedOK'
  BY <1>2 DEF IssuedOK
<1>3. ASSUME NEW c \in Clients, Create(c) PROVE IssuedOK'
  <2>1. PICK i \in Ids \ issued, confirmed \in BOOLEAN :
          /\ issued' = issued \cup {i} /\ \A j \in Ids \ {i} : store'[j] = store[j]
          /\ IF confirmed THEN StartConfirm(c, i, FALSE, TRUE) ELSE UNCHANGED call
    BY <1>3 DEF Create, TypeOK
  <2>2. CASE UNCHANGED call
    BY <1>2, <1>3, <2>1, <2>2 DEF Create
  <2>3. CASE StartConfirm(c, i, FALSE, TRUE)
    <3>1. call'[c].id = i /\ \A d \in Clients \ {c} : call'[d] = call[d]
      BY <2>3, Started
    <3> QED
      BY <1>2, <2>1, <3>1
  <2> QED
    BY <2>1, <2>2, <2>3
<1>4. ASSUME NEW c \in Clients, Confirm(c) PROVE IssuedOK'
  <2>1. PICK i \in issued, b \in BOOLEAN : StartConfirm(c, i, b, FALSE)
    BY <1>4 DEF Confirm
  <2>2. call'[c].id = i /\ \A d \in Clients \ {c} : call'[d] = call[d]
    BY <2>1, Started DEF TypeOK
  <2> QED
    BY <1>2, <1>4, <2>2 DEF Confirm
<1>5. ASSUME NEW c \in Clients, Patch(c) \/ Cancel(c) \/ Restore(c) \/ Delete(c) PROVE IssuedOK'
  <2>1. PICK i \in issued : \/ \E r \in Reservation : StartPut(c, i, r)
                            \/ Becomes(c, [Idle EXCEPT !.pc = "delete", !.id = i])
    BY <1>5, PutIsTyped DEF Delete
  <2>2. call'[c].id = i /\ \A d \in Clients \ {c} : call'[d] = call[d]
    BY <2>1, StartedOther DEF TypeOK
  <2> QED
    BY <1>2, <1>5, <2>2 DEF Patch, Cancel, Restore, Delete
<1>6. ASSUME NEW c \in Clients, UndoCreate(c) \/ Put(c) \/ Remove(c) PROVE IssuedOK'
  <2>1. call[c].pc # "idle" /\ call[c].id \in issued
    BY <1>6 DEF UndoCreate, Put, Remove, IssuedOK
  <2>2. \A i \in Ids \ {call[c].id} : store'[i] = store[i]
    BY <1>6 DEF UndoCreate, Put, Remove, TypeOK
  <2>3. (call'[c].pc # "idle" => call'[c].id = call[c].id) /\ \A d \in Clients \ {c} : call'[d] = call[d]
    BY <1>6, <2>1, Stopped DEF UndoCreate, Put, Remove
  <2> QED
    BY <1>2, <1>6, <2>1, <2>2, <2>3 DEF UndoCreate, Put, Remove
<1>7. ASSUME NEW c \in Clients,
             \/ ReadTarget(c) \/ ReadGuard(c) \/ ReadGuarded(c) \/ ListBatch(c)
             \/ Retry(c) \/ Crash(c)
      PROVE  IssuedOK'
  <2>1. UNCHANGED <<store, issued>>
    BY <1>7 DEF ReadTarget, ReadGuard, ReadGuarded, ListBatch, Retry, Crash
  <2>2. /\ call[c].pc # "idle" /\ (call'[c].pc # "idle" => call'[c].id = call[c].id)
        /\ \A d \in Clients \ {c} : call'[d] = call[d]
    BY <1>7, GoesOn
  <2> QED
    BY <1>2, <2>1, <2>2 DEF IssuedOK
<1>8. ASSUME NEW c \in Clients, Commit(c) PROVE IssuedOK'
  <2>1. call[c].pc # "idle" /\ call[c].id \in issued /\ UNCHANGED issued
    BY <1>8 DEF Commit, IssuedOK
  <2>2. \A s \in call[c].sibs : s \in Ids /\ store[s] # Null
    BY <1>8, CommitKnows, NullAssumption
  <2>3. \A i \in Ids \ issued : store'[i] = store[i]
    BY <1>8, <2>1, <2>2, CommitWrites DEF IssuedOK
  <2>4. (call'[c].pc # "idle" => call'[c].id = call[c].id) /\ \A d \in Clients \ {c} : call'[d] = call[d]
    BY <1>8, <2>1, Stopped DEF Commit
  <2> QED
    BY <1>2, <2>1, <2>3, <2>4
<1> QED
  BY <1>1, <1>3, <1>4, <1>5, <1>6, <1>7, <1>8 DEF Next, Begin, Step

-----------------------------------------------------------------------------
(* What the mapping makes of the variables.                                *)

\* The winner among a plan's settled reservations.
Winner(W) == IF W = {} THEN Null ELSE CHOOSE i \in W : TRUE

\* The mapping of winners, with its choice folded.
LEMMA WinnersAre ==
  /\ settled = [p \in Plans |-> Winner(Settled(p))]
  /\ settled' = [p \in Plans |-> Winner(Settled(p)')]
BY DEF settled, Settled, Winner

\* A plan's winner is its one settled reservation.
LEMMA WinnerIs ==
  ASSUME IInv, NEW p \in Plans
  PROVE  /\ Settled(p) = {} => settled[p] = Null
         /\ \A x \in Settled(p) : Settled(p) = {x} /\ settled[p] = x /\ x # Null
<1>1. \A x \in Settled(p) : Settled(p) = {x}
  BY DEF IInv, WinnerHoldsGuard, Settled
<1>2. Settled(p) \subseteq Ids
  BY DEF Settled, Confirmed
<1>3. Winner({}) = Null /\ \A x : Winner({x}) = x
  BY DEF Winner
<1>4. settled[p] = Winner(Settled(p))
  BY WinnersAre
<1> QED
  BY <1>1, <1>2, <1>3, <1>4, LedgerAssumption

\* The plan q alone may get another winner.
LEMMA OthersStay ==
  ASSUME NEW q \in Plans, \A p \in Plans \ {q} : Settled(p)' = Settled(p)
  PROVE  settled' = [settled EXCEPT ![q] = Winner(Settled(q)')]
BY WinnersAre

\* All stay: no winner changes.
LEMMA AllStay ==
  ASSUME \A p \in Plans : Settled(p)' = Settled(p) PROVE settled' = settled
BY WinnersAre

\* A write of one reservation that settles nothing makes one winner step down, or none.
LEMMA OneStepsDown ==
  ASSUME IInv, NEW i \in Ids,
         \A j \in Ids \ {i} : store'[j] = store[j] /\ (j \in revived' <=> j \in revived),
         \A p \in Plans : i \in Settled(p)' => i \in Settled(p)
  PROVE  \/ settled' = settled
         \/ \E q \in Plans : settled[q] # Null /\ settled' = [settled EXCEPT ![q] = Null]
<1>1. \A p \in Plans : Settled(p)' \subseteq Settled(p) /\ Settled(p) \ {i} \subseteq Settled(p)'
  BY DEF Settled, Confirmed, Has
<1>2. CASE \A p \in Plans : i \in Settled(p) => i \in Settled(p)'
  <2>1. \A p \in Plans : Settled(p)' = Settled(p)
    BY <1>1, <1>2
  <2> QED
    BY <2>1, AllStay
<1>3. ASSUME NEW q \in Plans, i \in Settled(q), i \notin Settled(q)'
      PROVE  settled[q] # Null /\ settled' = [settled EXCEPT ![q] = Null]
  <2>1. settled[q] # Null /\ Settled(q)' = {}
    BY <1>1, <1>3, WinnerIs
  <2>2. \A p \in Plans \ {q} : i \notin Settled(p)
    BY <1>3 DEF Settled, Confirmed, Has
  <2>3. \A p \in Plans \ {q} : Settled(p)' = Settled(p)
    BY <1>1, <2>2
  <2>4. Winner({}) = Null
    BY DEF Winner
  <2> QED
    BY <2>1, <2>3, <2>4, OthersStay
<1> QED
  BY <1>2, <1>3

\* What the requests ask.
LEMMA IntentIs == intent = [c \in Clients |-> Asked(call[c])] /\ intent' = [c \in Clients |-> Asked(call'[c])]
BY DEF intent, Asked, Holding

\* One request moves: what the abstract ledger sees of the others stays.
LEMMA AsksAre ==
  ASSUME NEW c \in Clients, \A d \in Clients \ {c} : call'[d] = call[d]
  PROVE  intent' = [intent EXCEPT ![c] = Asked(call'[c])] /\ intent[c] = Asked(call[c])
BY IntentIs

-----------------------------------------------------------------------------
(* Every step is a step of the promise, or none.                           *)

\* A request whose step changes no winner gives up, or nothing is seen of it.
LEMMA NoWinnerStep ==
  ASSUME NEW c \in Clients, \A d \in Clients \ {c} : call'[d] = call[d],
         Asked(call'[c]) \in {Asked(call[c]), "none"}, settled' = settled
  PROVE  Abstract!Next \/ UNCHANGED Abstract!vars
<1>1. intent' = [intent EXCEPT ![c] = Asked(call'[c])] /\ intent[c] = Asked(call[c])
  BY AsksAre
<1>2. CASE Asked(call'[c]) = Asked(call[c])
  <2>1. intent' = intent
    BY <1>1, <1>2, IntentIs
  <2> QED
    BY <2>1 DEF Abstract!vars
<1>3. CASE Asked(call'[c]) = "none" /\ Asked(call[c]) # "none"
  <2>1. Abstract!GiveUp(c)
    BY <1>1, <1>3 DEF Abstract!GiveUp
  <2> QED
    BY <2>1 DEF Abstract!Next
<1> QED
  BY <1>2, <1>3

\* A request that starts is an Ask, or nothing is seen of it.
LEMMA AskStep ==
  ASSUME NEW c \in Clients, \A d \in Clients \ {c} : call'[d] = call[d],
         call[c].pc = "idle", settled' = settled
  PROVE  Abstract!Next \/ UNCHANGED Abstract!vars
<1>1. Asked(call[c]) = "none" /\ Asked(call'[c]) \in {"none", "confirm", "replace"}
  BY DEF Asked
<1>2. CASE Asked(call'[c]) = "none"
  BY <1>1, <1>2, NoWinnerStep
<1>3. CASE Asked(call'[c]) # "none"
  <2>1. Abstract!Ask(c, Asked(call'[c]))
    BY <1>1, AsksAre DEF Abstract!Ask
  <2> QED
    BY <1>1, <1>3, <2>1 DEF Abstract!Next, Abstract!Requests
<1> QED
  BY <1>2, <1>3

\* An unchecked write asks nothing; at most a winner steps down.
LEMMA WriteRefines ==
  ASSUME IInv, NEW c \in Clients, UndoCreate(c) \/ Put(c) \/ Remove(c)
  PROVE  Abstract!Next \/ UNCHANGED Abstract!vars
<1> DEFINE i == call[c].id
<1>1. i \in Ids /\ call[c].pc \in {"undo", "put", "delete"}
  BY DEF UndoCreate, Put, Remove, IInv, TypeOK, Call
<1>2. Asked(call[c]) = "none" /\ Asked(call'[c]) = "none" /\ \A d \in Clients \ {c} : call'[d] = call[d]
  BY <1>1, Stopped DEF Asked, UndoCreate, Put, Remove, IInv
<1>3. \A j \in Ids \ {i} : store'[j] = store[j] /\ (j \in revived' <=> j \in revived)
  BY <1>1 DEF UndoCreate, Put, Remove, IInv, TypeOK
<1>4. \A p \in Plans : i \in Settled(p)' => i \in Settled(p)
  <2>1. CASE UndoCreate(c) \/ Remove(c)
    BY <1>1, <2>1 DEF UndoCreate, Remove, IInv, TypeOK, Settled, Confirmed, Has
  <2>2. CASE Put(c)
    BY <1>1, <2>2 DEF Put, IInv, TypeOK, Settled, Confirmed, Has
  <2> QED
    BY <2>1, <2>2
<1>5. intent' = intent
  BY <1>2, AsksAre, IntentIs
<1>6. CASE settled' = settled
  BY <1>5, <1>6 DEF Abstract!vars
<1>7. ASSUME NEW q \in Plans, settled[q] # Null /\ settled' = [settled EXCEPT ![q] = Null]
      PROVE  Abstract!Next
  BY <1>5, <1>7 DEF Abstract!Next, Abstract!StepDown
<1> QED
  BY <1>1, <1>3, <1>4, <1>6, <1>7, OneStepsDown

\* A commit is the Settle of its plan; in no plan, it gives up.
LEMMA CommitRefines ==
  ASSUME IInv, NEW c \in Clients, Commit(c) PROVE Abstract!Next \/ UNCHANGED Abstract!vars
<1> PICK i, sibs, p, replace :
      i = call[c].id /\ sibs = call[c].sibs /\ p = call[c].rec.plan /\ replace = call[c].replace
  OBVIOUS
<1>1. /\ i \in Ids /\ store[i].plan = p /\ store[i].status = "candidate"
      /\ i \notin sibs /\ sibs \subseteq Ids /\ p \in Plans \cup {Null}
      /\ (p = Null => sibs = {}) /\ \A s \in sibs : store[s].plan = p
      /\ p \in Plans => Settled(p) \ {i} \subseteq sibs /\ (~replace => Settled(p) \ {i} = {})
  BY CommitKnows DEF Reservation, Rivals, Settled
<1>2. {"confirmed", "to_cancel", "candidate"} \subseteq Statuses
  BY DEF Statuses
<1>3. /\ \A q \in Plans : Has(i, q, "confirmed")' <=> q = p
      /\ \A s \in sibs, q \in Plans : ~Has(s, q, "confirmed")'
      /\ \A x \in Ids \ (sibs \cup {i}) : store'[x] = store[x]
      /\ revived' = revived \ ({i} \cup sibs)
  <2>1. \A j \in {call[c].id}, q \in Plans, st \in Statuses :
          Has(j, q, st)' <=> q = call[c].rec.plan /\ st = "confirmed"
    BY CommitWrites
  <2>2. \A s \in call[c].sibs, q \in Plans, st \in Statuses :
          Has(s, q, st)' <=> q = call[c].rec.plan /\ st = "to_cancel"
    BY CommitWrites
  <2>3. /\ \A x \in Ids \ (sibs \cup {i}) : store'[x] = store[x]
        /\ revived' = revived \ ({i} \cup sibs)
    BY CommitWrites
  <2> QED
    BY <1>2, <2>1, <2>2, <2>3
<1>4. /\ Asked(call'[c]) = "none" /\ \A d \in Clients \ {c} : call'[d] = call[d]
      /\ Asked(call[c]) = IF replace THEN "replace" ELSE "confirm"
  BY Stopped DEF Commit, IInv, Asked
<1>5. ASSUME NEW q \in Plans, q # p PROVE Settled(q)' = Settled(q)
  <2>1. \A x \in sibs \cup {i} : x \notin Settled(q) /\ x \notin Settled(q)'
    BY <1>1, <1>3, <1>5 DEF Settled, Confirmed, Has
  <2>2. \A x \in Ids \ (sibs \cup {i}) : x \in Settled(q)' <=> x \in Settled(q)
    BY <1>3 DEF Settled, Confirmed, Has
  <2>3. Settled(q) \subseteq Ids /\ Settled(q)' \subseteq Ids
    BY DEF Settled, Confirmed
  <2> QED
    BY <2>1, <2>2, <2>3
<1>6. CASE p \notin Plans
  <2>1. settled' = settled
    BY <1>5, <1>6, AllStay
  <2> QED
    BY <1>4, <2>1, NoWinnerStep
<1>7. CASE p \in Plans
  <2>1. Settled(p)' = {i}
    <3>1. i \in Settled(p)'
      BY <1>1, <1>3, <1>7 DEF Settled, Confirmed
    <3>2. \A x \in sibs : x \notin Settled(p)'
      BY <1>3, <1>7 DEF Settled, Confirmed
    <3>3. ASSUME NEW x \in Ids \ (sibs \cup {i}) PROVE x \notin Settled(p)'
      <4>1. x \notin Settled(p)
        BY <1>1, <1>7, <3>3
      <4> QED
        BY <1>3, <4>1 DEF Settled, Confirmed, Has
    <3>4. Settled(p)' \subseteq Ids
      BY DEF Settled, Confirmed
    <3> QED
      BY <3>1, <3>2, <3>3, <3>4
  <2>2. Winner({i}) = i
    BY DEF Winner
  <2>3. settled' = [settled EXCEPT ![p] = i]
    BY <1>5, <1>7, <2>1, <2>2, OthersStay
  <2>4. settled[p] = Null \/ replace
    <3>1. i \notin Settled(p)
      BY <1>1 DEF Settled, Confirmed, Has
    <3>2. ~replace => Settled(p) = {}
      BY <1>1, <1>7, <3>1
    <3> QED
      BY <1>7, <3>2, WinnerIs
  <2>5. Abstract!Settle(c, p, i)
    BY <1>4, <2>3, <2>4, AsksAre DEF Abstract!Settle
  <2> QED
    BY <1>1, <1>7, <2>5 DEF Abstract!Next
<1> QED
  BY <1>6, <1>7

\* Every action of the ledger is one of the promise, or none.
LEMMA StepRefines ==
  ASSUME IInv, IssuedOK, [Next]_vars PROVE Abstract!Next \/ UNCHANGED Abstract!vars
<1>1. ASSUME UNCHANGED <<store, revived>> PROVE settled' = settled
  <2>1. \A p \in Plans : Settled(p)' = Settled(p)
    BY <1>1 DEF Settled, Confirmed, Has
  <2> QED
    BY <2>1, AllStay
<1>2. CASE Midnight \/ UNCHANGED vars
  <2>1. UNCHANGED <<store, revived, call>>
    BY <1>2 DEF Midnight, vars
  <2>2. intent' = intent
    BY <2>1, IntentIs
  <2> QED
    BY <1>1, <2>1, <2>2 DEF Abstract!vars
<1>3. ASSUME NEW c \in Clients, Create(c) PROVE Abstract!Next \/ UNCHANGED Abstract!vars
  <2>1. PICK i \in Ids \ issued, plan \in Plans \cup {Null}, day \in Days, confirmed \in BOOLEAN :
          /\ store' = [store EXCEPT ![i] = [plan |-> plan, status |-> "candidate", day |-> day]]
          /\ IF confirmed THEN StartConfirm(c, i, FALSE, TRUE) ELSE UNCHANGED call
          /\ UNCHANGED revived /\ call[c].pc = "idle"
    BY <1>3 DEF Create
  <2>4. \A j \in Ids \ {i} : store'[j] = store[j]
    BY <2>1 DEF IInv, TypeOK
  <2>5. store'[i].status = "candidate"
    BY <2>1 DEF IInv, TypeOK
  <2>2. \A p \in Plans : Settled(p)' = Settled(p)
    BY <2>1, <2>4, <2>5 DEF IssuedOK, Settled, Confirmed, Has
  <2>3. \A d \in Clients \ {c} : call'[d] = call[d]
    BY <2>1, Started DEF IInv
  <2> QED
    BY <2>1, <2>2, <2>3, AllStay, AskStep
<1>4. ASSUME NEW c \in Clients, Confirm(c) \/ Patch(c) \/ Cancel(c) \/ Restore(c) \/ Delete(c)
      PROVE  Abstract!Next \/ UNCHANGED Abstract!vars
  <2>1. call[c].pc = "idle" /\ UNCHANGED <<store, revived>>
    BY <1>4 DEF Confirm, Patch, Cancel, Restore, Delete
  <2>2. \A d \in Clients \ {c} : call'[d] = call[d]
    <3>1. issued \subseteq Ids /\ TypeOK
      BY DEF IInv, TypeOK
    <3>2. CASE Confirm(c)
      BY <3>1, <3>2, Started DEF Confirm
    <3>3. CASE Patch(c) \/ Cancel(c) \/ Restore(c)
      BY <3>1, <3>3, PutIsTyped, StartedOther
    <3>4. CASE Delete(c)
      BY <3>1, <3>4, StartedOther DEF Delete
    <3> QED
      BY <1>4, <3>2, <3>3, <3>4
  <2> QED
    BY <1>1, <2>1, <2>2, AskStep
<1>5. ASSUME NEW c \in Clients,
             \/ ReadTarget(c) \/ ReadGuard(c) \/ ReadGuarded(c) \/ ListBatch(c)
             \/ Retry(c) \/ Crash(c)
      PROVE  Abstract!Next \/ UNCHANGED Abstract!vars
  <2>1. UNCHANGED <<store, revived>>
    BY <1>5 DEF ReadTarget, ReadGuard, ReadGuarded, ListBatch, Retry, Crash
  <2> QED
    BY <1>1, <1>5, <2>1, GoesOn, NoWinnerStep DEF IInv
<1> QED
  BY <1>2, <1>3, <1>4, <1>5, WriteRefines, CommitRefines DEF Next, Begin, Step

\* An empty ledger has no winners and nobody asks.
LEMMA InitRefines == ASSUME Init PROVE IssuedOK /\ Abstract!Init
<1>1. \A p \in Plans : Settled(p) = {}
  BY DEF Init, Settled, Confirmed, Has
<1>2. Winner({}) = Null
  BY DEF Winner
<1>3. settled = [p \in Plans |-> Null]
  BY <1>1, <1>2, WinnersAre
<1>4. intent = [c \in Clients |-> "none"]
  BY IdleFields, IntentIs DEF Init, Asked
<1>5. IssuedOK
  BY IdleFields DEF Init, IssuedOK
<1> QED
  BY <1>3, <1>4, <1>5 DEF Abstract!Init

\* The ledger keeps its promise: however requests, retries and crashes interleave, a plan
\* gets a winner only by a confirm, loses it to another only by a replacing one, and the
\* reservations that commits confirmed are those winners (store.ts:375-470).
THEOREM PromiseKept == Spec => ImplementsPlanWinner
<1>1. IInv /\ IssuedOK /\ [Next]_vars => IssuedOK' /\ [Abstract!Next]_(Abstract!vars)
  BY IssuedStep, StepRefines
<1> QED
  BY <1>1, InitRefines, Invariance, PTL DEF Spec, ImplementsPlanWinner, Abstract!Spec
=============================================================================
