--------------------------- MODULE NoticesProofs ---------------------------
(* Proofs about the two halves of MCNotices. DeadlineSweep announces every    *)
(* deadline once and rations its e-mails, for any users, reservations and     *)
(* faults; the indexes of KvStore name what the entries say, and it           *)
(* implements the store in memory, for any number of concurrent puts.         *)
(* Last, the stage tables of WebPolicy, the deadlines the sweep announces.    *)
EXTENDS MCNotices, SequenceTheorems, FiniteSetTheorems, WellFoundedInduction,
        TLAPS

-----------------------------------------------------------------------------
(* KvStore. A put computes its index changes from the entry it read, so       *)
(* IndexesMatch is preserved by a commit only when that entry is still the    *)
(* present one. ReadIsFresh, the strengthening, says that it is for every put *)
(* about to commit that no rival has made stale.                              *)

\* A put that may still commit has read the present entry.
ReadIsFresh ==
  \A w \in Writers : put[w].pc = "commit" /\ w \notin stale =>
    put[w].previous = entry[put[w].id]

IInv == TypeOK /\ ReadIsFresh /\ IndexesMatch

\* Type correctness is inductive by itself.
LEMMA TypeInit == Init => TypeOK
  BY KvAssumption DEF Init, TypeOK, PutState, NoPut

\* Every action keeps the types.
LEMMA TypeStep == TypeOK /\ [Next]_vars => TypeOK'
<1> SUFFICES ASSUME TypeOK, [Next]_vars PROVE TypeOK'
  OBVIOUS
<1> USE KvAssumption DEF TypeOK, PutState, UnderWay, NoPut
<1>1. ASSUME NEW w \in Writers, Begin(w) PROVE TypeOK'
  BY <1>1 DEF Begin
<1>2. ASSUME NEW w \in Writers, Get(w) PROVE TypeOK'
  <2>1. put[w] \in UnderWay
    BY <1>2 DEF Get
  <2>2. put'[w] \in UnderWay
    BY <1>2, <2>1 DEF Get
  <2>3. put' \in [Writers -> PutState]
    BY <1>2, <2>2 DEF Get
  <2> QED
    BY <1>2, <2>3 DEF Get
<1>3. ASSUME NEW w \in Writers, Commit(w) PROVE TypeOK'
  <2> DEFINE k == put[w]
  <2>1. k \in UnderWay
    BY <1>3 DEF Commit
  <2>2. entry' \in [Ids -> Reservation \cup {Null}]
    BY <1>3, <2>1 DEF Commit
  <2>3. planIdx' \subseteq Plans \X Ids
    <3>1. k.new.plan \in Plans \cup {Null}
      BY <2>1 DEF Reservation
    <3>2. planIdx' \subseteq planIdx \cup (IF k.new.plan = Null THEN {} ELSE {<<k.new.plan, k.id>>})
      BY <1>3 DEF Commit, PlanKeys
    <3> QED
      BY <3>1, <3>2, <2>1
  <2>4. pendIdx' \subseteq Times \X Ids
    <3>1. k.new.starts_at \in Times
      BY <2>1 DEF Reservation
    <3>2. pendIdx' \subseteq pendIdx \cup {<<k.new.starts_at, k.id>>}
      BY <1>3 DEF Commit, PendingKeys
    <3> QED
      BY <3>1, <3>2, <2>1
  <2>5. put' \in [Writers -> PutState]
    BY <1>3, <2>1 DEF Commit
  <2>6. stale' \subseteq Writers
    BY <1>3 DEF Commit, Rivals
  <2> QED
    BY <2>2, <2>3, <2>4, <2>5, <2>6
<1>4. ASSUME NEW w \in Writers, Conflict(w) PROVE TypeOK'
  <2>1. put' \in [Writers -> PutState]
    <3>1. put[w] \in UnderWay
      BY <1>4 DEF Conflict
    <3>2. CASE put[w].attempt + 1 < MaxAttempts
      BY <1>4, <3>1, <3>2 DEF Conflict
    <3>3. CASE ~(put[w].attempt + 1 < MaxAttempts)
      BY <1>4, <3>1, <3>3 DEF Conflict
    <3> QED
      BY <3>2, <3>3
  <2> QED
    BY <1>4, <2>1 DEF Conflict
<1>5. CASE UNCHANGED vars
  BY <1>5 DEF vars
<1> QED
  BY <1>1, <1>2, <1>3, <1>4, <1>5 DEF Next

\* A commit makes every other put of its reservation stale, so the puts left
\* fresh have read entries nobody wrote since.
LEMMA FreshStep == TypeOK /\ ReadIsFresh /\ [Next]_vars => ReadIsFresh'
<1> SUFFICES ASSUME TypeOK, ReadIsFresh, [Next]_vars,
                    NEW v \in Writers, put'[v].pc = "commit", v \notin stale'
             PROVE  put'[v].previous = entry'[put'[v].id]
  BY DEF ReadIsFresh
<1> USE DEF TypeOK, PutState, UnderWay, NoPut, ReadIsFresh
<1>1. ASSUME NEW w \in Writers, Begin(w) PROVE put'[v].previous = entry'[put'[v].id]
  BY <1>1 DEF Begin
<1>2. ASSUME NEW w \in Writers, Get(w) PROVE put'[v].previous = entry'[put'[v].id]
  <2>1. CASE v = w
    BY <1>2, <2>1 DEF Get
  <2>2. CASE v # w
    BY <1>2, <2>2 DEF Get
  <2> QED
    BY <2>1, <2>2
<1>3. ASSUME NEW w \in Writers, Commit(w) PROVE put'[v].previous = entry'[put'[v].id]
  <2>1. v # w /\ put'[v] = put[v]
    BY <1>3 DEF Commit
  <2>2. v \notin stale /\ put[v].id # put[w].id
    BY <1>3, <2>1 DEF Commit, Rivals
  <2>3. entry'[put[v].id] = entry[put[v].id]
    BY <1>3, <2>2 DEF Commit
  <2> QED
    BY <2>1, <2>2, <2>3
<1>4. ASSUME NEW w \in Writers, Conflict(w) PROVE put'[v].previous = entry'[put'[v].id]
  <2>1. v # w
    BY <1>4 DEF Conflict
  <2> QED
    BY <1>4, <2>1 DEF Conflict
<1>5. CASE UNCHANGED vars
  BY <1>5 DEF vars
<1> QED
  BY <1>1, <1>2, <1>3, <1>4, <1>5 DEF Next

\* The plan keys a commit writes are those of the entries after it.
LEMMA PlanKeysMatch ==
  ASSUME TypeOK, IndexesMatch, NEW id \in Ids, NEW new \in Reservation
  PROVE  PlanKeys(id, entry[id], new) =
           {k \in Plans \X Ids :
              /\ [entry EXCEPT ![id] = new][k[2]] # Null
              /\ [entry EXCEPT ![id] = new][k[2]].plan = k[1]}
<1> DEFINE e == [entry EXCEPT ![id] = new]
           S == {k \in Plans \X Ids : e[k[2]] # Null /\ e[k[2]].plan = k[1]}
<1>1. new # Null /\ new.plan \in Plans \cup {Null} /\ Null \notin Plans
  BY KvAssumption DEF Reservation
<1>2. PlanKeys(id, entry[id], new) \subseteq Plans \X Ids
  BY <1>1 DEF PlanKeys, IndexesMatch
<1>3. ASSUME NEW p \in Plans, NEW i \in Ids
      PROVE  <<p, i>> \in PlanKeys(id, entry[id], new) <=> <<p, i>> \in S
  <2>1. <<p, i>> \in planIdx <=> entry[i] # Null /\ entry[i].plan = p
    BY DEF IndexesMatch
  <2>2. <<p, i>> \in S <=> e[i] # Null /\ e[i].plan = p
    OBVIOUS
  <2>3. CASE i = id
    BY <1>1, <2>1, <2>2, <2>3 DEF PlanKeys, TypeOK
  <2>4. CASE i # id
    BY <1>1, <2>1, <2>2, <2>4 DEF PlanKeys, TypeOK
  <2> QED
    BY <2>3, <2>4
<1> HIDE DEF e, S
<1>4. S \subseteq Plans \X Ids
  BY DEF S
<1>5. PlanKeys(id, entry[id], new) = S
  BY <1>2, <1>3, <1>4
<1> QED
  BY <1>5 DEF S, e

\* The pending keys a commit writes are those of the entries after it.
LEMMA PendingKeysMatch ==
  ASSUME TypeOK, IndexesMatch, NEW id \in Ids, NEW new \in Reservation
  PROVE  PendingKeys(id, entry[id], new) =
           {k \in Times \X Ids :
              /\ [entry EXCEPT ![id] = new][k[2]] # Null
              /\ [entry EXCEPT ![id] = new][k[2]].starts_at = k[1]
              /\ [entry EXCEPT ![id] = new][k[2]].status = "to_cancel"}
<1> DEFINE e == [entry EXCEPT ![id] = new]
           S == {k \in Times \X Ids : /\ e[k[2]] # Null /\ e[k[2]].starts_at = k[1]
                                      /\ e[k[2]].status = "to_cancel"}
<1>1. new # Null /\ new.starts_at \in Times
  BY KvAssumption DEF Reservation
<1>2. PendingKeys(id, entry[id], new) \subseteq Times \X Ids
  BY <1>1 DEF PendingKeys, IndexesMatch
<1>3. ASSUME NEW t \in Times, NEW i \in Ids
      PROVE  <<t, i>> \in PendingKeys(id, entry[id], new) <=> <<t, i>> \in S
  <2>1. <<t, i>> \in pendIdx <=>
          entry[i] # Null /\ entry[i].starts_at = t /\ entry[i].status = "to_cancel"
    BY DEF IndexesMatch
  <2>2. <<t, i>> \in S <=> e[i] # Null /\ e[i].starts_at = t /\ e[i].status = "to_cancel"
    OBVIOUS
  <2>3. CASE i = id
    BY <1>1, <2>1, <2>2, <2>3 DEF PendingKeys, TypeOK
  <2>4. CASE i # id
    BY <1>1, <2>1, <2>2, <2>4 DEF PendingKeys, TypeOK
  <2> QED
    BY <2>3, <2>4
<1> HIDE DEF e, S
<1>4. S \subseteq Times \X Ids
  BY DEF S
<1>5. PendingKeys(id, entry[id], new) = S
  BY <1>2, <1>3, <1>4
<1> QED
  BY <1>5 DEF S, e

\* Only a commit writes entries and indexes, and it writes both to match.
LEMMA IndexStep == IInv /\ [Next]_vars => IndexesMatch'
<1> SUFFICES ASSUME IInv, [Next]_vars PROVE IndexesMatch'
  OBVIOUS
<1>1. ASSUME NEW w \in Writers, Commit(w) PROVE IndexesMatch'
  <2> DEFINE k == put[w]
  <2>1. k.id \in Ids /\ k.new \in Reservation /\ k.previous = entry[k.id]
    BY <1>1 DEF Commit, IInv, TypeOK, PutState, UnderWay, NoPut, ReadIsFresh
  <2>2. /\ entry' = [entry EXCEPT ![k.id] = k.new]
        /\ planIdx' = PlanKeys(k.id, entry[k.id], k.new)
        /\ pendIdx' = PendingKeys(k.id, entry[k.id], k.new)
    BY <1>1, <2>1 DEF Commit
  <2> HIDE DEF k
  <2>3. planIdx' = {q \in Plans \X Ids : entry'[q[2]] # Null /\ entry'[q[2]].plan = q[1]}
    BY <2>1, <2>2, PlanKeysMatch DEF IInv
  <2>4. pendIdx' = {q \in Times \X Ids : /\ entry'[q[2]] # Null
                                         /\ entry'[q[2]].starts_at = q[1]
                                         /\ entry'[q[2]].status = "to_cancel"}
    BY <2>1, <2>2, PendingKeysMatch DEF IInv
  <2> QED
    BY <2>3, <2>4 DEF IndexesMatch
<1>2. ASSUME UNCHANGED <<entry, planIdx, pendIdx>> PROVE IndexesMatch'
  BY <1>2 DEF IInv, IndexesMatch
<1> QED
  BY <1>1, <1>2 DEF Next, vars, Begin, Get, Conflict

\* The inductive invariant holds in every reachable state.
THEOREM Invariance == Spec => []IInv
<1>1. Init => IInv
  <2> SUFFICES ASSUME Init PROVE IInv
    OBVIOUS
  <2>1. ReadIsFresh
    BY DEF Init, ReadIsFresh, NoPut
  <2>2. IndexesMatch
    BY DEF Init, IndexesMatch
  <2> QED
    BY <2>1, <2>2, TypeInit DEF IInv
<1>2. IInv /\ [Next]_vars => IInv'
  BY TypeStep, FreshStep, IndexStep DEF IInv
<1> QED
  BY <1>1, <1>2, PTL DEF Spec

\* The plan index and the pending-cancellation index of kv-store.ts match the
\* reservation entries after every step of any number of concurrent puts.
THEOREM IndexesCorrect == Spec => []IndexesMatch
<1>1. IInv => IndexesMatch
  BY DEF IInv
<1> QED
  BY <1>1, Invariance, PTL

-----------------------------------------------------------------------------
(* The refinement of InMemoryStore.                                        *)

\* The two indexes of the in-memory store, as functions of the keys of this one.
ByPlan == [p \in Plans |-> {i \in Ids : <<p, i>> \in planIdx}]
Pending == [i \in Ids |-> {t \in Times : <<t, i>> \in pendIdx}]

\* Two empty stores.
LEMMA MemoryInit == Init => Memory!Init
  BY DEF Init, Memory!Init

\* What a commit does to the keys of one plan is what a put in memory does to the
\* ids of that plan.
LEMMA PlanRefiled ==
  ASSUME TypeOK, IndexesMatch, NEW id \in Ids, NEW new \in Reservation,
         planIdx' = PlanKeys(id, entry[id], new)
  PROVE  ByPlan' = Memory!Refiled(id, new)
<1>1. new.plan \in Plans \cup {Null} /\ Null \notin Plans
  BY KvAssumption DEF Reservation
<1>2. ASSUME NEW p \in Plans PROVE ByPlan'[p] = Memory!Refiled(id, new)[p]
  <2> DEFINE left == entry[id] # Null /\ entry[id].plan = p /\ new.plan # p
  <2>1. Memory!Refiled(id, new)[p] =
          ({i \in Ids : <<p, i>> \in planIdx} \ (IF left THEN {id} ELSE {}))
            \cup (IF new.plan = p THEN {id} ELSE {})
    BY DEF Memory!Refiled
  <2>2. ByPlan'[p] = {i \in Ids : <<p, i>> \in PlanKeys(id, entry[id], new)}
    BY DEF ByPlan
  <2>3. ASSUME NEW i \in Ids
        PROVE  <<p, i>> \in PlanKeys(id, entry[id], new) <=>
                 \/ <<p, i>> \in planIdx /\ ~(left /\ i = id)
                 \/ new.plan = p /\ i = id
    BY <1>1 DEF PlanKeys
  <2> HIDE DEF left
  <2> QED
    BY <2>1, <2>2, <2>3
<1>3. ByPlan' = [p \in Plans |-> ByPlan'[p]]
  BY DEF ByPlan
<1>4. Memory!Refiled(id, new) = [p \in Plans |-> Memory!Refiled(id, new)[p]]
  BY DEF Memory!Refiled
<1> QED
  BY <1>2, <1>3, <1>4

\* Likewise of the pending keys: the ids they name have no other key left.
LEMMA PendingRefiled ==
  ASSUME TypeOK, IndexesMatch, NEW id \in Ids, NEW new \in Reservation,
         pendIdx' = PendingKeys(id, entry[id], new)
  PROVE  Pending' =
           [Pending EXCEPT ![id] = IF new.status = "to_cancel" THEN {new.starts_at} ELSE {}]
<1> DEFINE filed == IF new.status = "to_cancel" THEN {new.starts_at} ELSE {}
<1>1. new.starts_at \in Times /\ new # Null
  BY KvAssumption DEF Reservation
<1>2. ASSUME NEW t \in Times, NEW i \in Ids
      PROVE  <<t, i>> \in PendingKeys(id, entry[id], new) <=>
               IF i = id THEN t \in filed ELSE <<t, i>> \in pendIdx
  <2>1. <<t, i>> \in pendIdx <=>
          entry[i] # Null /\ entry[i].starts_at = t /\ entry[i].status = "to_cancel"
    BY DEF IndexesMatch
  <2>2. CASE i = id
    BY <1>1, <2>1, <2>2 DEF PendingKeys
  <2>3. CASE i # id
    BY <1>1, <2>1, <2>3 DEF PendingKeys
  <2> QED
    BY <2>2, <2>3
<1>3. filed \subseteq Times
  BY <1>1
<1> HIDE DEF filed
<1>4. ASSUME NEW i \in Ids PROVE Pending'[i] = IF i = id THEN filed ELSE Pending[i]
  <2>1. Pending'[i] = {t \in Times : <<t, i>> \in PendingKeys(id, entry[id], new)}
    BY DEF Pending
  <2> QED
    BY <2>1, <1>2, <1>3 DEF Pending
<1>5. Pending' = [Pending EXCEPT ![id] = filed]
  BY <1>4 DEF Pending
<1> QED
  BY <1>5 DEF filed

\* A commit is one put of the in-memory store; nothing else is seen of it.
LEMMA MemoryStep == IInv /\ [Next]_vars => [Memory!Next]_(Memory!memory)
<1> SUFFICES ASSUME IInv, [Next]_vars PROVE Memory!Next \/ UNCHANGED Memory!memory
  OBVIOUS
<1>1. ASSUME NEW w \in Writers, Commit(w) PROVE Memory!Next
  <2>1. /\ put[w].id \in Ids /\ put[w].new \in Reservation
        /\ put[w].previous = entry[put[w].id]
    BY <1>1 DEF Commit, IInv, TypeOK, PutState, UnderWay, NoPut, ReadIsFresh
  <2>2. PICK id \in Ids, new \in Reservation : id = put[w].id /\ new = put[w].new
    BY <2>1
  <2>3. /\ entry' = [entry EXCEPT ![id] = new]
        /\ planIdx' = PlanKeys(id, entry[id], new)
        /\ pendIdx' = PendingKeys(id, entry[id], new)
    BY <1>1, <2>1, <2>2 DEF Commit
  <2>4. ByPlan' = Memory!Refiled(id, new)
    BY <2>3, PlanRefiled DEF IInv
  <2>5. Pending' = [Pending EXCEPT ![id] = IF new.status = "to_cancel"
                                           THEN {new.starts_at} ELSE {}]
    BY <2>3, PendingRefiled DEF IInv
  <2>6. Memory!PutReservation(id, new)
    BY <2>3, <2>4, <2>5 DEF Memory!PutReservation, ByPlan, Pending
  <2>7. new \in Memory!Reservation
    BY DEF Memory!Reservation, Reservation
  <2> QED
    BY <2>6, <2>7 DEF Memory!Next
<1>2. ASSUME UNCHANGED <<entry, planIdx, pendIdx>> PROVE UNCHANGED Memory!memory
  BY <1>2 DEF Memory!memory
<1> QED
  BY <1>1, <1>2 DEF Next, vars, Begin, Get, Conflict

\* KvStore implements InMemoryStore: what core/store/tests/contract.ts tests one
\* call at a time holds for any number of puts of any reservations at once.
THEOREM MemoryImplemented == Spec => ImplementsMemory
  BY Invariance, MemoryInit, MemoryStep, PTL DEF Spec, ImplementsMemory, Memory!Spec

-----------------------------------------------------------------------------
(* DeadlineSweep: while a sweep is under way, what it still has to announce  *)
(* is on its queue or in its hand, what it sent is about to be marked, and    *)
(* what it mailed is about to be counted.                                     *)

Ats == {"idle", "user", "send", "count", "mark"}

SweepT == [at : Ats, now : 0 .. LastSlot, emails : 0 .. Cap, queue : Seq(Users), due : SUBSET Resvs,
           served : SUBSET Users, deferred : SUBSET Users]

(* The types. What is counted of a day, and what a sweep counts on, is never  *)
(* over the cap.                                                              *)
SweepTypeOK ==
  /\ now \in 0 .. LastSlot
  /\ deadline \in [Resvs -> 0 .. LastSlot]
  /\ active \subseteq Resvs /\ marked \subseteq Resvs
  /\ counted \in [D!Days -> 0 .. Cap]
  /\ sweep \in SweepT
  /\ swept \in BOOLEAN
  /\ faults \in 0 .. Faults /\ edits \in 0 .. Edits
  /\ notices \in [Resvs -> Nat]
  /\ mails \in [D!Days -> Nat] /\ slips \in [D!Days -> Nat]
  /\ repeats \subseteq Resvs /\ excused \subseteq Resvs

(* A sweep under way is of this slot, has users left, the guaranteed first,   *)
(* and holds what is due of the first of them, unmarked until it is sent.     *)
GuaranteedAhead(q) == \A i, j \in 1 .. Len(q) : i < j /\ q[j] \in Guaranteed => q[i] \in Guaranteed
Unsettled == sweep.at \in {"count", "mark"}
SweepOK ==
  /\ D!Running => sweep.queue # <<>> /\ sweep.now = now /\ swept /\ GuaranteedAhead(sweep.queue)
  /\ sweep.at = "send" \/ Unsettled => \A r \in sweep.due : LedgerOf[r] = D!User
  /\ sweep.at = "send" => sweep.due \cap marked = {} /\ (D!ViaLine(D!User) \/ sweep.emails < Cap)
  /\ sweep.at = "count" => ~D!ViaLine(D!User) /\ sweep.emails < Cap

(* Who was told of a reservation: its marker says so, or is about to.         *)
ToldOnce ==
  \A r \in Resvs \ repeats :
    /\ notices[r] <= 1
    /\ notices[r] = 1 => r \in marked \/ (Unsettled /\ r \in sweep.due)
ToldAtAll ==
  /\ \A r \in marked : notices[r] > 0
  /\ Unsettled => \A r \in sweep.due : notices[r] > 0

(* A deadline that is past, or within a day once the slot has had its sweep,  *)
(* was announced or excused, or its user's turn is still to come.             *)
Accounted(r) == notices[r] > 0 \/ r \in excused
ToCome(r) ==
  \/ sweep.at = "user" /\ \E i \in 1 .. Len(sweep.queue) : sweep.queue[i] = LedgerOf[r]
  \/ sweep.at = "send" /\ r \in sweep.due
  \/ D!Running /\ \E i \in 2 .. Len(sweep.queue) : sweep.queue[i] = LedgerOf[r]
NothingForgotten ==
  \A r \in active : deadline[r] > 0 =>
    /\ deadline[r] <= now => Accounted(r)
    /\ swept /\ now < deadline[r] /\ deadline[r] <= now + DaySlots => Accounted(r) \/ ToCome(r)

(* The mails of a day are counted, by the store and by the sweep under way,   *)
(* but for the one just sent and those that slipped.                          *)
InHand == IF sweep.at = "count" THEN 1 ELSE 0
MailsCounted ==
  /\ \A d \in D!Days : mails[d] <= counted[d] + slips[d] + (IF d = D!Today THEN InHand ELSE 0)
  /\ D!Running => mails[D!Today] <= sweep.emails + slips[D!Today] + InHand

(* Nobody but the guaranteed is served before the last of them has had a      *)
(* turn; one who is put off had a sweep that may send no mail any more.       *)
GuaranteedServed ==
  /\ sweep.deferred \cap Guaranteed # {} => sweep.emails = Cap
  /\ D!Running /\ D!User \in Guaranteed => sweep.served \subseteq Guaranteed

SweepInv ==
  SweepTypeOK /\ SweepOK /\ ToldOnce /\ ToldAtAll /\ NothingForgotten /\ MailsCounted /\ D!GuaranteedFirst /\ GuaranteedServed

-----------------------------------------------------------------------------
(* DeadlineSweep counts as this module does.                                  *)
LEMMA SameSize == \A S : (D!IsFiniteSet(S) <=> IsFiniteSet(S)) /\ D!Cardinality(S) = Cardinality(S)
<1>1. \A S : D!IsFiniteSet(S) <=> IsFiniteSet(S)
  BY DEF IsFiniteSet, D!IsFiniteSet
<1>2. \A S : D!Cardinality(S) = Cardinality(S)
  BY <1>1 DEF Cardinality, D!Cardinality
<1> QED
  BY <1>1, <1>2

(* A set listed as a sequence is listed whole.                                *)
LEMMA ListsAll ==
  ASSUME NEW S, IsFiniteSet(S)
  PROVE  /\ D!SetToSeq(S) \in Seq(S)
         /\ \A x \in S : \E i \in 1 .. Len(D!SetToSeq(S)) : D!SetToSeq(S)[i] = x
<1> DEFINE n == Cardinality(S)
           ok(f) == f \in [1 .. n -> S] /\ D!IsInjective(f)
<1>1. n \in Nat /\ ExistsBijection(1 .. n, S)
  BY FS_CardinalityType
<1>2. \E f \in [1 .. n -> S] : D!IsInjective(f)
  <2>1. PICK f \in Bijection(1 .. n, S) : TRUE
    BY <1>1 DEF ExistsBijection
  <2> QED
    BY <2>1 DEF Bijection, Injection, IsInjective, D!IsInjective
<1>3. D!SetToSeq(S) \in [1 .. n -> S] /\ D!IsInjective(D!SetToSeq(S))
  BY <1>2, SameSize DEF D!SetToSeq
<1>4. D!SetToSeq(S) \in Injection(1 .. n, S)
  BY <1>3 DEF Injection, IsInjective, D!IsInjective
<1>5. IsFiniteSet(1 .. n) /\ Cardinality(1 .. n) = n
  BY <1>1, FS_Interval
<1>6. D!SetToSeq(S) \in Surjection(1 .. n, S)
  BY <1>4, <1>5, FS_Injection
<1>7. D!SetToSeq(S) \in Seq(S) /\ Len(D!SetToSeq(S)) = n
  BY <1>1, <1>3
<1> QED
  BY <1>6, <1>7 DEF Surjection

(* The sweep has every user, the guaranteed ones first.                       *)
LEMMA OrderIsWhole ==
  /\ D!OrderUsers \in Seq(Users) /\ GuaranteedAhead(D!OrderUsers)
  /\ \A u \in Users : \E i \in 1 .. Len(D!OrderUsers) : D!OrderUsers[i] = u
<1> DEFINE a == D!SetToSeq(Guaranteed)
           b == D!SetToSeq(Users \ Guaranteed)
<1>1. IsFiniteSet(Guaranteed) /\ IsFiniteSet(Users \ Guaranteed)
  BY SweepOnConstants, SameSize, FS_Subset DEF D!SweepAssumption
<1>2. /\ a \in Seq(Guaranteed) /\ \A u \in Guaranteed : \E i \in 1 .. Len(a) : a[i] = u
      /\ b \in Seq(Users \ Guaranteed) /\ \A u \in Users \ Guaranteed : \E i \in 1 .. Len(b) : b[i] = u
  BY <1>1, ListsAll
<1>3. Guaranteed \subseteq Users
  BY SweepOnConstants DEF D!SweepAssumption
<1> HIDE DEF a, b
<1>4. D!OrderUsers = a \o b
  BY DEF D!OrderUsers, a, b
<1>5. /\ a \o b \in Seq(Users) /\ Len(a \o b) = Len(a) + Len(b)
      /\ \A i \in 1 .. Len(a) + Len(b) : (a \o b)[i] = IF i <= Len(a) THEN a[i] ELSE b[i - Len(a)]
  <2>1. a \in Seq(Users) /\ b \in Seq(Users)
    BY <1>2, <1>3
  <2> QED
    BY <2>1
<1>6. Len(a) \in Nat /\ Len(b) \in Nat
  BY <1>2
<1>7. GuaranteedAhead(a \o b)
  <2>1. \A i \in 1 .. Len(a) : (a \o b)[i] \in Guaranteed
    BY <1>2, <1>5, <1>6
  <2>2. \A i \in 1 .. Len(a) + Len(b) : i > Len(a) => (a \o b)[i] \notin Guaranteed
    BY <1>2, <1>5, <1>6
  <2> QED
    BY <1>5, <1>6, <2>1, <2>2 DEF GuaranteedAhead
<1>8. ASSUME NEW u \in Users PROVE \E i \in 1 .. Len(a \o b) : (a \o b)[i] = u
  <2>1. CASE u \in Guaranteed
    BY <1>2, <1>5, <1>6, <2>1
  <2>2. CASE u \notin Guaranteed
    <3>1. PICK i \in 1 .. Len(b) : b[i] = u
      BY <1>2, <2>2
    <3>2. Len(a) + i \in 1 .. Len(a) + Len(b) /\ (Len(a) + i) - Len(a) = i /\ ~(Len(a) + i <= Len(a))
      BY <1>6
    <3> QED
      BY <1>5, <3>1, <3>2
  <2> QED
    BY <2>1, <2>2
<1> QED
  BY <1>4, <1>5, <1>7, <1>8

LEMMA DayOfSlot == \A t \in 0 .. LastSlot : t \div DaySlots \in D!Days
  BY DEF D!Days

(* The rest of a queue.                                                       *)
LEMMA Rest ==
  ASSUME NEW q \in Seq(Users), q # <<>>
  PROVE  /\ Len(q) \in Nat \ {0} /\ q[1] \in Users /\ Head(q) = q[1]
         /\ Tail(q) \in Seq(Users) /\ Len(Tail(q)) = Len(q) - 1
         /\ \A i \in 1 .. Len(q) - 1 : Tail(q)[i] = q[i + 1]
         /\ GuaranteedAhead(q) => GuaranteedAhead(Tail(q))
         /\ GuaranteedAhead(q) /\ Len(q) > 1 /\ Tail(q)[1] \in Guaranteed => q[1] \in Guaranteed
<1>1. /\ Len(q) \in Nat \ {0} /\ q[1] \in Users /\ Head(q) = q[1]
      /\ Tail(q) \in Seq(Users) /\ Len(Tail(q)) = Len(q) - 1
      /\ \A i \in 1 .. Len(q) - 1 : Tail(q)[i] = q[i + 1]
  OBVIOUS
<1>2. GuaranteedAhead(q) => GuaranteedAhead(Tail(q))
  <2> SUFFICES ASSUME GuaranteedAhead(q), NEW i \in 1 .. Len(q) - 1, NEW j \in 1 .. Len(q) - 1,
                      i < j, q[j + 1] \in Guaranteed
               PROVE  q[i + 1] \in Guaranteed
    BY <1>1 DEF GuaranteedAhead
  <2>1. i + 1 \in 1 .. Len(q) /\ j + 1 \in 1 .. Len(q) /\ i + 1 < j + 1
    BY <1>1
  <2> QED
    BY <2>1 DEF GuaranteedAhead
<1>3. GuaranteedAhead(q) /\ Len(q) > 1 /\ Tail(q)[1] \in Guaranteed => q[1] \in Guaranteed
  <2>1. Len(q) > 1 => Tail(q)[1] = q[2] /\ 1 \in 1 .. Len(q) /\ 2 \in 1 .. Len(q)
    BY <1>1
  <2> QED
    BY <2>1 DEF GuaranteedAhead
<1> QED
  BY <1>1, <1>2, <1>3

(* A user's turn is over, and what the rest of the queue still has to come.   *)
LEMMA TurnOK ==
  ASSUME SweepTypeOK, SweepOK, D!Running, NEW s \in SweepT,
         s.queue = sweep.queue, s.now = sweep.now, s.served = sweep.served, sweep' = D!Turn(s),
         UNCHANGED <<now, swept>>
  PROVE  /\ sweep' \in SweepT /\ SweepOK'
         /\ sweep'.at \in {"user", "idle"} /\ sweep'.emails = s.emails /\ sweep'.deferred = s.deferred
         /\ sweep'.served = sweep.served /\ sweep'.now = sweep.now
         /\ \A r : (\E i \in 2 .. Len(sweep.queue) : sweep.queue[i] = LedgerOf[r]) => ToCome(r)'
         /\ D!Running' /\ D!User' \in Guaranteed => D!User \in Guaranteed
<1> DEFINE q == sweep.queue
<1>1. q \in Seq(Users) /\ q # <<>> /\ sweep.now = now /\ swept /\ GuaranteedAhead(q)
  BY DEF SweepTypeOK, SweepT, SweepOK
<1>2. /\ sweep' \in SweepT /\ sweep'.at = (IF Len(q) = 1 THEN "idle" ELSE "user") /\ sweep'.queue = Tail(q)
      /\ sweep'.emails = s.emails /\ sweep'.deferred = s.deferred /\ sweep'.due = {}
      /\ sweep'.served = sweep.served /\ sweep'.now = sweep.now
  BY <1>1, Rest DEF D!Turn, SweepT, Ats
<1> HIDE DEF q
<1>7. Len(q) \in Nat \ {0} /\ Len(Tail(q)) = Len(q) - 1
  BY <1>1, Rest
<1>3. sweep'.at # "idle" => Tail(q) # <<>> /\ Len(q) > 1
  <2>1. Len(<<>>) = 0
    OBVIOUS
  <2>2. Len(q) # 1 => Len(q) > 1 /\ Len(Tail(q)) # 0
    BY <1>7
  <2> QED
    BY <1>2, <2>1, <2>2, Zenon
<1>4. SweepOK'
  BY <1>1, <1>2, <1>3, Rest DEF SweepOK, D!Running, Unsettled
<1>5. ASSUME NEW r, NEW i \in 2 .. Len(q), q[i] = LedgerOf[r] PROVE ToCome(r)'
  <2>1. Len(q) # 1 /\ i - 1 \in 1 .. Len(Tail(q)) /\ Tail(q)[i - 1] = q[i]
    <3>1. i - 1 \in 1 .. Len(q) - 1 /\ (i - 1) + 1 = i /\ Len(q) # 1
      BY <1>7
    <3> QED
      BY <1>1, <3>1, Rest
  <2> QED
    BY <1>2, <1>5, <2>1 DEF ToCome
<1>6. D!Running' /\ D!User' \in Guaranteed => D!User \in Guaranteed
  <2>1. D!Running' => Head(Tail(q)) = Tail(q)[1] /\ Len(q) > 1 /\ Head(q) = q[1]
    BY <1>1, <1>2, <1>3, Rest DEF D!Running
  <2> QED
    BY <1>1, <1>2, <2>1, Rest DEF D!User, q
<1> QED
  BY <1>2, <1>4, <1>5, <1>6 DEF q

(* A sweep begins.                                                            *)
LEMMA StartOK == ASSUME SweepInv, D!StartSweep PROVE SweepInv'
<1>1. /\ ~D!Running /\ ~swept /\ swept' = TRUE
      /\ sweep' = [D!Idle EXCEPT !.at = IF Users = {} THEN "idle" ELSE "user", !.now = now, !.queue = D!OrderUsers,
                               !.emails = counted[now \div DaySlots]]
      /\ excused' = {r \in excused : deadline[r] <= now}
      /\ UNCHANGED <<now, deadline, active, marked, counted, faults, edits, notices, mails, slips, repeats>>
  BY DEF D!StartSweep
<1>2. counted[now \div DaySlots] \in 0 .. Cap /\ now \div DaySlots \in D!Days
  BY DayOfSlot DEF SweepInv, SweepTypeOK
<1>3. /\ sweep' \in SweepT /\ sweep'.at = (IF Users = {} THEN "idle" ELSE "user") /\ sweep'.queue = D!OrderUsers
      /\ sweep'.emails = counted[now \div DaySlots] /\ sweep'.now = now
      /\ sweep'.served = {} /\ sweep'.deferred = {} /\ sweep'.due = {}
  BY <1>1, <1>2, OrderIsWhole DEF D!Idle, SweepT, Ats, SweepInv, SweepTypeOK
<1>4. D!Running' => D!OrderUsers # <<>>
  <2>1. Len(<<>>) = 0
    OBVIOUS
  <2> QED
    BY <1>3, <2>1, OrderIsWhole DEF D!Running
<1>5. SweepTypeOK'
  BY <1>1, <1>3 DEF SweepInv, SweepTypeOK
<1>6. SweepOK'
  BY <1>1, <1>3, <1>4, OrderIsWhole DEF SweepOK, D!Running, Unsettled
<1>7. ToldOnce' /\ ToldAtAll'
  BY <1>1, <1>3 DEF SweepInv, ToldOnce, ToldAtAll, Unsettled, D!Running
<1>8. NothingForgotten'
  <2> SUFFICES ASSUME NEW r \in active, deadline[r] > 0
               PROVE  /\ deadline[r] <= now => Accounted(r)'
                      /\ now < deadline[r] => ToCome(r)'
    BY <1>1 DEF NothingForgotten
  <2>1. deadline[r] <= now => Accounted(r)'
    BY <1>1 DEF SweepInv, NothingForgotten, Accounted
  <2>2. LedgerOf[r] \in Users /\ Users # {}
    BY SweepOnConstants DEF D!SweepAssumption, SweepInv, SweepTypeOK
  <2>3. ToCome(r)'
    BY <1>3, <2>2, OrderIsWhole DEF ToCome
  <2> QED
    BY <2>1, <2>3
<1>9. MailsCounted'
  <2>1. InHand' = 0 /\ InHand = 0 /\ D!Today' = now \div DaySlots
    BY <1>1, <1>3 DEF InHand, D!Today, D!Running
  <2>2. \A d \in D!Days : mails[d] <= counted[d] + slips[d]
    BY <2>1 DEF SweepInv, MailsCounted, SweepTypeOK
  <2> QED
    BY <1>1, <1>2, <1>3, <2>1, <2>2 DEF MailsCounted, SweepInv, SweepTypeOK
<1>10. D!GuaranteedFirst' /\ GuaranteedServed'
  BY <1>3 DEF D!GuaranteedFirst, GuaranteedServed
<1> QED
  BY <1>5, <1>6, <1>7, <1>8, <1>9, <1>10 DEF SweepInv

(* What a user has due is unannounced, unmarked, in force and near.           *)
LEMMA StillDue ==
  ASSUME SweepInv, D!Running, NEW r \in active, now < deadline[r], deadline[r] <= now + DaySlots, ~Accounted(r)
  PROVE  r \in D!Due(LedgerOf[r], sweep.now) /\ r \in Resvs /\ LedgerOf[r] \in Users
<1>1. r \notin marked
  BY DEF SweepInv, ToldAtAll, Accounted
<1>2. r \in Resvs /\ LedgerOf[r] \in Users /\ sweep.now = now
  BY SweepOnConstants DEF SweepInv, SweepTypeOK, D!SweepAssumption, SweepOK
<1> QED
  BY <1>1, <1>2 DEF D!Due, D!WithinBoundary

LEMMA ForgetStep ==
  ASSUME SweepInv, D!Running, UNCHANGED <<now, deadline, active, swept>>,
         \A r \in Resvs : Accounted(r) => Accounted(r)',
         \A r \in active : r \in D!Due(LedgerOf[r], sweep.now) /\ ToCome(r) => Accounted(r)' \/ ToCome(r)'
  PROVE  NothingForgotten'
<1> SUFFICES ASSUME NEW r \in active, deadline[r] > 0
             PROVE  /\ deadline[r] <= now => Accounted(r)'
                    /\ swept /\ now < deadline[r] /\ deadline[r] <= now + DaySlots => Accounted(r)' \/ ToCome(r)'
  BY DEF NothingForgotten
<1>1. r \in Resvs
  BY DEF SweepInv, SweepTypeOK
<1>2. deadline[r] <= now => Accounted(r)'
  BY <1>1 DEF SweepInv, NothingForgotten
<1>3. ASSUME swept, now < deadline[r], deadline[r] <= now + DaySlots PROVE Accounted(r)' \/ ToCome(r)'
  BY <1>1, <1>3, StillDue DEF SweepInv, NothingForgotten
<1> QED
  BY <1>2, <1>3

LEMMA MailsStay ==
  ASSUME SweepInv, D!Running, sweep'.now = sweep.now, sweep'.emails = sweep.emails, InHand' = InHand,
         UNCHANGED <<counted, mails, slips>>
  PROVE  MailsCounted'
<1>1. D!Today' = D!Today
  BY DEF D!Today
<1> QED
  BY <1>1 DEF SweepInv, MailsCounted

(* What is still to come of a queue is in its rest, or its first user's.      *)
LEMMA FirstOrRest ==
  ASSUME SweepInv, D!Running, NEW r, ToCome(r), sweep.at # "send" \/ r \notin sweep.due
  PROVE  \/ sweep.at = "user" /\ LedgerOf[r] = D!User
         \/ \E i \in 2 .. Len(sweep.queue) : sweep.queue[i] = LedgerOf[r]
<1>1. sweep.queue \in Seq(Users) /\ sweep.queue # <<>>
  BY DEF SweepInv, SweepTypeOK, SweepT, SweepOK
<1>2. D!User = sweep.queue[1] /\ \A i \in 1 .. Len(sweep.queue) : i = 1 \/ i \in 2 .. Len(sweep.queue)
  BY <1>1, Rest DEF D!User
<1> QED
  BY <1>2 DEF ToCome

LEMMA ReadFailsOK == ASSUME SweepInv, D!ReadFails PROVE SweepInv'
<1>1. /\ sweep.at = "user" /\ D!Running /\ sweep' = D!Turn(sweep) /\ faults' \in 0 .. Faults
      /\ excused' = excused \cup D!Due(D!User, sweep.now)
      /\ UNCHANGED <<now, deadline, active, marked, counted, swept, edits, notices, mails, slips, repeats>>
  BY SweepOnConstants DEF D!ReadFails, D!Fault, D!Stored, D!Running, SweepInv, SweepTypeOK, D!SweepAssumption
<1>2. sweep \in SweepT /\ SweepTypeOK /\ SweepOK
  BY DEF SweepInv, SweepTypeOK
<1>3. /\ sweep' \in SweepT /\ SweepOK'
      /\ sweep'.at \in {"user", "idle"} /\ sweep'.emails = sweep.emails /\ sweep'.deferred = sweep.deferred
      /\ sweep'.served = sweep.served /\ sweep'.now = sweep.now
      /\ \A r : (\E i \in 2 .. Len(sweep.queue) : sweep.queue[i] = LedgerOf[r]) => ToCome(r)'
      /\ D!Running' /\ D!User' \in Guaranteed => D!User \in Guaranteed
  BY <1>1, <1>2, TurnOK
<1>4. D!Due(D!User, sweep.now) \subseteq Resvs
  BY DEF D!Due
<1>5. SweepTypeOK'
  BY <1>1, <1>2, <1>3, <1>4 DEF SweepTypeOK
<1>6. ToldOnce' /\ ToldAtAll'
  BY <1>1, <1>3 DEF SweepInv, ToldOnce, ToldAtAll, Unsettled
<1>7. NothingForgotten'
  BY <1>1, <1>3, ForgetStep, FirstOrRest DEF Accounted
<1>8. MailsCounted'
  BY <1>1, <1>3, MailsStay DEF InHand
<1>9. D!GuaranteedFirst' /\ GuaranteedServed'
  BY <1>1, <1>3 DEF SweepInv, D!GuaranteedFirst, GuaranteedServed
<1> QED
  BY <1>3, <1>5, <1>6, <1>7, <1>8, <1>9 DEF SweepInv

LEMMA CollectOK == ASSUME SweepInv, D!CollectDue PROVE SweepInv'
<1> DEFINE due == D!Due(D!User, sweep.now)
<1>1. /\ sweep.at = "user" /\ D!Running /\ sweep \in SweepT /\ SweepTypeOK /\ SweepOK
      /\ UNCHANGED <<now, deadline, active, marked, counted, swept, edits, faults, notices, mails, slips, repeats>>
  BY DEF D!CollectDue, D!Stored, D!Running, SweepInv, SweepTypeOK
<1>2. due \subseteq Resvs /\ due \cap marked = {} /\ \A r \in due : LedgerOf[r] = D!User
  BY DEF D!Due
<1>3. D!User \in Users /\ sweep.queue \in Seq(Users) /\ sweep.queue # <<>> /\ D!User = sweep.queue[1]
  BY <1>1, Rest DEF D!User, SweepT, SweepOK
<1> HIDE DEF due
<1>4. ASSUME NEW s \in SweepT, s.queue = sweep.queue, s.now = sweep.now, s.served = sweep.served,
             s.emails = sweep.emails, sweep' = D!Turn(s),
             excused' \in SUBSET Resvs, excused \cup due \subseteq excused',
             s.deferred = sweep.deferred \/ (s.deferred = sweep.deferred \cup {D!User} /\ sweep.emails = Cap)
      PROVE  SweepInv'
  <2>1. /\ sweep' \in SweepT /\ SweepOK'
        /\ sweep'.at \in {"user", "idle"} /\ sweep'.emails = sweep.emails /\ sweep'.deferred = s.deferred
        /\ sweep'.served = sweep.served /\ sweep'.now = sweep.now
        /\ \A r : (\E i \in 2 .. Len(sweep.queue) : sweep.queue[i] = LedgerOf[r]) => ToCome(r)'
        /\ D!Running' /\ D!User' \in Guaranteed => D!User \in Guaranteed
    BY <1>1, <1>4, TurnOK
  <2>2. SweepTypeOK'
    BY <1>1, <1>4, <2>1 DEF SweepTypeOK
  <2>3. ToldOnce' /\ ToldAtAll'
    BY <1>1, <2>1 DEF SweepInv, ToldOnce, ToldAtAll, Unsettled
  <2>4. NothingForgotten'
    BY <1>1, <1>4, <2>1, ForgetStep, FirstOrRest DEF Accounted, due
  <2>5. MailsCounted'
    BY <1>1, <2>1, MailsStay DEF InHand
  <2>6. D!GuaranteedFirst' /\ GuaranteedServed'
    BY <1>1, <1>4, <2>1 DEF SweepInv, D!GuaranteedFirst, GuaranteedServed
  <2> QED
    BY <2>1, <2>2, <2>3, <2>4, <2>5, <2>6 DEF SweepInv
<1>5. CASE due = {} /\ sweep' = D!Turn(sweep) /\ UNCHANGED excused
  BY <1>1, <1>4, <1>5 DEF SweepTypeOK
<1>6. CASE /\ D!AtCap /\ excused' = excused \cup due
           /\ sweep' = D!Turn([sweep EXCEPT !.deferred = @ \cup {D!User}])
  <2> DEFINE s == [sweep EXCEPT !.deferred = @ \cup {D!User}]
  <2>1. /\ s \in SweepT /\ s.queue = sweep.queue /\ s.now = sweep.now /\ s.served = sweep.served
        /\ s.emails = sweep.emails /\ s.deferred = sweep.deferred \cup {D!User} /\ sweep' = D!Turn(s)
    BY <1>1, <1>3, <1>6 DEF SweepT
  <2>2. sweep.emails = Cap
    BY <1>1, <1>6, SweepOnConstants DEF D!AtCap, SweepT, D!SweepAssumption
  <2>3. excused' \in SUBSET Resvs /\ excused \cup due \subseteq excused'
    BY <1>1, <1>2, <1>6 DEF SweepTypeOK
  <2> HIDE DEF s
  <2> QED
    BY <1>4, <2>1, <2>2, <2>3
<1>7. CASE due # {} /\ ~D!AtCap /\ sweep' = [sweep EXCEPT !.at = "send", !.due = due] /\ UNCHANGED excused
  <2>1. /\ sweep' \in SweepT /\ sweep'.at = "send" /\ sweep'.due = due /\ sweep'.emails = sweep.emails
        /\ sweep'.deferred = sweep.deferred /\ sweep'.queue = sweep.queue
        /\ sweep'.served = sweep.served /\ sweep'.now = sweep.now
    BY <1>1, <1>2, <1>7 DEF SweepT, Ats
  <2>2. SweepTypeOK'
    BY <1>1, <1>7, <2>1 DEF SweepTypeOK
  <2>3. D!User' = D!User
    BY <2>1 DEF D!User
  <2>4. D!ViaLine(D!User) \/ sweep.emails < Cap
    BY <1>1, <1>7, SweepOnConstants DEF D!AtCap, SweepT, D!SweepAssumption
  <2>5. SweepOK'
    BY <1>1, <1>2, <2>1, <2>3, <2>4 DEF SweepOK, D!Running, Unsettled, D!ViaLine
  <2>6. ToldOnce' /\ ToldAtAll'
    BY <1>1, <2>1 DEF SweepInv, ToldOnce, ToldAtAll, Unsettled
  <2>7. NothingForgotten'
    <3>1. ASSUME NEW r \in active, r \in D!Due(LedgerOf[r], sweep.now), ToCome(r) PROVE ToCome(r)'
      BY <1>1, <2>1, <3>1, FirstOrRest DEF ToCome, D!Running, due
    <3> QED
      BY <1>1, <1>7, <3>1, ForgetStep DEF Accounted
  <2>8. MailsCounted'
    BY <1>1, <2>1, MailsStay DEF InHand
  <2>9. D!GuaranteedFirst' /\ GuaranteedServed'
    BY <1>1, <2>1, <2>3 DEF SweepInv, D!GuaranteedFirst, GuaranteedServed, D!Running
  <2> QED
    BY <2>2, <2>5, <2>6, <2>7, <2>8, <2>9 DEF SweepInv
<1> QED
  BY <1>5, <1>6, <1>7 DEF D!CollectDue, due

(* What a message that gets through changes.                                  *)
LEMMA WhenDelivered ==
  ASSUME SweepInv, sweep.at = "send", D!Delivered
  PROVE  /\ notices' \in [Resvs -> Nat] /\ mails' \in [D!Days -> Nat] /\ D!Today \in D!Days
         /\ \A r \in Resvs : notices'[r] = IF r \in sweep.due THEN notices[r] + 1 ELSE notices[r]
         /\ \A d \in D!Days : mails'[d] = IF ~D!ViaLine(D!User) /\ d = D!Today THEN mails[d] + 1 ELSE mails[d]
         /\ \A r \in sweep.due \ repeats : notices[r] = 0
         /\ \A r \in sweep.due : notices'[r] > 0
<1>1. /\ notices \in [Resvs -> Nat] /\ mails \in [D!Days -> Nat] /\ sweep.due \subseteq Resvs /\ D!Today \in D!Days
  BY DayOfSlot DEF SweepInv, SweepTypeOK, SweepT, D!Today
<1>2. \A r \in sweep.due \ repeats : notices[r] = 0
  BY <1>1 DEF SweepInv, SweepOK, ToldOnce, Unsettled
<1>3. notices' \in [Resvs -> Nat] /\ \A r \in Resvs : notices'[r] = IF r \in sweep.due THEN notices[r] + 1 ELSE notices[r]
  BY <1>1 DEF D!Delivered
<1>4. mails' \in [D!Days -> Nat] /\ \A d \in D!Days : mails'[d] = IF ~D!ViaLine(D!User) /\ d = D!Today THEN mails[d] + 1 ELSE mails[d]
  BY <1>1 DEF D!Delivered
<1> QED
  BY <1>1, <1>2, <1>3, <1>4

(* The mails of the day of a sweep, before and after one of its steps.        *)
LEMMA MailsMove ==
  ASSUME SweepInv, D!Running, D!Today \in D!Days
  PROVE  /\ mails[D!Today] \in Nat /\ slips[D!Today] \in Nat /\ counted[D!Today] \in Nat /\ sweep.emails \in Nat
         /\ mails[D!Today] <= counted[D!Today] + slips[D!Today] + InHand
         /\ mails[D!Today] <= sweep.emails + slips[D!Today] + InHand
         /\ /\ D!Today' = D!Today
            /\ \A d \in D!Days \ {D!Today} : mails'[d] = mails[d] /\ counted'[d] = counted[d] /\ slips'[d] = slips[d]
            /\ mails'[D!Today] <= counted'[D!Today] + slips'[D!Today] + InHand'
            /\ D!Running' => mails'[D!Today] <= sweep'.emails + slips'[D!Today] + InHand'
            => MailsCounted'
<1>1. /\ mails[D!Today] \in Nat /\ slips[D!Today] \in Nat /\ counted[D!Today] \in Nat /\ sweep.emails \in Nat
      /\ mails[D!Today] <= counted[D!Today] + slips[D!Today] + InHand
      /\ mails[D!Today] <= sweep.emails + slips[D!Today] + InHand
  BY SweepOnConstants DEF SweepInv, MailsCounted, SweepTypeOK, SweepT, D!SweepAssumption
<1>2. ASSUME D!Today' = D!Today,
             \A d \in D!Days \ {D!Today} : mails'[d] = mails[d] /\ counted'[d] = counted[d] /\ slips'[d] = slips[d],
             mails'[D!Today] <= counted'[D!Today] + slips'[D!Today] + InHand',
             D!Running' => mails'[D!Today] <= sweep'.emails + slips'[D!Today] + InHand'
      PROVE  MailsCounted'
  <2>1. \A d \in D!Days \ {D!Today} : mails[d] <= counted[d] + slips[d] + 0
    BY DEF SweepInv, MailsCounted
  <2> QED
    BY <1>2, <2>1 DEF MailsCounted
<1> QED
  BY <1>1, <1>2

LEMMA SendOK == ASSUME SweepInv, D!Send PROVE SweepInv'
<1>1. /\ sweep.at = "send" /\ D!Running /\ sweep \in SweepT /\ SweepTypeOK /\ SweepOK /\ D!Delivered
      /\ sweep' = [sweep EXCEPT !.at = IF D!ViaLine(D!User) THEN "mark" ELSE "count", !.served = @ \cup {D!User}]
      /\ UNCHANGED <<now, deadline, active, marked, counted, swept, edits, faults, slips, repeats, excused>>
  BY DEF D!Send, D!Stored, D!Running, SweepInv, SweepTypeOK
<1>2. D!User \in Users
  BY <1>1, Rest DEF D!User, SweepT, SweepOK
<1>3. /\ sweep' \in SweepT /\ sweep'.at = (IF D!ViaLine(D!User) THEN "mark" ELSE "count") /\ sweep'.due = sweep.due
      /\ sweep'.emails = sweep.emails /\ sweep'.deferred = sweep.deferred /\ sweep'.queue = sweep.queue
      /\ sweep'.served = sweep.served \cup {D!User} /\ sweep'.now = sweep.now
  BY <1>1, <1>2 DEF SweepT, Ats
<1>4. D!User' = D!User /\ D!Today' = D!Today
  BY <1>3 DEF D!User, D!Today
<1>5. SweepTypeOK'
  BY <1>1, <1>3, WhenDelivered DEF SweepTypeOK
<1>6. SweepOK'
  BY <1>1, <1>3, <1>4 DEF SweepOK, D!Running, Unsettled, D!ViaLine
<1>7. ToldOnce'
  BY <1>1, <1>3, WhenDelivered DEF SweepInv, ToldOnce, Unsettled
<1>8. ToldAtAll'
  BY <1>1, <1>3, WhenDelivered DEF SweepInv, ToldAtAll, SweepTypeOK
<1>9. NothingForgotten'
  <2>1. \A r \in Resvs : Accounted(r) => Accounted(r)'
    BY <1>1, WhenDelivered DEF Accounted, SweepTypeOK
  <2>2. ASSUME NEW r \in active, ToCome(r) PROVE Accounted(r)' \/ ToCome(r)'
    <3>1. CASE r \in sweep.due
      BY <1>1, <3>1, WhenDelivered DEF Accounted
    <3>2. CASE r \notin sweep.due
      BY <1>1, <1>3, <2>2, <3>2 DEF ToCome, D!Running
    <3> QED
      BY <3>1, <3>2
  <2> QED
    BY <1>1, <2>1, <2>2, ForgetStep
<1>10. MailsCounted'
  <2>1. InHand = 0 /\ InHand' = IF D!ViaLine(D!User) THEN 0 ELSE 1
    BY <1>1, <1>3 DEF InHand
  <2>2. mails'[D!Today] = mails[D!Today] + InHand' /\ \A d \in D!Days \ {D!Today} : mails'[d] = mails[d]
    BY <1>1, <2>1, MailsMove, WhenDelivered
  <2> QED
    BY <1>1, <1>3, <1>4, <2>1, <2>2, MailsMove, WhenDelivered
<1>11. D!GuaranteedFirst'
  <2>1. sweep.deferred \cap Guaranteed # {} => D!User \in Linked
    BY <1>1, SweepOnConstants DEF SweepInv, GuaranteedServed, SweepOK, D!ViaLine, D!SweepAssumption
  <2> QED
    BY <1>3, <2>1 DEF SweepInv, D!GuaranteedFirst
<1>12. GuaranteedServed'
  BY <1>1, <1>3, <1>4 DEF SweepInv, GuaranteedServed
<1> QED
  BY <1>5, <1>6, <1>7, <1>8, <1>9, <1>10, <1>11, <1>12 DEF SweepInv

LEMMA SendFailsOK == ASSUME SweepInv, D!SendFails PROVE SweepInv'
<1>1. /\ sweep.at = "send" /\ D!Running /\ sweep \in SweepT /\ SweepTypeOK /\ SweepOK
      /\ sweep' = D!Turn(sweep) /\ excused' = excused \cup sweep.due /\ faults' \in 0 .. Faults
      /\ UNCHANGED <<now, deadline, active, marked, counted, swept, edits>>
  BY SweepOnConstants DEF D!SendFails, D!Fault, D!Stored, D!Running, SweepInv, SweepTypeOK, D!SweepAssumption
<1>2. \/ UNCHANGED <<notices, mails, slips, repeats>>
      \/ /\ D!Delivered /\ repeats' = repeats \cup sweep.due
         /\ slips' = IF D!ViaLine(D!User) THEN slips ELSE [slips EXCEPT ![D!Today] = @ + 1]
  BY DEF D!SendFails
<1>3. /\ sweep' \in SweepT /\ SweepOK'
      /\ sweep'.at \in {"user", "idle"} /\ sweep'.emails = sweep.emails /\ sweep'.deferred = sweep.deferred
      /\ sweep'.served = sweep.served /\ sweep'.now = sweep.now
      /\ \A r : (\E i \in 2 .. Len(sweep.queue) : sweep.queue[i] = LedgerOf[r]) => ToCome(r)'
      /\ D!Running' /\ D!User' \in Guaranteed => D!User \in Guaranteed
  BY <1>1, TurnOK
<1>4. InHand = 0 /\ InHand' = 0 /\ D!Today' = D!Today /\ D!Today \in D!Days
  BY <1>1, <1>3, DayOfSlot DEF InHand, D!Today, SweepT
<1>5. /\ slips' \in [D!Days -> Nat]
      /\ \A d \in D!Days : mails'[d] - mails[d] = slips'[d] - slips[d]
  <2>1. CASE UNCHANGED <<notices, mails, slips, repeats>>
    BY <1>1, <2>1 DEF SweepTypeOK
  <2>2. CASE D!Delivered /\ slips' = IF D!ViaLine(D!User) THEN slips ELSE [slips EXCEPT ![D!Today] = @ + 1]
    BY <1>1, <1>4, <2>2, WhenDelivered DEF SweepTypeOK
  <2> QED
    BY <1>2, <2>1, <2>2
<1>6. SweepTypeOK'
  BY <1>1, <1>2, <1>3, <1>5, WhenDelivered DEF SweepTypeOK, SweepT
<1>7. \A r \in Resvs : notices[r] <= notices'[r] /\ (notices[r] # notices'[r] => r \in repeats') /\ (r \in repeats => r \in repeats')
  BY <1>1, <1>2, WhenDelivered DEF SweepTypeOK
<1>8. ToldOnce' /\ ToldAtAll'
  BY <1>1, <1>3, <1>6, <1>7 DEF SweepInv, ToldOnce, ToldAtAll, Unsettled, SweepTypeOK
<1>9. NothingForgotten'
  <2>1. \A r \in Resvs : Accounted(r) => Accounted(r)'
    BY <1>1, <1>6, <1>7 DEF Accounted, SweepTypeOK
  <2>2. ASSUME NEW r \in active, ToCome(r) PROVE Accounted(r)' \/ ToCome(r)'
    BY <1>1, <1>3, <2>2, FirstOrRest DEF Accounted
  <2> QED
    BY <1>1, <2>1, <2>2, ForgetStep
<1>10. MailsCounted'
  <2>1. \A d \in D!Days \ {D!Today} : mails'[d] = mails[d] /\ slips'[d] = slips[d]
    BY <1>1, <1>2 DEF D!Delivered, SweepTypeOK
  <2>2. mails'[D!Today] \in Nat /\ slips'[D!Today] \in Nat /\ mails'[D!Today] - mails[D!Today] = slips'[D!Today] - slips[D!Today]
    BY <1>4, <1>5, <1>6 DEF SweepTypeOK
  <2> QED
    BY <1>1, <1>3, <1>4, <2>1, <2>2, MailsMove
<1>11. D!GuaranteedFirst' /\ GuaranteedServed'
  BY <1>1, <1>3 DEF SweepInv, D!GuaranteedFirst, GuaranteedServed
<1> QED
  BY <1>3, <1>6, <1>8, <1>9, <1>10, <1>11 DEF SweepInv

LEMMA CountOK == ASSUME SweepInv, D!CountMail PROVE SweepInv'
<1>1. /\ sweep.at = "count" /\ D!Running /\ sweep \in SweepT /\ SweepTypeOK /\ SweepOK
      /\ counted' = [counted EXCEPT ![D!Today] = sweep.emails + 1]
      /\ sweep' = [sweep EXCEPT !.at = "mark", !.emails = @ + 1]
      /\ UNCHANGED <<now, deadline, active, marked, swept, faults, edits, notices, mails, slips, repeats, excused>>
  BY DEF D!CountMail, D!Running, SweepInv, SweepTypeOK, D!history
<1>2. sweep.emails + 1 \in 0 .. Cap /\ D!Today \in D!Days /\ sweep.emails # Cap
  BY <1>1, SweepOnConstants, DayOfSlot DEF SweepOK, SweepT, D!SweepAssumption, D!Today
<1>3. /\ sweep' \in SweepT /\ sweep'.at = "mark" /\ sweep'.due = sweep.due
      /\ sweep'.emails = sweep.emails + 1 /\ sweep'.deferred = sweep.deferred /\ sweep'.queue = sweep.queue
      /\ sweep'.served = sweep.served /\ sweep'.now = sweep.now
  BY <1>1, <1>2 DEF SweepT, Ats
<1>4. D!User' = D!User /\ D!Today' = D!Today /\ InHand = 1 /\ InHand' = 0
  BY <1>1, <1>3 DEF D!User, D!Today, InHand
<1>5. counted' \in [D!Days -> 0 .. Cap] /\ \A d \in D!Days : counted'[d] = IF d = D!Today THEN sweep.emails + 1 ELSE counted[d]
  BY <1>1, <1>2 DEF SweepTypeOK
<1>6. SweepTypeOK'
  BY <1>1, <1>3, <1>5 DEF SweepTypeOK
<1>7. SweepOK'
  BY <1>1, <1>3, <1>4 DEF SweepOK, D!Running, Unsettled
<1>8. ToldOnce' /\ ToldAtAll'
  BY <1>1, <1>3 DEF SweepInv, ToldOnce, ToldAtAll, Unsettled
<1>9. NothingForgotten'
  BY <1>1, <1>3, ForgetStep DEF Accounted, ToCome, D!Running
<1>10. MailsCounted'
  BY <1>1, <1>2, <1>3, <1>4, <1>5, MailsMove
<1>11. D!GuaranteedFirst' /\ GuaranteedServed'
  BY <1>1, <1>2, <1>3, <1>4 DEF SweepInv, D!GuaranteedFirst, GuaranteedServed, D!Running
<1> QED
  BY <1>6, <1>7, <1>8, <1>9, <1>10, <1>11 DEF SweepInv

LEMMA MarkOK == ASSUME SweepInv, D!Mark PROVE SweepInv'
<1>1. PICK r \in sweep.due : /\ marked' = marked \cup {r}
                             /\ sweep' = IF sweep.due = {r} THEN D!Turn(sweep) ELSE [sweep EXCEPT !.due = @ \ {r}]
  BY DEF D!Mark
<1>2. /\ sweep.at = "mark" /\ D!Running /\ sweep \in SweepT /\ SweepTypeOK /\ SweepOK /\ r \in Resvs /\ InHand = 0
      /\ UNCHANGED <<now, deadline, active, counted, swept, faults, edits, notices, mails, slips, repeats, excused>>
  BY DEF D!Mark, D!Running, SweepInv, SweepTypeOK, SweepT, D!history, InHand
<1>3. \A t \in marked' : notices[t] > 0
  BY <1>1, <1>2 DEF SweepInv, ToldAtAll, Unsettled
<1>4. CASE sweep.due = {r}
  <2>1. sweep' = D!Turn(sweep)
    BY <1>1, <1>4
  <2>2. /\ sweep' \in SweepT /\ SweepOK'
        /\ sweep'.at \in {"user", "idle"} /\ sweep'.emails = sweep.emails /\ sweep'.deferred = sweep.deferred
        /\ sweep'.served = sweep.served /\ sweep'.now = sweep.now
        /\ \A t : (\E i \in 2 .. Len(sweep.queue) : sweep.queue[i] = LedgerOf[t]) => ToCome(t)'
        /\ D!Running' /\ D!User' \in Guaranteed => D!User \in Guaranteed
    BY <1>2, <2>1, TurnOK
  <2>3. SweepTypeOK'
    BY <1>1, <1>2, <2>2 DEF SweepTypeOK
  <2>4. ToldOnce' /\ ToldAtAll'
    BY <1>1, <1>2, <1>3, <1>4, <2>2 DEF SweepInv, ToldOnce, ToldAtAll, Unsettled
  <2>5. NothingForgotten'
    BY <1>2, <2>2, ForgetStep, FirstOrRest DEF Accounted
  <2>6. MailsCounted'
    BY <1>2, <2>2, MailsStay DEF InHand
  <2>7. D!GuaranteedFirst' /\ GuaranteedServed'
    BY <1>2, <2>2 DEF SweepInv, D!GuaranteedFirst, GuaranteedServed
  <2> QED
    BY <2>2, <2>3, <2>4, <2>5, <2>6, <2>7 DEF SweepInv
<1>5. CASE sweep.due # {r}
  <2>1. sweep' = [sweep EXCEPT !.due = @ \ {r}]
    BY <1>1, <1>5
  <2>2. /\ sweep' \in SweepT /\ sweep'.at = "mark" /\ sweep'.due = sweep.due \ {r} /\ sweep'.queue = sweep.queue
        /\ sweep'.emails = sweep.emails /\ sweep'.deferred = sweep.deferred
        /\ sweep'.served = sweep.served /\ sweep'.now = sweep.now
    BY <1>2, <2>1 DEF SweepT
  <2>3. SweepTypeOK' /\ D!User' = D!User
    BY <1>1, <1>2, <2>2 DEF SweepTypeOK, D!User
  <2>4. ToldOnce' /\ ToldAtAll'
    BY <1>1, <1>2, <1>3, <2>2 DEF SweepInv, ToldOnce, ToldAtAll, Unsettled
  <2>5. NothingForgotten'
    BY <1>2, <2>2, ForgetStep DEF Accounted, ToCome, D!Running
  <2>6. MailsCounted'
    BY <1>2, <2>2, MailsStay DEF InHand
  <2>7. SweepOK' /\ D!GuaranteedFirst' /\ GuaranteedServed'
    BY <1>2, <2>2, <2>3 DEF SweepInv, D!GuaranteedFirst, GuaranteedServed, SweepOK, D!Running, Unsettled
  <2> QED
    BY <2>3, <2>4, <2>5, <2>6, <2>7 DEF SweepInv
<1> QED
  BY <1>4, <1>5

LEMMA StoreFailsOK == ASSUME SweepInv, D!StoreFails PROVE SweepInv'
<1> DEFINE s == [sweep EXCEPT !.emails = IF sweep.at = "count" THEN @ + 1 ELSE @]
<1>1. /\ Unsettled /\ D!Running /\ sweep \in SweepT /\ SweepTypeOK /\ SweepOK /\ faults' \in 0 .. Faults
      /\ sweep' = D!Turn(s) /\ repeats' = repeats \cup sweep.due
      /\ slips' = IF sweep.at = "count" THEN [slips EXCEPT ![D!Today] = @ + 1] ELSE slips
      /\ UNCHANGED <<now, deadline, active, marked, counted, swept, edits, notices, mails, excused>>
  BY SweepOnConstants DEF D!StoreFails, D!Fault, D!Stored, D!Running, Unsettled, SweepInv, SweepTypeOK, D!SweepAssumption
<1>2. /\ s \in SweepT /\ s.queue = sweep.queue /\ s.now = sweep.now /\ s.served = sweep.served
      /\ s.deferred = sweep.deferred /\ s.emails = sweep.emails + InHand
      /\ InHand \in {0, 1} /\ (InHand = 1 => sweep.emails # Cap)
  <2>1. InHand \in {0, 1} /\ (InHand = 1 => sweep.emails < Cap /\ sweep.emails # Cap)
    BY <1>1, SweepOnConstants DEF SweepT, SweepOK, D!SweepAssumption, InHand
  <2>2. sweep.emails + InHand \in 0 .. Cap
    BY <1>1, <2>1, SweepOnConstants DEF SweepT, D!SweepAssumption
  <2>3. s = [sweep EXCEPT !.emails = sweep.emails + InHand]
    BY <1>1, SweepOnConstants DEF SweepT, InHand, D!SweepAssumption
  <2> QED
    BY <1>1, <2>1, <2>2, <2>3 DEF SweepT
<1> HIDE DEF s
<1>3. /\ sweep' \in SweepT /\ SweepOK'
      /\ sweep'.at \in {"user", "idle"} /\ sweep'.emails = s.emails /\ sweep'.deferred = s.deferred
      /\ sweep'.served = sweep.served /\ sweep'.now = sweep.now
      /\ \A r : (\E i \in 2 .. Len(sweep.queue) : sweep.queue[i] = LedgerOf[r]) => ToCome(r)'
      /\ D!Running' /\ D!User' \in Guaranteed => D!User \in Guaranteed
  BY <1>1, <1>2, TurnOK
<1>4. InHand' = 0 /\ D!Today' = D!Today /\ D!Today \in D!Days
  BY <1>1, <1>3, DayOfSlot DEF InHand, D!Today, SweepT
<1>5. slips' \in [D!Days -> Nat] /\ \A d \in D!Days : slips'[d] = IF d = D!Today THEN slips[d] + InHand ELSE slips[d]
  BY <1>1, <1>4 DEF SweepTypeOK, InHand
<1>6. SweepTypeOK'
  BY <1>1, <1>3, <1>5 DEF SweepTypeOK, SweepT
<1>7. ToldOnce' /\ ToldAtAll'
  BY <1>1, <1>3 DEF SweepInv, ToldOnce, ToldAtAll, Unsettled
<1>8. NothingForgotten'
  <2>1. sweep.at \notin {"user", "send"}
    BY <1>1 DEF Unsettled
  <2> QED
    BY <1>1, <1>3, <2>1, ForgetStep, FirstOrRest DEF Accounted
<1>9. MailsCounted'
  BY <1>1, <1>2, <1>3, <1>4, <1>5, MailsMove
<1>10. D!GuaranteedFirst' /\ GuaranteedServed'
  BY <1>1, <1>2, <1>3, SweepOnConstants DEF SweepInv, D!GuaranteedFirst, GuaranteedServed, SweepT, D!SweepAssumption
<1> QED
  BY <1>3, <1>6, <1>7, <1>8, <1>9, <1>10 DEF SweepInv

LEMMA IdleSweep ==
  /\ D!Idle \in SweepT /\ D!Idle.at = "idle" /\ D!Idle.served = {} /\ D!Idle.deferred = {} /\ D!Idle.now = 0
  /\ 0 \div DaySlots \in D!Days
<1>1. 0 \in 0 .. LastSlot /\ 0 \in 0 .. Cap
  BY SweepOnConstants DEF D!SweepAssumption
<1> QED
  BY <1>1, DayOfSlot DEF D!Idle, SweepT, Ats

LEMMA CutOK == ASSUME SweepInv, D!Cut PROVE SweepInv'
<1>1. /\ D!Running /\ sweep \in SweepT /\ SweepTypeOK /\ SweepOK /\ faults' \in 0 .. Faults /\ sweep' = D!Idle
      /\ repeats' = IF Unsettled THEN repeats \cup sweep.due ELSE repeats
      /\ slips' = IF sweep.at = "count" THEN [slips EXCEPT ![D!Today] = @ + 1] ELSE slips
      /\ excused' = excused \cup
           {r \in Resvs : \E i \in 1 .. Len(sweep.queue) : r \in D!Due(sweep.queue[i], sweep.now)}
      /\ UNCHANGED <<now, deadline, active, marked, counted, swept, edits, notices, mails>>
  BY SweepOnConstants DEF D!Cut, D!Fault, D!Stored, Unsettled, SweepInv, SweepTypeOK, D!SweepAssumption
<1>2. D!Today \in D!Days /\ InHand' = 0
  BY <1>1, DayOfSlot, IdleSweep DEF D!Today, SweepT, InHand
<1>3. slips' \in [D!Days -> Nat] /\ \A d \in D!Days : slips'[d] = IF d = D!Today THEN slips[d] + InHand ELSE slips[d]
  BY <1>1, <1>2 DEF SweepTypeOK, InHand
<1>4. SweepTypeOK'
  BY <1>1, <1>3, IdleSweep DEF SweepTypeOK, SweepT
<1>5. SweepOK'
  BY <1>1, IdleSweep DEF SweepOK, D!Running, Unsettled
<1>6. ToldOnce' /\ ToldAtAll'
  BY <1>1, IdleSweep DEF SweepInv, ToldOnce, ToldAtAll, Unsettled
<1>7. NothingForgotten'
  <2>1. ASSUME NEW r \in active, r \in D!Due(LedgerOf[r], sweep.now), ToCome(r) PROVE Accounted(r)'
    <3>1. sweep.queue \in Seq(Users) /\ sweep.queue # <<>>
      BY <1>1 DEF SweepT, SweepOK
    <3>2. \E i \in 1 .. Len(sweep.queue) : sweep.queue[i] = LedgerOf[r]
      <4>1. CASE sweep.at = "send" /\ r \in sweep.due
        <5>1. LedgerOf[r] = sweep.queue[1] /\ 1 \in 1 .. Len(sweep.queue)
          BY <1>1, <3>1, <4>1, Rest DEF SweepOK, D!User
        <5> QED
          BY <5>1
      <4>2. CASE ~(sweep.at = "send" /\ r \in sweep.due)
        BY <2>1, <3>1, <4>2 DEF ToCome
      <4> QED
        BY <4>1, <4>2
    <3>3. r \in Resvs
      BY <1>1 DEF SweepTypeOK
    <3> QED
      BY <1>1, <2>1, <3>2, <3>3 DEF Accounted
  <2>2. \A r \in Resvs : Accounted(r) => Accounted(r)'
    BY <1>1 DEF Accounted
  <2> QED
    BY <1>1, <2>1, <2>2, ForgetStep
<1>8. MailsCounted'
  <2>1. \A d \in D!Days : mails[d] <= counted[d] + slips'[d] + 0
    <3> SUFFICES ASSUME NEW d \in D!Days PROVE mails[d] <= counted[d] + slips'[d] + 0
      OBVIOUS
    <3>1. mails[d] <= counted[d] + slips[d] + (IF d = D!Today THEN InHand ELSE 0)
      BY DEF SweepInv, MailsCounted
    <3>2. InHand \in {0, 1} /\ counted[d] \in Nat /\ slips[d] \in Nat /\ slips'[d] \in Nat
      BY <1>1, <1>3, SweepOnConstants DEF SweepTypeOK, InHand, D!SweepAssumption
    <3> QED
      BY <1>3, <3>1, <3>2
  <2>2. ~D!Running'
    BY <1>1, IdleSweep DEF D!Running
  <2> QED
    BY <1>1, <1>2, <2>1, <2>2 DEF MailsCounted
<1>9. D!GuaranteedFirst' /\ GuaranteedServed'
  BY <1>1, IdleSweep DEF D!GuaranteedFirst, GuaranteedServed, D!Running
<1> QED
  BY <1>4, <1>5, <1>6, <1>7, <1>8, <1>9 DEF SweepInv

(* A reservation is changed beside the sweep.                                 *)
LEMMA EditOK ==
  ASSUME SweepInv, NEW r \in Resvs, D!Cancel(r) \/ D!Restore(r) \/ \E t \in 0 .. LastSlot : D!Move(r, t)
  PROVE  SweepInv'
<1>1. /\ UNCHANGED <<now, marked, counted, sweep, swept, faults, notices, mails, slips, repeats>>
      /\ edits' \in 0 .. Edits
  BY SweepOnConstants DEF D!Cancel, D!Restore, D!Move, D!Edit, D!history, SweepInv, SweepTypeOK, D!SweepAssumption
<1>2. /\ active' \subseteq Resvs /\ deadline' \in [Resvs -> 0 .. LastSlot] /\ excused \subseteq excused' /\ excused' \subseteq Resvs
      /\ \A x \in active' : \/ x \in active /\ deadline'[x] = deadline[x]
                            \/ deadline'[x] > now + DaySlots
                            \/ x \in excused'
  <2>1. CASE D!Cancel(r)
    BY <2>1 DEF D!Cancel, D!history, SweepInv, SweepTypeOK
  <2>2. CASE D!Restore(r)
    BY <2>2, SweepOnConstants DEF D!Restore, D!LastDay, SweepInv, SweepTypeOK, D!SweepAssumption
  <2>3. ASSUME NEW t \in 0 .. LastSlot, D!Move(r, t)
        PROVE  /\ active' = active /\ deadline' \in [Resvs -> 0 .. LastSlot]
               /\ \A x \in Resvs : deadline'[x] = IF x = r THEN t ELSE deadline[x]
               /\ excused' = IF t <= now + DaySlots THEN excused \cup {r} ELSE excused
    BY <2>3 DEF D!Move, D!LastDay, SweepInv, SweepTypeOK
  <2>4. now \in Nat /\ DaySlots \in Nat /\ LastSlot \in Nat
    BY SweepOnConstants DEF SweepInv, SweepTypeOK, D!SweepAssumption
  <2>5. ASSUME NEW t \in 0 .. LastSlot, D!Move(r, t)
        PROVE  \A x \in active' : \/ x \in active /\ deadline'[x] = deadline[x]
                                  \/ deadline'[x] > now + DaySlots
                                  \/ x \in excused'
    BY <2>3, <2>4, <2>5 DEF SweepInv, SweepTypeOK
  <2> QED
    BY <2>1, <2>2, <2>3, <2>5 DEF SweepInv, SweepTypeOK
<1>3. SweepTypeOK'
  BY <1>1, <1>2 DEF SweepInv, SweepTypeOK
<1>4. SweepOK' /\ ToldOnce' /\ ToldAtAll' /\ D!GuaranteedFirst' /\ GuaranteedServed'
  BY <1>1 DEF SweepInv, SweepOK, ToldOnce, ToldAtAll, D!GuaranteedFirst, GuaranteedServed, D!Running, Unsettled, D!User, D!ViaLine
<1>5. MailsCounted'
  BY <1>1 DEF SweepInv, MailsCounted, D!Running, D!Today, InHand
<1>6. NothingForgotten'
  <2> SUFFICES ASSUME NEW x \in active', deadline'[x] > 0
               PROVE  /\ deadline'[x] <= now => Accounted(x)'
                      /\ swept /\ now < deadline'[x] /\ deadline'[x] <= now + DaySlots => Accounted(x)' \/ ToCome(x)'
    BY <1>1 DEF NothingForgotten
  <2>1. x \in Resvs /\ now \in Nat /\ DaySlots \in Nat /\ deadline'[x] \in Nat
    BY <1>2, SweepOnConstants DEF SweepInv, SweepTypeOK, D!SweepAssumption
  <2>2. CASE x \in excused'
    BY <2>2 DEF Accounted
  <2>3. CASE deadline'[x] > now + DaySlots
    BY <2>1, <2>3
  <2>4. CASE x \in active /\ deadline'[x] = deadline[x]
    <3>1. Accounted(x) => Accounted(x)'
      BY <1>1, <1>2 DEF Accounted
    <3>2. ToCome(x) => ToCome(x)'
      BY <1>1 DEF ToCome, D!Running
    <3> QED
      BY <2>4, <3>1, <3>2 DEF SweepInv, NothingForgotten
  <2> QED
    BY <1>2, <2>2, <2>3, <2>4
<1> QED
  BY <1>3, <1>4, <1>5, <1>6 DEF SweepInv

(* The next slot begins when the last sweep is over.                          *)
LEMMA SlotOK == ASSUME SweepInv, D!NextSlot PROVE SweepInv'
<1>1. /\ now < LastSlot /\ swept /\ ~D!Running /\ now' = now + 1 /\ sweep' = D!Idle /\ swept' = FALSE
      /\ UNCHANGED <<deadline, active, marked, counted, faults, edits, notices, mails, slips, repeats, excused>>
  BY DEF D!NextSlot, D!history
<1>2. SweepTypeOK'
  <2>1. now' \in 0 .. LastSlot
    BY <1>1, SweepOnConstants DEF SweepInv, SweepTypeOK, D!SweepAssumption
  <2> QED
    BY <1>1, <2>1, IdleSweep DEF SweepInv, SweepTypeOK
<1>3. SweepOK' /\ D!GuaranteedFirst' /\ GuaranteedServed'
  BY <1>1, IdleSweep DEF SweepOK, D!Running, Unsettled, D!GuaranteedFirst, GuaranteedServed
<1>4. ToldOnce' /\ ToldAtAll'
  BY <1>1, IdleSweep DEF SweepInv, ToldOnce, ToldAtAll, Unsettled, D!Running
<1>5. NothingForgotten'
  <2> SUFFICES ASSUME NEW r \in active, deadline[r] > 0, deadline[r] <= now + 1 PROVE Accounted(r)
    BY <1>1 DEF NothingForgotten, Accounted
  <2>1. ~ToCome(r)
    BY <1>1 DEF ToCome, D!Running
  <2>2. deadline[r] \in Nat /\ now \in Nat /\ DaySlots \in Nat \ {0}
    BY SweepOnConstants DEF SweepInv, SweepTypeOK, D!SweepAssumption
  <2> QED
    BY <1>1, <2>1, <2>2 DEF SweepInv, NothingForgotten
<1>6. MailsCounted'
  <2>1. InHand = 0 /\ InHand' = 0 /\ ~D!Running'
    BY <1>1, IdleSweep DEF InHand, D!Running
  <2> QED
    BY <1>1, <2>1 DEF SweepInv, MailsCounted
<1> QED
  BY <1>2, <1>3, <1>4, <1>5, <1>6 DEF SweepInv

LEMMA SweepInit == ASSUME D!Init PROVE SweepInv
<1>1. /\ sweep = D!Idle /\ ~D!Running /\ swept = FALSE /\ now = 0 /\ InHand = 0 /\ ~Unsettled /\ sweep.at = "idle"
  BY IdleSweep DEF D!Init, D!Running, InHand, Unsettled
<1>2. SweepTypeOK
  <2>1. {0} \subseteq 0 .. LastSlot /\ {0} \subseteq 0 .. Cap /\ {0} \subseteq 0 .. Faults /\ {0} \subseteq 0 .. Edits
    BY SweepOnConstants DEF D!SweepAssumption
  <2>2. counted \in [D!Days -> 0 .. Cap] /\ notices \in [Resvs -> Nat] /\ mails \in [D!Days -> Nat] /\ slips \in [D!Days -> Nat]
    BY <2>1 DEF D!Init
  <2>3. /\ now \in 0 .. LastSlot /\ faults \in 0 .. Faults /\ edits \in 0 .. Edits
        /\ deadline \in [Resvs -> 0 .. LastSlot] /\ active \subseteq Resvs
        /\ marked = {} /\ repeats = {} /\ excused = {} /\ swept = FALSE /\ sweep = D!Idle
    BY <2>1 DEF D!Init
  <2> QED
    BY <2>2, <2>3, IdleSweep DEF SweepTypeOK
<1>3. SweepOK /\ ToldOnce /\ ToldAtAll
  BY <1>1 DEF D!Init, SweepOK, ToldOnce, ToldAtAll
<1>4. NothingForgotten
  <2>1. \A r \in active : deadline[r] > 0 => ~(deadline[r] <= now)
    BY <1>1, <1>2 DEF SweepTypeOK
  <2> QED
    BY <1>1, <2>1 DEF NothingForgotten
<1>5. MailsCounted
  BY <1>1 DEF D!Init, MailsCounted
<1>6. D!GuaranteedFirst /\ GuaranteedServed
  BY <1>1, IdleSweep DEF D!GuaranteedFirst, GuaranteedServed
<1> QED
  BY <1>2, <1>3, <1>4, <1>5, <1>6 DEF SweepInv

LEMMA SweepStep == SweepInv /\ [D!Next]_(D!vars) => SweepInv'
<1> SUFFICES ASSUME SweepInv, [D!Next]_(D!vars) PROVE SweepInv'
  OBVIOUS
<1>1. CASE UNCHANGED D!vars
  <2>1. UNCHANGED <<now, deadline, active, marked, counted, sweep, swept, faults, edits, notices, mails, slips, repeats, excused>>
    BY <1>1 DEF D!vars
  <2>2. SweepTypeOK' /\ SweepOK' /\ ToldOnce' /\ ToldAtAll'
    BY <2>1 DEF SweepInv, SweepTypeOK, SweepOK, ToldOnce, ToldAtAll, D!Running, Unsettled, D!User, D!ViaLine
  <2>3. NothingForgotten' /\ MailsCounted' /\ D!GuaranteedFirst' /\ GuaranteedServed'
    BY <2>1 DEF SweepInv, NothingForgotten, MailsCounted, D!GuaranteedFirst, GuaranteedServed, Accounted, ToCome,
                D!Running, D!User, D!Today, InHand
  <2> QED
    BY <2>2, <2>3 DEF SweepInv
<1>2. CASE D!Next
  BY <1>2, StartOK, CollectOK, SendOK, SendFailsOK, CountOK, MarkOK, ReadFailsOK, StoreFailsOK, CutOK, SlotOK, EditOK DEF D!Next
<1> QED
  BY <1>1, <1>2

(* NoticeOnce: a reservation is announced once, however often it is moved,    *)
(* cancelled and restored, unless a failure came between a message and its    *)
(* marker (notify.ts, markerKey), for any users, reservations and faults.     *)
THEOREM NoticedOnce == D!Spec => []NoticeOnce
<1>1. SweepInv => NoticeOnce
  BY DEF SweepInv, ToldOnce, SweepTypeOK, NoticeOnce, D!NoticeOnce
<1> QED
  BY <1>1, SweepInit, SweepStep, PTL DEF D!Spec

(* NoneMissed: no deadline of a reservation in force lapses without a notice  *)
(* unless a sweep left it out for a reason (notify.ts, collectDue).           *)
THEOREM NoDeadlineMissed == D!Spec => []NoneMissed
<1>1. SweepInv => NoneMissed
  BY DEF SweepInv, NothingForgotten, SweepTypeOK, NoneMissed, D!NoneMissed, Accounted
<1> QED
  BY <1>1, SweepInit, SweepStep, PTL DEF D!Spec

(* RationHeld: the e-mails of a day stay under the cap but for those that     *)
(* were not counted, and nobody on the guaranteed list is put off for the cap *)
(* by a sweep that mailed somebody who is not (notify.ts, orderUsers).        *)
THEOREM RationKept == D!Spec => []RationHeld
<1>1. SweepInv => RationHeld
  <2> SUFFICES ASSUME SweepInv, NEW d \in D!Days PROVE mails[d] <= Cap + slips[d]
    BY DEF SweepInv, RationHeld, D!RationHeld, D!MailCapHeld
  <2>1. /\ mails[d] <= counted[d] + slips[d] + (IF d = D!Today THEN InHand ELSE 0)
        /\ mails[d] \in Nat /\ counted[d] \in 0 .. Cap /\ slips[d] \in Nat /\ Cap \in Nat /\ sweep.emails \in Nat
    BY SweepOnConstants DEF SweepInv, MailsCounted, SweepTypeOK, SweepT, D!SweepAssumption
  <2>2. CASE d = D!Today /\ sweep.at = "count"
    <3>1. mails[d] <= sweep.emails + slips[d] + 1 /\ sweep.emails < Cap
      BY <2>2 DEF SweepInv, MailsCounted, SweepOK, D!Running, InHand
    <3> QED
      BY <2>1, <3>1
  <2>3. CASE ~(d = D!Today /\ sweep.at = "count")
    BY <2>1, <2>3 DEF InHand
  <2> QED
    BY <2>2, <2>3
<1> QED
  BY <1>1, SweepInit, SweepStep, PTL DEF D!Spec

(* The types of DeadlineSweep (notify.ts).                                    *)
THEOREM SweepTypeCorrect == D!Spec => []SweepTypeOK
<1>1. SweepInv => SweepTypeOK
  BY DEF SweepInv
<1> QED
  BY <1>1, SweepInit, SweepStep, PTL DEF D!Spec

-----------------------------------------------------------------------------
(* The stage tables of the web ledger (WebPolicy), for every length of day,   *)
(* table, start and free boundary.                                            *)
(*                                                                            *)
(* A table is read by its hours: the farthest one still ahead decides, or the *)
(* nearest when all are past (RateIsRead).  That the stored form loses        *)
(* nothing rests on the hours it keeps: a dropped one charges what the next   *)
(* one kept inside it charges (KeptInside).                                   *)

\* A nonempty set of naturals has a least element.
LEMMA LeastNatural ==
  ASSUME NEW T, T \subseteq Nat, T # {}
  PROVE  \E x \in T : \A y \in T : x <= y
<1>1. PICK x \in T : \A y \in T : ~(<<y, x>> \in OpToRel(<, Nat))
  BY NatLessThanWellFounded, WFMin
<1>2. \A y \in T : ~(y < x)
  BY <1>1 DEF OpToRel
<1> QED
  BY <1>2

HasEnds(T) == (\E x \in T : \A y \in T : x >= y) /\ (\E x \in T : \A y \in T : x <= y)

\* A finite set of integers has ends, by a least counterexample.
LEMMA FiniteEnds ==
  ASSUME NEW S, IsFiniteSet(S), S \subseteq Int, S # {}
  PROVE  /\ W!Max(S) \in S /\ \A x \in S : W!Max(S) >= x
         /\ W!Min(S) \in S /\ \A x \in S : W!Min(S) <= x
<1> DEFINE Bad(n) == \E T \in SUBSET S : T # {} /\ Cardinality(T) = n /\ ~HasEnds(T)
           Bads == {n \in Nat : Bad(n)}
<1>1. Bads = {}
  <2> SUFFICES ASSUME Bads # {} PROVE FALSE
    OBVIOUS
  <2>1. PICK n \in Bads : \A m \in Bads : n <= m
    BY LeastNatural
  <2>2. PICK T \in SUBSET S : T # {} /\ Cardinality(T) = n /\ ~HasEnds(T)
    BY <2>1
  <2>3. n \in Nat /\ IsFiniteSet(T)
    BY <2>1, FS_Subset
  <2>4. PICK x \in T : TRUE
    BY <2>2
  <2>5. PICK U : U = T \ {x}
    OBVIOUS
  <2>6. U \in SUBSET S /\ Cardinality(U) = n - 1 /\ IsFiniteSet(U)
    BY <2>2, <2>3, <2>4, <2>5, FS_RemoveElement
  <2>7. n - 1 \in Nat
    BY <2>6, FS_CardinalityType
  <2>8. n - 1 \notin Bads
    BY <2>1, <2>3
  <2>9. U = {} \/ HasEnds(U)
    BY <2>6, <2>7, <2>8
  <2>10. HasEnds(T)
    BY <2>4, <2>5, <2>9 DEF HasEnds
  <2> QED  BY <2>2, <2>10
<1>2. HasEnds(S)
  <2>1. Cardinality(S) \in Nat
    BY FS_CardinalityType
  <2> QED  BY <1>1, <2>1
<1> QED  BY <1>2 DEF HasEnds, W!Max, W!Min

\* Both names of the size of a set mean the same.
LEMMA WebSize == \A S : W!Cardinality(S) = Cardinality(S)
  BY DEF Cardinality, W!Cardinality

Rank(S, h) == W!Cardinality({g \in S : g >= h})

\* Every place among the elements of a set is taken by one of them, a larger one before a smaller.
LEMMA Ranks ==
  ASSUME NEW S, IsFiniteSet(S), S \subseteq Int
  PROVE  /\ Cardinality(S) \in Nat
         /\ \A h \in S : Rank(S, h) \in 1 .. Cardinality(S)
         /\ \A g, h \in S : g > h => Rank(S, g) < Rank(S, h)
         /\ \A k \in 1 .. Cardinality(S) : \E h \in S : Rank(S, h) = k
<1>1. PICK n : n = Cardinality(S)
  OBVIOUS
<1>2. n \in Nat
  BY <1>1, FS_CardinalityType
<1>3. ASSUME NEW h \in S
      PROVE  Rank(S, h) \in 1 .. n
  <2>1. PICK T : T = {g \in S : g >= h}
    OBVIOUS
  <2>2. IsFiniteSet(T) /\ Cardinality(T) <= n /\ Cardinality(T) \in Nat
    BY <1>1, <2>1, FS_Subset, FS_CardinalityType
  <2>3. h \in T
    BY <2>1
  <2>4. Cardinality(T) # 0
    BY <2>2, <2>3, FS_EmptySet
  <2> QED  BY <1>2, <2>1, <2>2, <2>4, WebSize DEF Rank
<1>4. ASSUME NEW g \in S, NEW h \in S, g > h
      PROVE  Rank(S, g) < Rank(S, h)
  <2>1. PICK T, U : T = {x \in S : x >= g} /\ U = {x \in S : x >= h}
    OBVIOUS
  <2>2. IsFiniteSet(U) /\ T \in SUBSET U
    <3>1. U \in SUBSET S
      BY <2>1
    <3>2. IsFiniteSet(U)
      BY <3>1, FS_Subset
    <3>3. \A x \in S : x >= g => x >= h
      BY <1>4
    <3> QED  BY <2>1, <3>2, <3>3
  <2>3. Cardinality(T) <= Cardinality(U) /\ (Cardinality(U) = Cardinality(T) => U = T)
    BY <2>2, FS_Subset
  <2>4. h \in U /\ h \notin T
    BY <1>4, <2>1
  <2>5. Cardinality(T) \in Nat /\ Cardinality(U) \in Nat
    BY <2>2, FS_Subset, FS_CardinalityType
  <2> QED  BY <2>1, <2>3, <2>4, <2>5, WebSize DEF Rank
<1>5. ASSUME NEW k \in 1 .. n
      PROVE  \E h \in S : Rank(S, h) = k
  <2>1. PICK f : f = [h \in S |-> Rank(S, h)]
    OBVIOUS
  <2>2. f \in [S -> 1 .. n]
    BY <1>3, <2>1
  <2>3. \A g, h \in S : f[g] = f[h] => g = h
    <3> SUFFICES ASSUME NEW g \in S, NEW h \in S, f[g] = f[h] PROVE g = h
      OBVIOUS
    <3>1. Rank(S, g) = Rank(S, h)
      BY <2>1
    <3>2. Rank(S, g) \in Nat /\ g \in Int /\ h \in Int
      BY <1>3
    <3> QED  BY <1>4, <3>1, <3>2
  <2>4. f \in Injection(S, 1 .. n)
    BY <2>2, <2>3 DEF Injection, IsInjective
  <2>5. IsFiniteSet(1 .. n) /\ Cardinality(1 .. n) = n
    BY <1>2, FS_Interval
  <2>6. f \in Surjection(S, 1 .. n)
    BY <1>1, <2>4, <2>5, FS_Injection
  <2> QED  BY <2>1, <2>6 DEF Surjection
<1> QED  BY <1>1, <1>2, <1>3, <1>4, <1>5

\* Descending sorts a set of integers.
LEMMA DescendingSorts ==
  ASSUME NEW S, IsFiniteSet(S), S \subseteq Int, NEW d, d = W!Descending(S)
  PROVE  /\ Cardinality(S) \in Nat /\ d \in [1 .. Cardinality(S) -> S]
         /\ \A i, j \in 1 .. Cardinality(S) : i < j => d[i] > d[j]
         /\ \A h \in S : \E i \in 1 .. Cardinality(S) : d[i] = h
         /\ \A i \in 1 .. Cardinality(S) : Rank(S, d[i]) = i
<1>1. PICK n : n = Cardinality(S)
  OBVIOUS
<1>2. /\ n \in Nat /\ \A h \in S : Rank(S, h) \in 1 .. n
      /\ \A g, h \in S : g > h => Rank(S, g) < Rank(S, h)
      /\ \A k \in 1 .. n : \E h \in S : Rank(S, h) = k
  BY <1>1, Ranks
<1>3. d = [i \in 1 .. n |-> CHOOSE h \in S : Rank(S, h) = i]
  <2>1. d = [i \in 1 .. W!Cardinality(S) |-> CHOOSE h \in S : Rank(S, h) = i]
    BY DEF W!Descending, Rank
  <2> QED  BY <1>1, <2>1, WebSize
<1>4. ASSUME NEW i \in 1 .. n
      PROVE  d[i] \in S /\ Rank(S, d[i]) = i
  <2>1. \E h \in S : Rank(S, h) = i
    BY <1>2
  <2>2. d[i] = CHOOSE h \in S : Rank(S, h) = i
    BY <1>3
  <2> QED  BY <2>1, <2>2
<1>5. d \in [1 .. n -> S]
  BY <1>3, <1>4
<1>6. ASSUME NEW i \in 1 .. n, NEW j \in 1 .. n, i < j
      PROVE  d[i] > d[j]
  <2>1. d[i] \in S /\ d[j] \in S /\ Rank(S, d[i]) = i /\ Rank(S, d[j]) = j
    BY <1>4
  <2>2. PICK g, h : g = d[i] /\ h = d[j]
    OBVIOUS
  <2>3. g \in S /\ h \in S /\ Rank(S, g) = i /\ Rank(S, h) = j
    BY <2>1, <2>2
  <2>4. g # h /\ ~(h > g)
    BY <1>2, <1>6, <2>3
  <2> QED  BY <2>2, <2>3, <2>4
<1>7. ASSUME NEW h \in S
      PROVE  \E i \in 1 .. n : d[i] = h
  <2>1. PICK i \in 1 .. n : i = Rank(S, h)
    BY <1>2
  <2>2. PICK g : g = d[i]
    OBVIOUS
  <2>3. g \in S /\ Rank(S, g) = Rank(S, h)
    BY <1>4, <2>1, <2>2
  <2>4. Rank(S, h) \in Int
    BY <1>2
  <2>5. ~(g > h) /\ ~(h > g)
    BY <1>2, <2>3, <2>4
  <2>6. g \in Int /\ h \in Int
    BY <2>3
  <2> QED  BY <2>1, <2>2, <2>5, <2>6
<1> QED  BY <1>1, <1>2, <1>4, <1>5, <1>6, <1>7

\* There is one way to sort a set.
LEMMA SortedOnce ==
  ASSUME NEW m \in Nat, NEW e, DOMAIN e = 1 .. m, e = [i \in 1 .. m |-> e[i]],
         \A i \in 1 .. m : e[i] \in Int,
         \A i, j \in 1 .. m : i < j => e[i] > e[j],
         NEW S, S = {e[i] : i \in 1 .. m}
  PROVE  IsFiniteSet(S) /\ Cardinality(S) = m /\ W!Descending(S) = e
<1>1. ASSUME NEW k \in 0 .. m
      PROVE  LET T == {e[i] : i \in 1 .. k} IN IsFiniteSet(T) /\ Cardinality(T) = k
  <2>1. PICK T, f : T = {e[i] : i \in 1 .. k} /\ f = [i \in 1 .. k |-> e[i]]
    OBVIOUS
  <2>2. f \in [1 .. k -> T] /\ \A i, j \in 1 .. k : f[i] = f[j] => i = j
    <3>1. f \in [1 .. k -> T]
      BY <2>1
    <3>2. ASSUME NEW i \in 1 .. k, NEW j \in 1 .. k, f[i] = f[j]
          PROVE  i = j
      <4>1. e[i] = e[j] /\ i \in 1 .. m /\ j \in 1 .. m
        BY <2>1, <3>2
      <4>2. ~(e[i] > e[j]) /\ ~(e[j] > e[i])
        BY <4>1
      <4> QED  BY <4>1, <4>2
    <3> QED  BY <3>1, <3>2
  <2>3. f \in Bijection(1 .. k, T)
    BY <2>1, <2>2 DEF Bijection, Injection, IsInjective, Surjection
  <2>4. IsFiniteSet(1 .. k) /\ Cardinality(1 .. k) = k
    BY FS_Interval
  <2> QED  BY <2>1, <2>3, <2>4, FS_Bijection DEF ExistsBijection
<1>2. IsFiniteSet(S) /\ Cardinality(S) = m /\ S \subseteq Int
  BY <1>1
<1>3. PICK d : d = W!Descending(S)
  OBVIOUS
<1>4. /\ d \in [1 .. m -> S] /\ \A i \in 1 .. m : Rank(S, d[i]) = i
      /\ \A g, h \in S : g > h => Rank(S, g) < Rank(S, h)
      /\ \A h \in S : Rank(S, h) \in 1 .. m
  BY <1>2, <1>3, DescendingSorts, Ranks
<1>5. ASSUME NEW i \in 1 .. m
      PROVE  d[i] = e[i]
  <2>1. {g \in S : g >= e[i]} = {e[j] : j \in 1 .. i}
    <3>1. \A j \in 1 .. m : e[j] >= e[i] <=> j <= i
      <4> SUFFICES ASSUME NEW j \in 1 .. m PROVE e[j] >= e[i] <=> j <= i
        OBVIOUS
      <4>1. e[i] \in Int /\ e[j] \in Int /\ (i < j => e[i] > e[j]) /\ (j < i => e[j] > e[i])
        OBVIOUS
      <4> QED  BY <4>1
    <3> QED  BY <3>1
  <2>2. Rank(S, e[i]) = i
    <3>1. i \in 0 .. m
      OBVIOUS
    <3>2. Cardinality({e[j] : j \in 1 .. i}) = i
      BY <1>1, <3>1
    <3> QED  BY <2>1, <3>2, WebSize DEF Rank
  <2>3. PICK g, h : g = d[i] /\ h = e[i]
    OBVIOUS
  <2>4. h \in S /\ g \in S /\ Rank(S, g) = i /\ Rank(S, h) = i
    BY <1>4, <2>2, <2>3
  <2>5. ~(g > h) /\ ~(h > g)
    <3>1. (g > h => Rank(S, g) < Rank(S, h)) /\ (h > g => Rank(S, h) < Rank(S, g))
      BY <1>4, <2>4
    <3>2. i \in Int
      OBVIOUS
    <3> QED  BY <2>4, <3>1, <3>2
  <2>6. g \in Int /\ h \in Int
    BY <1>2, <2>4
  <2> QED  BY <2>3, <2>5, <2>6
<1>6. d = [i \in 1 .. m |-> d[i]]
  BY <1>4
<1> QED  BY <1>2, <1>3, <1>5, <1>6

\* A table, its rows by their places: what a client submits, or a part of it.
IsTable(t) ==
  /\ IsFiniteSet(DOMAIN t) /\ DOMAIN t # {} /\ DOMAIN t \subseteq Int
  /\ \A i \in DOMAIN t : t[i].h \in Nat

\* The stored form: farthest first, no row that charges what the next one does.
FinalOf(t, m) ==
  /\ m \in Nat \ {0} /\ DOMAIN t = 1 .. m
  /\ t = [i \in 1 .. m |-> [h |-> t[i].h, pct |-> t[i].pct]]
  /\ \A i \in 1 .. m : t[i].h \in Nat
  /\ \A i, j \in 1 .. m : i < j => t[i].h > t[j].h
  /\ \A i \in 1 .. m - 1 : t[i].pct # t[i + 1].pct
Final(t) == \E m : FinalOf(t, m)

\* The hours that are kept.
Inner(t, h) == {g \in W!Hours(t) : g < h}
KeptHours(t) ==
  {h \in W!Hours(t) : Inner(t, h) = {} \/ W!RateOf(t, W!Max(Inner(t, h))) # W!RateOf(t, h)}

\* An hour of a table charges what the last of its rows says.
LEMMA HoursRead ==
  ASSUME NEW t, IsTable(t)
  PROVE  /\ IsFiniteSet(W!Hours(t)) /\ W!Hours(t) \subseteq Nat /\ W!Hours(t) # {}
         /\ \A h \in W!Hours(t) :
              \E i \in DOMAIN t : /\ t[i].h = h /\ W!RateOf(t, h) = t[i].pct
                                  /\ \A j \in DOMAIN t : t[j].h = h => j <= i
<1>1. PICK H, f : H = W!Hours(t) /\ f = [i \in DOMAIN t |-> t[i].h]
  OBVIOUS
<1>2. H = {t[i].h : i \in DOMAIN t}
  BY <1>1 DEF W!Hours
<1>3. f \in Surjection(DOMAIN t, H)
  BY <1>1, <1>2 DEF Surjection
<1>4. IsFiniteSet(H)
  BY <1>3, FS_Surjection DEF IsTable
<1>5. H \subseteq Nat /\ H # {}
  BY <1>2 DEF IsTable
<1>6. ASSUME NEW h \in H
      PROVE  \E i \in DOMAIN t : /\ t[i].h = h /\ W!RateOf(t, h) = t[i].pct
                                 /\ \A j \in DOMAIN t : t[j].h = h => j <= i
  <2>1. PICK S : S = {i \in DOMAIN t : t[i].h = h}
    OBVIOUS
  <2>2. IsFiniteSet(S) /\ S \subseteq Int /\ S # {}
    <3>1. S \in SUBSET (DOMAIN t)
      BY <2>1
    <3>2. IsFiniteSet(S)
      BY <3>1, FS_Subset DEF IsTable
    <3> QED  BY <1>2, <2>1, <3>1, <3>2 DEF IsTable
  <2>3. W!Max(S) \in S /\ \A x \in S : W!Max(S) >= x
    BY <2>2, FiniteEnds
  <2>4. W!RateOf(t, h) = t[W!Max(S)].pct
    BY <2>1 DEF W!RateOf
  <2>5. PICK i : i = W!Max(S)
    OBVIOUS
  <2>6. i \in DOMAIN t /\ t[i].h = h /\ i \in Int /\ \A j \in DOMAIN t : t[j].h = h => j <= i
    <3>1. \A j \in S : j \in Int /\ i >= j
      BY <2>2, <2>3, <2>5
    <3> QED  BY <2>1, <2>2, <2>3, <2>5, <3>1
  <2> QED  BY <2>4, <2>5, <2>6
<1> QED  BY <1>1, <1>4, <1>5, <1>6

\* An hour that is dropped charges what the next one kept inside it charges.
LEMMA KeptInside ==
  ASSUME NEW t, IsTable(t), NEW hour \in W!Hours(t)
  PROVE  \E k \in KeptHours(t) : /\ k <= hour /\ W!RateOf(t, k) = W!RateOf(t, hour)
                                 /\ \A g \in KeptHours(t) : g <= hour => g <= k
<1> DEFINE Stands(h) == \E k \in KeptHours(t) : /\ k <= h /\ W!RateOf(t, k) = W!RateOf(t, h)
                                                /\ \A g \in KeptHours(t) : g <= h => g <= k
           Falls == {h \in W!Hours(t) : ~Stands(h)}
<1>1. W!Hours(t) \subseteq Nat /\ IsFiniteSet(W!Hours(t))
  BY HoursRead
<1>2. Falls = {}
  <2> SUFFICES ASSUME Falls # {} PROVE FALSE
    OBVIOUS
  <2>1. PICK h \in Falls : \A g \in Falls : h <= g
    BY <1>1, LeastNatural
  <2>2. h \in W!Hours(t) /\ h \in Nat /\ ~Stands(h)
    BY <1>1, <2>1
  <2>3. h \notin KeptHours(t)
    <3> SUFFICES ASSUME h \in KeptHours(t) PROVE FALSE
      OBVIOUS
    <3>1. h <= h /\ \A g \in KeptHours(t) : g <= h => g <= h
      BY <2>2
    <3> QED  BY <2>2, <3>1
  <2>4. PICK inner : inner = Inner(t, h)
    OBVIOUS
  <2>5. inner # {} /\ W!RateOf(t, W!Max(inner)) = W!RateOf(t, h)
    BY <2>2, <2>3, <2>4 DEF KeptHours
  <2>6. inner \in SUBSET W!Hours(t) /\ \A g \in inner : g < h
    BY <2>4 DEF Inner
  <2>7. PICK m : m = W!Max(inner)
    OBVIOUS
  <2>8. m \in inner /\ \A g \in inner : m >= g
    <3>1. IsFiniteSet(inner) /\ inner \subseteq Int
      BY <1>1, <2>6, FS_Subset
    <3> QED  BY <2>5, <2>7, <3>1, FiniteEnds
  <2>9. m \in W!Hours(t) /\ m < h /\ m \in Nat
    BY <1>1, <2>6, <2>8
  <2>10. Stands(m)
    BY <2>1, <2>2, <2>9
  <2>11. PICK k \in KeptHours(t) : /\ k <= m /\ W!RateOf(t, k) = W!RateOf(t, m)
                                   /\ \A g \in KeptHours(t) : g <= m => g <= k
    BY <2>10
  <2>12. KeptHours(t) \subseteq W!Hours(t)
    BY DEF KeptHours
  <2>13. ASSUME NEW g \in KeptHours(t), g <= h
         PROVE  g <= m
    <3>1. g \in W!Hours(t) /\ g \in Nat /\ g # h
      BY <1>1, <2>3, <2>12
    <3>2. g \in inner
      BY <2>2, <2>4, <2>13, <3>1 DEF Inner
    <3> QED  BY <2>8, <2>9, <3>1, <3>2
  <2>14. k \in Nat /\ k <= h /\ W!RateOf(t, k) = W!RateOf(t, h)
    BY <1>1, <2>2, <2>5, <2>7, <2>9, <2>11, <2>12
  <2> QED  BY <2>2, <2>11, <2>13, <2>14
<1> QED  BY <1>2

\* What normalizeStages leaves of a table.
LEMMA Normal ==
  ASSUME NEW t, IsTable(t), NEW n, n = W!NormalizeStages(t)
  PROVE  /\ Final(n) /\ \A i \in DOMAIN n : n[i].h \in KeptHours(t) /\ n[i].pct = W!RateOf(t, n[i].h)
         /\ \A k \in KeptHours(t) : \E i \in DOMAIN n : n[i].h = k
<1>1. PICK K, d : K = KeptHours(t) /\ d = W!Descending(K)
  OBVIOUS
<1>2. n = [i \in DOMAIN d |-> [h |-> d[i], pct |-> W!RateOf(t, d[i])]]
  BY <1>1 DEF W!NormalizeStages, KeptHours, Inner
<1>3. W!Hours(t) \subseteq Nat /\ IsFiniteSet(W!Hours(t)) /\ W!Hours(t) # {}
  BY HoursRead
<1>4. K \in SUBSET W!Hours(t)
  BY <1>1 DEF KeptHours
<1>5. IsFiniteSet(K) /\ K \subseteq Int /\ K \subseteq Nat
  BY <1>3, <1>4, FS_Subset
<1>6. PICK m : m = Cardinality(K)
  OBVIOUS
<1>7. /\ m \in Nat /\ d \in [1 .. m -> K]
      /\ \A i, j \in 1 .. m : i < j => d[i] > d[j]
      /\ \A h \in K : \E i \in 1 .. m : d[i] = h
  BY <1>1, <1>5, <1>6, DescendingSorts
<1>8. m # 0
  <2>1. PICK h \in W!Hours(t) : TRUE
    BY <1>3
  <2>2. K # {}
    BY <1>1, <2>1, KeptInside
  <2> QED  BY <1>5, <1>6, <2>2, FS_EmptySet
<1>9. DOMAIN n = 1 .. m /\ \A i \in 1 .. m : n[i] = [h |-> d[i], pct |-> W!RateOf(t, d[i])]
  BY <1>2, <1>7
<1>10. \A i \in 1 .. m : n[i].h = d[i] /\ n[i].pct = W!RateOf(t, d[i]) /\ d[i] \in K
  BY <1>7, <1>9
<1>11. ASSUME NEW i \in 1 .. m - 1
       PROVE  n[i].pct # n[i + 1].pct
  <2>1. i \in 1 .. m /\ i + 1 \in 1 .. m /\ i \in Nat
    BY <1>7
  <2>2. PICK h, k : h = d[i] /\ k = d[i + 1]
    OBVIOUS
  <2>3. h \in K /\ k \in K /\ h > k /\ h \in Nat /\ k \in Nat
    BY <1>5, <1>7, <2>1, <2>2
  <2>4. PICK inner : inner = Inner(t, h)
    OBVIOUS
  <2>5. inner \in SUBSET W!Hours(t) /\ k \in inner /\ \A g \in inner : g < h
    BY <1>4, <2>3, <2>4 DEF Inner
  <2>6. W!RateOf(t, W!Max(inner)) # W!RateOf(t, h)
    BY <1>1, <2>3, <2>4, <2>5 DEF KeptHours
  <2>7. PICK top : top = W!Max(inner)
    OBVIOUS
  <2>8. top \in inner /\ top >= k
    <3>1. IsFiniteSet(inner) /\ inner \subseteq Int /\ inner # {}
      BY <1>3, <2>5, FS_Subset
    <3>2. W!Max(inner) \in inner /\ \A x \in inner : W!Max(inner) >= x
      BY <3>1, FiniteEnds
    <3> QED  BY <2>5, <2>7, <3>2
  <2>9. top \in W!Hours(t) /\ top < h /\ top \in Nat
    BY <1>3, <2>5, <2>8
  <2>10. PICK g \in K : /\ g <= top /\ W!RateOf(t, g) = W!RateOf(t, top)
                        /\ \A x \in K : x <= top => x <= g
    BY <1>1, <2>9, KeptInside
  <2>11. g \in Nat /\ k <= g
    BY <1>5, <2>3, <2>8, <2>9, <2>10
  <2>12. g = k
    <3>1. PICK j \in 1 .. m : d[j] = g
      BY <1>7
    <3>2. j > i
      <4>1. ~(j <= i)
        <5> SUFFICES ASSUME j <= i PROVE FALSE
          OBVIOUS
        <5>1. d[j] >= d[i]
          <6>1. CASE j = i
            BY <2>2, <2>3, <6>1
          <6>2. CASE j < i
            BY <1>7, <2>1, <6>2, <2>2, <2>3, <3>1, <2>11
          <6> QED  BY <2>1, <6>1, <6>2
        <5> QED  BY <2>2, <2>3, <2>9, <2>10, <2>11, <3>1, <5>1
      <4> QED  BY <2>1, <4>1
    <3>3. CASE j = i + 1
      BY <2>2, <3>1, <3>3
    <3>4. CASE j > i + 1
      <4>1. d[i + 1] > d[j]
        BY <1>7, <2>1, <3>4
      <4> QED  BY <2>2, <2>3, <2>11, <3>1, <4>1
    <3> QED  BY <2>1, <3>2, <3>3, <3>4
  <2> QED  BY <1>10, <2>1, <2>2, <2>6, <2>7, <2>10, <2>12
<1>12. FinalOf(n, m)
  <2>1. n = [i \in 1 .. m |-> [h |-> n[i].h, pct |-> n[i].pct]]
    <3>1. \A i \in 1 .. m : n[i] = [h |-> n[i].h, pct |-> n[i].pct]
      BY <1>9
    <3>2. n = [i \in 1 .. m |-> n[i]]
      BY <1>2, <1>9
    <3> QED  BY <3>1, <3>2
  <2>2. \A i \in 1 .. m : n[i].h \in Nat
    BY <1>5, <1>10
  <2>3. \A i, j \in 1 .. m : i < j => n[i].h > n[j].h
    BY <1>7, <1>10
  <2> QED  BY <1>7, <1>8, <1>9, <1>11, <2>1, <2>2, <2>3 DEF FinalOf
<1> QED
  <2>1. \A i \in DOMAIN n : n[i].h \in K /\ n[i].pct = W!RateOf(t, n[i].h)
    BY <1>9, <1>10
  <2>2. \A k \in K : \E i \in DOMAIN n : n[i].h = k
    BY <1>7, <1>9, <1>10
  <2> QED  BY <1>1, <1>12, <2>1, <2>2 DEF Final

\* The stored form is a table, and is what it is brought to.
LEMMA FinalStays ==
  ASSUME NEW t, Final(t)
  PROVE  IsTable(t) /\ W!NormalizeStages(t) = t
<1>1. PICK m : FinalOf(t, m)
  BY DEF Final
<1>2. /\ m \in Nat /\ m # 0 /\ DOMAIN t = 1 .. m
      /\ \A i \in 1 .. m : t[i].h \in Nat
      /\ \A i, j \in 1 .. m : i < j => t[i].h > t[j].h
  BY <1>1 DEF FinalOf
<1>3. IsTable(t)
  <2>1. IsFiniteSet(1 .. m) /\ 1 \in 1 .. m /\ 1 .. m \subseteq Int
    BY <1>2, FS_Interval
  <2> QED  BY <1>2, <2>1 DEF IsTable
<1>4. PICK H, e : H = W!Hours(t) /\ e = [i \in 1 .. m |-> t[i].h]
  OBVIOUS
<1>5. H = {t[i].h : i \in 1 .. m} /\ IsFiniteSet(H) /\ H \subseteq Nat
  BY <1>2, <1>3, <1>4, HoursRead DEF W!Hours
<1>6. ASSUME NEW i \in 1 .. m
      PROVE  W!RateOf(t, t[i].h) = t[i].pct
  <2>1. t[i].h \in W!Hours(t)
    BY <1>4, <1>5
  <2>2. PICK j \in 1 .. m : t[j].h = t[i].h /\ W!RateOf(t, t[i].h) = t[j].pct
    BY <1>2, <1>3, <2>1, HoursRead
  <2>3. ~(i < j) /\ ~(j < i)
    <3>1. t[i].h \in Nat /\ t[j].h \in Nat /\ ~(t[i].h > t[j].h) /\ ~(t[j].h > t[i].h)
      BY <1>2, <2>2
    <3> QED  BY <1>2, <3>1
  <2>4. i = j
    BY <2>3
  <2> QED  BY <2>2, <2>4
<1>7. ASSUME NEW i \in 1 .. m
      PROVE  t[i].h \in KeptHours(t)
  <2>1. PICK h, inner : h = t[i].h /\ inner = Inner(t, h)
    OBVIOUS
  <2>2. h \in W!Hours(t) /\ h \in Nat
    BY <1>2, <1>4, <1>5, <2>1
  <2>3. CASE inner = {}
    BY <2>1, <2>2, <2>3 DEF KeptHours
  <2>4. CASE inner # {}
    <3>1. inner \in SUBSET H /\ \A g \in inner : g < h
      BY <1>4, <2>1 DEF Inner
    <3>2. PICK k : k = W!Max(inner)
      OBVIOUS
    <3>3. k \in inner /\ \A g \in inner : k >= g
      <4>1. IsFiniteSet(inner)
        BY <1>5, <3>1, FS_Subset
      <4>2. inner \subseteq Int
        BY <1>5, <3>1
      <4> QED  BY <2>4, <3>2, <4>1, <4>2, FiniteEnds
    <3>4. PICK j \in 1 .. m : k = t[j].h
      BY <1>5, <3>1, <3>3
    <3>5. k < h /\ k \in Nat
      BY <1>5, <3>1, <3>3
    <3>6. i < j
      <4>1. ~(j <= i)
        <5>1. CASE j = i
          BY <2>1, <2>2, <3>4, <3>5, <5>1
        <5>2. CASE j < i
          <6>1. t[j].h > t[i].h
            BY <1>2, <5>2
          <6> QED  BY <2>1, <2>2, <3>4, <3>5, <6>1
        <5>3. CASE i < j
          BY <5>3
        <5> QED  BY <5>1, <5>2, <5>3
      <4> QED  BY <4>1
    <3>7. i + 1 \in 1 .. m /\ i \in 1 .. m - 1
      BY <1>2, <3>6
    <3>8. t[i + 1].h \in inner
      <4>1. t[i].h > t[i + 1].h /\ t[i + 1].h \in H /\ t[i + 1].h \in Nat
        BY <1>2, <1>5, <3>7
      <4> QED  BY <1>4, <2>1, <2>2, <4>1 DEF Inner
    <3>9. j = i + 1
      <4>1. k >= t[i + 1].h
        BY <3>3, <3>8
      <4>2. CASE j > i + 1
        <5>1. t[i + 1].h > t[j].h /\ t[i + 1].h \in Nat
          BY <1>2, <3>7, <4>2
        <5> QED  BY <3>4, <3>5, <4>1, <5>1
      <4> QED  BY <3>6, <4>2
    <3>10. t[i].pct # t[j].pct
      BY <1>1, <3>7, <3>9 DEF FinalOf
    <3>11. W!RateOf(t, W!Max(inner)) # W!RateOf(t, h)
      BY <1>6, <2>1, <3>2, <3>4, <3>10
    <3> QED  BY <2>1, <2>2, <3>11 DEF KeptHours
  <2> QED  BY <2>3, <2>4
<1>8. KeptHours(t) = H
  <2>1. H \subseteq KeptHours(t)
    BY <1>5, <1>7
  <2> QED  BY <1>4, <2>1 DEF KeptHours
<1>9. W!Descending(H) = e
  <2>1. /\ DOMAIN e = 1 .. m /\ e = [i \in 1 .. m |-> e[i]] /\ \A i \in 1 .. m : e[i] = t[i].h
    BY <1>4
  <2>2. /\ \A i \in 1 .. m : e[i] \in Int
        /\ \A i, j \in 1 .. m : i < j => e[i] > e[j]
        /\ H = {e[i] : i \in 1 .. m}
    BY <1>2, <1>5, <2>1
  <2> QED  BY <1>2, <2>1, <2>2, SortedOnce
<1>10. PICK n : n = W!NormalizeStages(t)
  OBVIOUS
<1>11. n = [i \in 1 .. m |-> [h |-> e[i], pct |-> W!RateOf(t, e[i])]]
  <2>1. n = [i \in DOMAIN W!Descending(KeptHours(t)) |->
               [h |-> W!Descending(KeptHours(t))[i], pct |-> W!RateOf(t, W!Descending(KeptHours(t))[i])]]
    BY <1>10 DEF W!NormalizeStages, KeptHours, Inner
  <2>2. DOMAIN e = 1 .. m
    BY <1>4
  <2> QED  BY <1>8, <1>9, <2>1, <2>2
<1>12. \A i \in 1 .. m : [h |-> e[i], pct |-> W!RateOf(t, e[i])] = [h |-> t[i].h, pct |-> t[i].pct]
  BY <1>4, <1>6
<1>13. n = [i \in 1 .. m |-> [h |-> t[i].h, pct |-> t[i].pct]]
  BY <1>11, <1>12
<1>14. n = t
  BY <1>1, <1>13 DEF FinalOf
<1> QED  BY <1>3, <1>10, <1>14

\* Boundaries of more hours lie before those of fewer, but for the start itself.
LEMMA BoundariesFall ==
  ASSUME NEW start \in Int, NEW g \in Int, NEW h \in Int, g <= h
  PROVE  /\ W!BoundaryInstant(start, g) \in Int /\ W!BoundaryInstant(start, h) \in Int
         /\ 0 < g => W!BoundaryInstant(start, h) <= W!BoundaryInstant(start, g)
<1>1. Day \in Nat \ {0}
  BY WebPolicyOK DEF W!WebPolicyAssumption, W!PolicyConstants
<1>2. \A x \in Int : x \div Day \in Int /\ (x \div Day) * Day \in Int
  BY <1>1
<1>3. \A x \in Int : W!BoundaryInstant(start, x) \in Int
  <2> SUFFICES ASSUME NEW x \in Int PROVE W!BoundaryInstant(start, x) \in Int
    OBVIOUS
  <2>1. ((start - x) \div Day) * Day \in Int
    BY <1>2
  <2> QED  BY <1>1, <2>1 DEF W!BoundaryInstant, W!EndOfDay
<1>4. ASSUME 0 < g
      PROVE  W!BoundaryInstant(start, h) <= W!BoundaryInstant(start, g)
  <2>1. PICK p, q : p = (start - h) \div Day /\ q = (start - g) \div Day
    OBVIOUS
  <2>2. p \in Int /\ q \in Int /\ p <= q
    BY <1>1, <2>1
  <2>3. p * Day <= q * Day /\ p * Day \in Int /\ q * Day \in Int
    <3>1. PICK k \in Nat : k = q - p
      BY <2>2
    <3>2. q = p + k
      BY <2>2, <3>1
    <3>3. q * Day = p * Day + k * Day /\ k * Day \in Nat /\ p * Day \in Int
      BY <1>1, <2>2, <3>2
    <3> QED  BY <3>3
  <2>4. /\ W!BoundaryInstant(start, h) = p * Day + Day - 1
        /\ W!BoundaryInstant(start, g) = q * Day + Day - 1
    BY <1>4, <2>1 DEF W!BoundaryInstant, W!EndOfDay
  <2> QED  BY <1>1, <2>3, <2>4
<1> QED  BY <1>3, <1>4

\* The first of the numbers of a list.
LEMMA FirstOf ==
  ASSUME NEW T, T \subseteq Nat, T # {}
  PROVE  W!First(T) \in T /\ \A y \in T : W!First(T) <= y
  BY LeastNatural DEF W!First

\* The hours whose boundary is not passed.
AheadOf(t, start, when) == {h \in W!Hours(t) : when <= W!BoundaryInstant(start, h)}

\* The rate is that of the farthest hour still ahead, of the nearest when none is.
LEMMA RateIsRead ==
  ASSUME NEW t, IsTable(t), NEW start \in Int, NEW when \in Int
  PROVE  LET ahead == AheadOf(t, start, when) IN
         W!PctAt(t, start, when) =
           W!RateOf(t, IF ahead = {} THEN W!Min(W!Hours(t)) ELSE W!Max(ahead))
<1>1. PICK n, H, K, ahead : /\ n = W!NormalizeStages(t) /\ H = W!Hours(t) /\ K = KeptHours(t)
                            /\ ahead = AheadOf(t, start, when)
  OBVIOUS
<1>2. /\ Final(n) /\ \A i \in DOMAIN n : n[i].h \in K /\ n[i].pct = W!RateOf(t, n[i].h)
      /\ \A k \in K : \E i \in DOMAIN n : n[i].h = k
  BY <1>1, Normal
<1>3. PICK m : FinalOf(n, m)
  BY <1>2 DEF Final
<1>4. /\ m \in Nat /\ m # 0 /\ DOMAIN n = 1 .. m /\ Len(n) = m
      /\ \A i, j \in 1 .. m : i < j => n[i].h > n[j].h
  BY <1>3 DEF FinalOf
<1>5. K \subseteq H /\ H \subseteq Nat /\ IsFiniteSet(H) /\ H # {}
  BY <1>1, HoursRead DEF KeptHours
<1>6. PICK reached : reached = {i \in 1 .. m : when <= W!BoundaryInstant(start, n[i].h)}
  OBVIOUS
<1>7. PICK r : r = IF reached = {} THEN m ELSE W!First(reached)
  OBVIOUS
<1>8. W!PctAt(t, start, when) = n[r].pct
  BY <1>1, <1>4, <1>6, <1>7 DEF W!PctAt
<1>9. PICK hour : hour = IF ahead = {} THEN W!Min(H) ELSE W!Max(ahead)
  OBVIOUS
<1>10. /\ hour \in H /\ ahead \in SUBSET H
       /\ ahead = {} => \A h \in H : hour <= h
       /\ ahead # {} => hour \in ahead /\ \A h \in ahead : hour >= h
  <2>1. ahead \in SUBSET H
    BY <1>1 DEF AheadOf
  <2>2. IsFiniteSet(ahead)
    BY <1>5, <2>1, FS_Subset
  <2>3. H \subseteq Int /\ ahead \subseteq Int
    BY <1>5, <2>1
  <2>4. CASE ahead = {}
    BY <1>5, <1>9, <2>1, <2>3, <2>4, FiniteEnds
  <2>5. CASE ahead # {}
    BY <1>9, <2>1, <2>2, <2>3, <2>5, FiniteEnds
  <2> QED  BY <2>4, <2>5
<1>11. PICK k \in K : /\ k <= hour /\ W!RateOf(t, k) = W!RateOf(t, hour)
                      /\ \A g \in K : g <= hour => g <= k
  BY <1>1, <1>10, KeptInside
<1>12. PICK i \in 1 .. m : n[i].h = k
  BY <1>2, <1>4
<1>13. k \in Nat /\ k \in H /\ hour \in Nat
  BY <1>5, <1>10
<1>14. \A j \in 1 .. m : n[j].h \in K /\ n[j].h \in H /\ n[j].h \in Nat
  BY <1>2, <1>4, <1>5
<1>15. \A h \in H : h \in ahead <=> when <= W!BoundaryInstant(start, h)
  BY <1>1 DEF AheadOf
<1>16. r = i
  <2>1. CASE k \in ahead
    <3>1. i \in reached
      BY <1>6, <1>12, <1>13, <1>15, <2>1
    <3>2. W!First(reached) \in reached /\ \A y \in reached : W!First(reached) <= y
      <4>1. reached \subseteq Nat
        BY <1>6
      <4> QED  BY <3>1, <4>1, FirstOf
    <3>3. r \in reached /\ r <= i /\ r \in 1 .. m
      BY <1>6, <1>7, <3>1, <3>2
    <3>4. n[r].h \in ahead
      BY <1>6, <1>14, <1>15, <3>3
    <3>5. n[r].h <= k
      <4>1. n[r].h <= hour /\ n[r].h \in K
        BY <1>10, <1>13, <1>14, <3>3, <3>4
      <4> QED  BY <1>11, <4>1
    <3>6. ~(r < i)
      BY <1>4, <1>12, <1>13, <1>14, <3>3, <3>5
    <3> QED  BY <3>3, <3>6
  <2>2. CASE k \notin ahead
    <3>1. reached = {}
      <4> SUFFICES ASSUME NEW j \in reached PROVE FALSE
        OBVIOUS
      <4>1. PICK g : g = n[j].h
        OBVIOUS
      <4>2. j \in 1 .. m /\ g \in K /\ g \in H /\ g \in Nat /\ g \in ahead
        BY <1>6, <1>14, <1>15, <4>1
      <4>3. g <= hour /\ g <= k /\ hour \in ahead
        BY <1>10, <1>11, <1>13, <4>2
      <4>4. g < k
        BY <1>13, <2>2, <4>2, <4>3
      <4>5. W!BoundaryInstant(start, hour) <= W!BoundaryInstant(start, k)
            /\ W!BoundaryInstant(start, hour) \in Int /\ W!BoundaryInstant(start, k) \in Int
        <5>1. k \in Int /\ hour \in Int /\ 0 < k /\ k <= hour
          BY <1>11, <1>13, <4>2, <4>4
        <5> QED  BY <5>1, BoundariesFall
      <4>6. when <= W!BoundaryInstant(start, hour)
        BY <1>10, <1>15, <4>3
      <4>7. when <= W!BoundaryInstant(start, k)
        BY <4>5, <4>6
      <4> QED  BY <1>13, <1>15, <2>2, <4>7
    <3>2. r = m
      BY <1>7, <3>1
    <3>3. \A h \in K : k <= h
      <4>1. CASE ahead = {}
        <5>1. \A h \in K : h \in Nat /\ hour <= h
          BY <1>5, <1>10, <4>1
        <5> QED  BY <1>11, <1>13, <5>1
      <4>2. CASE ahead # {}
        <5>1. hour \in ahead /\ hour \in H /\ k # hour
          BY <1>10, <2>2, <4>2
        <5>2. k = 0
          <6> SUFFICES ASSUME 0 < k PROVE FALSE
            BY <1>13
          <6>1. W!BoundaryInstant(start, hour) <= W!BoundaryInstant(start, k)
                /\ W!BoundaryInstant(start, hour) \in Int /\ W!BoundaryInstant(start, k) \in Int
            <7>1. k \in Int /\ hour \in Int /\ k <= hour
              BY <1>11, <1>13
            <7> QED  BY <7>1, BoundariesFall
          <6>2. when <= W!BoundaryInstant(start, hour)
            BY <1>15, <5>1
          <6>3. when <= W!BoundaryInstant(start, k)
            BY <6>1, <6>2
          <6> QED  BY <1>13, <1>15, <2>2, <6>3
        <5> QED  BY <1>5, <5>2
      <4> QED  BY <4>1, <4>2
    <3>4. ~(i < m)
      <4> SUFFICES ASSUME i < m PROVE FALSE
        OBVIOUS
      <4>1. m \in 1 .. m
        BY <1>4
      <4>2. n[i].h > n[m].h
        BY <1>4, <4>1
      <4>3. k <= n[m].h /\ n[m].h \in Nat
        BY <1>14, <3>3, <4>1
      <4> QED  BY <1>12, <1>13, <4>2, <4>3
    <3> QED  BY <1>4, <3>2, <3>4
  <2> QED  BY <2>1, <2>2
<1>17. n[r].pct = W!RateOf(t, hour)
  BY <1>2, <1>4, <1>11, <1>12, <1>16
<1> QED  BY <1>1, <1>8, <1>9, <1>17

\* A step from neighbour to neighbour is one over any distance.
LEMMA NeighboursRise ==
  ASSUME NEW n \in Nat, NEW f, \A i \in 1 .. n : f[i] \in Int,
         \A i \in 1 .. n - 1 : f[i] <= f[i + 1]
  PROVE  \A i, j \in 1 .. n : i <= j => f[i] <= f[j]
<1> DEFINE Falls == {j \in 1 .. n : \E i \in 1 .. n : i <= j /\ ~(f[i] <= f[j])}
<1>1. Falls = {}
  <2> SUFFICES ASSUME Falls # {} PROVE FALSE
    OBVIOUS
  <2>1. PICK j \in Falls : \A k \in Falls : j <= k
    <3>1. Falls \subseteq Nat
      OBVIOUS
    <3> HIDE DEF Falls
    <3> QED  BY <3>1, LeastNatural
  <2>2. PICK i \in 1 .. n : i <= j /\ ~(f[i] <= f[j])
    OBVIOUS
  <2>3. j \in 1 .. n /\ f[i] \in Int /\ f[j] \in Int
    OBVIOUS
  <2>4. i < j
    <3>1. i # j
      BY <2>2, <2>3
    <3> QED  BY <2>2, <2>3, <3>1
  <2>5. j - 1 \in 1 .. n - 1 /\ j - 1 \in 1 .. n /\ j = (j - 1) + 1 /\ i <= j - 1
    BY <2>3, <2>4
  <2>6. f[j - 1] <= f[j] /\ f[j - 1] \in Int
    BY <2>5
  <2>7. f[i] <= f[j - 1]
    BY <2>1, <2>5
  <2> QED  BY <2>2, <2>3, <2>6, <2>7
<1> QED  BY <1>1

\* Tables that are read alike are stored alike.
LEMMA SameNormal ==
  ASSUME NEW a, IsTable(a), NEW b, W!Hours(a) = W!Hours(b),
         \A h \in W!Hours(a) : W!RateOf(a, h) = W!RateOf(b, h)
  PROVE  W!NormalizeStages(a) = W!NormalizeStages(b)
<1>1. PICK H : H = W!Hours(a) /\ H = W!Hours(b)
  OBVIOUS
<1>2. H \subseteq Int /\ H \subseteq Nat /\ IsFiniteSet(H)
  BY <1>1, HoursRead
<1>3. ASSUME NEW h \in H
      PROVE  h \in KeptHours(a) <=> h \in KeptHours(b)
  <2>1. PICK inner : inner = Inner(a, h) /\ inner = Inner(b, h)
    BY <1>1 DEF Inner
  <2>2. CASE inner = {}
    BY <1>1, <2>1, <2>2 DEF KeptHours
  <2>3. CASE inner # {}
    <3>1. inner \in SUBSET H
      BY <1>1, <2>1 DEF Inner
    <3>2. IsFiniteSet(inner) /\ inner \subseteq Int
      <4>1. IsFiniteSet(inner)
        BY <1>2, <3>1, FS_Subset
      <4>2. inner \subseteq Int
        BY <1>2, <3>1
      <4> QED  BY <4>1, <4>2
    <3>3. PICK k : k = W!Max(inner)
      OBVIOUS
    <3>4. k \in H
      BY <2>3, <3>1, <3>2, <3>3, FiniteEnds
    <3>5. W!RateOf(a, k) = W!RateOf(b, k) /\ W!RateOf(a, h) = W!RateOf(b, h)
      BY <1>1, <3>4
    <3>6. h \in W!Hours(a) /\ h \in W!Hours(b)
      BY <1>1
    <3>7. h \in KeptHours(a) <=> W!RateOf(a, k) # W!RateOf(a, h)
      BY <2>1, <2>3, <3>3, <3>6 DEF KeptHours
    <3>8. h \in KeptHours(b) <=> W!RateOf(b, k) # W!RateOf(b, h)
      BY <2>1, <2>3, <3>3, <3>6 DEF KeptHours
    <3> QED  BY <3>5, <3>7, <3>8
  <2> QED  BY <2>2, <2>3
<1>4. PICK K, d : K = KeptHours(a) /\ K = KeptHours(b) /\ d = W!Descending(K)
  BY <1>1, <1>3 DEF KeptHours
<1>5. /\ W!NormalizeStages(a) = [i \in DOMAIN d |-> [h |-> d[i], pct |-> W!RateOf(a, d[i])]]
      /\ W!NormalizeStages(b) = [i \in DOMAIN d |-> [h |-> d[i], pct |-> W!RateOf(b, d[i])]]
  BY <1>4 DEF W!NormalizeStages, KeptHours, Inner
<1>6. \A i \in DOMAIN d : d[i] \in H
  <2>1. K \in SUBSET H
    BY <1>1, <1>4 DEF KeptHours
  <2>2. IsFiniteSet(K) /\ K \subseteq Int
    <3>1. IsFiniteSet(K)
      BY <1>2, <2>1, FS_Subset
    <3>2. K \subseteq Int
      BY <1>2, <2>1
    <3> QED  BY <3>1, <3>2
  <2>3. d \in [1 .. Cardinality(K) -> K]
    BY <1>4, <2>2, DescendingSorts
  <2> QED  BY <2>1, <2>3
<1> QED  BY <1>1, <1>5, <1>6

\* Rates are percentages, and stay so.
Priced(t) == \A i \in DOMAIN t : t[i].pct \in 0 .. 100

\* Rates of a table of percentages, and of its stored form, are percentages.
LEMMA NormalPriced ==
  ASSUME NEW t, IsTable(t), Priced(t)
  PROVE  /\ \A h \in W!Hours(t) : W!RateOf(t, h) \in 0 .. 100
         /\ Priced(W!NormalizeStages(t))
<1>1. \A h \in W!Hours(t) : W!RateOf(t, h) \in 0 .. 100
  BY HoursRead DEF Priced
<1>2. PICK n : n = W!NormalizeStages(t)
  OBVIOUS
<1>3. \A i \in DOMAIN n : n[i].h \in KeptHours(t) /\ n[i].pct = W!RateOf(t, n[i].h)
  BY <1>2, Normal
<1>4. KeptHours(t) \subseteq W!Hours(t)
  BY DEF KeptHours
<1> QED  BY <1>1, <1>2, <1>3, <1>4 DEF Priced

\* The table the free window is forced onto: the paid rows inside it, and its own.
Paid(t, free) == {i \in DOMAIN t : t[i].pct > 0 /\ t[i].h < free}
Window(t, free) ==
  [i \in {0} \cup Paid(t, free) |-> IF i = 0 THEN [h |-> free, pct |-> 0] ELSE t[i]]

\* What that table is charged: the free boundary nothing, each paid row as before.
LEMMA WindowRead ==
  ASSUME NEW t, Final(t), NEW free \in Nat, NEW q, q = Window(t, free)
  PROVE  /\ IsTable(q) /\ W!Hours(q) = {free} \cup {t[i].h : i \in Paid(t, free)}
         /\ W!RateOf(q, free) = 0
         /\ \A i \in Paid(t, free) : W!RateOf(q, t[i].h) = t[i].pct /\ t[i].h < free /\ t[i].pct > 0
         /\ Priced(t) => Priced(q)
<1>1. PICK m : FinalOf(t, m)
  BY DEF Final
<1>2. /\ m \in Nat /\ DOMAIN t = 1 .. m /\ \A i \in 1 .. m : t[i].h \in Nat
      /\ \A i, j \in 1 .. m : i < j => t[i].h > t[j].h
  BY <1>1 DEF FinalOf
<1>3. PICK P : P = Paid(t, free)
  OBVIOUS
<1>4. P \in SUBSET (1 .. m) /\ \A i \in P : t[i].h < free /\ t[i].pct > 0
  BY <1>2, <1>3 DEF Paid
<1>5. DOMAIN q = {0} \cup P /\ q[0] = [h |-> free, pct |-> 0] /\ \A i \in P : q[i] = t[i]
  <2>1. 0 \notin P
    BY <1>4
  <2> QED  BY <1>3, <2>1 DEF Window
<1>6. IsTable(q)
  <2>1. DOMAIN q \in SUBSET (0 .. m)
    BY <1>2, <1>4, <1>5
  <2>2. IsFiniteSet(DOMAIN q)
    <3>1. IsFiniteSet(0 .. m)
      BY <1>2, FS_Interval
    <3> QED  BY <2>1, <3>1, FS_Subset
  <2>3. DOMAIN q # {} /\ DOMAIN q \subseteq Int
    BY <1>5, <2>1
  <2>4. q[0].h \in Nat
    BY <1>5
  <2>5. \A i \in DOMAIN q : q[i].h \in Nat
    BY <1>2, <1>4, <1>5, <2>4
  <2> QED  BY <2>2, <2>3, <2>5 DEF IsTable
<1>7. q[0].h = free /\ q[0].pct = 0
  BY <1>5
<1>8. W!Hours(q) = {free} \cup {t[i].h : i \in P}
  <2>1. W!Hours(q) = {q[i].h : i \in DOMAIN q}
    BY DEF W!Hours
  <2> QED  BY <1>5, <1>7, <2>1
<1>9. W!RateOf(q, free) = 0
  <2>1. PICK i \in DOMAIN q : q[i].h = free /\ W!RateOf(q, free) = q[i].pct
    BY <1>6, <1>8, HoursRead
  <2>2. i \notin P
    <3> SUFFICES ASSUME i \in P PROVE FALSE
      OBVIOUS
    <3>1. t[i].h < free /\ q[i] = t[i] /\ i \in 1 .. m
      BY <1>4, <1>5
    <3>2. free < free
      BY <2>1, <3>1
    <3> QED  BY <3>2
  <2> QED  BY <1>5, <1>7, <2>1, <2>2
<1>10. ASSUME NEW i \in P
       PROVE  W!RateOf(q, t[i].h) = t[i].pct
  <2>1. PICK j \in DOMAIN q : q[j].h = t[i].h /\ W!RateOf(q, t[i].h) = q[j].pct
    BY <1>6, <1>8, HoursRead
  <2>2. i \in 1 .. m /\ t[i].h \in Nat /\ t[i].h < free
    BY <1>2, <1>4
  <2>3. j \in P
    BY <1>5, <1>7, <2>1, <2>2
  <2>4. j \in 1 .. m /\ t[j].h = t[i].h /\ t[j].h \in Nat
    BY <1>2, <1>4, <1>5, <2>1, <2>3
  <2>5. ~(i < j) /\ ~(j < i)
    BY <1>2, <2>2, <2>4
  <2>6. i = j
    BY <2>2, <2>4, <2>5
  <2> QED  BY <1>5, <2>1, <2>6
<1>11. Priced(t) => Priced(q)
  <2> SUFFICES ASSUME Priced(t), NEW i \in DOMAIN q PROVE q[i].pct \in 0 .. 100
    BY DEF Priced
  <2>1. CASE i = 0
    BY <1>7, <2>1
  <2>2. CASE i # 0
    <3>1. i \in P /\ i \in DOMAIN t
      BY <1>2, <1>4, <1>5, <2>2
    <3>2. q[i] = t[i] /\ t[i].pct \in 0 .. 100
      BY <1>5, <3>1 DEF Priced
    <3> QED  BY <3>2
  <2> QED  BY <2>1, <2>2
<1> QED  BY <1>3, <1>4, <1>6, <1>8, <1>9, <1>10, <1>11

\* A table the free window was forced onto: its first row is free, the others are not.
Forced(w, t, free) ==
  /\ Paid(t, free) # {} /\ w = W!NormalizeStages(Window(t, free))
  /\ w[1].h = free /\ w[1].pct = 0
  /\ \E m : FinalOf(w, m) /\ m > 1 /\ \A i \in 2 .. m : w[i].pct > 0

\* The forced window leaves the table alone, or starts it; and is there to stay.
LEMMA WindowStays ==
  ASSUME NEW t, Final(t), NEW free \in Nat, NEW w, w = W!WithFreeWindowFrom(t, free)
  PROVE  Final(w) /\ W!WithFreeWindowFrom(w, free) = w /\ (w # t => Forced(w, t, free))
<1>1. /\ free > MaxHours \/ Paid(t, free) = {} => w = t
      /\ ~(free > MaxHours \/ Paid(t, free) = {}) => w = W!NormalizeStages(Window(t, free))
  BY DEF W!WithFreeWindowFrom, Paid, Window
<1>2. CASE free > MaxHours \/ Paid(t, free) = {}
  BY <1>1, <1>2
<1>3. CASE ~(free > MaxHours) /\ Paid(t, free) # {}
  <2>1. PICK q, P : q = Window(t, free) /\ P = Paid(t, free)
    OBVIOUS
  <2>2. /\ IsTable(q) /\ W!Hours(q) = {free} \cup {t[i].h : i \in P} /\ W!RateOf(q, free) = 0
        /\ \A i \in P : W!RateOf(q, t[i].h) = t[i].pct /\ t[i].h < free /\ t[i].pct > 0
    BY <2>1, WindowRead
  <2>3. w = W!NormalizeStages(q)
    BY <1>1, <1>3, <2>1
  <2>4. /\ Final(w) /\ \A i \in DOMAIN w : w[i].h \in KeptHours(q) /\ w[i].pct = W!RateOf(q, w[i].h)
        /\ \A k \in KeptHours(q) : \E i \in DOMAIN w : w[i].h = k
    BY <2>2, <2>3, Normal
  <2>5. PICK m : FinalOf(w, m)
    BY <2>4 DEF Final
  <2>6. /\ m \in Nat /\ m # 0 /\ DOMAIN w = 1 .. m /\ \A i \in 1 .. m : w[i].h \in Nat
        /\ \A i, j \in 1 .. m : i < j => w[i].h > w[j].h
    BY <2>5 DEF FinalOf
  <2>7. KeptHours(q) \subseteq W!Hours(q) /\ W!Hours(q) \subseteq Nat
    BY <2>2, HoursRead DEF KeptHours
  <2>8. PICK p \in P : TRUE
    BY <1>3, <2>1
  <2>9. \A h \in W!Hours(q) : h = free \/ (h < free /\ W!RateOf(q, h) > 0)
    BY <2>2
  <2>10. free \in KeptHours(q)
    <3>1. PICK inner : inner = Inner(q, free)
      OBVIOUS
    <3>2. t[p].h \in inner /\ inner \in SUBSET W!Hours(q) /\ \A g \in inner : g < free
      BY <2>2, <2>8, <3>1 DEF Inner
    <3>3. W!Max(inner) \in inner
      <4>1. IsFiniteSet(inner)
        BY <2>2, <3>2, HoursRead, FS_Subset
      <4>2. inner \subseteq Int /\ inner # {}
        BY <2>7, <3>2
      <4> QED  BY <4>1, <4>2, FiniteEnds
    <3>4. W!RateOf(q, W!Max(inner)) > 0
      BY <2>9, <3>2, <3>3
    <3>5. W!RateOf(q, W!Max(inner)) # W!RateOf(q, free)
      BY <2>2, <3>4
    <3> QED  BY <2>2, <3>1, <3>5 DEF KeptHours
  <2>11. PICK i \in 1 .. m : w[i].h = free
    BY <2>4, <2>6, <2>10
  <2>12. i = 1
    <3> SUFFICES ASSUME 1 < i PROVE FALSE
      OBVIOUS
    <3>1. 1 \in 1 .. m /\ w[1].h > w[i].h /\ w[1].h \in W!Hours(q) /\ w[1].h \in Nat
      BY <2>4, <2>6, <2>7
    <3> QED  BY <2>9, <2>11, <3>1
  <2>13. w[1].h = free /\ w[1].pct = 0 /\ 1 \in 1 .. m
    BY <2>2, <2>4, <2>6, <2>11, <2>12
  <2>14. ASSUME NEW j \in 2 .. m
         PROVE  w[j].pct > 0 /\ w[j].h < free
    <3>1. j \in 1 .. m /\ 1 < j /\ w[1].h > w[j].h /\ w[j].h \in W!Hours(q) /\ w[j].h \in Nat
      BY <2>4, <2>6, <2>7, <2>13
    <3> QED  BY <2>4, <2>6, <2>9, <2>13, <3>1
  <2>15. m > 1
    <3>1. t[p].h \in W!Hours(q) /\ t[p].h < free
      BY <2>2, <2>8
    <3>2. PICK k \in KeptHours(q) : k <= t[p].h
      BY <2>2, <3>1, KeptInside
    <3>3. PICK j \in 1 .. m : w[j].h = k
      BY <2>4, <2>6
    <3>4. k # free
      BY <2>7, <3>1, <3>2
    <3> QED  BY <2>6, <2>13, <3>3, <3>4
  <2>16. W!WithFreeWindowFrom(w, free) = w
    <3>1. PICK S, v : S = Paid(w, free) /\ v = Window(w, free)
      OBVIOUS
    <3>2. S = 2 .. m
      <4>1. 1 \notin S
        BY <2>13, <3>1 DEF Paid
      <4>2. \A j \in 2 .. m : j \in S
        BY <2>6, <2>14, <3>1 DEF Paid
      <4>3. S \in SUBSET (1 .. m)
        BY <2>6, <3>1 DEF Paid
      <4>4. ASSUME NEW j \in S
            PROVE  j \in 2 .. m
        <5>1. j \in 1 .. m /\ j # 1
          BY <4>1, <4>3
        <5> QED  BY <2>6, <5>1
      <4> QED  BY <4>2, <4>4
    <3>3. /\ IsTable(v) /\ W!Hours(v) = {free} \cup {w[j].h : j \in 2 .. m} /\ W!RateOf(v, free) = 0
          /\ \A j \in 2 .. m : W!RateOf(v, w[j].h) = w[j].pct
      <4>1. /\ IsTable(v) /\ W!Hours(v) = {free} \cup {w[j].h : j \in S} /\ W!RateOf(v, free) = 0
            /\ \A j \in S : W!RateOf(v, w[j].h) = w[j].pct
        BY <2>4, <3>1, WindowRead
      <4> QED  BY <3>2, <4>1
    <3>4. IsTable(w) /\ W!NormalizeStages(w) = w
      BY <2>4, FinalStays
    <3>5. W!Hours(w) = {w[j].h : j \in 1 .. m}
      BY <2>6 DEF W!Hours
    <3>6. W!Hours(w) = W!Hours(v)
      <4>1. 1 .. m = {1} \cup 2 .. m
        BY <2>6, <2>15
      <4> QED  BY <2>13, <3>3, <3>5, <4>1
    <3>7. ASSUME NEW j \in 1 .. m
          PROVE  W!RateOf(w, w[j].h) = w[j].pct
      <4>1. PICK k \in 1 .. m : w[k].h = w[j].h /\ W!RateOf(w, w[j].h) = w[k].pct
        BY <2>6, <3>4, <3>5, HoursRead
      <4>2. w[j].h \in Nat /\ ~(w[j].h > w[k].h) /\ ~(w[k].h > w[j].h)
        BY <2>6, <4>1
      <4>3. ~(j < k) /\ ~(k < j)
        BY <2>6, <4>2
      <4>4. j = k
        BY <4>3
      <4> QED  BY <4>1, <4>4
    <3>8. ASSUME NEW h \in W!Hours(w)
          PROVE  W!RateOf(v, h) = W!RateOf(w, h)
      <4>1. PICK j \in 1 .. m : h = w[j].h
        BY <3>5
      <4>2. CASE j = 1
        BY <2>13, <3>3, <3>7, <4>1, <4>2
      <4>3. CASE j # 1
        <5>1. j \in 2 .. m
          BY <2>6, <4>3
        <5> QED  BY <3>3, <3>7, <4>1, <5>1
      <4> QED  BY <4>2, <4>3
    <3>9. W!NormalizeStages(v) = W!NormalizeStages(w)
      BY <3>3, <3>6, <3>8, SameNormal
    <3>10. S # {}
      <4>1. 2 \in 2 .. m
        BY <2>6, <2>15
      <4> QED  BY <3>2, <4>1
    <3>11. W!WithFreeWindowFrom(w, free) = W!NormalizeStages(v)
      BY <1>3, <3>1, <3>10 DEF W!WithFreeWindowFrom, Paid, Window
    <3> QED  BY <3>4, <3>9, <3>11
  <2>17. Forced(w, t, free)
    BY <1>3, <2>1, <2>3, <2>5, <2>13, <2>14, <2>15 DEF Forced
  <2> QED  BY <2>4, <2>16, <2>17
<1> QED  BY <1>2, <1>3


-----------------------------------------------------------------------------
(* Tables imported from the core ledger.                                      *)

\* A table of the core ledger, and how it is restated.
IsCore(s, n) == n \in Nat \ {0} /\ s \in [1 .. n -> W!Stage]
Web(s) == [i \in DOMAIN s |-> [h |-> W!Max({0, s[i].until_offset_hours}), pct |-> s[i].fee_percent]]
AtStart(s) == W!NormalizeStages(Web(s))[Len(W!NormalizeStages(Web(s)))].pct
Restated(s) == Append(Web(s), [h |-> 0, pct |-> AtStart(s)])

\* The larger of nothing and a number.
LEMMA MaxWithZero ==
  ASSUME NEW x \in Int
  PROVE  W!Max({0, x}) = IF x > 0 THEN x ELSE 0
<1>1. PICK S : S = {0, x}
  OBVIOUS
<1>2. IsFiniteSet(S) /\ S \subseteq Int /\ S # {}
  <2>1. IsFiniteSet({x}) /\ IsFiniteSet({0})
    BY FS_Singleton
  <2>2. S = {0} \cup {x}
    BY <1>1
  <2>3. IsFiniteSet(S)
    BY <2>1, <2>2, FS_Union
  <2> QED  BY <1>1, <2>3
<1>3. W!Max(S) \in S /\ \A y \in S : W!Max(S) >= y
  BY <1>2, FiniteEnds
<1>4. PICK y : y = W!Max(S)
  OBVIOUS
<1>5. y \in {0, x} /\ y >= 0 /\ y >= x
  BY <1>1, <1>3, <1>4
<1> QED  BY <1>1, <1>4, <1>5

\* A core table as rows of hours and percentages.
LEMMA CoreTable ==
  ASSUME NEW s, NEW n, IsCore(s, n), NEW web, web = Web(s)
  PROVE  /\ n \in Nat /\ n # 0 /\ DOMAIN s = 1 .. n /\ DOMAIN web = 1 .. n /\ IsTable(web) /\ Priced(web)
         /\ web \in Seq([h : Nat, pct : 0 .. 100]) /\ Len(web) = n
         /\ \A i \in 1 .. n : /\ web[i].pct = s[i].fee_percent /\ s[i].fee_percent \in 0 .. 100
                              /\ s[i].until_offset_hours \in Int
                              /\ s[i].until_offset_hours \in Nat => web[i].h = s[i].until_offset_hours
<1>1. n \in Nat /\ n # 0 /\ DOMAIN s = 1 .. n /\ s \in [1 .. n -> W!Stage]
  BY DEF IsCore
<1>2. Offsets \subseteq Int /\ Percents \subseteq 0 .. 100
  BY WebPolicyOK DEF W!WebPolicyAssumption, W!PolicyConstants
<1>3. \A i \in 1 .. n : s[i].until_offset_hours \in Int /\ s[i].fee_percent \in 0 .. 100
  BY <1>1, <1>2 DEF W!Stage
<1>4. DOMAIN web = 1 .. n
  BY <1>1 DEF Web
<1>5. ASSUME NEW i \in 1 .. n
      PROVE  /\ web[i] \in [h : Nat, pct : 0 .. 100] /\ web[i].pct = s[i].fee_percent
             /\ web[i].h \in Nat
             /\ s[i].until_offset_hours \in Nat => web[i].h = s[i].until_offset_hours
  <2>1. PICK o, f : o = s[i].until_offset_hours /\ f = s[i].fee_percent
    OBVIOUS
  <2>2. o \in Int /\ f \in 0 .. 100
    BY <1>3, <2>1
  <2>3. web[i] = [h |-> W!Max({0, o}), pct |-> f]
    BY <1>1, <2>1 DEF Web
  <2>4. PICK x : x = W!Max({0, o})
    OBVIOUS
  <2>5. x = IF o > 0 THEN o ELSE 0
    BY <2>2, <2>4, MaxWithZero
  <2>6. x \in Nat /\ (o \in Nat => x = o)
    BY <2>2, <2>5
  <2> QED  BY <2>1, <2>2, <2>3, <2>4, <2>6
<1>6. web \in [1 .. n -> [h : Nat, pct : 0 .. 100]]
  <2>1. web = [i \in 1 .. n |-> web[i]]
    BY <1>1 DEF Web
  <2> QED  BY <1>5, <2>1
<1>7. IsTable(web)
  <2>1. IsFiniteSet(1 .. n) /\ 1 \in 1 .. n /\ 1 .. n \subseteq Int
    BY <1>1, FS_Interval
  <2> QED  BY <1>4, <1>5, <2>1 DEF IsTable
<1>8. Priced(web)
  BY <1>3, <1>4, <1>5 DEF Priced
<1>9. web \in Seq([h : Nat, pct : 0 .. 100]) /\ Len(web) = n
  <2>1. PICK R : R = [h : Nat, pct : 0 .. 100]
    OBVIOUS
  <2>2. web \in [1 .. n -> R]
    BY <1>6, <2>1
  <2>3. web \in Seq(R) /\ Len(web) = n
    BY <1>1, <2>2
  <2> QED  BY <2>1, <2>3
<1>10. ASSUME NEW i \in 1 .. n
       PROVE  /\ web[i].pct = s[i].fee_percent /\ s[i].fee_percent \in 0 .. 100
              /\ s[i].until_offset_hours \in Int
              /\ s[i].until_offset_hours \in Nat => web[i].h = s[i].until_offset_hours
  BY <1>3, <1>5
<1> QED  BY <1>1, <1>4, <1>7, <1>8, <1>9, <1>10

\* What the rate down to the start is, is read from the table itself.
LEMMA RestatedTable ==
  ASSUME NEW s, NEW n, IsCore(s, n), NEW q, q = Restated(s)
  PROVE  /\ DOMAIN q = 1 .. n + 1 /\ IsTable(q) /\ Priced(q) /\ AtStart(s) \in 0 .. 100
         /\ \A i \in 1 .. n : q[i] = Web(s)[i]
         /\ q[n + 1].h = 0 /\ q[n + 1].pct = AtStart(s)
<1>1. PICK web, p : web = Web(s) /\ p = AtStart(s)
  OBVIOUS
<1>2. /\ n \in Nat /\ n # 0 /\ DOMAIN web = 1 .. n /\ IsTable(web) /\ Priced(web)
      /\ web \in Seq([h : Nat, pct : 0 .. 100]) /\ Len(web) = n
  BY <1>1, CoreTable
<1>3. p \in 0 .. 100
  <2>1. PICK t : t = W!NormalizeStages(web)
    OBVIOUS
  <2>2. Priced(t) /\ Final(t)
    BY <1>2, <2>1, Normal, NormalPriced
  <2>3. PICK m : FinalOf(t, m)
    BY <2>2 DEF Final
  <2>4. m \in Nat /\ m # 0 /\ DOMAIN t = 1 .. m /\ Len(t) = m
    BY <2>3 DEF FinalOf
  <2>5. m \in DOMAIN t
    BY <2>4
  <2>6. p = t[m].pct
    BY <1>1, <2>1, <2>4 DEF AtStart
  <2> QED  BY <2>2, <2>5, <2>6 DEF Priced
<1>4. PICK row : row = [h |-> 0, pct |-> p]
  OBVIOUS
<1>5. row \in [h : Nat, pct : 0 .. 100] /\ row.h = 0 /\ row.pct = p
  BY <1>3, <1>4
<1>6. q = Append(web, row)
  BY <1>1, <1>4 DEF Restated
<1>7. /\ q \in Seq([h : Nat, pct : 0 .. 100]) /\ Len(q) = n + 1
      /\ \A i \in 1 .. n : q[i] = web[i]
      /\ q[n + 1] = row
  BY <1>2, <1>5, <1>6, AppendProperties
<1>8. DOMAIN q = 1 .. n + 1 /\ \A i \in 1 .. n + 1 : q[i] \in [h : Nat, pct : 0 .. 100]
  <2>1. DOMAIN q = 1 .. n + 1
    BY <1>2, <1>7
  <2>2. q \in [1 .. n + 1 -> [h : Nat, pct : 0 .. 100]]
    <3>1. PICK R : R = [h : Nat, pct : 0 .. 100]
      OBVIOUS
    <3>2. q \in Seq(R) /\ Len(q) = n + 1
      BY <1>7, <3>1
    <3>3. q \in [1 .. n + 1 -> R]
      BY <3>2, LenProperties
    <3> QED  BY <3>1, <3>3
  <2> QED  BY <2>1, <2>2
<1>9. IsTable(q) /\ Priced(q)
  <2>1. \A i \in 1 .. n + 1 : q[i].h \in Nat /\ q[i].pct \in 0 .. 100
    BY <1>8
  <2>2. IsFiniteSet(1 .. n + 1) /\ 1 \in 1 .. n + 1 /\ 1 .. n + 1 \subseteq Int
    BY <1>2, FS_Interval
  <2> QED  BY <1>8, <2>1, <2>2 DEF IsTable, Priced
<1> QED  BY <1>1, <1>3, <1>5, <1>7, <1>8, <1>9

\* What FromCoreStages returns when it is not "unknown".
LEMMA FromCore ==
  ASSUME NEW s, NEW free, W!FromCoreStages(s, free) # Unknown
  PROVE  /\ s # <<>> /\ \A i \in DOMAIN s : s[i].fee_fixed_jpy \in {Absent, 0}
         /\ W!FromCoreStages(s, free) =
              IF free = Absent THEN W!NormalizeStages(Restated(s))
              ELSE W!WithFreeWindowFrom(W!NormalizeStages(Restated(s)), free)
<1>1. PICK web, p, q : web = Web(s) /\ p = AtStart(s) /\ q = Restated(s)
  OBVIOUS
<1>2. W!Last(W!NormalizeStages(web)).pct = p
  BY <1>1 DEF AtStart, W!Last
<1>3. q = Append(web, [h |-> 0, pct |-> W!Last(W!NormalizeStages(web)).pct])
  BY <1>1, <1>2 DEF Restated
<1> QED  BY <1>1, <1>3 DEF W!FromCoreStages, Web

\* Both stored forms are final.
LEMMA FromCoreFinal ==
  ASSUME NEW s, NEW n, IsCore(s, n),
         NEW free \in FreeHours \cup {Absent}, W!FromCoreStages(s, free) # Unknown
  PROVE  /\ Final(W!FromCoreStages(s, free)) /\ Priced(W!NormalizeStages(Restated(s)))
         /\ Final(W!NormalizeStages(Restated(s)))
<1>1. PICK q, t : q = Restated(s) /\ t = W!NormalizeStages(q)
  OBVIOUS
<1>2. IsTable(q) /\ Priced(q)
  BY <1>1, RestatedTable
<1>3. Final(t) /\ Priced(t)
  BY <1>1, <1>2, Normal, NormalPriced
<1>4. W!FromCoreStages(s, free) = IF free = Absent THEN t ELSE W!WithFreeWindowFrom(t, free)
  BY <1>1, FromCore
<1>5. CASE free = Absent
  BY <1>1, <1>3, <1>4, <1>5
<1>6. CASE free # Absent
  <2>1. free \in Nat
    BY <1>6, WebPolicyOK DEF W!WebPolicyAssumption
  <2>2. Final(W!WithFreeWindowFrom(t, free))
    BY <1>3, <2>1, WindowStays
  <2> QED  BY <1>1, <1>3, <1>4, <1>6, <2>2
<1> QED  BY <1>5, <1>6

\* A table and what it is brought to are charged alike.
LEMMA ReadStored ==
  ASSUME NEW q, IsTable(q), NEW t, t = W!NormalizeStages(q), NEW start, NEW when
  PROVE  W!PctAt(t, start, when) = W!PctAt(q, start, when)
<1>1. W!NormalizeStages(t) = t
  BY Normal, FinalStays
<1> QED  BY <1>1 DEF W!PctAt

\* A stored row is what its hour charges.
LEMMA StoredRow ==
  ASSUME NEW t, NEW m, FinalOf(t, m), NEW i \in 1 .. m
  PROVE  W!RateOf(t, t[i].h) = t[i].pct /\ t[i].h \in W!Hours(t)
<1>1. /\ DOMAIN t = 1 .. m /\ m \in Nat /\ \A j \in 1 .. m : t[j].h \in Nat
      /\ \A j, k \in 1 .. m : j < k => t[j].h > t[k].h
  BY DEF FinalOf
<1>2. IsTable(t)
  BY FinalStays DEF Final
<1>3. t[i].h \in W!Hours(t)
  BY <1>1 DEF W!Hours
<1>4. PICK j \in 1 .. m : t[j].h = t[i].h /\ W!RateOf(t, t[i].h) = t[j].pct
  BY <1>1, <1>2, <1>3, HoursRead
<1>5. t[i].h \in Nat /\ ~(t[i].h > t[j].h) /\ ~(t[j].h > t[i].h)
  BY <1>1, <1>4
<1>6. ~(i < j) /\ ~(j < i)
  BY <1>1, <1>5
<1>7. i = j
  BY <1>6
<1> QED  BY <1>3, <1>4, <1>7

\* The deadline of a table that starts with its only free row is that row's.
LEMMA OneFreeRow ==
  ASSUME NEW w, NEW m, FinalOf(w, m), m > 1, w[1].pct = 0, \A i \in 2 .. m : w[i].pct > 0, NEW start
  PROVE  W!FreeDeadlineMs(w, start) = W!BoundaryInstant(start, w[1].h)
<1>1. W!NormalizeStages(w) = w
  BY FinalStays DEF Final
<1>2. DOMAIN w = 1 .. m /\ m \in Nat
  BY DEF FinalOf
<1>3. PICK S : S = {i \in DOMAIN w : w[i].pct = 0}
  OBVIOUS
<1>4. S = {1}
  <2>1. 1 \in S
    BY <1>2, <1>3
  <2>2. ASSUME NEW i \in S
        PROVE  i = 1
    <3>1. i \in 1 .. m /\ w[i].pct = 0
      BY <1>2, <1>3
    <3>2. i \notin 2 .. m
      BY <3>1
    <3> QED  BY <1>2, <3>1, <3>2
  <2> QED  BY <2>1, <2>2
<1>5. S # {} /\ S # DOMAIN w
  <2>1. 2 \in DOMAIN w /\ 2 \notin S
    BY <1>2, <1>4
  <2> QED  BY <1>4, <2>1
<1>6. PICK k : k = W!Max(S)
  OBVIOUS
<1>7. k = 1
  <2>1. IsFiniteSet(S)
    BY <1>4, FS_Singleton
  <2>2. S \subseteq Int
    BY <1>4
  <2>3. k \in S
    BY <1>5, <1>6, <2>1, <2>2, FiniteEnds
  <2> QED  BY <1>4, <2>3
<1>8. W!FreeDeadlineMs(w, start) = W!BoundaryInstant(start, w[k].h)
  BY <1>1, <1>3, <1>5, <1>6 DEF W!FreeDeadlineMs
<1> QED  BY <1>7, <1>8

\* Past its boundary, the forced window leaves the rates of a rising table.
LEMMA WindowCharges ==
  ASSUME NEW t, NEW m, FinalOf(t, m), Priced(t), W!Rising(t),
         NEW free \in Nat, free # 0, NEW q, q = Window(t, free), Paid(t, free) # {},
         NEW start \in Int, NEW when \in Int, when > W!BoundaryInstant(start, free)
  PROVE  W!PctAt(q, start, when) >= W!PctAt(t, start, when)
<1>1. /\ DOMAIN t = 1 .. m /\ m \in Nat /\ m # 0 /\ Len(t) = m /\ \A j \in 1 .. m : t[j].h \in Nat
      /\ \A j, k \in 1 .. m : j < k => t[j].h > t[k].h
  BY DEF FinalOf
<1>2. IsTable(t) /\ Final(t)
  BY FinalStays DEF Final
<1>3. PICK P : P = Paid(t, free)
  OBVIOUS
<1>4. \A i : i \in P <=> i \in 1 .. m /\ t[i].pct > 0 /\ t[i].h < free
  BY <1>1, <1>3 DEF Paid
<1>5. /\ IsTable(q) /\ W!Hours(q) = {free} \cup {t[i].h : i \in P}
      /\ \A i \in P : W!RateOf(q, t[i].h) = t[i].pct
      /\ Priced(q)
  BY <1>2, <1>3, WindowRead
<1>6. PICK H, A, B : H = W!Hours(t) /\ A = AheadOf(t, start, when) /\ B = AheadOf(q, start, when)
  OBVIOUS
<1>7. H = {t[i].h : i \in 1 .. m} /\ H \subseteq Nat /\ IsFiniteSet(H) /\ H # {}
  BY <1>1, <1>2, <1>6, HoursRead DEF W!Hours
<1>8. PICK G : G = W!Hours(q)
  OBVIOUS
<1>9. G = {free} \cup {t[i].h : i \in P} /\ G \subseteq Nat /\ IsFiniteSet(G) /\ G # {}
  BY <1>5, <1>8, HoursRead
<1>10. /\ \A h : h \in A <=> h \in H /\ when <= W!BoundaryInstant(start, h)
       /\ \A h : h \in B <=> h \in G /\ when <= W!BoundaryInstant(start, h)
  BY <1>6, <1>8 DEF AheadOf
<1>11. ASSUME NEW h \in Nat, free <= h
       PROVE  ~(when <= W!BoundaryInstant(start, h))
  <2>1. PICK b, c : b = W!BoundaryInstant(start, h) /\ c = W!BoundaryInstant(start, free)
    OBVIOUS
  <2>2. b \in Int /\ c \in Int /\ b <= c
    <3>1. free \in Int /\ h \in Int /\ 0 < free
      BY <1>11
    <3> QED  BY <1>11, <2>1, <3>1, BoundariesFall
  <2> QED  BY <2>1, <2>2
<1>12. \A i \in 1 .. m : t[i].pct \in 0 .. 100
  BY <1>1 DEF Priced
<1>13. \A i, j \in 1 .. m : i <= j => t[i].pct <= t[j].pct
  <2>1. PICK f : f = [i \in 1 .. m |-> t[i].pct]
    OBVIOUS
  <2>2. \A i \in 1 .. m : f[i] \in Int
    <3> SUFFICES ASSUME NEW i \in 1 .. m PROVE f[i] \in Int
      OBVIOUS
    <3>1. f[i] = t[i].pct /\ t[i].pct \in 0 .. 100
      BY <1>12, <2>1
    <3> QED  BY <3>1
  <2>3. \A i \in 1 .. m - 1 : f[i] <= f[i + 1]
    <3> SUFFICES ASSUME NEW i \in 1 .. m - 1 PROVE f[i] <= f[i + 1]
      OBVIOUS
    <3>1. i \in 1 .. m /\ i + 1 \in 1 .. m
      BY <1>1
    <3>2. t[i].pct <= t[i + 1].pct
      BY <1>1 DEF W!Rising
    <3> QED  BY <2>1, <3>1, <3>2
  <2>4. \A i, j \in 1 .. m : i <= j => f[i] <= f[j]
    BY <1>1, <2>2, <2>3, NeighboursRise
  <2> QED  BY <2>1, <2>4
<1>14. PICK x, y : /\ x = (IF A = {} THEN W!Min(H) ELSE W!Max(A))
                   /\ y = (IF B = {} THEN W!Min(G) ELSE W!Max(B))
  OBVIOUS
<1>15. W!PctAt(t, start, when) = W!RateOf(t, x) /\ W!PctAt(q, start, when) = W!RateOf(q, y)
  BY <1>2, <1>5, <1>6, <1>8, <1>14, RateIsRead
<1>16. A \in SUBSET H /\ B \in SUBSET G
  BY <1>10
<1>17. IsFiniteSet(A) /\ IsFiniteSet(B)
  BY <1>7, <1>9, <1>16, FS_Subset
<1>18. A \subseteq Int /\ B \subseteq Int /\ H \subseteq Int /\ G \subseteq Int
  BY <1>7, <1>9, <1>16
<1>19. /\ A = {} => x \in H /\ \A h \in H : x <= h
       /\ A # {} => x \in A /\ \A h \in A : x >= h
  BY <1>7, <1>14, <1>17, <1>18, FiniteEnds
<1>20. /\ B = {} => y \in G /\ \A h \in G : y <= h
       /\ B # {} => y \in B /\ \A h \in B : y >= h
  BY <1>9, <1>14, <1>17, <1>18, FiniteEnds
<1>21. PICK i \in 1 .. m : x = t[i].h
  BY <1>7, <1>16, <1>19
<1>22. W!RateOf(t, x) = t[i].pct
  BY <1>21, StoredRow
<1>23. \A h \in B : h \in A /\ h < free
  <2> SUFFICES ASSUME NEW h \in B PROVE h \in A /\ h < free
    OBVIOUS
  <2>1. h \in G /\ h \in Nat /\ when <= W!BoundaryInstant(start, h)
    BY <1>9, <1>10
  <2>2. h < free
    BY <1>11, <2>1
  <2>3. PICK j \in P : h = t[j].h
    BY <1>9, <2>1, <2>2
  <2>4. h \in H
    BY <1>4, <1>7, <2>3
  <2> QED  BY <1>10, <2>1, <2>2, <2>4
<1>24. W!RateOf(q, y) \in 0 .. 100
  <2>1. y \in W!Hours(q)
    BY <1>8, <1>16, <1>20
  <2> QED  BY <1>5, <2>1, NormalPriced
<1>25. CASE i \in P
  <2>1. x \in G /\ W!RateOf(q, x) = t[i].pct /\ x \in Nat
    BY <1>1, <1>5, <1>9, <1>21, <1>25
  <2>2. y = x
    <3>1. CASE A = {}
      <4>1. B = {}
        BY <1>23, <3>1
      <4>2. y \in G /\ y <= x /\ y \in Nat
        BY <1>9, <1>20, <2>1, <4>1
      <4>3. y # free
        <5>1. x < free
          BY <1>4, <1>21, <1>25
        <5> QED  BY <2>1, <4>2, <5>1
      <4>4. y \in H
        BY <1>4, <1>7, <1>9, <4>2, <4>3
      <4>5. x <= y
        BY <1>19, <3>1, <4>4
      <4> QED  BY <2>1, <4>2, <4>5
    <3>2. CASE A # {}
      <4>1. x \in A /\ x \in B
        BY <1>10, <1>19, <2>1, <3>2
      <4>2. y \in B /\ y >= x /\ y \in A
        BY <1>20, <1>23, <4>1
      <4>3. x >= y /\ y \in Nat
        BY <1>9, <1>16, <1>19, <3>2, <4>2
      <4> QED  BY <2>1, <4>2, <4>3
    <3> QED  BY <3>1, <3>2
  <2> QED  BY <1>12, <1>15, <1>22, <2>1, <2>2
<1>26. CASE i \notin P
  <2>1. x < free
    <3>1. CASE A # {}
      <4>1. x \in Nat /\ when <= W!BoundaryInstant(start, x)
        BY <1>7, <1>10, <1>19, <3>1
      <4> QED  BY <1>11, <4>1
    <3>2. CASE A = {}
      <4>1. PICK p \in P : p \in 1 .. m /\ t[p].h < free
        BY <1>3, <1>4
      <4>2. x <= t[p].h /\ t[p].h \in Nat /\ x \in Nat
        BY <1>1, <1>7, <1>19, <1>21, <3>2, <4>1
      <4> QED  BY <4>1, <4>2
    <3> QED  BY <3>1, <3>2
  <2>2. t[i].pct = 0
    BY <1>4, <1>12, <1>21, <1>26, <2>1
  <2> QED  BY <1>15, <1>22, <1>24, <2>2
<1> QED  BY <1>25, <1>26

\* FreeWindowNeverUnderWarns of one table at one instant.
LEMMA FreeWindowHolds ==
  ASSUME NEW s, NEW n, IsCore(s, n),
         NEW free \in FreeHours, NEW start \in Int, NEW when \in Int,
         NEW before, before = W!FromCoreStages(s, Absent), before # Unknown,
         NEW w, w = W!FromCoreStages(s, free), w # Unknown, w # before
  PROVE  /\ W!FreeDeadlineMs(w, start) = W!BoundaryInstant(start, free)
         /\ W!Rising(before) /\ when > W!BoundaryInstant(start, free) =>
              W!PctAt(w, start, when) >= W!PctAt(before, start, when)
<1>1. free \in Nat /\ free # Absent
  BY WebPolicyOK DEF W!WebPolicyAssumption
<1>2. before = W!NormalizeStages(Restated(s)) /\ w = W!WithFreeWindowFrom(before, free)
  BY <1>1, FromCore
<1>3. Final(before) /\ Priced(before)
  BY <1>2, FromCoreFinal
<1>4. PICK q : q = Window(before, free)
  OBVIOUS
<1>5. /\ Paid(before, free) # {} /\ w = W!NormalizeStages(q) /\ w[1].h = free /\ w[1].pct = 0
      /\ \E m : FinalOf(w, m) /\ m > 1 /\ \A i \in 2 .. m : w[i].pct > 0
  <2>1. Forced(w, before, free)
    BY <1>1, <1>2, <1>3, WindowStays
  <2> QED  BY <1>4, <2>1 DEF Forced
<1>6. W!FreeDeadlineMs(w, start) = W!BoundaryInstant(start, free)
  <2>1. PICK m : FinalOf(w, m) /\ m > 1 /\ \A i \in 2 .. m : w[i].pct > 0
    BY <1>5
  <2>2. w[1].pct = 0 /\ w[1].h = free
    BY <1>5
  <2>3. W!FreeDeadlineMs(w, start) = W!BoundaryInstant(start, w[1].h)
    BY <2>1, <2>2, OneFreeRow
  <2> QED  BY <2>2, <2>3
<1>7. IsTable(q)
  BY <1>1, <1>3, <1>4, WindowRead
<1>8. W!PctAt(w, start, when) = W!PctAt(q, start, when)
  BY <1>5, <1>7, ReadStored
<1>9. ASSUME W!Rising(before), when > W!BoundaryInstant(start, free)
      PROVE  W!PctAt(q, start, when) >= W!PctAt(before, start, when)
  <2>1. PICK m : FinalOf(before, m)
    BY <1>3 DEF Final
  <2>2. free # 0
    <3>1. PICK i \in 1 .. m : before[i].h \in Nat /\ before[i].h < free
      BY <1>5, <2>1 DEF Paid, FinalOf
    <3> QED  BY <1>1, <3>1
  <2> QED  BY <1>1, <1>3, <1>4, <1>5, <1>9, <2>1, <2>2, WindowCharges
<1> QED  BY <1>6, <1>8, <1>9

\* A valid table: its hours fall and its fees do not.
Falling(s, n) ==
  /\ \A i \in 1 .. n : s[i].until_offset_hours \in Nat /\ s[i].fee_percent \in 0 .. 100
  /\ \A i, j \in 1 .. n : i < j => s[i].until_offset_hours > s[j].until_offset_hours
  /\ \A i, j \in 1 .. n : i <= j => s[i].fee_percent <= s[j].fee_percent

\* What the schema checks of neighbours holds of any two stages.
LEMMA ValidFalls ==
  ASSUME Offsets \subseteq Nat, NEW s, NEW n, IsCore(s, n), W!ValidStages(s)
  PROVE  Falling(s, n)
<1>1. n \in Nat /\ DOMAIN s = 1 .. n /\ s \in [1 .. n -> W!Stage] /\ Len(s) = n
  BY DEF IsCore
<1>2. Percents \subseteq 0 .. 100
  BY WebPolicyOK DEF W!WebPolicyAssumption, W!PolicyConstants
<1>3. \A i \in 1 .. n : s[i].until_offset_hours \in Nat /\ s[i].fee_percent \in 0 .. 100
  BY <1>1, <1>2 DEF W!Stage
<1>4. \A i \in 1 .. n - 1 : /\ s[i + 1].until_offset_hours < s[i].until_offset_hours
                            /\ s[i + 1].fee_percent >= s[i].fee_percent
  BY <1>1 DEF W!ValidStages
<1>5. PICK f, g : /\ f = [i \in 1 .. n |-> -s[i].until_offset_hours - i]
                  /\ g = [i \in 1 .. n |-> s[i].fee_percent]
  OBVIOUS
<1>6. ASSUME NEW i \in 1 .. n
      PROVE  /\ f[i] = -s[i].until_offset_hours - i /\ f[i] \in Int
             /\ g[i] = s[i].fee_percent /\ g[i] \in Int
  <2>1. PICK a, b : a = s[i].until_offset_hours /\ b = s[i].fee_percent
    OBVIOUS
  <2>2. f[i] = -a - i /\ g[i] = b
    BY <1>5, <2>1
  <2>3. a \in Nat /\ b \in 0 .. 100
    BY <1>3, <2>1
  <2> QED  BY <2>1, <2>2, <2>3
<1>7. ASSUME NEW i \in 1 .. n - 1
      PROVE  f[i] <= f[i + 1] /\ g[i] <= g[i + 1]
  <2>1. i \in 1 .. n /\ i + 1 \in 1 .. n
    BY <1>1
  <2>2. PICK a, b : a = s[i].until_offset_hours /\ b = s[i + 1].until_offset_hours
    OBVIOUS
  <2>3. a \in Nat /\ b \in Nat /\ b < a /\ f[i] = -a - i /\ f[i + 1] = -b - (i + 1)
    BY <1>3, <1>4, <1>6, <2>1, <2>2
  <2>4. g[i] <= g[i + 1]
    BY <1>3, <1>4, <1>6, <2>1
  <2> QED  BY <2>3, <2>4
<1>8. \A i, j \in 1 .. n : i <= j => f[i] <= f[j]
  BY <1>1, <1>6, <1>7, NeighboursRise
<1>9. \A i, j \in 1 .. n : i <= j => g[i] <= g[j]
  BY <1>1, <1>6, <1>7, NeighboursRise
<1>10. ASSUME NEW i \in 1 .. n, NEW j \in 1 .. n, i < j
       PROVE  s[i].until_offset_hours > s[j].until_offset_hours
  <2>1. PICK a, b : a = s[i].until_offset_hours /\ b = s[j].until_offset_hours
    OBVIOUS
  <2>2. a \in Nat /\ b \in Nat /\ f[i] = -a - i /\ f[j] = -b - j /\ f[i] <= f[j]
    BY <1>3, <1>6, <1>8, <1>10, <2>1
  <2>3. a > b
    BY <1>10, <2>2
  <2> QED  BY <2>1, <2>3
<1>11. \A i, j \in 1 .. n : i <= j => s[i].fee_percent <= s[j].fee_percent
  BY <1>6, <1>9
<1> QED  BY <1>3, <1>10, <1>11 DEF Falling

\* The restated table charges at each of its hours what the core table does.
LEMMA RestatedRates ==
  ASSUME NEW s, NEW n, IsCore(s, n), Falling(s, n), NEW q, q = Restated(s)
  PROVE  /\ W!Hours(q) = {0} \cup {s[i].until_offset_hours : i \in 1 .. n}
         /\ W!RateOf(q, 0) = s[n].fee_percent
         /\ \A i \in 1 .. n : W!RateOf(q, s[i].until_offset_hours) = s[i].fee_percent
<1>1. PICK web, p : web = Web(s) /\ p = AtStart(s)
  OBVIOUS
<1>2. n \in Nat /\ n # 0 /\ n \in 1 .. n
  BY DEF IsCore
<1>3. PICK off, fee : /\ off = [i \in 1 .. n |-> s[i].until_offset_hours]
                      /\ fee = [i \in 1 .. n |-> s[i].fee_percent]
  OBVIOUS
<1>4. /\ \A i \in 1 .. n : /\ off[i] = s[i].until_offset_hours /\ fee[i] = s[i].fee_percent
                           /\ off[i] \in Nat /\ fee[i] \in 0 .. 100
      /\ \A i, j \in 1 .. n : i < j => off[i] > off[j]
  BY <1>3 DEF Falling
<1>5. /\ DOMAIN web = 1 .. n /\ IsTable(web)
      /\ \A i \in 1 .. n : web[i].h = off[i] /\ web[i].pct = fee[i]
  BY <1>1, <1>4, CoreTable
<1>6. /\ DOMAIN q = 1 .. n + 1 /\ IsTable(q) /\ \A i \in 1 .. n : q[i] = web[i]
      /\ q[n + 1].h = 0 /\ q[n + 1].pct = p
  BY <1>1, RestatedTable
<1>7. W!Hours(web) = {off[i] : i \in 1 .. n}
  BY <1>5 DEF W!Hours
<1>8. 1 .. n + 1 = 1 .. n \cup {n + 1}
  BY <1>2
<1>9. W!Hours(q) = {0} \cup {off[i] : i \in 1 .. n}
  <2>1. W!Hours(q) = {q[i].h : i \in 1 .. n \cup {n + 1}}
    BY <1>6, <1>8 DEF W!Hours
  <2>2. \A i \in 1 .. n : q[i].h = off[i]
    BY <1>5, <1>6
  <2>3. W!Hours(q) = {q[i].h : i \in 1 .. n} \cup {q[n + 1].h}
    BY <2>1
  <2>4. {q[i].h : i \in 1 .. n} = {off[i] : i \in 1 .. n}
    BY <2>2
  <2> QED  BY <1>6, <2>3, <2>4
<1>10. \A i \in 1 .. n : off[n] <= off[i]
  BY <1>2, <1>4
<1>11. p = fee[n]
  <2>1. PICK t : t = W!NormalizeStages(web)
    OBVIOUS
  <2>2. /\ Final(t) /\ \A i \in DOMAIN t : t[i].h \in KeptHours(web) /\ t[i].pct = W!RateOf(web, t[i].h)
        /\ \A k \in KeptHours(web) : \E i \in DOMAIN t : t[i].h = k
    BY <1>5, <2>1, Normal
  <2>3. PICK m : FinalOf(t, m)
    BY <2>2 DEF Final
  <2>4. /\ m \in Nat /\ m # 0 /\ DOMAIN t = 1 .. m /\ Len(t) = m /\ m \in 1 .. m
        /\ \A i, j \in 1 .. m : i < j => t[i].h > t[j].h
    BY <2>3 DEF FinalOf
  <2>5. p = t[m].pct
    BY <1>1, <2>1, <2>4 DEF AtStart
  <2>6. off[n] \in KeptHours(web)
    <3>1. off[n] \in W!Hours(web)
      BY <1>2, <1>7
    <3>2. Inner(web, off[n]) = {}
      <4> SUFFICES ASSUME NEW g \in Inner(web, off[n]) PROVE FALSE
        OBVIOUS
      <4>1. PICK i \in 1 .. n : g = off[i]
        BY <1>7 DEF Inner
      <4>2. g < off[n]
        BY DEF Inner
      <4> QED  BY <1>2, <1>4, <1>10, <4>1, <4>2
    <3> QED  BY <3>1, <3>2 DEF KeptHours
  <2>7. PICK j \in 1 .. m : t[j].h = off[n]
    BY <2>2, <2>4, <2>6
  <2>8. PICK i \in 1 .. n : t[m].h = off[i]
    BY <1>7, <2>2, <2>4 DEF KeptHours
  <2>9. ~(j < m)
    <3> SUFFICES ASSUME j < m PROVE FALSE
      OBVIOUS
    <3>1. off[n] > off[i]
      BY <2>4, <2>7, <2>8
    <3> QED  BY <1>2, <1>4, <1>10, <3>1
  <2>10. t[m].h = off[n]
    BY <2>4, <2>7, <2>9
  <2>11. p = W!RateOf(web, off[n])
    BY <2>2, <2>4, <2>5, <2>10
  <2>12. PICK k \in 1 .. n : web[k].h = off[n] /\ W!RateOf(web, off[n]) = web[k].pct
    BY <1>2, <1>5, <1>7, HoursRead
  <2>13. ~(k < n)
    BY <1>2, <1>4, <1>5, <2>12
  <2>14. k = n
    BY <1>2, <2>13
  <2> QED  BY <1>5, <2>11, <2>12, <2>14
<1>12. W!RateOf(q, 0) = p
  <2>1. PICK i \in 1 .. n + 1 : /\ q[i].h = 0 /\ W!RateOf(q, 0) = q[i].pct
                                /\ \A j \in 1 .. n + 1 : q[j].h = 0 => j <= i
    BY <1>6, <1>9, HoursRead
  <2>2. n + 1 \in 1 .. n + 1
    BY <1>2
  <2>3. n + 1 <= i
    BY <1>6, <2>1, <2>2
  <2>4. i = n + 1
    BY <1>2, <2>3
  <2> QED  BY <1>6, <2>1, <2>4
<1>13. ASSUME NEW i \in 1 .. n
       PROVE  W!RateOf(q, off[i]) = fee[i]
  <2>1. CASE off[i] = 0
    <3>1. ~(i < n)
      <4> SUFFICES ASSUME i < n PROVE FALSE
        OBVIOUS
      <4>1. off[i] > off[n] /\ off[n] \in Nat
        BY <1>2, <1>4
      <4> QED  BY <2>1, <4>1
    <3>2. i = n
      BY <1>2, <3>1
    <3> QED  BY <1>11, <1>12, <2>1, <3>2
  <2>2. CASE off[i] # 0
    <3>1. off[i] \in W!Hours(q)
      BY <1>9
    <3>2. PICK j \in 1 .. n + 1 : q[j].h = off[i] /\ W!RateOf(q, off[i]) = q[j].pct
      BY <1>6, <3>1, HoursRead
    <3>3. j # n + 1
      BY <1>6, <2>2, <3>2
    <3>4. j \in 1 .. n
      BY <1>2, <3>3
    <3>5. off[j] = off[i] /\ q[j].pct = fee[j]
      BY <1>5, <1>6, <3>2, <3>4
    <3>6. off[i] \in Nat /\ ~(off[i] > off[j]) /\ ~(off[j] > off[i])
      BY <1>4, <3>5
    <3>7. ~(i < j) /\ ~(j < i)
      BY <1>4, <3>4, <3>6
    <3>8. i = j
      BY <3>4, <3>7
    <3> QED  BY <3>2, <3>5, <3>8
  <2> QED  BY <2>1, <2>2
<1>14. \A i \in 1 .. n : W!RateOf(q, s[i].until_offset_hours) = s[i].fee_percent
  BY <1>4, <1>13
<1>15. {off[i] : i \in 1 .. n} = {s[i].until_offset_hours : i \in 1 .. n}
  BY <1>3
<1> QED  BY <1>2, <1>4, <1>9, <1>11, <1>12, <1>14, <1>15

\* A valid table is charged as in the core ledger.
LEMMA CoreRate ==
  ASSUME NEW s, NEW n, IsCore(s, n), Falling(s, n), NEW q, q = Restated(s),
         NEW start \in Int, NEW when \in Int
  PROVE  W!PctAt(q, start, when) = s[W!StageIndex(s, start, when)].fee_percent
<1>1. n \in Nat /\ n # 0 /\ n \in 1 .. n /\ Len(s) = n
  BY DEF IsCore
<1>2. PICK off : off = [i \in 1 .. n |-> s[i].until_offset_hours]
  OBVIOUS
<1>3. /\ \A i \in 1 .. n : off[i] = s[i].until_offset_hours /\ off[i] \in Nat
      /\ \A i, j \in 1 .. n : i < j => off[i] > off[j]
  BY <1>2 DEF Falling
<1>4. PICK G, B : G = W!Hours(q) /\ B = AheadOf(q, start, when)
  OBVIOUS
<1>5. /\ G = {0} \cup {off[i] : i \in 1 .. n} /\ W!RateOf(q, 0) = s[n].fee_percent
      /\ \A i \in 1 .. n : W!RateOf(q, off[i]) = s[i].fee_percent
  <2>1. {off[i] : i \in 1 .. n} = {s[i].until_offset_hours : i \in 1 .. n}
    BY <1>2
  <2>2. \A i \in 1 .. n : W!RateOf(q, s[i].until_offset_hours) = s[i].fee_percent
    BY RestatedRates
  <2>3. \A i \in 1 .. n : W!RateOf(q, off[i]) = s[i].fee_percent
    BY <1>3, <2>2
  <2> QED  BY <1>4, <2>1, <2>3, RestatedRates
<1>6. IsTable(q) /\ G \subseteq Nat /\ IsFiniteSet(G) /\ G # {}
  <2>1. IsTable(q)
    BY RestatedTable
  <2> QED  BY <1>4, <2>1, HoursRead
<1>7. \A h : h \in B <=> h \in G /\ when <= W!BoundaryInstant(start, h)
  BY <1>4 DEF AheadOf
<1>8. PICK y : y = IF B = {} THEN W!Min(G) ELSE W!Max(B)
  OBVIOUS
<1>9. W!PctAt(q, start, when) = W!RateOf(q, y)
  BY <1>4, <1>6, <1>8, RateIsRead
<1>10. B \in SUBSET G
  BY <1>7
<1>11. IsFiniteSet(B)
  BY <1>6, <1>10, FS_Subset
<1>12. B \subseteq Int /\ G \subseteq Int
  BY <1>6, <1>10
<1>13. /\ B = {} => y \in G /\ \A h \in G : y <= h
       /\ B # {} => y \in B /\ \A h \in B : y >= h
  BY <1>6, <1>8, <1>11, <1>12, FiniteEnds
<1>14. PICK R, r : R = W!Reached(s, start, when) /\ r = W!StageIndex(s, start, when)
  OBVIOUS
<1>15. R = {i \in 1 .. n : when <= W!BoundaryInstant(start, off[i])}
  <2>1. R = {i \in 1 .. n : when <= W!BoundaryInstant(start, s[i].until_offset_hours)}
    BY <1>1, <1>14 DEF W!Reached
  <2> QED  BY <1>3, <2>1
<1>16. r = IF R = {} THEN n ELSE W!First(R)
  BY <1>1, <1>14 DEF W!StageIndex
<1>17. CASE R = {}
  <2>1. \A h \in B : h = 0
    <3> SUFFICES ASSUME NEW h \in B, h # 0 PROVE FALSE
      OBVIOUS
    <3>1. PICK i \in 1 .. n : h = off[i]
      BY <1>5, <1>7
    <3>2. i \in R
      BY <1>7, <1>15, <3>1
    <3> QED  BY <1>17, <3>2
  <2>2. y = 0
    <3>1. CASE B = {}
      <4>1. 0 \in G /\ y \in Nat /\ y <= 0
        BY <1>5, <1>6, <1>13, <3>1
      <4> QED  BY <4>1
    <3>2. CASE B # {}
      BY <1>13, <2>1, <3>2
    <3> QED  BY <3>1, <3>2
  <2> QED  BY <1>5, <1>9, <1>14, <1>16, <1>17, <2>2
<1>18. CASE R # {}
  <2>1. r \in R /\ \A i \in R : r <= i
    <3>1. R \subseteq Nat
      BY <1>15
    <3> QED  BY <1>16, <1>18, <3>1, FirstOf
  <2>2. r \in 1 .. n /\ when <= W!BoundaryInstant(start, off[r])
    BY <1>15, <2>1
  <2>3. off[r] \in B /\ off[r] \in Nat
    BY <1>3, <1>5, <1>7, <2>2
  <2>4. y \in B /\ y >= off[r] /\ y \in Nat
    BY <1>6, <1>10, <1>13, <2>3
  <2>5. y <= off[r]
    <3>1. CASE y = 0
      BY <2>3, <3>1
    <3>2. CASE y # 0
      <4>1. PICK i \in 1 .. n : y = off[i]
        BY <1>5, <1>7, <2>4, <3>2
      <4>2. i \in R
        BY <1>7, <1>15, <2>4, <4>1
      <4>3. r <= i
        BY <2>1, <4>2
      <4>4. CASE r = i
        BY <2>3, <4>1, <4>4
      <4>5. CASE r < i
        <5>1. off[r] > off[i]
          BY <1>3, <2>2, <4>5
        <5> QED  BY <2>3, <2>4, <4>1, <5>1
      <4> QED  BY <2>2, <4>3, <4>4, <4>5
    <3> QED  BY <3>1, <3>2
  <2>6. y = off[r]
    BY <2>3, <2>4, <2>5
  <2> QED  BY <1>5, <1>9, <1>14, <2>2, <2>6
<1> QED  BY <1>17, <1>18

\* Free is until the same instant, in a table without fixed fees.
LEMMA CoreDeadline ==
  ASSUME NEW s, NEW n, IsCore(s, n), Falling(s, n),
         \A i \in DOMAIN s : s[i].fee_fixed_jpy \in {Absent, 0},
         NEW t, t = W!NormalizeStages(Restated(s)), NEW start
  PROVE  W!FreeDeadlineMs(t, start) = W!FreeDeadline(s, start)
<1>1. n \in Nat /\ n # 0 /\ n \in 1 .. n /\ Len(s) = n /\ DOMAIN s = 1 .. n
  BY DEF IsCore
<1>2. PICK off, fee : /\ off = [i \in 1 .. n |-> s[i].until_offset_hours]
                      /\ fee = [i \in 1 .. n |-> s[i].fee_percent]
  OBVIOUS
<1>3. /\ \A i \in 1 .. n : /\ off[i] = s[i].until_offset_hours /\ fee[i] = s[i].fee_percent
                           /\ off[i] \in Nat /\ fee[i] \in 0 .. 100
      /\ \A i, j \in 1 .. n : i < j => off[i] > off[j]
      /\ \A i, j \in 1 .. n : i <= j => fee[i] <= fee[j]
  BY <1>2 DEF Falling
<1>4. PICK q, G : q = Restated(s) /\ G = W!Hours(q)
  OBVIOUS
<1>5. /\ G = {0} \cup {off[i] : i \in 1 .. n} /\ W!RateOf(q, 0) = fee[n]
      /\ \A i \in 1 .. n : W!RateOf(q, off[i]) = fee[i]
  <2>1. {off[i] : i \in 1 .. n} = {s[i].until_offset_hours : i \in 1 .. n}
    BY <1>2
  <2>2. \A i \in 1 .. n : W!RateOf(q, s[i].until_offset_hours) = s[i].fee_percent
    BY <1>4, RestatedRates
  <2>3. \A i \in 1 .. n : W!RateOf(q, off[i]) = fee[i]
    BY <1>3, <2>2
  <2>4. W!RateOf(q, 0) = s[n].fee_percent
    BY <1>4, RestatedRates
  <2>5. W!RateOf(q, 0) = fee[n]
    BY <1>1, <1>3, <2>4
  <2> QED  BY <1>4, <2>1, <2>3, <2>5, RestatedRates
<1>6. IsTable(q) /\ G \subseteq Nat /\ IsFiniteSet(G)
  <2>1. IsTable(q)
    BY <1>4, RestatedTable
  <2> QED  BY <1>4, <2>1, HoursRead
<1>7. /\ Final(t) /\ W!NormalizeStages(t) = t
      /\ \A i \in DOMAIN t : t[i].h \in KeptHours(q) /\ t[i].pct = W!RateOf(q, t[i].h)
      /\ \A k \in KeptHours(q) : \E i \in DOMAIN t : t[i].h = k
  BY <1>4, <1>6, Normal, FinalStays
<1>8. PICK m : FinalOf(t, m)
  BY <1>7 DEF Final
<1>9. /\ m \in Nat /\ m # 0 /\ DOMAIN t = 1 .. m /\ m \in 1 .. m
      /\ \A i \in 1 .. m : t[i].h \in Nat
      /\ \A i, j \in 1 .. m : i < j => t[i].h > t[j].h
  BY <1>8 DEF FinalOf
<1>10. \A i \in 1 .. m : t[i].h \in G /\ t[i].pct = W!RateOf(q, t[i].h)
  BY <1>4, <1>7, <1>9 DEF KeptHours
<1>11. PICK C, S : C = {i \in 1 .. n : ~W!Charged(s[i])} /\ S = {i \in DOMAIN t : t[i].pct = 0}
  OBVIOUS
<1>12. C = {i \in 1 .. n : fee[i] = 0}
  <2>1. Absent \notin Int
    BY WebPolicyOK DEF W!WebPolicyAssumption, W!PolicyConstants
  <2>2. ASSUME NEW i \in 1 .. n
        PROVE  W!Charged(s[i]) <=> fee[i] # 0
    <3>1. s[i].fee_fixed_jpy \in {Absent, 0} /\ s[i].fee_percent = fee[i] /\ fee[i] \in 0 .. 100
      BY <1>1, <1>3
    <3>2. ~(s[i].fee_fixed_jpy # Absent /\ s[i].fee_fixed_jpy > 0)
      BY <2>1, <3>1
    <3>3. fee[i] > 0 <=> fee[i] # 0
      BY <3>1
    <3> QED  BY <3>1, <3>2, <3>3 DEF W!Charged
  <2> QED  BY <1>11, <2>2
<1>13. \A i : i \in S <=> i \in 1 .. m /\ t[i].pct = 0
  BY <1>9, <1>11
<1>14. W!FreeDeadline(s, start) =
         IF C = {} \/ C = 1 .. n THEN Absent
         ELSE W!BoundaryInstant(start, s[CHOOSE i \in C : \A j \in C : j <= i].until_offset_hours)
  BY <1>1, <1>11 DEF W!FreeDeadline
<1>15. W!FreeDeadlineMs(t, start) =
         IF S = {} \/ S = 1 .. m THEN Absent ELSE W!BoundaryInstant(start, t[W!Max(S)].h)
  BY <1>7, <1>9, <1>11 DEF W!FreeDeadlineMs
<1>16. \A h \in G : h = 0 \/ \E i \in 1 .. n : h = off[i]
  BY <1>5
<1>17. CASE C = {}
  <2>1. S = {}
    <3> SUFFICES ASSUME NEW k \in S PROVE FALSE
      OBVIOUS
    <3>1. k \in 1 .. m /\ W!RateOf(q, t[k].h) = 0 /\ t[k].h \in G
      BY <1>10, <1>13
    <3>2. PICK i \in 1 .. n : fee[i] = 0
      BY <1>1, <1>5, <1>16, <3>1
    <3> QED  BY <1>12, <1>17, <3>2
  <2> QED  BY <1>14, <1>15, <1>17, <2>1
<1>18. CASE C = 1 .. n
  <2>1. \A h \in G : W!RateOf(q, h) = 0
    <3>1. \A i \in 1 .. n : fee[i] = 0
      BY <1>12, <1>18
    <3> QED  BY <1>1, <1>5, <1>16, <3>1
  <2>2. S = 1 .. m
    BY <1>10, <1>13, <2>1
  <2> QED  BY <1>14, <1>15, <1>18, <2>2
<1>19. CASE C # {} /\ C # 1 .. n
  <2>1. C \subseteq Int /\ C # {} /\ IsFiniteSet(C)
    <3>1. C \in SUBSET (1 .. n) /\ IsFiniteSet(1 .. n)
      BY <1>1, <1>12, FS_Interval
    <3>2. IsFiniteSet(C)
      BY <3>1, FS_Subset
    <3> QED  BY <1>19, <3>1, <3>2
  <2>2. PICK i : i = CHOOSE x \in C : \A y \in C : y <= x
    OBVIOUS
  <2>3. i \in C /\ \A j \in C : j <= i
    <3>1. W!Max(C) \in C /\ \A x \in C : W!Max(C) >= x
      BY <2>1, FiniteEnds
    <3>2. \A x \in C : x <= W!Max(C)
      BY <2>1, <3>1
    <3> QED  BY <2>2, <3>1, <3>2
  <2>4. i \in 1 .. n /\ fee[i] = 0
    BY <1>12, <2>3
  <2>5. i < n /\ i + 1 \in 1 .. n /\ i + 1 \notin C
    <3>1. i # n
      <4> SUFFICES ASSUME i = n PROVE FALSE
        OBVIOUS
      <4>1. \A j \in 1 .. n : fee[j] <= 0 /\ fee[j] \in 0 .. 100
        BY <1>3, <2>4
      <4>2. \A j \in 1 .. n : fee[j] = 0
        BY <4>1
      <4> QED  BY <1>12, <1>19, <4>2
    <3>2. i + 1 \notin C
      BY <2>3, <2>4
    <3> QED  BY <1>1, <2>4, <3>1, <3>2
  <2>6. fee[i + 1] # 0 /\ fee[i + 1] \in 0 .. 100 /\ fee[n] # 0 /\ off[i] > off[i + 1]
    <3>1. fee[i + 1] # 0
      BY <1>12, <2>5
    <3>2. fee[i + 1] <= fee[n] /\ fee[i + 1] \in 0 .. 100 /\ fee[n] \in 0 .. 100
      <4>1. i + 1 <= n /\ n \in 1 .. n /\ i + 1 \in 1 .. n
        BY <1>1, <2>5
      <4> QED  BY <1>3, <4>1
    <3>3. i < i + 1
      BY <2>4
    <3> QED  BY <1>3, <2>4, <2>5, <3>1, <3>2, <3>3
  <2>7. off[i] \in Nat /\ off[i + 1] \in Nat
    BY <1>3, <2>4, <2>5
  <2>8. off[i] \in KeptHours(q)
    <3>1. PICK inner : inner = Inner(q, off[i])
      OBVIOUS
    <3>2. inner \in SUBSET G /\ off[i + 1] \in inner /\ \A g \in inner : g < off[i]
      BY <1>4, <1>5, <2>5, <2>6, <2>7, <3>1 DEF Inner
    <3>3. PICK top : top = W!Max(inner)
      OBVIOUS
    <3>4. top \in inner /\ top >= off[i + 1]
      <4>1. IsFiniteSet(inner)
        BY <1>6, <3>2, FS_Subset
      <4>2. inner \subseteq Int /\ inner # {}
        BY <1>6, <3>2
      <4>3. W!Max(inner) \in inner /\ \A x \in inner : W!Max(inner) >= x
        BY <4>1, <4>2, FiniteEnds
      <4> QED  BY <3>2, <3>3, <4>3
    <3>5. W!RateOf(q, top) # 0
      <4>1. CASE top = 0
        BY <1>5, <2>6, <4>1
      <4>2. CASE top # 0
        <5>1. PICK j \in 1 .. n : top = off[j]
          BY <1>16, <3>2, <3>4, <4>2
        <5>2. off[j] < off[i] /\ off[j] \in Nat
          BY <1>3, <3>2, <3>4, <5>1
        <5>3. ~(j <= i)
          <6>1. CASE j = i
            BY <5>2, <6>1
          <6>2. CASE j < i
            <7>1. off[j] > off[i]
              BY <1>3, <2>4, <6>2
            <7> QED  BY <2>7, <5>2, <7>1
          <6> QED  BY <2>4, <6>1, <6>2
        <5>4. j \notin C
          BY <2>3, <5>3
        <5>5. fee[j] # 0
          BY <1>12, <5>4
        <5> QED  BY <1>5, <5>1, <5>5
      <4> QED  BY <4>1, <4>2
    <3>6. W!RateOf(q, W!Max(inner)) # W!RateOf(q, off[i])
      BY <1>5, <2>4, <3>3, <3>5
    <3>7. off[i] \in W!Hours(q)
      BY <1>4, <1>5, <2>4
    <3> QED  BY <3>1, <3>6, <3>7 DEF KeptHours
  <2>9. PICK k \in 1 .. m : t[k].h = off[i]
    BY <1>7, <1>9, <2>8
  <2>10. k \in S
    <3>1. t[k].pct = 0
      BY <1>5, <1>10, <2>4, <2>9
    <3> QED  BY <1>13, <3>1
  <2>11. ASSUME NEW j \in S
         PROVE  j <= k
    <3>1. j \in 1 .. m /\ W!RateOf(q, t[j].h) = 0 /\ t[j].h \in G
      BY <1>10, <1>13
    <3>2. t[j].h # 0
      BY <1>5, <2>6, <3>1
    <3>3. PICK l \in 1 .. n : t[j].h = off[l]
      BY <1>16, <3>1, <3>2
    <3>4. l \in C
      BY <1>5, <1>12, <3>1, <3>3
    <3>5. l <= i
      BY <2>3, <3>4
    <3>6. off[l] >= off[i] /\ off[l] \in Nat
      <4>1. CASE l = i
        BY <2>7, <4>1
      <4>2. CASE l < i
        <5>1. off[l] > off[i] /\ off[l] \in Nat
          BY <1>3, <2>4, <4>2
        <5> QED  BY <2>7, <5>1
      <4> QED  BY <2>4, <3>5, <4>1, <4>2
    <3>7. ~(k < j)
      <4> SUFFICES ASSUME k < j PROVE FALSE
        OBVIOUS
      <4>1. off[i] > off[l]
        BY <1>9, <2>9, <3>1, <3>3
      <4> QED  BY <2>7, <3>6, <4>1
    <3> QED  BY <3>1, <3>7
  <2>12. W!Max(S) = k
    <3>1. S \in SUBSET (1 .. m) /\ IsFiniteSet(1 .. m)
      BY <1>9, <1>13, FS_Interval
    <3>2. IsFiniteSet(S)
      BY <3>1, FS_Subset
    <3>3. S \subseteq Int /\ S # {}
      BY <2>10, <3>1
    <3>4. PICK z : z = W!Max(S)
      OBVIOUS
    <3>5. z \in S /\ z >= k
      BY <2>10, <3>2, <3>3, <3>4, FiniteEnds
    <3>6. z <= k /\ z \in Int
      BY <2>11, <3>3, <3>5
    <3> QED  BY <3>4, <3>5, <3>6
  <2>13. S # {} /\ S # 1 .. m
    <3>1. 0 \in KeptHours(q)
      <4>1. Inner(q, 0) = {}
        BY <1>4, <1>6 DEF Inner
      <4>2. 0 \in W!Hours(q)
        BY <1>4, <1>5
      <4> QED  BY <4>1, <4>2 DEF KeptHours
    <3>2. PICK l \in 1 .. m : t[l].h = 0
      BY <1>7, <1>9, <3>1
    <3>3. t[l].pct = fee[n]
      BY <1>5, <1>10, <3>2
    <3>4. l \notin S
      BY <1>13, <2>6, <3>3
    <3> QED  BY <2>10, <3>4
  <2>14. W!FreeDeadline(s, start) = W!BoundaryInstant(start, s[i].until_offset_hours)
    BY <1>14, <1>19, <2>2
  <2>15. W!FreeDeadlineMs(t, start) = W!BoundaryInstant(start, t[k].h)
    BY <1>15, <2>12, <2>13
  <2> QED  BY <1>3, <2>4, <2>9, <2>14, <2>15
<1> QED  BY <1>17, <1>18, <1>19

\* SameRateAsCore of one table at one instant.
LEMMA SameRateHolds ==
  ASSUME Offsets \subseteq Nat, NEW s, NEW n, IsCore(s, n), W!ValidStages(s),
         NEW t, t = W!FromCoreStages(s, Absent), t # Unknown, NEW start \in Int, NEW when \in Int
  PROVE  /\ W!PctAt(t, start, when) = s[W!StageIndex(s, start, when)].fee_percent
         /\ W!FreeDeadlineMs(t, start) = W!FreeDeadline(s, start)
<1>1. PICK q : q = Restated(s)
  OBVIOUS
<1>2. t = W!NormalizeStages(q) /\ \A i \in DOMAIN s : s[i].fee_fixed_jpy \in {Absent, 0}
  BY <1>1, FromCore
<1>3. Falling(s, n)
  BY ValidFalls
<1>4. IsTable(q)
  BY <1>1, RestatedTable
<1>5. W!PctAt(t, start, when) = W!PctAt(q, start, when)
  BY <1>2, <1>4, ReadStored
<1>6. W!PctAt(q, start, when) = s[W!StageIndex(s, start, when)].fee_percent
  BY <1>1, <1>3, CoreRate
<1>7. W!FreeDeadlineMs(t, start) = W!FreeDeadline(s, start)
  BY <1>1, <1>2, <1>3, CoreDeadline
<1> QED  BY <1>5, <1>6, <1>7

\* The rows as a client submits them.
Raw(s) == [i \in DOMAIN s |-> [h |-> s[i].until_offset_hours, pct |-> s[i].fee_percent]]

\* CanonicalForm of one table at one instant.
LEMMA CanonicalHolds ==
  ASSUME Offsets \subseteq Nat, NEW s, NEW n, IsCore(s, n),
         NEW free \in FreeHours \cup {Absent}, NEW start \in Int, NEW when \in Int
  PROVE  LET raw == Raw(s)
             ahead == AheadOf(raw, start, when)
             t == W!FromCoreStages(s, free)
         IN /\ W!PctAt(raw, start, when) =
                 W!RateOf(raw, IF ahead = {} THEN W!Min(W!Hours(raw)) ELSE W!Max(ahead))
            /\ t # Unknown => /\ W!NormalizeStages(t) = t
                              /\ free # Absent => W!WithFreeWindowFrom(t, free) = t
<1>1. PICK raw, t : raw = Raw(s) /\ t = W!FromCoreStages(s, free)
  OBVIOUS
<1>2. IsTable(raw)
  <2>1. n \in Nat /\ n # 0 /\ DOMAIN s = 1 .. n /\ s \in [1 .. n -> W!Stage]
    BY DEF IsCore
  <2>2. DOMAIN raw = 1 .. n /\ \A i \in 1 .. n : raw[i].h = s[i].until_offset_hours
    BY <1>1, <2>1 DEF Raw
  <2>3. \A i \in 1 .. n : s[i].until_offset_hours \in Nat
    BY <2>1 DEF W!Stage
  <2>4. IsFiniteSet(1 .. n) /\ 1 \in 1 .. n /\ 1 .. n \subseteq Int
    BY <2>1, FS_Interval
  <2> QED  BY <2>2, <2>3, <2>4 DEF IsTable
<1>3. LET ahead == AheadOf(raw, start, when) IN
      W!PctAt(raw, start, when) = W!RateOf(raw, IF ahead = {} THEN W!Min(W!Hours(raw)) ELSE W!Max(ahead))
  BY <1>2, RateIsRead
<1>4. ASSUME t # Unknown
      PROVE  W!NormalizeStages(t) = t /\ (free # Absent => W!WithFreeWindowFrom(t, free) = t)
  <2>1. Final(t)
    BY <1>1, <1>4, FromCoreFinal
  <2>2. W!NormalizeStages(t) = t
    BY <2>1, FinalStays
  <2>3. ASSUME free # Absent
        PROVE  W!WithFreeWindowFrom(t, free) = t
    <3>1. PICK r : r = W!NormalizeStages(Restated(s))
      OBVIOUS
    <3>2. t = W!WithFreeWindowFrom(r, free)
      BY <1>1, <1>4, <2>3, <3>1, FromCore
    <3>3. Final(r)
      BY <1>1, <1>4, <3>1, FromCoreFinal
    <3>4. free \in Nat
      BY <2>3, WebPolicyOK DEF W!WebPolicyAssumption
    <3> QED  BY <3>2, <3>3, <3>4, WindowStays
  <2> QED  BY <2>2, <2>3
<1> QED  BY <1>1, <1>3, <1>4

\* What is known of a state: a table of stages, instants and a free boundary.
WebInv ==
  /\ stages = <<>> \/ \E n : IsCore(stages, n)
  /\ starts_at \in Int /\ at \in Int /\ freeAt \in FreeHours \cup {Absent}

\* It is known of the first state, and after every step.
LEMMA WebInvInit == W!WebInit => WebInv
<1> SUFFICES ASSUME W!WebInit PROVE WebInv
  OBVIOUS
<1>1. PICK n \in 0 .. MaxStages : stages \in [1 .. n -> W!Stage]
  BY DEF W!WebInit, W!WebInputs, W!Policies
<1>2. MaxStages \in Nat /\ Starts \subseteq Int
  BY WebPolicyOK DEF W!WebPolicyAssumption, W!PolicyConstants
<1>3. stages = <<>> \/ IsCore(stages, n)
  <2>1. CASE n = 0
    <3>1. 1 .. n = {}
      BY <2>1
    <3>2. stages = <<>>
      BY <1>1, <3>1
    <3> QED  BY <3>2
  <2>2. CASE n # 0
    BY <1>1, <1>2, <2>2 DEF IsCore
  <2> QED  BY <2>1, <2>2
<1> QED  BY <1>2, <1>3 DEF WebInv, W!WebInit

\* Only the instant changes.
LEMMA WebInvStep == WebInv /\ [W!WebPass]_(W!webVars) => WebInv'
<1> SUFFICES ASSUME WebInv, [W!WebPass]_(W!webVars) PROVE WebInv'
  OBVIOUS
<1>1. UNCHANGED <<stages, starts_at, freeAt>> /\ (at' = at + 1 \/ at' = at)
  BY DEF W!WebPass, W!Pass, W!webVars, W!vars
<1> QED  BY <1>1 DEF WebInv

\* A valid table imported from the core ledger is charged, at every instant, as it
\* is there, and is free until the same one: for every such table without an offset
\* after the start, whatever days its boundaries fall on (fromCoreStages).
THEOREM ImportedAlike ==
  ASSUME Offsets \subseteq Nat
  PROVE  W!WebSpec => []SameRateAsCore
<1>1. WebInv => SameRateAsCore
  <2> SUFFICES ASSUME WebInv, W!ValidStages(stages), NEW t, t = W!FromCoreStages(stages, Absent), t # Unknown
               PROVE  /\ W!PctAt(t, starts_at, at) = stages[W!StageIndex(stages, starts_at, at)].fee_percent
                      /\ W!FreeDeadlineMs(t, starts_at) = W!FreeDeadline(stages, starts_at)
    BY DEF SameRateAsCore, W!SameRateAsCore
  <2>1. stages # <<>>
    BY FromCore
  <2>2. PICK n : IsCore(stages, n)
    BY <2>1 DEF WebInv
  <2>3. starts_at \in Int /\ at \in Int
    BY DEF WebInv
  <2> QED  BY <2>2, <2>3, SameRateHolds
<1> QED  BY <1>1, WebInvInit, WebInvStep, PTL DEF W!WebSpec

\* The stored form of a table charges at every instant what the submitted rows say,
\* and saving it again, with or without the free window, changes nothing: for every
\* table and every free boundary (normalizeStages, withFreeWindowFrom).
THEOREM StoredFormCorrect ==
  ASSUME Offsets \subseteq Nat
  PROVE  W!WebSpec => []CanonicalForm
<1>1. WebInv => CanonicalForm
  <2> SUFFICES ASSUME WebInv PROVE CanonicalForm
    OBVIOUS
  <2>1. PICK raw, t, ahead : raw = Raw(stages) /\ t = W!FromCoreStages(stages, freeAt)
                             /\ ahead = AheadOf(raw, starts_at, at)
    OBVIOUS
  <2>2. starts_at \in Int /\ at \in Int /\ freeAt \in FreeHours \cup {Absent}
    BY DEF WebInv
  <2>3. ASSUME stages # <<>>
        PROVE  /\ W!PctAt(raw, starts_at, at) =
                    W!RateOf(raw, IF ahead = {} THEN W!Min(W!Hours(raw)) ELSE W!Max(ahead))
               /\ t # Unknown => /\ W!NormalizeStages(t) = t
                                 /\ freeAt # Absent => W!WithFreeWindowFrom(t, freeAt) = t
    <3>1. PICK n : IsCore(stages, n)
      BY <2>3 DEF WebInv
    <3> QED  BY <2>1, <2>2, <3>1, CanonicalHolds
  <2>4. t # Unknown => stages # <<>>
    BY <2>1, FromCore
  <2>5. t = W!Table
    BY <2>1 DEF W!Table
  <2> QED  BY <2>1, <2>3, <2>4, <2>5 DEF CanonicalForm, W!CanonicalForm, Raw, AheadOf
<1> QED  BY <1>1, WebInvInit, WebInvStep, PTL DEF W!WebSpec

\* A forced free window ends at exactly the text's boundary, and past it a rising
\* table never charges less than it was parsed to: for every table, free boundary
\* and instant (withFreeWindowFrom).
THEOREM FreeWindowCorrect ==
  W!WebSpec => []FreeWindowNeverUnderWarns
<1>1. WebInv => FreeWindowNeverUnderWarns
  <2> SUFFICES ASSUME WebInv, freeAt # Absent, W!Table # Unknown,
                      NEW before, before = W!FromCoreStages(stages, Absent), before # Unknown,
                      W!Table # before
               PROVE  /\ W!FreeDeadlineMs(W!Table, starts_at) = W!BoundaryInstant(starts_at, freeAt)
                      /\ W!Rising(before) /\ at > W!BoundaryInstant(starts_at, freeAt) =>
                           W!PctAt(W!Table, starts_at, at) >= W!PctAt(before, starts_at, at)
    BY DEF FreeWindowNeverUnderWarns, W!FreeWindowNeverUnderWarns
  <2>1. PICK w : w = W!FromCoreStages(stages, freeAt) /\ w = W!Table
    BY DEF W!Table
  <2>2. stages # <<>>
    BY FromCore
  <2>3. PICK n : IsCore(stages, n)
    BY <2>2 DEF WebInv
  <2>4. starts_at \in Int /\ at \in Int /\ freeAt \in FreeHours
    BY DEF WebInv
  <2>5. /\ W!FreeDeadlineMs(w, starts_at) = W!BoundaryInstant(starts_at, freeAt)
        /\ W!Rising(before) /\ at > W!BoundaryInstant(starts_at, freeAt) =>
             W!PctAt(w, starts_at, at) >= W!PctAt(before, starts_at, at)
    <3>1. w = W!FromCoreStages(stages, freeAt) /\ w # Unknown /\ w # before
      BY <2>1
    <3>2. freeAt \in FreeHours /\ starts_at \in Int /\ at \in Int
      BY <2>4
    <3> HIDE <2>1
    <3> QED  BY <2>3, <3>1, <3>2, FreeWindowHolds
  <2> QED  BY <2>1, <2>5
<1> QED  BY <1>1, WebInvInit, WebInvStep, PTL DEF W!WebSpec
=============================================================================
