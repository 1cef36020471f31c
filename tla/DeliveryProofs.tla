-------------------------- MODULE DeliveryProofs --------------------------
(***************************************************************************)
(* Proofs about Outbox, for any number of publishers, keys, attempts and   *)
(* aborts, and the one tick that Deno.cron runs at a time: a settled entry *)
(* stays as it is, and every message sent is accounted for.  Then proofs   *)
(* about GcalSync, for any number of requests, reservations, mutations and *)
(* faults: what carries no flag matches its reservation.                   *)
(***************************************************************************)
EXTENDS MCDelivery, FiniteSetTheorems, TLAPS

\* deploy/main.ts: a cron's invocations do not overlap.
OneTick == \A p, q \in Ticks : p = q

\* Keys a process will look up or is about to put.
Owned(p) == todo[p] \cup (IF pc[p] = "put" THEN {current[p].key} ELSE {})

\* Which process may have a key: the tick those that fall due, a publisher the one of
\* the event it published, which nobody publishes again.
OwnersOK ==
  /\ \A p \in Ticks : Owned(p) \subseteq DueKeys
  /\ \A p \in Publishers : Owned(p) \subseteq published
  /\ \A p, q \in Publishers, k \in Keys : k \in Owned(p) /\ k \in Owned(q) => p = q

\* What a process is doing tells what it carries.  A pass still knows what it listed:
\* entries are pending with the attempts they were listed with, each is listed once.
PassOK(p) ==
  /\ pc[p] \in {"deliver", "mark", "rejected"} => p \in Ticks
  /\ pc[p] \in {"put", "mark", "rejected"} <=> current[p] # Null
  /\ pc[p] = "put" => entry[current[p].key] = Null /\ current[p].key \notin todo[p]
  /\ batch[p] # {} => pc[p] \in {"deliver", "mark", "rejected"}
  /\ todo[p] # {} => pc[p] \in {"enqueue", "put"}
  /\ \A i \in batch[p] : entry[i.key] = [status |-> "pending", attempts |-> i.attempts]
  /\ pc[p] \in {"mark", "rejected"} =>
       /\ entry[current[p].key] = [status |-> "pending", attempts |-> current[p].attempts]
       /\ \A i \in batch[p] : i.key # current[p].key

\* The same of every process.
PassesOK == \A p \in Procs : PassOK(p)

\* An entry is given up at the limit.
PendingOK == \A k \in Keys : entry[k] # Null /\ entry[k].status = "pending" => entry[k].attempts < MaxAttempts

\* The sends of k that its entry records.
Counted(k) ==
  IF entry[k] = Null THEN 0
  ELSE entry[k].attempts + (IF entry[k].status = "delivered" THEN 1 ELSE 0)

\* The inductive invariant.
IInv == TypeOK /\ OwnersOK /\ PassesOK /\ PendingOK /\ SendsAreCounted

Labels == {"idle", "enqueue", "put", "deliver", "mark", "rejected"}

-----------------------------------------------------------------------------
\* What a process carries is an item while it is at work on one.
LEMMA AtWork ==
  ASSUME TypeOK, PassesOK, NEW p \in Procs, pc[p] \in {"put", "mark", "rejected"}
  PROVE  current[p] \in Item /\ current[p].key \in Keys /\ current[p].attempts \in 0 .. MaxAttempts - 1
<1>1. PassOK(p)
  BY DEF PassesOK
<1>2. current[p] \in Item
  BY <1>1 DEF TypeOK, PassOK
<1> QED
  BY <1>2 DEF Item

\* The types hold at the start and every step keeps them.
LEMMA InitType == ASSUME OutboxAssumption, Init PROVE TypeOK
  BY DEF Init, TypeOK, OutboxAssumption

\* No step takes a variable out of its type.
LEMMA StepType ==
  ASSUME OutboxAssumption, TypeOK, PassesOK, PendingOK, NEW p \in Procs, Work(p) \/ Publish(p) \/ Abort(p)
  PROVE  TypeOK'
<1> USE DEF Goto
<1>1. CASE StartTick(p)
  BY <1>1 DEF StartTick, TypeOK, Keys
<1>2. CASE Publish(p)
  BY <1>2 DEF Publish, TypeOK, Keys
<1>3. CASE Dedupe(p)
  <2>1. PICK k \in todo[p] :
          /\ todo' = [todo EXCEPT ![p] = @ \ {k}]
          /\ IF entry[k] # Null THEN UNCHANGED <<pc, current>>
             ELSE Goto(p, "put") /\ current' = [current EXCEPT ![p] = [key |-> k, attempts |-> 0]]
    BY <1>3 DEF Dedupe
  <2>2. [key |-> k, attempts |-> 0] \in Item
    BY DEF TypeOK, Item, OutboxAssumption
  <2>3. todo' \in [Procs -> SUBSET Keys]
    BY <2>1 DEF TypeOK
  <2> QED
    BY <1>3, <2>1, <2>2, <2>3 DEF Dedupe, TypeOK
<1>4. CASE PutPending(p)
  <2>1. current[p].key \in Keys /\ [status |-> "pending", attempts |-> 0] \in Entry
    BY <1>4, AtWork DEF PutPending, Entry, OutboxAssumption
  <2> QED
    BY <1>4, <2>1 DEF PutPending, TypeOK
<1>5. CASE PublisherDone(p)
  BY <1>5 DEF PublisherDone, TypeOK
<1>6. CASE ListPending(p)
  <2> DEFINE pending == {x \in Keys : entry[x] # Null /\ entry[x].status = "pending"}
             S == {[key |-> k, attempts |-> entry[k].attempts] : k \in pending}
  <2>1. ASSUME NEW k \in pending PROVE entry[k].attempts \in 0 .. MaxAttempts - 1
    <3>1. entry[k] \in Entry /\ entry[k].attempts < MaxAttempts
      BY DEF TypeOK, PendingOK
    <3> QED
      BY <3>1 DEF Entry, OutboxAssumption
  <2>2. S \subseteq Item
    BY <2>1 DEF Item
  <2> QED
    BY <1>6, <2>2 DEF ListPending, TypeOK
<1>7. CASE Deliver(p)
  <2>1. PICK i \in batch[p] :
          /\ batch' = [batch EXCEPT ![p] = @ \ {i}]
          /\ current' = [current EXCEPT ![p] = i]
          /\ \/ Accepts(i.key) /\ Goto(p, "mark")
             \/ UNCHANGED sent /\ Goto(p, "rejected")
    BY <1>7 DEF Deliver
  <2>2. i \in Item /\ i.key \in Keys
    BY DEF TypeOK, Item
  <2>3. sent' \in [Keys -> Nat]
    BY <2>1, <2>2 DEF Accepts, TypeOK
  <2>4. batch' \in [Procs -> SUBSET Item] /\ current' \in [Procs -> Item \cup {Null}]
    BY <2>1, <2>2 DEF TypeOK
  <2> QED
    BY <1>7, <2>1, <2>3, <2>4 DEF Deliver, TypeOK
<1>8. CASE MarkDelivered(p)
  <2>1. /\ current[p].key \in Keys
        /\ [status |-> "delivered", attempts |-> current[p].attempts] \in Entry
    BY <1>8, AtWork DEF MarkDelivered, Entry, OutboxAssumption
  <2> QED
    BY <1>8, <2>1 DEF MarkDelivered, TypeOK
<1>9. CASE MarkThrows(p)
  BY <1>9 DEF MarkThrows, TypeOK
<1>10. CASE MarkRejected(p)
  <2> DEFINE n == current[p].attempts + 1
  <2>1. /\ current[p].key \in Keys
        /\ [status |-> IF n >= MaxAttempts THEN "failed" ELSE "pending", attempts |-> n] \in Entry
    BY <1>10, AtWork DEF MarkRejected, Entry, OutboxAssumption
  <2> QED
    BY <1>10, <2>1 DEF MarkRejected, TypeOK
<1>11. CASE EndPass(p)
  BY <1>11 DEF EndPass, TypeOK
<1>12. CASE Abort(p)
  BY <1>12 DEF Abort, TypeOK, OutboxAssumption
<1> QED
  BY <1>1, <1>2, <1>3, <1>4, <1>5, <1>6, <1>7, <1>8, <1>9, <1>10, <1>11, <1>12 DEF Work

\* A pending entry has attempts left.
LEMMA StepPending ==
  ASSUME OutboxAssumption, TypeOK, PassesOK, PendingOK, NEW p \in Procs, Work(p) \/ Publish(p) \/ Abort(p)
  PROVE  PendingOK'
<1>1. CASE UNCHANGED entry
  BY <1>1 DEF PendingOK
<1>2. ASSUME NEW k \in Keys, NEW e \in Entry, entry' = [entry EXCEPT ![k] = e],
             e.status = "pending" => e.attempts < MaxAttempts
      PROVE  PendingOK'
  BY <1>2 DEF PendingOK, TypeOK
<1>3. CASE PutPending(p)
  <2> DEFINE e == [status |-> "pending", attempts |-> 0]
  <2>1. current[p].key \in Keys /\ e \in Entry
    BY <1>3, AtWork DEF PutPending, Entry, OutboxAssumption
  <2>2. e.attempts < MaxAttempts
    BY DEF OutboxAssumption
  <2>3. entry' = [entry EXCEPT ![current[p].key] = e]
    BY <1>3 DEF PutPending
  <2> QED
    BY <1>2, <2>1, <2>2, <2>3
<1>4. CASE MarkDelivered(p)
  <2>1. /\ current[p].key \in Keys
        /\ [status |-> "delivered", attempts |-> current[p].attempts] \in Entry
    BY <1>4, AtWork DEF MarkDelivered, Entry, OutboxAssumption
  <2> QED
    BY <1>2, <1>4, <2>1 DEF MarkDelivered
<1>5. CASE MarkRejected(p)
  <2> DEFINE n == current[p].attempts + 1
             e == [status |-> IF n >= MaxAttempts THEN "failed" ELSE "pending", attempts |-> n]
  <2>1. current[p].key \in Keys /\ e \in Entry /\ n \in Nat
    BY <1>5, AtWork DEF MarkRejected, Entry, OutboxAssumption
  <2>2. e.status = "pending" => e.attempts < MaxAttempts
    BY <2>1 DEF OutboxAssumption
  <2>3. entry' = [entry EXCEPT ![current[p].key] = e]
    BY <1>5 DEF MarkRejected
  <2> QED
    BY <1>2, <2>1, <2>2, <2>3
<1> QED
  BY <1>1, <1>3, <1>4, <1>5
  DEF Work, StartTick, Publish, Dedupe, PublisherDone, ListPending, Deliver, MarkThrows, EndPass, Abort

-----------------------------------------------------------------------------
\* Owned keys do not move to another process.
LEMMA StepOwners ==
  ASSUME OutboxAssumption, TypeOK, OwnersOK, PassesOK, NEW p \in Procs, Work(p) \/ Publish(p) \/ Abort(p)
  PROVE  OwnersOK'
<1> USE DEF Goto
<1>0. PassOK(p)
  BY DEF PassesOK
<1>1. ASSUME published' = published,
             \A q \in Procs : Owned(q)' \subseteq Owned(q)
      PROVE  OwnersOK'
  BY <1>1 DEF OwnersOK, Procs
<1>2. CASE StartTick(p)
  <2>1. /\ p \in Ticks /\ p \notin Publishers /\ Owned(p)' \subseteq DueKeys
        /\ \A q \in Procs \ {p} : Owned(q)' = Owned(q)
        /\ published' = published
    BY <1>2 DEF StartTick, Owned, TypeOK, OutboxAssumption, Keys
  <2> QED
    BY <2>1 DEF OwnersOK, Procs
<1>3. CASE Publish(p)
  <2>1. PICK k \in EventKeys \ published :
          todo' = [todo EXCEPT ![p] = {k}] /\ published' = published \cup {k}
    BY <1>3 DEF Publish
  <2>2. /\ p \in Publishers /\ p \notin Ticks /\ Owned(p)' = {k}
        /\ \A q \in Procs \ {p} : Owned(q)' = Owned(q)
    BY <1>3, <2>1 DEF Publish, Owned, TypeOK, OutboxAssumption, Keys
  <2> QED
    BY <2>1, <2>2 DEF OwnersOK, Procs
<1>4. CASE Dedupe(p)
  <2>1. PICK k \in todo[p] :
          /\ todo' = [todo EXCEPT ![p] = @ \ {k}]
          /\ IF entry[k] # Null THEN UNCHANGED <<pc, current>>
             ELSE Goto(p, "put") /\ current' = [current EXCEPT ![p] = [key |-> k, attempts |-> 0]]
    BY <1>4 DEF Dedupe
  <2>2. pc[p] = "enqueue" /\ published' = published
    BY <1>4 DEF Dedupe
  <2>3. \A q \in Procs \ {p} : Owned(q)' = Owned(q)
    BY <2>1 DEF Owned, TypeOK
  <2>4. Owned(p)' \subseteq Owned(p)
    BY <2>1, <2>2 DEF Owned, TypeOK
  <2> QED
    BY <1>1, <2>2, <2>3, <2>4
<1>5. CASE PutPending(p) \/ PublisherDone(p) \/ ListPending(p) \/ MarkDelivered(p) \/ MarkThrows(p)
           \/ MarkRejected(p) \/ EndPass(p) \/ Abort(p)
  <2>1. published' = published /\ \A q \in Procs : todo'[q] \subseteq todo[q]
    BY <1>5 DEF PutPending, PublisherDone, ListPending, MarkDelivered, MarkThrows, MarkRejected, EndPass,
                Abort, TypeOK
  <2>2. pc'[p] # "put" /\ \A q \in Procs \ {p} : pc'[q] = pc[q] /\ current'[q] = current[q]
    BY <1>5 DEF PutPending, PublisherDone, ListPending, MarkDelivered, MarkThrows, MarkRejected, EndPass,
                Abort, TypeOK
  <2>3. \A q \in Procs : Owned(q)' \subseteq Owned(q)
    BY <2>1, <2>2 DEF Owned
  <2> QED
    BY <1>1, <2>1, <2>3
<1>6. CASE Deliver(p)
  <2>1. /\ published' = published /\ todo' = todo /\ pc'[p] # "put"
        /\ \A q \in Procs \ {p} : pc'[q] = pc[q] /\ current'[q] = current[q]
    BY <1>6 DEF Deliver, TypeOK
  <2>2. \A q \in Procs : Owned(q)' \subseteq Owned(q)
    BY <2>1 DEF Owned
  <2> QED
    BY <1>1, <2>1, <2>2
<1> QED
  BY <1>2, <1>3, <1>4, <1>5, <1>6 DEF Work

\* Somebody who is about to put a key has it to himself: no other process will look it
\* up or put it.
LEMMA OwnKey ==
  ASSUME OutboxAssumption, TypeOK, OwnersOK, OneTick, NEW p \in Procs, NEW q \in Procs, NEW k \in Keys,
         k \in Owned(p), k \in Owned(q)
  PROVE  p = q
<1>1. CASE p \in Ticks /\ q \in Ticks
  BY <1>1 DEF OneTick
<1>2. CASE p \in Publishers /\ q \in Publishers
  BY <1>2 DEF OwnersOK
<1>3. \A x \in Ticks : k \in Owned(x) => k \in DueKeys
  BY DEF OwnersOK
<1>4. \A x \in Publishers : k \in Owned(x) => k \in EventKeys
  BY DEF OwnersOK, TypeOK
<1> QED
  BY <1>1, <1>2, <1>3, <1>4 DEF Procs, OutboxAssumption

-----------------------------------------------------------------------------
\* What a process that does not move knows stays true unless an entry it is about
\* changes.
LEMMA Undisturbed ==
  ASSUME TypeOK, PassesOK, NEW q \in Procs, NEW K \in Keys,
         pc'[q] = pc[q], current'[q] = current[q], batch'[q] = batch[q], todo'[q] = todo[q],
         \A k \in Keys \ {K} : entry'[k] = entry[k],
         entry'[K] = entry[K] \/ (/\ current[q] # Null => current[q].key # K
                                 /\ \A i \in batch[q] : i.key # K)
  PROVE  PassOK(q)'
<1>1. PassOK(q)
  BY DEF PassesOK
<1>2. \A i \in batch[q] : i.key \in Keys /\ entry'[i.key] = entry[i.key]
  BY DEF TypeOK, Item
<1>3. pc[q] \in {"put", "mark", "rejected"} =>
        current[q].key \in Keys /\ entry'[current[q].key] = entry[current[q].key]
  BY <1>1, AtWork DEF PassOK
<1> QED
  BY <1>1, <1>2, <1>3 DEF PassOK

\* A process that writes an entry disturbs no other: the key it puts is its own and was
\* not there; and there is only one pass.
LEMMA WriterAlone ==
  ASSUME OutboxAssumption, OneTick, TypeOK, OwnersOK, PassesOK, NEW p \in Procs, NEW q \in Procs \ {p},
         pc[p] \in {"put", "mark", "rejected"}
  PROVE  LET K == current[p].key IN
           /\ current[q] # Null => current[q].key # K
           /\ \A i \in batch[q] : i.key # K
<1> DEFINE K == current[p].key
<1>1. PassOK(p) /\ PassOK(q) /\ K \in Keys
  BY AtWork DEF PassesOK
<1>2. ASSUME NEW k \in Keys, NEW n \in 0 .. MaxAttempts, entry[k] = [status |-> "pending", attempts |-> n]
      PROVE  entry[k] # Null
  BY <1>2 DEF OutboxAssumption, Entry
<1>3. CASE pc[p] = "put"
  <2>1. entry[K] = Null /\ K \in Owned(p)
    BY <1>1, <1>3 DEF PassOK, Owned
  <2>2. ASSUME NEW i \in batch[q] PROVE i.key # K
    <3>1. i.key \in Keys /\ i.attempts \in 0 .. MaxAttempts
      BY DEF TypeOK, Item, OutboxAssumption
    <3>2. entry[i.key] = [status |-> "pending", attempts |-> i.attempts]
      BY <1>1 DEF PassOK
    <3> QED
      BY <1>2, <2>1, <3>1, <3>2
  <2>3. ASSUME pc[q] \in {"mark", "rejected"} PROVE current[q].key # K
    <3>1. current[q].key \in Keys /\ current[q].attempts \in 0 .. MaxAttempts
      BY <2>3, AtWork DEF OutboxAssumption
    <3>2. entry[current[q].key] = [status |-> "pending", attempts |-> current[q].attempts]
      BY <1>1, <2>3 DEF PassOK
    <3> QED
      BY <1>2, <2>1, <3>1, <3>2
  <2>4. ASSUME pc[q] = "put", current[q].key = K PROVE FALSE
    BY <1>1, <2>1, <2>4, OwnKey DEF Owned
  <2>5. current[q] # Null => pc[q] \in {"put", "mark", "rejected"}
    BY <1>1 DEF PassOK
  <2> QED
    BY <2>2, <2>3, <2>4, <2>5
<1>4. CASE pc[p] \in {"mark", "rejected"}
  <2>1. p \in Ticks /\ q \notin Ticks
    BY <1>1, <1>4 DEF PassOK, OneTick
  <2>2. batch[q] = {} /\ (current[q] # Null => pc[q] = "put")
    BY <1>1, <2>1 DEF PassOK
  <2>3. entry[K] # Null
    <3>1. current[p].attempts \in 0 .. MaxAttempts
      BY <1>4, AtWork DEF OutboxAssumption
    <3>2. entry[K] = [status |-> "pending", attempts |-> current[p].attempts]
      BY <1>1, <1>4 DEF PassOK
    <3> QED
      BY <1>1, <1>2, <3>1, <3>2
  <2>4. pc[q] = "put" => entry[current[q].key] = Null
    BY <1>1 DEF PassOK
  <2> QED
    BY <2>2, <2>3, <2>4
<1> QED
  BY <1>3, <1>4

\* Every step leaves each process with what it may rely on.
LEMMA StepPasses ==
  ASSUME OutboxAssumption, OneTick, TypeOK, OwnersOK, PassesOK, NEW p \in Procs, Work(p) \/ Publish(p) \/ Abort(p)
  PROVE  PassesOK'
<1> USE DEF Goto
<1>0. PassOK(p)
  BY DEF PassesOK
<1>1. ASSUME entry' = entry, PassOK(p)',
             \A q \in Procs \ {p} : /\ pc'[q] = pc[q] /\ current'[q] = current[q]
                                    /\ batch'[q] = batch[q] /\ todo'[q] = todo[q]
      PROVE  PassesOK'
  <2>1. \A q \in Procs \ {p} : PassOK(q)'
    BY <1>1 DEF PassesOK, PassOK
  <2> QED
    BY <1>1, <2>1 DEF PassesOK
<1>2. ASSUME NEW e \in Entry, entry' = [entry EXCEPT ![current[p].key] = e],
             current' = [current EXCEPT ![p] = Null], UNCHANGED <<todo, batch>>,
             pc[p] \in {"put", "mark", "rejected"},
             \/ pc[p] = "put" /\ Goto(p, "enqueue")
             \/ pc[p] # "put" /\ Goto(p, "deliver")
      PROVE  PassesOK'
  <2> DEFINE K == current[p].key
  <2>1. /\ K \in Keys
        /\ \A k \in Keys \ {K} : entry'[k] = entry[k]
    BY <1>2, AtWork DEF TypeOK
  <2>2. ASSUME NEW q \in Procs \ {p} PROVE PassOK(q)'
    <3>1. /\ pc'[q] = pc[q] /\ current'[q] = current[q]
          /\ batch'[q] = batch[q] /\ todo'[q] = todo[q]
      BY <1>2 DEF TypeOK
    <3>2. (current[q] # Null => current[q].key # K) /\ \A i \in batch[q] : i.key # K
      BY <1>2, WriterAlone
    <3> QED
      BY <2>1, <3>1, <3>2, Undisturbed
  <2>3. current'[p] = Null /\ batch'[p] = batch[p] /\ todo'[p] = todo[p]
    BY <1>2 DEF TypeOK
  <2>4. CASE pc[p] = "put"
    <3>1. pc'[p] = "enqueue" /\ batch[p] = {}
      BY <1>0, <1>2, <2>4 DEF PassOK, TypeOK
    <3> QED
      BY <2>2, <2>3, <3>1 DEF PassesOK, PassOK
  <2>5. CASE pc[p] # "put"
    <3>1. /\ pc'[p] = "deliver" /\ todo[p] = {} /\ p \in Ticks
          /\ \A i \in batch[p] : i.key # K
      BY <1>0, <1>2, <2>5 DEF PassOK, TypeOK
    <3>2. \A i \in batch[p] : i.key \in Keys /\ entry'[i.key] = entry[i.key]
      BY <2>1, <3>1 DEF TypeOK, Item
    <3>3. PassOK(p)'
      BY <1>0, <2>3, <3>1, <3>2 DEF PassOK
    <3> QED
      BY <2>2, <3>3 DEF PassesOK
  <2> QED
    BY <2>4, <2>5
<1>3. CASE StartTick(p) \/ Publish(p)
  <2>1. /\ pc'[p] = "enqueue" /\ batch'[p] = {} /\ current'[p] = Null
    BY <1>0, <1>3 DEF StartTick, Publish, PassOK, TypeOK
  <2>2. PassOK(p)'
    BY <2>1 DEF PassOK
  <2> QED
    BY <1>1, <1>3, <2>2 DEF StartTick, Publish, TypeOK
<1>4. CASE Dedupe(p)
  <2>1. PICK k \in todo[p] :
          /\ todo' = [todo EXCEPT ![p] = @ \ {k}]
          /\ IF entry[k] # Null THEN UNCHANGED <<pc, current>>
             ELSE Goto(p, "put") /\ current' = [current EXCEPT ![p] = [key |-> k, attempts |-> 0]]
    BY <1>4 DEF Dedupe
  <2>2. pc[p] = "enqueue" /\ UNCHANGED <<entry, batch>>
    BY <1>4 DEF Dedupe
  <2>3. batch'[p] = {} /\ todo'[p] = todo[p] \ {k}
    BY <1>0, <2>1, <2>2 DEF PassOK, TypeOK
  <2>4. PassOK(p)'
    <3>1. CASE entry[k] # Null
      BY <1>0, <2>1, <2>2, <2>3, <3>1 DEF PassOK
    <3>2. CASE entry[k] = Null
      <4> DEFINE i == [key |-> k, attempts |-> 0]
      <4>1. pc'[p] = "put" /\ current'[p] = i
        BY <2>1, <3>2 DEF TypeOK
      <4>2. i \in Item
        BY DEF TypeOK, Item, OutboxAssumption
      <4>3. i # Null
        BY <4>2 DEF OutboxAssumption
      <4> QED
        BY <2>2, <2>3, <3>2, <4>1, <4>3 DEF PassOK
    <3> QED
      BY <3>1, <3>2
  <2>5. \A q \in Procs \ {p} : /\ pc'[q] = pc[q] /\ current'[q] = current[q]
                                /\ batch'[q] = batch[q] /\ todo'[q] = todo[q]
    BY <2>1, <2>2 DEF TypeOK
  <2> QED
    BY <1>1, <2>2, <2>4, <2>5
<1>5. CASE PutPending(p)
  <2>1. [status |-> "pending", attempts |-> 0] \in Entry
    BY DEF Entry, OutboxAssumption
  <2> QED
    BY <1>2, <1>5, <2>1 DEF PutPending
<1>6. CASE PublisherDone(p) \/ EndPass(p)
  <2>1. pc'[p] = "idle" /\ batch'[p] = {} /\ todo'[p] = {} /\ current'[p] = Null
    BY <1>0, <1>6 DEF PublisherDone, EndPass, PassOK, TypeOK
  <2>2. PassOK(p)'
    BY <2>1 DEF PassOK
  <2> QED
    BY <1>1, <1>6, <2>2 DEF PublisherDone, EndPass, TypeOK
<1>7. CASE ListPending(p)
  <2> DEFINE pending == {x \in Keys : entry[x] # Null /\ entry[x].status = "pending"}
             S == {[key |-> k, attempts |-> entry[k].attempts] : k \in pending}
  <2>1. /\ pc'[p] = "deliver" /\ batch'[p] = S /\ current'[p] = Null /\ todo'[p] = {} /\ p \in Ticks
        /\ entry' = entry
    BY <1>0, <1>7 DEF ListPending, PassOK, TypeOK
  <2>2. ASSUME NEW k \in pending PROVE entry[k] = [status |-> "pending", attempts |-> entry[k].attempts]
    BY DEF TypeOK, Entry
  <2>3. \A i \in S : entry[i.key] = [status |-> "pending", attempts |-> i.attempts]
    BY <2>2
  <2>4. PassOK(p)'
    BY <2>1, <2>3 DEF PassOK
  <2> QED
    BY <1>1, <1>7, <2>4 DEF ListPending, TypeOK
<1>8. CASE Deliver(p)
  <2>1. PICK i \in batch[p] :
          /\ batch' = [batch EXCEPT ![p] = @ \ {i}]
          /\ current' = [current EXCEPT ![p] = i]
          /\ Goto(p, "mark") \/ Goto(p, "rejected")
    BY <1>8 DEF Deliver
  <2>2. UNCHANGED <<entry, todo>> /\ pc[p] = "deliver"
    BY <1>8 DEF Deliver
  <2>3. i \in Item /\ i # Null
    BY DEF TypeOK, OutboxAssumption
  <2>4. \A j \in batch[p] : entry[j.key] = [status |-> "pending", attempts |-> j.attempts]
    BY <1>0 DEF PassOK
  <2>5. ASSUME NEW j \in batch[p] \ {i} PROVE j.key # i.key
    <3>1. j \in Item
      BY DEF TypeOK
    <3>2. ASSUME j.key = i.key PROVE j.attempts = i.attempts
      <4>1. [status |-> "pending", attempts |-> j.attempts] = [status |-> "pending", attempts |-> i.attempts]
        BY <2>4, <3>2
      <4> QED
        BY <4>1
    <3>3. j.key = i.key => j = i
      BY <2>3, <3>1, <3>2 DEF Item
    <3> QED
      BY <3>3
  <2>6. /\ pc'[p] \in {"mark", "rejected"} /\ current'[p] = i /\ batch'[p] = batch[p] \ {i}
        /\ todo'[p] = {} /\ p \in Ticks
    BY <1>0, <2>1, <2>2 DEF TypeOK, PassOK
  <2>7. PassOK(p)'
    BY <2>2, <2>3, <2>4, <2>5, <2>6 DEF PassOK
  <2>8. \A q \in Procs \ {p} : /\ pc'[q] = pc[q] /\ current'[q] = current[q]
                                /\ batch'[q] = batch[q] /\ todo'[q] = todo[q]
    BY <2>1, <2>2 DEF TypeOK
  <2> QED
    BY <1>1, <2>2, <2>7, <2>8
<1>9. CASE MarkDelivered(p)
  <2>1. [status |-> "delivered", attempts |-> current[p].attempts] \in Entry
    BY <1>9, AtWork DEF MarkDelivered, Entry, OutboxAssumption
  <2> QED
    BY <1>2, <1>9, <2>1 DEF MarkDelivered
<1>10. CASE MarkThrows(p)
  <2>1. PassOK(p)'
    BY <1>0, <1>10 DEF MarkThrows, PassOK, TypeOK
  <2> QED
    BY <1>1, <1>10, <2>1 DEF MarkThrows, TypeOK
<1>11. CASE MarkRejected(p)
  <2> DEFINE n == current[p].attempts + 1
  <2>1. [status |-> IF n >= MaxAttempts THEN "failed" ELSE "pending", attempts |-> n] \in Entry
    BY <1>11, AtWork DEF MarkRejected, Entry, OutboxAssumption
  <2> QED
    BY <1>2, <1>11, <2>1 DEF MarkRejected
<1>12. CASE Abort(p)
  <2>1. pc'[p] = "idle" /\ batch'[p] = {} /\ todo'[p] = {} /\ current'[p] = Null
    BY <1>12 DEF Abort, TypeOK
  <2>2. PassOK(p)'
    BY <2>1 DEF PassOK
  <2> QED
    BY <1>1, <1>12, <2>2 DEF Abort, TypeOK
<1> QED
  BY <1>3, <1>4, <1>5, <1>6, <1>7, <1>8, <1>9, <1>10, <1>11, <1>12 DEF Work

-----------------------------------------------------------------------------
\* One tick: a set of ticks is empty or a singleton.
LEMMA AtMostOne ==
  ASSUME OneTick, NEW S \in SUBSET Ticks
  PROVE  Cardinality(S) = IF S = {} THEN 0 ELSE 1
<1>1. CASE S = {}
  BY <1>1, FS_EmptySet
<1>2. CASE S # {}
  <2>1. PICK t \in S : S = {t}
    BY <1>2 DEF OneTick
  <2> QED
    BY <1>2, <2>1, FS_Singleton
<1> QED
  BY <1>1, <1>2

\* Only the tick has messages in flight, one at a time.
LEMMA FlightSize ==
  ASSUME OneTick, PassesOK, NEW k \in Keys
  PROVE  Cardinality(InFlight(k)) = IF InFlight(k) = {} THEN 0 ELSE 1
<1>1. InFlight(k) \subseteq Ticks
  BY DEF InFlight, PassesOK, PassOK
<1> QED
  BY <1>1, AtMostOne

\* What the channel took, against what is recorded or about to be.
Accounted(k, flying) == sent[k] <= Counted(k) + (IF flying = {} THEN 0 ELSE 1) + aborts

\* SendsAreCounted without cardinalities.
LEMMA Accounting ==
  ASSUME OneTick, PassesOK
  PROVE  SendsAreCounted <=> \A k \in Keys : Accounted(k, InFlight(k))
  BY FlightSize DEF SendsAreCounted, Accounted, Counted

\* Every send is recorded, about to be recorded, or was cut short.
LEMMA StepSends ==
  ASSUME OutboxAssumption, OneTick, IInv, TypeOK', PassesOK', NEW p \in Procs, Work(p) \/ Publish(p) \/ Abort(p)
  PROVE  SendsAreCounted'
<1> USE DEF IInv, Goto
<1>0. /\ PassOK(p)
      /\ \A k \in Keys : Accounted(k, InFlight(k))
      /\ \A k \in Keys : Cardinality(InFlight(k))' = IF InFlight(k)' = {} THEN 0 ELSE 1
  <2>1. \A k \in Keys : InFlight(k)' \subseteq Ticks
    BY DEF InFlight, PassesOK, PassOK
  <2>2. \A k \in Keys : Cardinality(InFlight(k)') = IF InFlight(k)' = {} THEN 0 ELSE 1
    BY <2>1, AtMostOne
  <2> QED
    BY <2>2, Accounting DEF PassesOK
<1>1. SUFFICES ASSUME NEW k \in Keys PROVE Accounted(k, InFlight(k))'
  BY <1>0 DEF SendsAreCounted, Accounted, Counted
<1>2. /\ sent[k] \in Nat /\ sent'[k] \in Nat /\ aborts \in Nat /\ aborts' \in Nat
      /\ entry[k] \in Entry \cup {Null} /\ entry'[k] \in Entry \cup {Null}
      /\ Counted(k) \in Nat /\ Counted(k)' \in Nat
  <2>1. /\ sent[k] \in Nat /\ sent'[k] \in Nat /\ aborts \in Nat /\ aborts' \in Nat
        /\ entry[k] \in Entry \cup {Null} /\ entry'[k] \in Entry \cup {Null}
    BY DEF TypeOK, OutboxAssumption
  <2> QED
    BY <2>1 DEF Counted, Entry, OutboxAssumption
<1>3. ASSUME entry'[k] = entry[k], sent'[k] = sent[k], aborts' = aborts,
             InFlight(k) # {} => InFlight(k)' # {}
      PROVE  Accounted(k, InFlight(k))'
  <2>1. Counted(k)' = Counted(k)
    BY <1>3 DEF Counted
  <2> QED
    BY <1>0, <1>2, <1>3, <2>1 DEF Accounted
<1>4. ASSUME UNCHANGED <<entry, sent, aborts>>,
             pc[p] \notin {"mark", "rejected"},
             \A q \in Procs \ {p} : pc'[q] = pc[q] /\ current'[q] = current[q]
      PROVE  Accounted(k, InFlight(k))'
  <2>1. InFlight(k) \subseteq InFlight(k)'
    BY <1>4 DEF InFlight
  <2> QED
    BY <1>3, <1>4, <2>1
<1>5. CASE StartTick(p) \/ Publish(p) \/ Dedupe(p) \/ PublisherDone(p) \/ ListPending(p) \/ EndPass(p)
  <2>1. \A q \in Procs \ {p} : pc'[q] = pc[q] /\ current'[q] = current[q]
    BY <1>5 DEF StartTick, Publish, Dedupe, PublisherDone, ListPending, EndPass, TypeOK
  <2> QED
    BY <1>4, <1>5, <2>1 DEF StartTick, Publish, Dedupe, PublisherDone, ListPending, EndPass
<1>6. CASE PutPending(p)
  <2> DEFINE K == current[p].key
  <2>1. /\ K \in Keys /\ entry[K] = Null /\ pc[p] = "put"
        /\ entry' = [entry EXCEPT ![K] = [status |-> "pending", attempts |-> 0]]
        /\ UNCHANGED <<sent, aborts>>
    BY <1>0, <1>6, AtWork DEF PutPending, PassOK
  <2>2. InFlight(k) \subseteq InFlight(k)'
    BY <1>6 DEF PutPending, InFlight, TypeOK
  <2>3. Counted(k)' = Counted(k)
    BY <2>1 DEF Counted, TypeOK
  <2> QED
    BY <1>0, <1>2, <2>1, <2>2, <2>3 DEF Accounted
<1>7. CASE Deliver(p)
  <2>1. PICK i \in batch[p] :
          /\ current' = [current EXCEPT ![p] = i]
          /\ \/ Accepts(i.key) /\ Goto(p, "mark")
             \/ UNCHANGED sent /\ Goto(p, "rejected")
    BY <1>7 DEF Deliver
  <2>2. i \in Item /\ i # Null /\ i.key \in Keys
    BY DEF TypeOK, OutboxAssumption, Item
  <2>3. /\ pc[p] = "deliver" /\ pc'[p] \in {"mark", "rejected"} /\ current'[p] = i /\ current[p] = Null
        /\ \A q \in Procs \ {p} : pc'[q] = pc[q] /\ current'[q] = current[q]
        /\ UNCHANGED <<entry, aborts>> /\ p \in Ticks
    BY <1>0, <1>7, <2>1 DEF Deliver, TypeOK, PassOK
  <2>4. CASE k # i.key
    <3>1. sent'[k] = sent[k]
      BY <2>1, <2>4 DEF Accepts, TypeOK
    <3>2. InFlight(k) \subseteq InFlight(k)'
      BY <2>3 DEF InFlight
    <3> QED
      BY <1>3, <2>3, <3>1, <3>2
  <2>5. CASE k = i.key
    <3>1. sent'[k] <= sent[k] + 1
      BY <1>2, <2>1, <2>2, <2>5 DEF Accepts, TypeOK
    <3>2. ASSUME NEW q \in InFlight(k) PROVE FALSE
      <4>1. q \in Procs /\ pc[q] \in {"mark", "rejected"}
        BY DEF InFlight
      <4>2. q \in Ticks
        BY <4>1 DEF PassesOK, PassOK
      <4> QED
        BY <2>3, <4>1, <4>2 DEF OneTick
    <3>3. p \in InFlight(k)'
      BY <2>2, <2>3, <2>5 DEF InFlight
    <3>4. Counted(k)' = Counted(k)
      BY <2>3 DEF Counted
    <3> QED
      BY <1>0, <1>2, <2>3, <3>1, <3>2, <3>3, <3>4 DEF Accounted
  <2> QED
    BY <2>4, <2>5
<1>8. CASE MarkDelivered(p) \/ MarkRejected(p)
  <2> DEFINE K == current[p].key
             n == current[p].attempts
  <2>1. /\ K \in Keys /\ n \in Nat /\ pc[p] \in {"mark", "rejected"}
        /\ entry[K] = [status |-> "pending", attempts |-> n]
        /\ UNCHANGED <<sent, aborts>>
    BY <1>0, <1>8, AtWork DEF MarkDelivered, MarkRejected, PassOK, OutboxAssumption
  <2>2. PICK e \in Entry :
          /\ entry' = [entry EXCEPT ![K] = e]
          /\ e.attempts + (IF e.status = "delivered" THEN 1 ELSE 0) = n + 1
    <3>1. CASE MarkDelivered(p)
      <4> DEFINE e == [status |-> "delivered", attempts |-> n]
      <4>1. e \in Entry
        BY <3>1, AtWork DEF MarkDelivered, Entry, OutboxAssumption
      <4>2. e.attempts + (IF e.status = "delivered" THEN 1 ELSE 0) = n + 1
        OBVIOUS
      <4>3. entry' = [entry EXCEPT ![K] = e]
        BY <3>1 DEF MarkDelivered
      <4> QED
        BY <4>1, <4>2, <4>3
    <3>2. CASE MarkRejected(p)
      <4> DEFINE e == [status |-> IF n + 1 >= MaxAttempts THEN "failed" ELSE "pending", attempts |-> n + 1]
      <4>1. e \in Entry
        BY <3>2, AtWork DEF MarkRejected, Entry, OutboxAssumption
      <4>2. e.attempts + (IF e.status = "delivered" THEN 1 ELSE 0) = n + 1
        BY <2>1
      <4>3. entry' = [entry EXCEPT ![K] = e]
        BY <3>2 DEF MarkRejected
      <4> QED
        BY <4>1, <4>2, <4>3
    <3> QED
      BY <1>8, <3>1, <3>2
  <2>3. \A q \in Procs \ {p} : pc'[q] = pc[q] /\ current'[q] = current[q]
    BY <1>8 DEF MarkDelivered, MarkRejected, TypeOK
  <2>4. CASE k # K
    <3>1. p \notin InFlight(k)
      BY <2>4 DEF InFlight
    <3>2. InFlight(k) \subseteq InFlight(k)'
      BY <2>3, <3>1 DEF InFlight
    <3>3. entry'[k] = entry[k]
      BY <2>2, <2>4 DEF TypeOK
    <3> QED
      BY <1>3, <2>1, <3>2, <3>3
  <2>5. CASE k = K
    <3>1. entry[k] # Null /\ entry'[k] = e /\ e # Null
      BY <1>2, <2>1, <2>2, <2>5 DEF TypeOK, OutboxAssumption, Entry
    <3>2. Counted(k) = n /\ Counted(k)' = n + 1
      BY <2>1, <2>2, <2>5, <3>1 DEF Counted
    <3> QED
      BY <1>0, <1>2, <2>1, <3>2 DEF Accounted
  <2> QED
    BY <2>4, <2>5
<1>9. CASE MarkThrows(p)
  <2>1. InFlight(k) \subseteq InFlight(k)'
    BY <1>9 DEF MarkThrows, InFlight, TypeOK
  <2> QED
    BY <1>3, <1>9, <2>1 DEF MarkThrows
<1>10. CASE Abort(p)
  <2>1. aborts' = aborts + 1 /\ UNCHANGED <<entry, sent>>
    BY <1>10 DEF Abort
  <2>2. Counted(k)' = Counted(k)
    BY <2>1 DEF Counted
  <2> QED
    BY <1>0, <1>2, <2>1, <2>2 DEF Accounted
<1> QED
  BY <1>5, <1>6, <1>7, <1>8, <1>9, <1>10 DEF Work

-----------------------------------------------------------------------------
\* The inductive invariant, for one tick and any number of publishers, keys, attempts and
\* aborts.
THEOREM Invariance == OutboxAssumption /\ OneTick => (Spec => []IInv)
<1> SUFFICES ASSUME OutboxAssumption, OneTick PROVE Spec => []IInv
  OBVIOUS
<1>1. Init => IInv
  <2> SUFFICES ASSUME Init PROVE IInv
    OBVIOUS
  <2>1. TypeOK
    BY InitType
  <2>2. OwnersOK /\ PassesOK /\ PendingOK
    BY DEF Init, OwnersOK, Owned, PassesOK, PassOK, PendingOK, Procs
  <2>3. \A k \in Keys : Accounted(k, InFlight(k))
    BY DEF Init, Accounted, Counted
  <2> QED
    BY <2>1, <2>2, <2>3, Accounting DEF IInv
<1>2. IInv /\ [Next]_vars => IInv'
  <2> SUFFICES ASSUME IInv, [Next]_vars PROVE IInv'
    OBVIOUS
  <2>1. CASE UNCHANGED vars
    BY <2>1 DEF vars, IInv, TypeOK, OwnersOK, Owned, PassesOK, PassOK, PendingOK, SendsAreCounted, InFlight
  <2>2. ASSUME NEW p \in Procs, Work(p) \/ Publish(p) \/ Abort(p) PROVE IInv'
    <3>1. TypeOK' /\ PendingOK'
      BY <2>2, StepType, StepPending DEF IInv
    <3>2. OwnersOK' /\ PassesOK'
      BY <2>2, StepOwners, StepPasses DEF IInv
    <3> QED
      BY <2>2, <3>1, <3>2, StepSends DEF IInv
  <2> QED
    BY <2>1, <2>2 DEF Next
<1> QED
  BY <1>1, <1>2, PTL DEF Spec

\* outbox.ts:121: the send comes before the put that records it, so a message may go out
\* again, but never more often than attempts were counted and processes cut short.
THEOREM SendsCorrect == OutboxAssumption /\ OneTick => (Spec => []SendsAreCounted)
<1>1. IInv => SendsAreCounted
  BY DEF IInv
<1> QED
  BY <1>1, Invariance, PTL

\* outbox.ts:16: what is delivered or given up on is never sent again and never changes.
THEOREM SettledCorrect == OutboxAssumption /\ OneTick => (Spec => SettledIsFinal)
<1> SUFFICES ASSUME OutboxAssumption, OneTick PROVE Spec => SettledIsFinal
  OBVIOUS
<1>1. IInv /\ [Next]_vars =>
        [\A k \in Keys : entry[k] # Null /\ entry[k].status # "pending" =>
           entry'[k] = entry[k] /\ sent'[k] = sent[k]]_vars
  <2> SUFFICES ASSUME IInv, Next, NEW k \in Keys, entry[k] # Null, entry[k].status # "pending"
               PROVE  entry'[k] = entry[k] /\ sent'[k] = sent[k]
    OBVIOUS
  <2>1. PICK p \in Procs : Work(p) \/ Publish(p) \/ Abort(p)
    BY DEF Next
  <2>2. TypeOK /\ PassesOK /\ PassOK(p)
    BY DEF IInv, PassesOK
  <2>3. CASE PutPending(p) \/ MarkDelivered(p) \/ MarkRejected(p)
    <3>1. current[p].key # k
      BY <2>2, <2>3 DEF PutPending, MarkDelivered, MarkRejected, PassOK
    <3> QED
      BY <2>2, <2>3, <3>1 DEF PutPending, MarkDelivered, MarkRejected, TypeOK
  <2>4. CASE Deliver(p)
    <3>1. PICK i \in batch[p] : Accepts(i.key) \/ UNCHANGED sent
      BY <2>4 DEF Deliver
    <3>2. entry[i.key] = [status |-> "pending", attempts |-> i.attempts]
      BY <2>2 DEF PassOK
    <3>3. i.key # k
      BY <3>2
    <3> QED
      BY <2>2, <2>4, <3>1, <3>3 DEF Deliver, Accepts, TypeOK
  <2> QED
    BY <2>1, <2>3, <2>4
    DEF Work, StartTick, Publish, Dedupe, PublisherDone, ListPending, MarkThrows, EndPass, Abort
<1> QED
  BY <1>1, Invariance, PTL DEF Spec, SettledIsFinal

\* Every variable of Outbox keeps its type.
THEOREM TypeCorrect == OutboxAssumption /\ OneTick => (Spec => []TypeOK)
<1>1. IInv => TypeOK
  BY DEF IInv
<1> QED
  BY <1>1, Invariance, PTL
-----------------------------------------------------------------------------
(* GcalSync. A reservation that nothing excuses has one pass at most. What   *)
(* the pass has read of it is still so, and its events are those that the    *)
(* mapping, or the pass about to write the mapping, names.                   *)

\* Where a pass has its user, and its reservation, and where it is making an event.
AfterUser == {"grant", "resv", "mapping", "calendar", "patch", "insert", "setMapping", "delete", "dropMapping"}
AfterResv == AfterUser \ {"grant", "resv"}
Upserts == {"calendar", "patch", "insert", "setMapping"}
\* Where it goes only when the calendar is missing or the grant is dead.
Marking == {"reauthRead", "reauthWrite"}
Remaking == {"newCalendar", "keepRead", "keepWrite"}

\* A pass j at a step s has read what the steps before s read.
ReadBy(s, j) ==
  /\ s \in AfterUser \cup Marking \cup Remaking => j.user \in G!Google
  /\ s \in AfterResv \cup Remaking => j.seen \in G!Snapshot

\* The types; a revision is one of the mutations so far.
SyncTypeOK ==
  /\ G!TypeOK /\ born \in Nat
  /\ \A p \in G!Procs : ReadBy(step[p], job[p])
  /\ \A r \in Resvs : resv[r].rev <= spent.revs

\* An id is that of one event, of the reservation that the mapping or the pass with the
\* id is about.
IdsOK ==
  /\ \A r \in Resvs : mapping[r] \in 1 .. born \cup {Null}
  /\ \A p \in G!Procs : job[p] # Null => job[p].event \in 1 .. born \cup {Null}
  /\ \A e, f \in events : e.id = f.id => e = f
  /\ \A e \in events, r \in Resvs : e.id = mapping[r] => e.resv = r
  /\ \A e \in events, p \in G!Procs : job[p] # Null /\ e.id = job[p].event => e.resv = job[p].resv

\* The user has the one calendar, the link stands, and no pass doubts it.
LinkStands ==
  /\ google = [cal |-> 1, reauth |-> FALSE] /\ cals = {1} /\ granted
  /\ \A e \in events : e.cal = 1
  /\ \A p \in G!Procs :
       /\ step[p] \notin Marking \cup Remaking
       /\ step[p] \in AfterUser => job[p].user = google
       /\ step[p] \in {"patch", "insert", "setMapping"} => job[p].cal = 1

\* Reservations that nothing excuses.
Followed(r) == r \notin missed \cup overlapped \cup orphaned

Doing(p, r) == job[p] # Null /\ job[p].resv = r
Mine(r) == {e \in events : e.resv = r}

\* The calendar holds of r what it should.
Matches(r) ==
  IF resv[r].confirmed THEN \E e \in Mine(r) : Mine(r) = {e} /\ e.rev = resv[r].rev
                       ELSE Mine(r) = {}

\* A pass over r knows r's state and mapping, and what its calls have made of the events.
PassFits(p, r) ==
  /\ step[p] \in AfterResv => job[p].seen = resv[r]
  /\ step[p] \in {"calendar", "patch", "delete"} => job[p].event = mapping[r]
  /\ step[p] \in Upserts => resv[r].confirmed
  /\ step[p] \in {"delete", "dropMapping"} => ~resv[r].confirmed
  /\ step[p] \in {"insert", "dropMapping"} => Mine(r) = {}
  /\ step[p] = "setMapping" => Matches(r) /\ \A e \in Mine(r) : e.id = job[p].event
  /\ step[p] = "clear" => Matches(r)

\* Every event of r is the mapped one, or about to be; without a flag, and with none to
\* come, the calendar matches.
Alone(p, r) == \A q \in G!Procs \ {p} : ~Doing(q, r)
Kept(p, r) ==
  /\ Doing(p, r) => PassFits(p, r)
  /\ \A e \in Mine(r) : e.id = mapping[r] \/ (Doing(p, r) /\ step[p] = "setMapping")
  /\ r \notin dirty /\ ~(Doing(p, r) /\ step[p] = "flag") => Matches(r)

\* A followed reservation has one pass at most.
FollowedOK == \A r \in Resvs : Followed(r) => \E p \in G!Procs : Alone(p, r) /\ Kept(p, r)

\* The inductive invariant: nothing is claimed once the user has changed the link, nor of
\* an account without a calendar.
AllLinked == FirstCalendar # Null /\ spent.links = 0
SyncInv == SyncTypeOK /\ IdsOK /\ (AllLinked => LinkStands /\ FollowedOK)

-----------------------------------------------------------------------------
\* What holds of one pass of a followed reservation is enough.
LEMMA Sole ==
  ASSUME FollowedOK, NEW r \in Resvs, Followed(r), NEW p \in G!Procs, \A q \in G!Procs \ {p} : ~Doing(q, r)
  PROVE  Alone(p, r) /\ Kept(p, r)
<1>1. PICK q \in G!Procs : Alone(q, r) /\ Kept(q, r)
  BY DEF FollowedOK
<1>2. CASE q = p
  BY <1>1, <1>2
<1>3. CASE q # p
  <2>1. ~Doing(q, r) /\ ~Doing(p, r)
    BY <1>1, <1>3 DEF Alone
  <2> QED
    BY <1>1, <2>1 DEF Alone, Kept
<1> QED
  BY <1>2, <1>3

LEMMA SoleDoer ==
  ASSUME FollowedOK, NEW r \in Resvs, Followed(r), NEW p \in G!Procs, Doing(p, r)
  PROVE  Alone(p, r) /\ Kept(p, r)
<1>1. PICK q \in G!Procs : Alone(q, r) /\ Kept(q, r)
  BY DEF FollowedOK
<1>2. q = p
  BY <1>1 DEF Alone
<1> QED
  BY <1>1, <1>2

\* A step of a pass over one reservation leaves the others as they are.
LEMMA OnePass ==
  ASSUME FollowedOK, NEW p \in G!Procs, NEW r \in Resvs, Doing(p, r),
         UNCHANGED resv,
         \A q \in G!Procs \ {p} : job'[q] = job[q] /\ step'[q] = step[q],
         job'[p] = Null \/ job'[p].resv = r,
         missed \subseteq missed', overlapped \subseteq overlapped', orphaned \subseteq orphaned',
         \A x \in Resvs \ {r} : mapping'[x] = mapping[x] /\ Mine(x)' = Mine(x) /\ (x \in dirty' <=> x \in dirty),
         Alone(p, r) /\ Kept(p, r) /\ Followed(r)' => Kept(p, r)'
  PROVE  FollowedOK'
<1> SUFFICES ASSUME NEW x \in Resvs, Followed(x)' PROVE \E q \in G!Procs : Alone(q, x)' /\ Kept(q, x)'
  BY DEF FollowedOK
<1>1. Followed(x)
  BY DEF Followed
<1>2. CASE x = r
  <2>1. Alone(p, r) /\ Kept(p, r)
    BY <1>1, <1>2, SoleDoer
  <2>2. Alone(p, r)'
    BY <2>1 DEF Alone, Doing
  <2> QED
    BY <1>2, <2>1, <2>2
<1>3. CASE x # r
  <2>1. PICK q \in G!Procs : Alone(q, x) /\ Kept(q, x)
    BY <1>1 DEF FollowedOK
  <2>2. ~Doing(p, x) /\ ~Doing(p, x)'
    BY <1>3 DEF Doing
  <2>3. Alone(q, x)'
    BY <2>1, <2>2 DEF Alone, Doing
  <2>4. mapping'[x] = mapping[x] /\ Mine(x)' = Mine(x) /\ (x \in dirty' <=> x \in dirty) /\ resv'[x] = resv[x]
    BY <1>3
  <2>5. Matches(x)' = Matches(x)
    BY <2>4 DEF Matches
  <2>6. q = p \/ (Doing(q, x)' = Doing(q, x) /\ step'[q] = step[q] /\ job'[q] = job[q])
    BY DEF Doing
  <2>7. q = p \/ PassFits(q, x)' = PassFits(q, x)
    BY <2>4, <2>5, <2>6 DEF PassFits
  <2> QED
    BY <2>1, <2>2, <2>3, <2>4, <2>5, <2>6, <2>7 DEF Kept
<1> QED
  BY <1>2, <1>3

-----------------------------------------------------------------------------
(* What every step of a pass has in common.                                  *)

\* Process p goes to step s with pass j; the fault, if any, is paid for.
Moves(p, s, j) ==
  /\ step' = [step EXCEPT ![p] = s] /\ job' = [job EXCEPT ![p] = j]
  /\ spent' = spent \/ G!Trouble("faults")
  /\ UNCHANGED resv

\* The other variables keep their types.
StoreTypes ==
  /\ google' \in G!Google \cup {Null}
  /\ mapping' \in [Resvs -> G!Ids]
  /\ dirty' \subseteq Resvs /\ listed' \subseteq Resvs
  /\ missed' \subseteq Resvs /\ overlapped' \subseteq Resvs /\ orphaned' \subseteq Resvs
  /\ born' \in Nat /\ cals' \subseteq 1 .. born'
  /\ events' \subseteq [id : 1 .. born', cal : 1 .. born', resv : Resvs, rev : 0 .. MaxRevs]
  /\ granted' \in BOOLEAN

LEMMA Constants ==
  /\ Null \notin Nat \cup Resvs \cup G!Procs \cup G!Google \cup G!Snapshot \cup G!Pass
  /\ FirstCalendar \in {1, Null} /\ MaxRevs \in Nat /\ MaxTroubles \in Nat /\ Cron \notin Requests
  BY DeliveryAssumption DEF G!GcalSyncAssumption

LEMMA Paying ==
  ASSUME SyncTypeOK, spent' = spent \/ G!Trouble("faults")
  PROVE  /\ spent' \in [revs : 0 .. MaxRevs, faults : 0 .. MaxTroubles, links : 0 .. MaxTroubles]
         /\ spent'.revs = spent.revs /\ spent'.links = spent.links
<1>1. spent \in [revs : 0 .. MaxRevs, faults : 0 .. MaxTroubles, links : 0 .. MaxTroubles]
  BY DEF SyncTypeOK, G!TypeOK
<1> QED
  BY <1>1, Constants DEF G!Trouble, G!Spend

LEMMA Moving ==
  ASSUME SyncTypeOK, NEW p \in G!Procs, NEW s \in G!Steps, NEW j \in G!Pass \cup {Null},
         s = "idle" <=> j = Null, ReadBy(s, j), Moves(p, s, j), StoreTypes
  PROVE  /\ SyncTypeOK'
         /\ spent'.links = spent.links
         /\ step'[p] = s /\ job'[p] = j
         /\ \A q \in G!Procs \ {p} : job'[q] = job[q] /\ step'[q] = step[q]
<1>1. /\ step \in [G!Procs -> G!Steps] /\ job \in [G!Procs -> G!Pass \cup {Null}]
      /\ \A q \in G!Procs : step[q] = "idle" <=> job[q] = Null
      /\ resv \in [Resvs -> G!Snapshot]
  BY DEF SyncTypeOK, G!TypeOK
<1>2. /\ step'[p] = s /\ job'[p] = j
      /\ \A q \in G!Procs \ {p} : job'[q] = job[q] /\ step'[q] = step[q]
      /\ step' \in [G!Procs -> G!Steps] /\ job' \in [G!Procs -> G!Pass \cup {Null}]
  BY <1>1 DEF Moves
<1>3. \A q \in G!Procs : (step'[q] = "idle" <=> job'[q] = Null) /\ ReadBy(step'[q], job'[q])
  BY <1>1, <1>2 DEF SyncTypeOK
<1>4. /\ spent' \in [revs : 0 .. MaxRevs, faults : 0 .. MaxTroubles, links : 0 .. MaxTroubles]
      /\ spent'.revs = spent.revs /\ spent'.links = spent.links
  BY Paying DEF Moves
<1>5. G!TypeOK'
  BY <1>1, <1>2, <1>3, <1>4 DEF StoreTypes, G!TypeOK, Moves
<1>6. (\A r \in Resvs : resv[r].rev <= spent.revs)'
  BY <1>4 DEF SyncTypeOK, Moves
<1> QED
  BY <1>2, <1>3, <1>4, <1>5, <1>6 DEF SyncTypeOK, StoreTypes

\* What a process that is not idle has in hand.
LEMMA InPass ==
  ASSUME SyncTypeOK, NEW p \in G!Procs, step[p] # "idle"
  PROVE  /\ job[p] # Null /\ job[p] \in G!Pass /\ Doing(p, job[p].resv) /\ job[p].resv \in Resvs
         /\ ReadBy(step[p], job[p])
  BY DEF SyncTypeOK, G!TypeOK, Doing, G!Pass

LEMMA StoreTyped == ASSUME SyncTypeOK PROVE
  /\ google \in G!Google \cup {Null}
  /\ mapping \in [Resvs -> G!Ids] /\ resv \in [Resvs -> G!Snapshot]
  /\ dirty \subseteq Resvs /\ listed \subseteq Resvs
  /\ missed \subseteq Resvs /\ overlapped \subseteq Resvs /\ orphaned \subseteq Resvs
  /\ born \in Nat /\ cals \subseteq 1 .. born
  /\ events \subseteq [id : 1 .. born, cal : 1 .. born, resv : Resvs, rev : 0 .. MaxRevs]
  /\ granted \in BOOLEAN
  BY DEF SyncTypeOK, G!TypeOK

\* While the link stands a pass finds the one calendar, and leaves it at that.
NoDetour(s, j) ==
  /\ s \notin Marking \cup Remaking
  /\ s \in AfterUser => j.user = google
  /\ s \in {"patch", "insert", "setMapping"} => j.cal = 1

\* A step of a pass keeps the invariant when it keeps the ids and, while the link stands,
\* the link and what is known of its own reservation.
LEMMA PassStep ==
  ASSUME SyncInv, NEW p \in G!Procs, NEW r \in Resvs, Doing(p, r),
         NEW s \in G!Steps, NEW j \in G!Pass \cup {Null}, s = "idle" <=> j = Null, ReadBy(s, j),
         Moves(p, s, j), StoreTypes, j = Null \/ j.resv = r,
         missed \subseteq missed', overlapped \subseteq overlapped', orphaned \subseteq orphaned',
         \A x \in Resvs \ {r} : mapping'[x] = mapping[x] /\ Mine(x)' = Mine(x) /\ (x \in dirty' <=> x \in dirty),
         IdsOK',
         LinkStands => /\ UNCHANGED <<google, cals, granted>>
                       /\ \A e \in events' : e.cal = 1
                       /\ NoDetour(s, j),
         LinkStands /\ Kept(p, r) /\ Alone(p, r) /\ Followed(r)' => Kept(p, r)'
  PROVE  SyncInv'
<1>1. /\ SyncTypeOK' /\ spent'.links = spent.links
      /\ step'[p] = s /\ job'[p] = j
      /\ \A q \in G!Procs \ {p} : job'[q] = job[q] /\ step'[q] = step[q]
  BY Moving DEF SyncInv
<1>2. ASSUME LinkStands PROVE LinkStands'
  BY <1>1, <1>2 DEF LinkStands, NoDetour
<1>3. ASSUME LinkStands, FollowedOK PROVE FollowedOK'
  <2>1. UNCHANGED resv
    BY DEF Moves
  <2> QED
    BY <1>1, <1>3, <2>1, OnePass
<1> QED
  BY <1>1, <1>2, <1>3 DEF SyncInv, AllLinked

\* The ids, when no event comes or goes.
LEMMA KeepsIds ==
  ASSUME SyncTypeOK, IdsOK, NEW p \in G!Procs, NEW r \in Resvs, Doing(p, r),
         UNCHANGED <<mapping, events>>, born' \in {born, born + 1},
         \A q \in G!Procs \ {p} : job'[q] = job[q],
         job'[p] = Null \/ (job'[p].resv = r /\ job'[p].event \in {job[p].event, mapping[r]})
  PROVE  IdsOK'
<1>1. job[p] # Null /\ job[p].resv = r /\ 1 .. born \subseteq 1 .. born'
  BY StoreTyped DEF Doing
<1>2. (\A q \in G!Procs : job[q] # Null => job[q].event \in 1 .. born \cup {Null})'
  BY <1>1 DEF IdsOK
<1>3. (\A e \in events, q \in G!Procs : job[q] # Null /\ e.id = job[q].event => e.resv = job[q].resv)'
  BY <1>1 DEF IdsOK
<1> QED
  BY <1>1, <1>2, <1>3 DEF IdsOK

\* A step that only goes on, or ends the pass.
LEMMA Quiet ==
  ASSUME SyncInv, NEW p \in G!Procs, NEW r \in Resvs, Doing(p, r),
         NEW s \in G!Steps, NEW j \in G!Pass \cup {Null}, s = "idle" <=> j = Null, ReadBy(s, j),
         Moves(p, s, j), j = Null \/ (j.resv = r /\ j.event \in {job[p].event, mapping[r]}),
         UNCHANGED <<google, mapping, dirty, cals, events, born, granted>>, listed' \subseteq listed,
         missed \subseteq missed', overlapped \subseteq overlapped', orphaned \subseteq orphaned',
         missed' \cup overlapped' \cup orphaned' \subseteq Resvs,
         LinkStands => NoDetour(s, j),
         LinkStands /\ Kept(p, r) /\ Followed(r)' =>
           (j # Null => PassFits(p, r)') /\ (step[p] = "setMapping" => Kept(p, r)')
           /\ (step[p] = "flag" => s = "flag")
  PROVE  SyncInv'
<1>1. StoreTypes
  BY StoreTyped DEF SyncInv, StoreTypes
<1>2. /\ step'[p] = s /\ job'[p] = j
      /\ \A q \in G!Procs \ {p} : job'[q] = job[q] /\ step'[q] = step[q]
  BY <1>1, Moving DEF SyncInv
<1>3. IdsOK'
  BY <1>2, KeepsIds DEF SyncInv
<1>4. \A x \in Resvs : Mine(x)' = Mine(x) /\ Matches(x)' = Matches(x)
  BY DEF Mine, Matches, Moves
<1>5. ASSUME LinkStands, Kept(p, r), Followed(r)' PROVE Kept(p, r)'
  <2>1. CASE step[p] = "setMapping"
    BY <1>5, <2>1
  <2>2. CASE step[p] # "setMapping"
    <3>1. \A e \in Mine(r)' : e.id = mapping'[r]
      BY <1>4, <1>5, <2>2 DEF Kept
    <3>2. r \notin dirty' /\ ~(Doing(p, r)' /\ step'[p] = "flag") => Matches(r)'
      BY <1>2, <1>4, <1>5 DEF Kept, Doing
    <3>3. Doing(p, r)' => PassFits(p, r)'
      BY <1>2, <1>5 DEF Doing
    <3> QED
      BY <3>1, <3>2, <3>3 DEF Kept
  <2> QED
    BY <2>1, <2>2
<1>6. ASSUME LinkStands PROVE \A e \in events' : e.cal = 1
  BY <1>6 DEF LinkStands
<1> QED
  BY <1>1, <1>3, <1>4, <1>5, <1>6, PassStep

-----------------------------------------------------------------------------
(* The steps of a pass, one by one. First those that read.                   *)
LEMMA LinkKnown ==
  ASSUME LinkStands
  PROVE  google \in G!Google /\ google # Null /\ google.cal = 1 /\ google.cal # Null /\ ~google.reauth
<1>1. google \in G!Google
  BY DEF LinkStands, G!Google, G!Ids
<1>2. google.cal = 1
  BY DEF LinkStands
<1>3. google.reauth = FALSE
  BY DEF LinkStands
<1>4. google # Null /\ 1 # Null
  BY <1>1, Constants
<1> QED
  BY <1>1, <1>2, <1>3, <1>4

SameStore ==
  UNCHANGED <<google, mapping, dirty, cals, events, born, granted, listed, missed, overlapped, orphaned>>

\* A pass goes on, or gives up and leaves things as they are.
LEMMA Onward ==
  ASSUME SyncInv, NEW p \in G!Procs, NEW r \in Resvs, Doing(p, r), step[p] \notin {"flag", "setMapping"},
         NEW s \in G!Steps \ {"idle"}, NEW j \in G!Pass, ReadBy(s, j), Moves(p, s, j), SameStore,
         j.resv = r, j.event \in {job[p].event, mapping[r]},
         LinkStands => NoDetour(s, j),
         LinkStands /\ Kept(p, r) /\ step'[p] = s /\ job'[p] = j => PassFits(p, r)'
  PROVE  SyncInv'
<1>1. SyncTypeOK
  BY DEF SyncInv
<1>2. step'[p] = s /\ job'[p] = j
  BY <1>1 DEF SyncTypeOK, G!TypeOK, Moves
<1>3. j # Null
  BY Constants
<1>4. missed' \cup overlapped' \cup orphaned' \subseteq Resvs
  BY <1>1, StoreTyped DEF SameStore
<1> QED
  BY <1>2, <1>3, <1>4, Quiet DEF SameStore

LEMMA GivesUp ==
  ASSUME SyncInv, NEW p \in G!Procs, step[p] \notin {"idle", "flag", "setMapping"},
         G!End(p), spent' = spent \/ G!Trouble("faults"), UNCHANGED resv, SameStore
  PROVE  SyncInv'
<1>1. SyncTypeOK
  BY DEF SyncInv
<1>2. PICK r \in Resvs : Doing(p, r) /\ job[p].resv = r
  BY <1>1, InPass
<1>3. missed' \cup overlapped' \cup orphaned' \subseteq Resvs
  BY <1>1, StoreTyped DEF SameStore
<1>4. Moves(p, "idle", Null) /\ ReadBy("idle", Null) /\ "idle" \in G!Steps
  BY DEF G!End, G!Go, Moves, ReadBy, AfterUser, AfterResv, Marking, Remaking, G!Steps
<1>5. NoDetour("idle", Null)
  BY DEF NoDetour, AfterUser, Marking, Remaking
<1> QED
  BY <1>1, <1>2, <1>3, <1>4, <1>5, Quiet DEF SameStore

LEMMA ReadUserKeeps == ASSUME SyncInv, NEW p \in G!Procs, G!ReadUser(p) PROVE SyncInv'
<1>1. step[p] = "user" /\ SyncTypeOK
  BY DEF G!ReadUser, SyncInv
<1>2. PICK r \in Resvs : Doing(p, r) /\ job[p].resv = r
  BY <1>1, InPass
<1>3. PICK j : j = [job[p] EXCEPT !.user = google]
  OBVIOUS
<1>4. PICK s : s = IF google = Null \/ (google # Null /\ google.reauth) THEN "clear" ELSE "grant"
  OBVIOUS
<1>5. /\ j \in G!Pass /\ j.resv = r /\ j.event = job[p].event /\ j.user = google
      /\ s \in G!Steps \ {"idle"} /\ ReadBy(s, j)
  BY <1>1, <1>2, <1>3, <1>4, InPass, StoreTyped
     DEF G!Pass, G!Steps, ReadBy, AfterUser, AfterResv, Marking, Remaking
<1>6. Moves(p, s, j) /\ SameStore
  BY <1>3, <1>4 DEF G!ReadUser, G!Note, G!Go, Moves, SameStore, G!remote
<1>7. LinkStands => NoDetour(s, j) /\ s = "grant"
  BY <1>4, <1>5, LinkKnown DEF NoDetour, AfterUser, Marking, Remaking
<1>8. LinkStands /\ step'[p] = s => PassFits(p, r)'
  BY <1>7 DEF PassFits, AfterResv, AfterUser, Upserts
<1> QED
  BY <1>1, <1>2, <1>5, <1>6, <1>7, <1>8, Onward

LEMMA RefreshTokenKeeps == ASSUME SyncInv, NEW p \in G!Procs, G!RefreshToken(p) PROVE SyncInv'
<1>1. step[p] = "grant" /\ SyncTypeOK
  BY DEF G!RefreshToken, SyncInv
<1>2. PICK r \in Resvs : Doing(p, r) /\ job[p].resv = r
  BY <1>1, InPass
<1>3. PICK j : j = job[p]
  OBVIOUS
<1>4. j \in G!Pass /\ j.resv = r /\ j.event = job[p].event /\ j.user \in G!Google
  BY <1>1, <1>2, <1>3, InPass DEF ReadBy, AfterUser
<1>5. UNCHANGED <<resv, google, mapping, dirty, granted, listed, missed, orphaned, overlapped>>
  BY DEF G!RefreshToken
<1>6. CASE G!Refused(p)
  BY <1>1, <1>5, <1>6, GivesUp DEF G!Refused, SameStore, G!remote
<1>7. ASSUME G!Answered, G!Go(p, IF granted THEN "resv" ELSE "reauthRead"), UNCHANGED <<job, <<cals, events, born>>>>
      PROVE  SyncInv'
  <2>1. PICK s : s = IF granted THEN "resv" ELSE "reauthRead"
    OBVIOUS
  <2>2. s \in G!Steps \ {"idle"} /\ ReadBy(s, j)
    BY <1>4, <2>1 DEF G!Steps, ReadBy, AfterUser, AfterResv, Marking, Remaking
  <2>3. Moves(p, s, j) /\ SameStore
    BY <1>1, <1>3, <1>5, <1>7, <2>1 DEF G!Go, G!Answered, Moves, SameStore, SyncTypeOK, G!TypeOK
  <2>4. LinkStands => NoDetour(s, j) /\ s = "resv"
    BY <1>1, <1>3, <2>1 DEF LinkStands, NoDetour, AfterUser, Marking, Remaking
  <2>5. LinkStands /\ step'[p] = s => PassFits(p, r)'
    BY <2>4 DEF PassFits, AfterResv, AfterUser, Upserts
  <2> QED
    BY <1>1, <1>2, <1>4, <2>2, <2>3, <2>4, <2>5, Onward
<1> QED
  BY <1>6, <1>7 DEF G!RefreshToken, G!remote

LEMMA ReadResvKeeps == ASSUME SyncInv, NEW p \in G!Procs, G!ReadResv(p) PROVE SyncInv'
<1>1. step[p] = "resv" /\ SyncTypeOK
  BY DEF G!ReadResv, SyncInv
<1>2. PICK r \in Resvs : Doing(p, r) /\ job[p].resv = r
  BY <1>1, InPass
<1>3. PICK j : j = [job[p] EXCEPT !.seen = resv[r]]
  OBVIOUS
<1>4. /\ j \in G!Pass /\ j.resv = r /\ j.event = job[p].event /\ j.user = job[p].user /\ j.seen = resv[r]
      /\ ReadBy("mapping", j)
  BY <1>1, <1>2, <1>3, InPass, StoreTyped DEF G!Pass, ReadBy, AfterUser, AfterResv, Marking, Remaking
<1>5. Moves(p, "mapping", j) /\ SameStore
  BY <1>2, <1>3 DEF G!ReadResv, G!Note, G!Go, Moves, SameStore, G!remote
<1>6. LinkStands => NoDetour("mapping", j)
  BY <1>1, <1>4 DEF LinkStands, NoDetour, AfterUser, Marking, Remaking
<1>7. step'[p] = "mapping" /\ job'[p] = j => PassFits(p, r)'
  BY <1>4, <1>5 DEF PassFits, AfterResv, AfterUser, Upserts, Moves
<1>8. "mapping" \in G!Steps \ {"idle"}
  BY DEF G!Steps
<1> QED
  BY <1>1, <1>2, <1>4, <1>5, <1>6, <1>7, <1>8, Onward

\* Before its mapping is written, an event of r is the mapped one.
LEMMA NoMappingNoEvent ==
  ASSUME SyncTypeOK, NEW p \in G!Procs, NEW r \in Resvs, Kept(p, r), step[p] # "setMapping", mapping[r] = Null
  PROVE  Mine(r) = {}
<1> SUFFICES ASSUME NEW e \in Mine(r) PROVE FALSE
  OBVIOUS
<1>1. e.id = Null
  BY DEF Kept
<1>2. e.id \in Nat
  BY StoreTyped DEF Mine
<1> QED
  BY <1>1, <1>2, Constants

LEMMA ReadMappingKeeps == ASSUME SyncInv, NEW p \in G!Procs, G!ReadMapping(p) PROVE SyncInv'
<1>1. step[p] = "mapping" /\ SyncTypeOK
  BY DEF G!ReadMapping, SyncInv
<1>2. PICK r \in Resvs : Doing(p, r) /\ job[p].resv = r
  BY <1>1, InPass
<1>3. PICK j : j = [job[p] EXCEPT !.event = mapping[r]]
  OBVIOUS
<1>4. PICK s : s = CASE job[p].seen.confirmed -> "calendar"
                     [] ~job[p].seen.confirmed /\ mapping[r] # Null /\ job[p].user.cal # Null -> "delete"
                     [] OTHER -> "clear"
  OBVIOUS
<1>5. job[p].seen \in G!Snapshot /\ job[p].user \in G!Google
  BY <1>1, InPass DEF ReadBy, AfterUser, AfterResv
<1>6. /\ j \in G!Pass /\ j.resv = r /\ j.event = mapping[r] /\ j.user = job[p].user /\ j.seen = job[p].seen
  BY <1>1, <1>2, <1>3, InPass, StoreTyped DEF G!Pass
<1>7. /\ s \in {"calendar", "delete", "clear"}
      /\ s = "calendar" <=> job[p].seen.confirmed
      /\ s = "delete" <=> ~job[p].seen.confirmed /\ mapping[r] # Null /\ job[p].user.cal # Null
  BY <1>4, <1>5 DEF G!Snapshot
<1>8. s \in G!Steps \ {"idle"} /\ ReadBy(s, j)
  BY <1>5, <1>6, <1>7 DEF G!Steps, ReadBy, AfterUser, AfterResv, Marking, Remaking
<1>9. Moves(p, s, j) /\ SameStore
  BY <1>2, <1>3, <1>4 DEF G!ReadMapping, G!Note, G!Go, Moves, SameStore, G!remote
<1>10. LinkStands => NoDetour(s, j) /\ job[p].user = google
  BY <1>1, <1>6, <1>7 DEF LinkStands, NoDetour, AfterUser, Marking, Remaking
<1>11. ASSUME LinkStands, Kept(p, r), step'[p] = s, job'[p] = j PROVE PassFits(p, r)'
  <2>1. job[p].seen = resv[r] /\ resv' = resv /\ mapping' = mapping
    BY <1>1, <1>2, <1>9, <1>11 DEF Kept, PassFits, AfterResv, AfterUser, Moves, SameStore
  <2>2. s = "clear" => Mine(r) = {} /\ ~resv[r].confirmed
    BY <1>1, <1>7, <1>10, <1>11, <2>1, LinkKnown, NoMappingNoEvent
  <2>3. s = "clear" => Matches(r)'
    BY <1>9, <2>1, <2>2 DEF Matches, Mine, SameStore
  <2>4. s = "delete" => ~resv[r].confirmed
    BY <1>7, <2>1
  <2>5. s = "calendar" => resv[r].confirmed
    BY <1>7, <2>1
  <2> QED
    BY <1>6, <1>7, <1>11, <2>1, <2>3, <2>4, <2>5 DEF PassFits, AfterResv, AfterUser, Upserts
<1> QED
  BY <1>1, <1>2, <1>6, <1>8, <1>9, <1>10, <1>11, Onward

LEMMA CheckCalendarKeeps == ASSUME SyncInv, NEW p \in G!Procs, G!CheckCalendar(p) PROVE SyncInv'
<1>1. step[p] = "calendar" /\ SyncTypeOK
  BY DEF G!CheckCalendar, SyncInv
<1>2. PICK r \in Resvs : Doing(p, r) /\ job[p].resv = r
  BY <1>1, InPass
<1>3. PICK c : c = job[p].user.cal
  OBVIOUS
<1>4. job[p].seen \in G!Snapshot /\ job[p].user \in G!Google /\ c \in G!Ids /\ job[p] \in G!Pass
  BY <1>1, <1>3, InPass DEF ReadBy, AfterUser, AfterResv, G!Google
<1>5. UNCHANGED <<resv, google, mapping, dirty, cals, events, born, granted, listed, missed, orphaned, overlapped>>
  BY DEF G!CheckCalendar, G!remote
<1>6. CASE G!Refused(p)
  BY <1>1, <1>5, <1>6, GivesUp DEF G!Refused, SameStore
<1>7. LinkStands => c = 1 /\ c # Null /\ c \in cals
  BY <1>1, <1>3, LinkKnown DEF LinkStands, AfterUser
<1>8. CASE G!Answered /\ G!Go(p, "newCalendar") /\ UNCHANGED job /\ (c = Null \/ c \notin cals)
  <2>1. Moves(p, "newCalendar", job[p]) /\ SameStore
    BY <1>1, <1>5, <1>8 DEF G!Go, G!Answered, Moves, SameStore, SyncTypeOK, G!TypeOK
  <2>2. "newCalendar" \in G!Steps \ {"idle"} /\ ReadBy("newCalendar", job[p])
    BY <1>4 DEF G!Steps, ReadBy
  <2>3. PICK j : j = job[p]
    OBVIOUS
  <2> QED
    BY <1>1, <1>2, <1>4, <1>7, <1>8, <2>1, <2>2, <2>3, Onward
<1>9. ASSUME G!Answered, c # Null, c \in cals, G!Note(p, "cal", c),
             G!Go(p, IF job[p].event = Null THEN "insert" ELSE "patch")
      PROVE  SyncInv'
  <2>1. PICK j : j = [job[p] EXCEPT !.cal = c]
    OBVIOUS
  <2>2. PICK s : s = IF job[p].event = Null THEN "insert" ELSE "patch"
    OBVIOUS
  <2>3. j \in G!Pass /\ j.resv = r /\ j.event = job[p].event /\ j.user = job[p].user /\ j.seen = job[p].seen /\ j.cal = c
    BY <1>2, <1>4, <2>1 DEF G!Pass
  <2>4. s \in G!Steps \ {"idle"} /\ ReadBy(s, j)
    BY <1>4, <2>2, <2>3 DEF G!Steps, ReadBy
  <2>5. Moves(p, s, j) /\ SameStore
    BY <1>5, <1>9, <2>1, <2>2 DEF G!Go, G!Note, G!Answered, Moves, SameStore
  <2>6. LinkStands => NoDetour(s, j)
    BY <1>1, <1>7, <2>2, <2>3 DEF LinkStands, NoDetour, AfterUser, Marking, Remaking
  <2>7. ASSUME LinkStands, Kept(p, r), step'[p] = s, job'[p] = j PROVE PassFits(p, r)'
    <3>1. job[p].seen = resv[r] /\ job[p].event = mapping[r] /\ resv[r].confirmed
      BY <1>1, <1>2, <2>7 DEF Kept, PassFits, AfterResv, AfterUser, Upserts
    <3>2. UNCHANGED <<resv, mapping, events>>
      BY <1>5
    <3>3. s = "insert" => Mine(r)' = {}
      BY <1>1, <2>2, <2>7, <3>1, <3>2, NoMappingNoEvent DEF Mine
    <3> QED
      BY <2>2, <2>3, <2>7, <3>1, <3>2, <3>3 DEF PassFits, AfterResv, AfterUser, Upserts
  <2> QED
    BY <1>1, <1>2, <2>3, <2>4, <2>5, <2>6, <2>7, Onward
<1> QED
  BY <1>3, <1>6, <1>8, <1>9 DEF G!CheckCalendar

LEMMA ReadForUpdateKeeps == ASSUME SyncInv, NEW p \in G!Procs, G!ReadForUpdate(p) PROVE SyncInv'
<1>1. step[p] \in {"keepRead", "reauthRead"} /\ SyncTypeOK
  BY DEF G!ReadForUpdate, SyncInv
<1>2. PICK r \in Resvs : Doing(p, r) /\ job[p].resv = r
  BY <1>1, InPass
<1>3. PICK j : j = [job[p] EXCEPT !.latest = google]
  OBVIOUS
<1>4. PICK s : s = IF step[p] = "keepRead" THEN "keepWrite" ELSE "reauthWrite"
  OBVIOUS
<1>5. /\ j \in G!Pass /\ j.resv = r /\ j.event = job[p].event
      /\ s \in G!Steps \ {"idle"} /\ ReadBy(s, j)
  BY <1>1, <1>2, <1>3, <1>4, InPass, StoreTyped
     DEF G!Pass, G!Steps, ReadBy, AfterUser, AfterResv, Marking, Remaking
<1>6. Moves(p, s, j) /\ SameStore
  BY <1>3, <1>4 DEF G!ReadForUpdate, G!Note, G!Go, Moves, SameStore, G!remote
<1>7. ~LinkStands
  BY <1>1 DEF LinkStands, Marking, Remaking
<1> QED
  BY <1>1, <1>2, <1>5, <1>6, <1>7, Onward

\* The steps that a pass takes only when the link does not stand.
LEMMA Detour ==
  ASSUME SyncInv, NEW p \in G!Procs, NEW r \in Resvs, Doing(p, r), step[p] \in Marking \cup Remaking,
         NEW s \in G!Steps, NEW j \in G!Pass \cup {Null}, s = "idle" <=> j = Null, ReadBy(s, j),
         Moves(p, s, j), StoreTypes, j = Null \/ (j.resv = r /\ j.event = job[p].event),
         UNCHANGED <<mapping, dirty, events, missed, overlapped, orphaned>>, born' \in {born, born + 1}
  PROVE  SyncInv'
<1>1. ~LinkStands
  BY DEF LinkStands
<1>2. \A x \in Resvs : Mine(x)' = Mine(x)
  BY DEF Mine
<1>3. job'[p] = j /\ \A q \in G!Procs \ {p} : job'[q] = job[q]
  BY Moving DEF SyncInv
<1>4. IdsOK'
  BY <1>3, KeepsIds DEF SyncInv
<1> QED
  BY <1>1, <1>2, <1>4, PassStep

LEMMA DetourPass ==
  ASSUME SyncTypeOK, NEW p \in G!Procs, step[p] \in Marking \cup Remaking
  PROVE  /\ job[p] \in G!Pass /\ Doing(p, job[p].resv) /\ job[p].resv \in Resvs /\ job[p].user \in G!Google
         /\ step[p] \in Remaking => job[p].seen \in G!Snapshot
<1>1. step[p] # "idle"
  BY DEF Marking, Remaking
<1> QED
  BY <1>1, InPass DEF ReadBy, Marking, Remaking

LEMMA KeepCalendarKeeps == ASSUME SyncInv, NEW p \in G!Procs, G!KeepCalendar(p) PROVE SyncInv'
<1>1. step[p] \in Remaking /\ step[p] = "keepWrite" /\ SyncTypeOK
  BY DEF G!KeepCalendar, SyncInv, Remaking
<1>2. PICK r \in Resvs : Doing(p, r) /\ job[p].resv = r
  BY <1>1, DetourPass
<1>3. PICK j : j = job[p]
  OBVIOUS
<1>4. PICK s : s = IF job[p].event = Null THEN "insert" ELSE "patch"
  OBVIOUS
<1>5. j \in G!Pass /\ j # Null /\ s \in G!Steps \ {"idle"} /\ ReadBy(s, j)
  BY <1>1, <1>3, <1>4, DetourPass, Constants DEF G!Steps, ReadBy
<1>6. Moves(p, s, j)
  BY <1>1, <1>3, <1>4 DEF G!KeepCalendar, G!Go, Moves, SyncTypeOK, G!TypeOK
<1>7. UNCHANGED <<mapping, dirty, cals, events, born, granted, listed, missed, orphaned, overlapped>>
  BY DEF G!KeepCalendar, G!remote
<1>8. google' \in G!Google \cup {Null}
  <2>1. job[p].latest \in G!Google \cup {Null} /\ job[p].cal \in G!Ids
    BY <1>1, DetourPass DEF G!Pass
  <2> QED
    BY <2>1 DEF G!KeepCalendar, G!Google
<1>9. StoreTypes
  BY <1>1, <1>7, <1>8, StoreTyped DEF StoreTypes
<1> QED
  BY <1>1, <1>2, <1>3, <1>5, <1>6, <1>7, <1>9, Detour

LEMMA MarkReauthKeeps == ASSUME SyncInv, NEW p \in G!Procs, G!MarkReauth(p) PROVE SyncInv'
<1>1. step[p] \in Marking /\ step[p] = "reauthWrite" /\ SyncTypeOK
  BY DEF G!MarkReauth, SyncInv, Marking
<1>2. PICK r \in Resvs : Doing(p, r) /\ job[p].resv = r
  BY <1>1, DetourPass
<1>3. PICK j : j = job[p]
  OBVIOUS
<1>4. j \in G!Pass /\ j # Null /\ "clear" \in G!Steps \ {"idle"} /\ ReadBy("clear", j)
  BY <1>1, <1>3, DetourPass, Constants DEF G!Steps, ReadBy, AfterUser, AfterResv, Marking, Remaking
<1>5. Moves(p, "clear", j)
  BY <1>1, <1>3 DEF G!MarkReauth, G!Go, Moves, SyncTypeOK, G!TypeOK
<1>6. UNCHANGED <<mapping, dirty, cals, events, born, granted, listed, missed, orphaned, overlapped>>
  BY DEF G!MarkReauth, G!remote
<1>7. google' \in G!Google \cup {Null}
  <2>1. job[p].latest \in G!Google \cup {Null}
    BY <1>1, DetourPass DEF G!Pass
  <2> QED
    BY <2>1 DEF G!MarkReauth, G!Google
<1>8. StoreTypes
  BY <1>1, <1>6, <1>7, StoreTyped DEF StoreTypes
<1> QED
  BY <1>1, <1>2, <1>3, <1>4, <1>5, <1>6, <1>8, Detour

LEMMA NewCalendarKeeps == ASSUME SyncInv, NEW p \in G!Procs, G!NewCalendar(p) PROVE SyncInv'
<1>1. step[p] \in Remaking /\ step[p] = "newCalendar" /\ SyncTypeOK
  BY DEF G!NewCalendar, SyncInv, Remaking
<1>2. PICK r \in Resvs : Doing(p, r) /\ job[p].resv = r
  BY <1>1, DetourPass
<1>3. UNCHANGED <<resv, google, mapping, dirty, granted, listed, missed, orphaned, overlapped>>
  BY DEF G!NewCalendar
<1>4. CASE G!Refused(p)
  BY <1>1, <1>3, <1>4, GivesUp DEF G!Refused, SameStore, G!remote
<1>5. ASSUME G!MakeCalendar PROVE StoreTypes /\ UNCHANGED events /\ born' = born + 1
  <2>1. /\ 1 .. born \subseteq 1 .. born + 1 /\ born + 1 \in 1 .. born + 1 /\ born + 1 \in Nat
    BY <1>1, StoreTyped
  <2>2. born' = born + 1 /\ cals' = cals \cup {born + 1} /\ events' = events
    BY <1>5 DEF G!MakeCalendar
  <2>3. events' \subseteq [id : 1 .. born', cal : 1 .. born', resv : Resvs, rev : 0 .. MaxRevs]
    BY <1>1, <2>1, <2>2, StoreTyped
  <2> QED
    BY <1>1, <1>3, <2>1, <2>2, <2>3, StoreTyped DEF StoreTypes
<1>6. CASE G!MakeCalendar /\ G!Unanswered(p)
  <2>1. Moves(p, "idle", Null) /\ ReadBy("idle", Null) /\ "idle" \in G!Steps
    BY <1>3, <1>6 DEF G!Unanswered, G!End, G!Go, Moves, ReadBy, AfterUser, AfterResv, Marking, Remaking, G!Steps
  <2> QED
    BY <1>1, <1>2, <1>3, <1>5, <1>6, <2>1, Detour
<1>7. CASE G!MakeCalendar /\ G!Answered /\ G!Note(p, "cal", born + 1) /\ G!Go(p, "keepRead")
  <2>1. PICK j : j = [job[p] EXCEPT !.cal = born + 1]
    OBVIOUS
  <2>2. j \in G!Pass /\ j # Null /\ j.resv = r /\ j.event = job[p].event /\ j.user = job[p].user /\ j.seen = job[p].seen
    BY <1>1, <1>2, <2>1, DetourPass, StoreTyped, Constants DEF G!Pass, G!Ids
  <2>3. Moves(p, "keepRead", j)
    BY <1>3, <1>7, <2>1 DEF G!Go, G!Note, G!Answered, Moves
  <2>4. "keepRead" \in G!Steps \ {"idle"} /\ ReadBy("keepRead", j)
    BY <1>1, <2>2, DetourPass DEF G!Steps, ReadBy
  <2> QED
    BY <1>1, <1>2, <1>3, <1>5, <1>7, <2>2, <2>3, <2>4, Detour
<1> QED
  BY <1>4, <1>6, <1>7 DEF G!NewCalendar

-----------------------------------------------------------------------------
(* The steps that change events and the mapping.                             *)

\* The ids, when an event is overwritten or erased, or the mapping set or dropped.
LEMMA IdsMove ==
  ASSUME SyncTypeOK, IdsOK, NEW p \in G!Procs, NEW r \in Resvs, Doing(p, r),
         \A e \in events' : \E m \in events : m.id = e.id /\ m.resv = e.resv,
         \A e, f \in events' : e.id = f.id => e = f,
         \A x \in Resvs \ {r} : mapping'[x] = mapping[x],
         mapping'[r] \in {mapping[r], job[p].event, Null}, UNCHANGED born,
         \A q \in G!Procs \ {p} : job'[q] = job[q],
         job'[p] = Null \/ (job'[p].resv = r /\ job'[p].event = job[p].event)
  PROVE  IdsOK'
<1>1. job[p] # Null /\ job[p].resv = r
  BY DEF Doing
<1>2. \A e \in events : e.id # Null
  BY StoreTyped, Constants
<1>3. (\A x \in Resvs : mapping[x] \in 1 .. born \cup {Null})'
  BY <1>1 DEF IdsOK
<1>4. (\A q \in G!Procs : job[q] # Null => job[q].event \in 1 .. born \cup {Null})'
  BY <1>1 DEF IdsOK
<1>5. (\A e \in events, x \in Resvs : e.id = mapping[x] => e.resv = x)'
  <2> SUFFICES ASSUME NEW e \in events', NEW x \in Resvs, e.id = mapping'[x] PROVE e.resv = x
    OBVIOUS
  <2>1. PICK m \in events : m.id = e.id /\ m.resv = e.resv
    OBVIOUS
  <2>2. m.id = mapping'[x] /\ m.id # Null
    BY <1>2, <2>1
  <2>3. CASE x # r \/ mapping'[x] = mapping[x]
    BY <2>1, <2>2, <2>3 DEF IdsOK
  <2>4. CASE x = r /\ mapping'[x] = job[p].event
    BY <1>1, <2>1, <2>2, <2>4 DEF IdsOK
  <2> QED
    BY <2>2, <2>3, <2>4
<1>6. (\A e \in events, q \in G!Procs : job[q] # Null /\ e.id = job[q].event => e.resv = job[q].resv)'
  <2> SUFFICES ASSUME NEW e \in events', NEW q \in G!Procs, job'[q] # Null, e.id = job'[q].event
               PROVE  e.resv = job'[q].resv
    OBVIOUS
  <2>1. PICK m \in events : m.id = e.id /\ m.resv = e.resv
    OBVIOUS
  <2>2. job[q] # Null /\ job[q].event = job'[q].event /\ job[q].resv = job'[q].resv
    BY <1>1
  <2> QED
    BY <2>1, <2>2 DEF IdsOK
<1> QED
  BY <1>3, <1>4, <1>5, <1>6 DEF IdsOK

\* A patch replaces the one event the pass knows by one of the revision it has read.
LEMMA Patching ==
  ASSUME SyncTypeOK, IdsOK, NEW p \in G!Procs, NEW r \in Resvs, Doing(p, r), step[p] = "patch",
         G!Mapped(p) # {}, G!Overwrite(p)
  PROVE  \E m \in events, n \in [id : 1 .. born, cal : 1 .. born, resv : Resvs, rev : 0 .. MaxRevs] :
           /\ m.id = job[p].event /\ m.resv = r
           /\ n.id = m.id /\ n.cal = m.cal /\ n.resv = r /\ n.rev = job[p].seen.rev
           /\ events' = (events \ {m}) \cup {n}
           /\ UNCHANGED <<cals, born>>
<1>1. job[p] # Null /\ job[p].resv = r /\ job[p].seen \in G!Snapshot
  BY InPass DEF Doing, ReadBy, AfterUser, AfterResv
<1>2. PICK m \in G!Mapped(p) : TRUE
  OBVIOUS
<1>3. m \in events /\ m.id = job[p].event /\ m.resv = r
  BY <1>1, <1>2 DEF G!Mapped, IdsOK
<1>4. G!Mapped(p) = {m}
  BY <1>2, <1>3 DEF G!Mapped, IdsOK
<1>5. PICK n : n = [m EXCEPT !.rev = job[p].seen.rev]
  OBVIOUS
<1>6. m \in [id : 1 .. born, cal : 1 .. born, resv : Resvs, rev : 0 .. MaxRevs]
  BY <1>3, StoreTyped
<1>7. /\ n \in [id : 1 .. born, cal : 1 .. born, resv : Resvs, rev : 0 .. MaxRevs]
      /\ n.id = m.id /\ n.cal = m.cal /\ n.resv = r /\ n.rev = job[p].seen.rev
  BY <1>1, <1>3, <1>5, <1>6 DEF G!Snapshot
<1>8. events' = (events \ {m}) \cup {n} /\ UNCHANGED <<cals, born>>
  BY <1>4, <1>5 DEF G!Overwrite
<1> QED
  BY <1>3, <1>7, <1>8

LEMMA PatchEventKeeps == ASSUME SyncInv, NEW p \in G!Procs, G!PatchEvent(p) PROVE SyncInv'
<1>1. step[p] = "patch" /\ SyncTypeOK /\ IdsOK
  BY DEF G!PatchEvent, SyncInv
<1>2. PICK r \in Resvs : Doing(p, r) /\ job[p].resv = r /\ job[p] # Null
  BY <1>1, InPass
<1>3. job[p] \in G!Pass /\ job[p].user \in G!Google /\ job[p].seen \in G!Snapshot
  BY <1>1, InPass DEF ReadBy, AfterUser, AfterResv
<1>4. PICK j : j = job[p]
  OBVIOUS
<1>5. UNCHANGED <<resv, google, mapping, dirty, granted, listed, missed, orphaned, overlapped>>
  BY DEF G!PatchEvent
<1>6. CASE G!Refused(p)
  BY <1>1, <1>5, <1>6, GivesUp DEF G!Refused, SameStore, G!remote
<1>7. ASSUME LinkStands, Kept(p, r)
      PROVE  /\ job[p].seen = resv[r] /\ job[p].event = mapping[r] /\ resv[r].confirmed
             /\ \A e \in Mine(r) : e.id = mapping[r]
  BY <1>1, <1>2, <1>7 DEF Kept, PassFits, AfterResv, AfterUser, Upserts
<1>8. CASE G!Mapped(p) = {} /\ G!Answered /\ G!Go(p, "insert") /\ UNCHANGED <<job, <<cals, events, born>>>>
  <2>1. Moves(p, "insert", j) /\ SameStore
    BY <1>1, <1>4, <1>5, <1>8 DEF G!Go, G!Answered, Moves, SameStore, SyncTypeOK, G!TypeOK
  <2>2. "insert" \in G!Steps \ {"idle"} /\ ReadBy("insert", j)
    BY <1>3, <1>4 DEF G!Steps, ReadBy
  <2>3. LinkStands => NoDetour("insert", j)
    BY <1>1, <1>4 DEF LinkStands, NoDetour, AfterUser, Marking, Remaking
  <2>4. ASSUME LinkStands, Kept(p, r), step'[p] = "insert", job'[p] = j PROVE PassFits(p, r)'
    <3>1. Mine(r) = {}
      BY <1>1, <1>7, <1>8, <2>4 DEF G!Mapped, Mine, LinkStands
    <3>2. Mine(r)' = {} /\ resv' = resv
      BY <1>5, <1>8, <3>1 DEF Mine
    <3> QED
      BY <1>4, <1>7, <2>4, <3>2 DEF PassFits, AfterResv, AfterUser, Upserts
  <2> QED
    BY <1>1, <1>2, <1>3, <1>4, <2>1, <2>2, <2>3, <2>4, Onward
<1>9. ASSUME G!Mapped(p) # {}, G!Overwrite(p), NEW s \in {"idle", "setMapping"}, NEW k \in {Null, j},
             s = "idle" <=> k = Null, Moves(p, s, k)
      PROVE  SyncInv'
  <2>1. PICK m \in events, n \in [id : 1 .. born, cal : 1 .. born, resv : Resvs, rev : 0 .. MaxRevs] :
           /\ m.id = job[p].event /\ m.resv = r
           /\ n.id = m.id /\ n.cal = m.cal /\ n.resv = r /\ n.rev = job[p].seen.rev
           /\ events' = (events \ {m}) \cup {n}
           /\ UNCHANGED <<cals, born>>
    BY <1>1, <1>2, <1>9, Patching
  <2>2. StoreTypes
    BY <1>1, <1>5, <2>1, StoreTyped DEF StoreTypes
  <2>3. s \in G!Steps /\ k \in G!Pass \cup {Null} /\ ReadBy(s, k) /\ (k = Null \/ (k.resv = r /\ k = j))
    BY <1>2, <1>3, <1>4, <1>9 DEF G!Steps, ReadBy, AfterUser, AfterResv, Marking, Remaking
  <2>4. /\ step'[p] = s /\ job'[p] = k
        /\ \A q \in G!Procs \ {p} : job'[q] = job[q] /\ step'[q] = step[q]
    BY <1>1, <1>9, <2>2, <2>3, Moving
  <2>5. \A x \in Resvs \ {r} : Mine(x)' = Mine(x)
    BY <2>1 DEF Mine
  <2>6. IdsOK'
    <3>1. \A e \in events' : \E f \in events : f.id = e.id /\ f.resv = e.resv
      BY <2>1
    <3>2. \A e, f \in events' : e.id = f.id => e = f
      BY <1>1, <2>1 DEF IdsOK
    <3> QED
      BY <1>1, <1>2, <1>4, <1>5, <2>1, <2>3, <2>4, <3>1, <3>2, IdsMove
  <2>7. LinkStands => (\A e \in events' : e.cal = 1) /\ NoDetour(s, k) /\ UNCHANGED <<google, cals, granted>>
    BY <1>1, <1>4, <1>5, <1>9, <2>1, <2>3 DEF LinkStands, NoDetour, AfterUser, Marking, Remaking
  <2>8. ASSUME LinkStands, Kept(p, r) PROVE Kept(p, r)'
    <3>1. Mine(r)' = {n} /\ n.id = mapping'[r] /\ n.rev = resv'[r].rev
      BY <1>1, <1>5, <1>7, <2>1, <2>8 DEF Mine, IdsOK
    <3>2. Matches(r)'
      BY <1>5, <1>7, <2>8, <3>1 DEF Matches
    <3>3. Doing(p, r)' => k = j /\ s = "setMapping"
      BY <1>9, <2>3, <2>4 DEF Doing
    <3>4. Doing(p, r)' => PassFits(p, r)'
      BY <1>4, <1>5, <1>7, <2>4, <2>8, <3>1, <3>2, <3>3 DEF PassFits, AfterResv, AfterUser, Upserts
    <3> QED
      BY <3>1, <3>2, <3>4 DEF Kept
  <2> QED
    BY <1>2, <1>5, <1>9, <2>2, <2>3, <2>5, <2>6, <2>7, <2>8, PassStep
<1>10. CASE G!Mapped(p) # {} /\ G!Overwrite(p) /\ G!Answered /\ G!Go(p, "setMapping") /\ UNCHANGED job
  <2>1. Moves(p, "setMapping", j) /\ j # Null
    BY <1>1, <1>2, <1>4, <1>5, <1>10 DEF G!Go, G!Answered, Moves, SyncTypeOK, G!TypeOK
  <2> QED
    BY <1>9, <1>10, <2>1
<1>11. CASE G!Mapped(p) # {} /\ G!Overwrite(p) /\ G!Unanswered(p)
  <2>1. Moves(p, "idle", Null)
    BY <1>5, <1>11 DEF G!Unanswered, G!End, G!Go, Moves
  <2> QED
    BY <1>9, <1>11, <2>1
<1> QED
  BY <1>6, <1>8, <1>10, <1>11 DEF G!PatchEvent, G!remote

\* An insert makes an event with an id that nothing has.
LEMMA Inserting ==
  ASSUME SyncTypeOK, IdsOK, NEW p \in G!Procs, NEW r \in Resvs, Doing(p, r), step[p] = "insert", G!MakeEvent(p)
  PROVE  \E n \in [id : 1 .. born + 1, cal : 1 .. born + 1, resv : Resvs, rev : 0 .. MaxRevs] :
           /\ n.id = born + 1 /\ n.resv = r /\ n.cal = job[p].cal /\ n.rev = job[p].seen.rev
           /\ events' = events \cup {n} /\ born' = born + 1 /\ UNCHANGED cals
           /\ \A e \in events : e.id # n.id
<1>1. job[p].resv = r /\ job[p].seen \in G!Snapshot
  BY InPass DEF Doing, ReadBy, AfterUser, AfterResv
<1>2. born + 1 \in 1 .. born + 1 /\ job[p].cal \in 1 .. born + 1
  BY StoreTyped DEF G!MakeEvent
<1>3. PICK n : n = [id |-> born + 1, cal |-> job[p].cal, resv |-> r, rev |-> job[p].seen.rev]
  OBVIOUS
<1>4. n \in [id : 1 .. born + 1, cal : 1 .. born + 1, resv : Resvs, rev : 0 .. MaxRevs]
  BY <1>1, <1>2, <1>3 DEF G!Snapshot
<1>5. \A e \in events : e.id # n.id
  BY <1>3, StoreTyped
<1>6. events' = events \cup {n} /\ born' = born + 1 /\ UNCHANGED cals
  BY <1>1, <1>3 DEF G!MakeEvent
<1> QED
  BY <1>3, <1>4, <1>5, <1>6

LEMMA IdsInsert ==
  ASSUME SyncTypeOK, IdsOK, NEW p \in G!Procs, NEW r \in Resvs, Doing(p, r), NEW n, n.id = born + 1, n.resv = r,
         events' = events \cup {n}, born' = born + 1, UNCHANGED mapping,
         \A q \in G!Procs \ {p} : job'[q] = job[q],
         job'[p] = Null \/ (job'[p].resv = r /\ job'[p].event = n.id)
  PROVE  IdsOK'
<1>1. /\ born \in Nat /\ born + 1 # Null /\ 1 .. born \subseteq 1 .. born' /\ n.id \in 1 .. born'
      /\ n.id \notin 1 .. born \cup {Null}
      /\ \A e \in events : e.id \in 1 .. born
  BY StoreTyped, Constants
<1>2. (\A x \in Resvs : mapping[x] \in 1 .. born \cup {Null})'
  BY <1>1 DEF IdsOK
<1>3. (\A q \in G!Procs : job[q] # Null => job[q].event \in 1 .. born \cup {Null})'
  BY <1>1 DEF IdsOK
<1>4. (\A e, f \in events : e.id = f.id => e = f)'
  BY <1>1 DEF IdsOK
<1>5. (\A e \in events, x \in Resvs : e.id = mapping[x] => e.resv = x)'
  <2> SUFFICES ASSUME NEW e \in events', NEW x \in Resvs, e.id = mapping'[x] PROVE e.resv = x
    OBVIOUS
  <2>1. e # n
    BY <1>1 DEF IdsOK
  <2> QED
    BY <2>1 DEF IdsOK
<1>6. (\A e \in events, q \in G!Procs : job[q] # Null /\ e.id = job[q].event => e.resv = job[q].resv)'
  <2> SUFFICES ASSUME NEW e \in events', NEW q \in G!Procs, job'[q] # Null, e.id = job'[q].event
               PROVE  e.resv = job'[q].resv
    OBVIOUS
  <2>1. CASE q = p
    BY <1>1, <2>1
  <2>2. CASE q # p
    <3>1. job[q] # Null /\ job[q].event = e.id /\ job[q].resv = job'[q].resv
      BY <2>2
    <3>2. e # n
      BY <1>1, <3>1 DEF IdsOK
    <3> QED
      BY <3>1, <3>2 DEF IdsOK
  <2> QED
    BY <2>1, <2>2
<1> QED
  BY <1>2, <1>3, <1>4, <1>5, <1>6 DEF IdsOK

LEMMA InsertEventKeeps == ASSUME SyncInv, NEW p \in G!Procs, G!InsertEvent(p) PROVE SyncInv'
<1>1. step[p] = "insert" /\ SyncTypeOK /\ IdsOK
  BY DEF G!InsertEvent, SyncInv
<1>2. PICK r \in Resvs : Doing(p, r) /\ job[p].resv = r /\ job[p] # Null
  BY <1>1, InPass
<1>3. job[p] \in G!Pass /\ job[p].user \in G!Google /\ job[p].seen \in G!Snapshot
  BY <1>1, InPass DEF ReadBy, AfterUser, AfterResv
<1>4. PICK j : j = [job[p] EXCEPT !.event = born + 1]
  OBVIOUS
<1>5. /\ j \in G!Pass /\ j # Null /\ j.resv = r /\ j.event = born + 1 /\ j.cal = job[p].cal
      /\ j.user = job[p].user /\ j.seen = job[p].seen
  BY <1>1, <1>2, <1>3, <1>4, StoreTyped, Constants DEF G!Pass, G!Ids
<1>6. UNCHANGED <<resv, google, mapping, dirty, granted, listed, missed, overlapped>>
  BY DEF G!InsertEvent
<1>7. CASE G!Refused(p) /\ UNCHANGED orphaned
  BY <1>1, <1>6, <1>7, GivesUp DEF G!Refused, SameStore, G!remote
<1>8. CASE G!Answered /\ G!End(p) /\ UNCHANGED <<cals, events, born, orphaned>>
  BY <1>1, <1>6, <1>8, GivesUp DEF G!Answered, SameStore
<1>9. ASSUME LinkStands, Kept(p, r)
      PROVE  job[p].seen = resv[r] /\ resv[r].confirmed /\ Mine(r) = {}
  BY <1>1, <1>2, <1>9 DEF Kept, PassFits, AfterResv, AfterUser, Upserts
<1>10. ASSUME G!MakeEvent(p), NEW s \in {"idle", "setMapping"}, NEW k \in {Null, j}, s = "idle" <=> k = Null,
              Moves(p, s, k), orphaned' = IF s = "idle" THEN orphaned \cup {r} ELSE orphaned
       PROVE  SyncInv'
  <2>1. PICK n \in [id : 1 .. born + 1, cal : 1 .. born + 1, resv : Resvs, rev : 0 .. MaxRevs] :
           /\ n.id = born + 1 /\ n.resv = r /\ n.cal = job[p].cal /\ n.rev = job[p].seen.rev
           /\ events' = events \cup {n} /\ born' = born + 1 /\ UNCHANGED cals
           /\ \A e \in events : e.id # n.id
    BY <1>1, <1>2, <1>10, Inserting
  <2>2. StoreTypes
    <3>1. 1 .. born \subseteq 1 .. born' /\ born' \in Nat
      BY <1>1, <2>1, StoreTyped
    <3>2. events' \subseteq [id : 1 .. born', cal : 1 .. born', resv : Resvs, rev : 0 .. MaxRevs]
      BY <1>1, <2>1, <3>1, StoreTyped
    <3>3. orphaned' \subseteq Resvs
      BY <1>1, <1>10, StoreTyped
    <3> QED
      BY <1>1, <1>6, <2>1, <3>1, <3>2, <3>3, StoreTyped DEF StoreTypes
  <2>3. s \in G!Steps /\ k \in G!Pass \cup {Null} /\ ReadBy(s, k) /\ (k = Null \/ (k.resv = r /\ k = j))
    BY <1>3, <1>5, <1>10 DEF G!Steps, ReadBy, AfterUser, AfterResv, Marking, Remaking
  <2>4. /\ step'[p] = s /\ job'[p] = k
        /\ \A q \in G!Procs \ {p} : job'[q] = job[q] /\ step'[q] = step[q]
    BY <1>1, <1>10, <2>2, <2>3, Moving
  <2>5. \A x \in Resvs \ {r} : Mine(x)' = Mine(x)
    BY <2>1 DEF Mine
  <2>6. IdsOK'
    BY <1>1, <1>2, <1>5, <1>6, <2>1, <2>3, <2>4, IdsInsert
  <2>7. LinkStands => (\A e \in events' : e.cal = 1) /\ NoDetour(s, k) /\ UNCHANGED <<google, cals, granted>>
    BY <1>1, <1>5, <1>6, <1>10, <2>1, <2>3 DEF LinkStands, NoDetour, AfterUser, Marking, Remaking
  <2>8. ASSUME LinkStands, Kept(p, r), Followed(r)' PROVE Kept(p, r)'
    <3>1. s = "setMapping" /\ k = j
      BY <1>10, <2>3, <2>8 DEF Followed
    <3>2. Mine(r)' = {n} /\ n.id = j.event /\ n.rev = resv'[r].rev
      BY <1>5, <1>6, <1>9, <2>1, <2>8 DEF Mine
    <3>3. Matches(r)'
      BY <1>6, <1>9, <2>8, <3>2 DEF Matches
    <3>4. Doing(p, r)'
      BY <1>5, <2>4, <3>1 DEF Doing
    <3>5. PassFits(p, r)'
      BY <1>5, <1>6, <1>9, <2>4, <2>8, <3>1, <3>2, <3>3 DEF PassFits, AfterResv, AfterUser, Upserts
    <3> QED
      BY <2>4, <3>1, <3>3, <3>4, <3>5 DEF Kept
  <2>9. orphaned \subseteq orphaned'
    BY <1>10
  <2> QED
    BY <1>2, <1>6, <1>10, <2>2, <2>3, <2>5, <2>6, <2>7, <2>8, <2>9, PassStep
<1>11. CASE G!MakeEvent(p) /\ G!Answered /\ G!Note(p, "event", born + 1) /\ G!Go(p, "setMapping") /\ UNCHANGED orphaned
  <2>1. Moves(p, "setMapping", j)
    BY <1>4, <1>6, <1>11 DEF G!Go, G!Note, G!Answered, Moves
  <2> QED
    BY <1>5, <1>10, <1>11, <2>1
<1>12. CASE G!MakeEvent(p) /\ G!Unanswered(p) /\ orphaned' = orphaned \cup {job[p].resv}
  <2>1. Moves(p, "idle", Null)
    BY <1>6, <1>12 DEF G!Unanswered, G!End, G!Go, Moves
  <2> QED
    BY <1>2, <1>5, <1>10, <1>12, <2>1
<1> QED
  BY <1>7, <1>8, <1>11, <1>12 DEF G!InsertEvent, G!remote

LEMMA SetMappingKeeps == ASSUME SyncInv, NEW p \in G!Procs, G!SetMapping(p) PROVE SyncInv'
<1>1. step[p] = "setMapping" /\ SyncTypeOK /\ IdsOK
  BY DEF G!SetMapping, SyncInv
<1>2. PICK r \in Resvs : Doing(p, r) /\ job[p].resv = r /\ job[p] # Null
  BY <1>1, InPass
<1>3. PICK j : j = job[p]
  OBVIOUS
<1>4. j \in G!Pass /\ j # Null /\ j.resv = r
  BY <1>1, <1>2, <1>3, InPass
<1>5. UNCHANGED <<resv, google, dirty, cals, events, born, granted, listed, missed, orphaned, overlapped>>
  BY DEF G!SetMapping, G!remote
<1>6. mapping' = [mapping EXCEPT ![r] = job[p].event]
  BY <1>2 DEF G!SetMapping
<1>7. Moves(p, "clear", j) /\ "clear" \in G!Steps /\ ReadBy("clear", j) /\ NoDetour("clear", j)
  BY <1>1, <1>3, <1>4 DEF G!SetMapping, G!Go, Moves, SyncTypeOK, G!TypeOK, G!Steps, ReadBy, NoDetour,
     AfterUser, AfterResv, Marking, Remaking
<1>8. mapping' \in [Resvs -> G!Ids] /\ mapping'[r] = job[p].event /\ \A x \in Resvs \ {r} : mapping'[x] = mapping[x]
  BY <1>1, <1>3, <1>4, <1>6, StoreTyped DEF G!Pass
<1>9. StoreTypes
  BY <1>1, <1>5, <1>8, StoreTyped DEF StoreTypes
<1>10. step'[p] = "clear" /\ job'[p] = j /\ \A q \in G!Procs \ {p} : job'[q] = job[q] /\ step'[q] = step[q]
  BY <1>1, <1>4, <1>7, <1>9, Moving
<1>11. IdsOK'
  <2>1. \A e, f \in events' : e.id = f.id => e = f
    BY <1>1, <1>5 DEF IdsOK
  <2>2. \A e \in events' : \E m \in events : m.id = e.id /\ m.resv = e.resv
    BY <1>5
  <2> QED
    BY <1>1, <1>2, <1>3, <1>5, <1>8, <1>10, <2>1, <2>2, IdsMove
<1>12. \A x \in Resvs : Mine(x)' = Mine(x) /\ Matches(x)' = Matches(x)
  BY <1>5 DEF Mine, Matches
<1>13. LinkStands => \A e \in events' : e.cal = 1
  BY <1>5 DEF LinkStands
<1>14. ASSUME Kept(p, r) PROVE Kept(p, r)'
  <2>1. Matches(r) /\ \A e \in Mine(r) : e.id = job[p].event
    BY <1>1, <1>2, <1>14 DEF Kept, PassFits
  <2>2. PassFits(p, r)'
    BY <1>10, <1>12, <2>1 DEF PassFits, AfterResv, AfterUser, Upserts
  <2> QED
    BY <1>8, <1>12, <2>1, <2>2 DEF Kept
<1> QED
  BY <1>2, <1>4, <1>5, <1>7, <1>8, <1>9, <1>11, <1>12, <1>13, <1>14, PassStep

LEMMA DeleteEventKeeps == ASSUME SyncInv, NEW p \in G!Procs, G!DeleteEvent(p) PROVE SyncInv'
<1>1. step[p] = "delete" /\ SyncTypeOK /\ IdsOK
  BY DEF G!DeleteEvent, SyncInv
<1>2. PICK r \in Resvs : Doing(p, r) /\ job[p].resv = r /\ job[p] # Null
  BY <1>1, InPass
<1>3. PICK j : j = job[p]
  OBVIOUS
<1>4. /\ j \in G!Pass /\ j.resv = r /\ j.user \in G!Google /\ j.seen \in G!Snapshot
  BY <1>1, <1>2, <1>3, InPass DEF ReadBy, AfterUser, AfterResv
<1>5. UNCHANGED <<resv, google, mapping, dirty, granted, listed, missed, orphaned, overlapped>>
  BY DEF G!DeleteEvent
<1>6. CASE G!Refused(p)
  BY <1>1, <1>5, <1>6, GivesUp DEF G!Refused, SameStore, G!remote
<1>7. ASSUME G!EraseEvent(p), NEW s \in {"idle", "dropMapping"}, NEW k \in {Null, j}, s = "idle" <=> k = Null,
             Moves(p, s, k)
      PROVE  SyncInv'
  <2>1. events' \subseteq events /\ UNCHANGED <<cals, born>>
    BY <1>7 DEF G!EraseEvent
  <2>2. StoreTypes
    BY <1>1, <1>5, <2>1, StoreTyped DEF StoreTypes
  <2>3. s \in G!Steps /\ k \in G!Pass \cup {Null} /\ ReadBy(s, k) /\ (k = Null \/ (k.resv = r /\ k = j))
    BY <1>4, <1>7 DEF G!Steps, ReadBy, AfterUser, AfterResv, Marking, Remaking
  <2>4. /\ step'[p] = s /\ job'[p] = k
        /\ \A q \in G!Procs \ {p} : job'[q] = job[q] /\ step'[q] = step[q]
    BY <1>1, <1>7, <2>2, <2>3, Moving
  <2>5. \A x \in Resvs \ {r} : Mine(x)' = Mine(x)
    <3>1. \A e \in events : e \notin events' => e.resv = r
      BY <1>1, <1>2, <1>7 DEF G!EraseEvent, IdsOK
    <3> QED
      BY <2>1, <3>1 DEF Mine
  <2>6. IdsOK'
    <3>1. \A e, f \in events' : e.id = f.id => e = f
      BY <1>1, <2>1 DEF IdsOK
    <3>2. \A e \in events' : \E m \in events : m.id = e.id /\ m.resv = e.resv
      BY <2>1
    <3> QED
      BY <1>1, <1>2, <1>3, <1>5, <2>1, <2>3, <2>4, <3>1, <3>2, IdsMove
  <2>7. LinkStands => (\A e \in events' : e.cal = 1) /\ NoDetour(s, k) /\ UNCHANGED <<google, cals, granted>>
    BY <1>1, <1>3, <1>5, <1>7, <2>1, <2>3 DEF LinkStands, NoDetour, AfterUser, Marking, Remaking
  <2>8. ASSUME LinkStands, Kept(p, r) PROVE Kept(p, r)'
    <3>1. /\ job[p].seen = resv[r] /\ job[p].event = mapping[r] /\ ~resv[r].confirmed
          /\ \A e \in Mine(r) : e.id = mapping[r]
      BY <1>1, <1>2, <2>8 DEF Kept, PassFits, AfterResv, AfterUser
    <3>2. job[p].user.cal = 1 /\ \A e \in events : e.cal = 1
      BY <1>1, <2>8, LinkKnown DEF LinkStands, AfterUser
    <3>3. Mine(r)' = {}
      BY <1>7, <2>1, <3>1, <3>2 DEF Mine, G!EraseEvent
    <3>4. Matches(r)'
      BY <1>5, <3>1, <3>3 DEF Matches
    <3>5. Doing(p, r)' => PassFits(p, r)'
      <4>1. Doing(p, r)' => k = j /\ s = "dropMapping"
        BY <1>7, <2>3, <2>4 DEF Doing
      <4> QED
        BY <1>3, <1>5, <2>4, <3>1, <3>3, <4>1 DEF PassFits, AfterResv, AfterUser, Upserts
    <3> QED
      BY <3>3, <3>4, <3>5 DEF Kept
  <2> QED
    BY <1>2, <1>5, <1>7, <2>2, <2>3, <2>5, <2>6, <2>7, <2>8, PassStep
<1>8. CASE G!EraseEvent(p) /\ G!Answered /\ G!Go(p, "dropMapping") /\ UNCHANGED job
  <2>1. Moves(p, "dropMapping", j)
    BY <1>1, <1>3, <1>5, <1>8 DEF G!Go, G!Answered, Moves, SyncTypeOK, G!TypeOK
  <2> QED
    BY <1>2, <1>3, <1>7, <1>8, <2>1
<1>9. CASE G!EraseEvent(p) /\ G!Unanswered(p)
  <2>1. Moves(p, "idle", Null)
    BY <1>5, <1>9 DEF G!Unanswered, G!End, G!Go, Moves
  <2> QED
    BY <1>7, <1>9, <2>1
<1> QED
  BY <1>6, <1>8, <1>9 DEF G!DeleteEvent, G!remote

LEMMA DropMappingKeeps == ASSUME SyncInv, NEW p \in G!Procs, G!DropMapping(p) PROVE SyncInv'
<1>1. step[p] = "dropMapping" /\ SyncTypeOK /\ IdsOK
  BY DEF G!DropMapping, SyncInv
<1>2. PICK r \in Resvs : Doing(p, r) /\ job[p].resv = r /\ job[p] # Null
  BY <1>1, InPass
<1>3. PICK j : j = job[p]
  OBVIOUS
<1>4. j \in G!Pass /\ j # Null /\ j.resv = r
  BY <1>1, <1>2, <1>3, InPass
<1>5. UNCHANGED <<resv, google, dirty, cals, events, born, granted, listed, missed, orphaned, overlapped>>
  BY DEF G!DropMapping, G!remote
<1>6. mapping' = [mapping EXCEPT ![r] = Null]
  BY <1>2 DEF G!DropMapping
<1>7. Moves(p, "clear", j) /\ "clear" \in G!Steps /\ ReadBy("clear", j) /\ NoDetour("clear", j)
  BY <1>1, <1>3, <1>4 DEF G!DropMapping, G!Go, Moves, SyncTypeOK, G!TypeOK, G!Steps, ReadBy, NoDetour,
     AfterUser, AfterResv, Marking, Remaking
<1>8. mapping' \in [Resvs -> G!Ids] /\ mapping'[r] = Null /\ \A x \in Resvs \ {r} : mapping'[x] = mapping[x]
  BY <1>1, <1>6, StoreTyped DEF G!Ids
<1>9. StoreTypes
  BY <1>1, <1>5, <1>8, StoreTyped DEF StoreTypes
<1>10. step'[p] = "clear" /\ job'[p] = j /\ \A q \in G!Procs \ {p} : job'[q] = job[q] /\ step'[q] = step[q]
  BY <1>1, <1>4, <1>7, <1>9, Moving
<1>11. IdsOK'
  <2>1. \A e, f \in events' : e.id = f.id => e = f
    BY <1>1, <1>5 DEF IdsOK
  <2>2. \A e \in events' : \E m \in events : m.id = e.id /\ m.resv = e.resv
    BY <1>5
  <2> QED
    BY <1>1, <1>2, <1>3, <1>5, <1>8, <1>10, <2>1, <2>2, IdsMove
<1>12. \A x \in Resvs : Mine(x)' = Mine(x) /\ Matches(x)' = Matches(x)
  BY <1>5 DEF Mine, Matches
<1>13. LinkStands => \A e \in events' : e.cal = 1
  BY <1>5 DEF LinkStands
<1>14. ASSUME Kept(p, r) PROVE Kept(p, r)'
  <2>1. Mine(r) = {} /\ Matches(r)
    BY <1>1, <1>2, <1>14 DEF Kept, PassFits, Matches
  <2>2. PassFits(p, r)'
    BY <1>10, <1>12, <2>1 DEF PassFits, AfterResv, AfterUser, Upserts
  <2> QED
    BY <1>12, <2>1, <2>2 DEF Kept
<1> QED
  BY <1>2, <1>4, <1>5, <1>7, <1>8, <1>9, <1>11, <1>12, <1>13, <1>14, PassStep

-----------------------------------------------------------------------------
(* The steps about the flag, the end of a pass, and its beginning.           *)
LEMMA FlagKeeps == ASSUME SyncInv, NEW p \in G!Procs, G!Flag(p) PROVE SyncInv'
<1>1. step[p] = "flag" /\ SyncTypeOK /\ IdsOK
  BY DEF G!Flag, SyncInv
<1>2. PICK r \in Resvs : Doing(p, r) /\ job[p].resv = r /\ job[p] # Null
  BY <1>1, InPass
<1>3. PICK j : j = job[p]
  OBVIOUS
<1>4. j \in G!Pass /\ j # Null /\ j.resv = r
  BY <1>1, <1>2, <1>3, InPass
<1>5. UNCHANGED <<resv, google, mapping, cals, events, born, granted, listed, missed, orphaned, overlapped>>
      /\ dirty' = dirty \cup {r}
  BY <1>2 DEF G!Flag, G!remote
<1>6. Moves(p, "user", j) /\ "user" \in G!Steps /\ ReadBy("user", j) /\ NoDetour("user", j)
  BY <1>1, <1>3 DEF G!Flag, G!Go, Moves, SyncTypeOK, G!TypeOK, G!Steps, ReadBy, NoDetour,
     AfterUser, AfterResv, Marking, Remaking
<1>7. StoreTypes
  BY <1>1, <1>5, StoreTyped DEF StoreTypes
<1>8. step'[p] = "user" /\ job'[p] = j /\ \A q \in G!Procs \ {p} : job'[q] = job[q] /\ step'[q] = step[q]
  BY <1>1, <1>4, <1>6, <1>7, Moving
<1>9. IdsOK'
  BY <1>1, <1>2, <1>3, <1>4, <1>5, <1>8, KeepsIds
<1>10. \A x \in Resvs : Mine(x)' = Mine(x)
  BY <1>5 DEF Mine
<1>11. LinkStands => \A e \in events' : e.cal = 1
  BY <1>5 DEF LinkStands
<1>12. ASSUME Kept(p, r) PROVE Kept(p, r)'
  <2>1. PassFits(p, r)'
    BY <1>8 DEF PassFits, AfterResv, AfterUser, Upserts
  <2> QED
    BY <1>1, <1>5, <1>10, <1>12, <2>1 DEF Kept
<1> QED
  BY <1>2, <1>4, <1>5, <1>6, <1>7, <1>9, <1>10, <1>11, <1>12, PassStep

LEMMA ClearFlagKeeps == ASSUME SyncInv, NEW p \in G!Procs, G!ClearFlag(p) PROVE SyncInv'
<1>1. step[p] = "clear" /\ SyncTypeOK /\ IdsOK
  BY DEF G!ClearFlag, SyncInv
<1>2. PICK r \in Resvs : Doing(p, r) /\ job[p].resv = r /\ job[p] # Null
  BY <1>1, InPass
<1>3. UNCHANGED <<resv, google, mapping, cals, events, born, granted, listed, missed, orphaned, overlapped>>
      /\ dirty' = dirty \ {r}
  BY <1>2 DEF G!ClearFlag, G!remote
<1>4. Moves(p, "idle", Null) /\ "idle" \in G!Steps /\ ReadBy("idle", Null) /\ NoDetour("idle", Null)
  BY DEF G!ClearFlag, G!End, G!Go, Moves, G!Steps, ReadBy, NoDetour, AfterUser, AfterResv, Marking, Remaking
<1>5. StoreTypes
  BY <1>1, <1>3, StoreTyped DEF StoreTypes
<1>6. step'[p] = "idle" /\ job'[p] = Null /\ \A q \in G!Procs \ {p} : job'[q] = job[q] /\ step'[q] = step[q]
  BY <1>1, <1>4, <1>5, Moving
<1>7. IdsOK'
  BY <1>1, <1>2, <1>3, <1>6, KeepsIds
<1>8. \A x \in Resvs : Mine(x)' = Mine(x) /\ Matches(x)' = Matches(x)
  BY <1>3 DEF Mine, Matches
<1>9. LinkStands => \A e \in events' : e.cal = 1
  BY <1>3 DEF LinkStands
<1>10. ASSUME Kept(p, r) PROVE Kept(p, r)'
  <2>1. Matches(r) /\ \A e \in Mine(r) : e.id = mapping[r]
    BY <1>1, <1>2, <1>10 DEF Kept, PassFits
  <2> QED
    BY <1>3, <1>6, <1>8, <2>1 DEF Kept, Doing
<1> QED
  BY <1>2, <1>3, <1>4, <1>5, <1>7, <1>8, <1>9, <1>10, PassStep

LEMMA CrashKeeps == ASSUME SyncInv, NEW p \in G!Procs, G!Crash(p) PROVE SyncInv'
<1>1. step[p] # "idle" /\ SyncTypeOK
  BY DEF G!Crash, SyncInv
<1>2. PICK r \in Resvs : Doing(p, r) /\ job[p].resv = r /\ job[p] # Null
  BY <1>1, InPass
<1>3. UNCHANGED <<resv, google, mapping, dirty, cals, events, born, granted, overlapped>>
  BY DEF G!Crash, G!remote
<1>4. /\ missed' = IF step[p] = "flag" THEN missed \cup {r} ELSE missed
      /\ orphaned' = IF step[p] = "setMapping" /\ job[p].event # mapping[r] THEN orphaned \cup {r} ELSE orphaned
      /\ listed' = IF p = Cron THEN {} ELSE listed
  BY <1>2 DEF G!Crash
<1>5. Moves(p, "idle", Null) /\ "idle" \in G!Steps /\ ReadBy("idle", Null) /\ NoDetour("idle", Null)
  BY DEF G!Crash, G!End, G!Go, Moves, G!Steps, ReadBy, NoDetour, AfterUser, AfterResv, Marking, Remaking
<1>6. missed' \cup overlapped' \cup orphaned' \subseteq Resvs
  BY <1>1, <1>3, <1>4, StoreTyped
<1>7. ASSUME LinkStands, Kept(p, r), Followed(r)', step[p] = "setMapping" PROVE Kept(p, r)'
  <2>1. job[p].event = mapping[r]
    BY <1>4, <1>7 DEF Followed
  <2>2. Matches(r) /\ \A e \in Mine(r) : e.id = mapping[r]
    BY <1>2, <1>7, <2>1 DEF Kept, PassFits
  <2>3. Matches(r)' /\ Mine(r)' = Mine(r)
    BY <1>3, <2>2 DEF Matches, Mine
  <2>4. job'[p] = Null
    BY <1>1, <1>5 DEF Moves, SyncTypeOK, G!TypeOK
  <2> QED
    BY <1>3, <2>2, <2>3, <2>4 DEF Kept, Doing
<1>8. Followed(r)' => step[p] # "flag"
  BY <1>4 DEF Followed
<1> QED
  BY <1>2, <1>3, <1>4, <1>5, <1>6, <1>7, <1>8, Quiet

\* A pass begins. When there is one over the reservation already, nothing more is claimed.
LEMMA Beginning ==
  ASSUME SyncInv, NEW p \in G!Procs, NEW r \in Resvs, NEW s \in {"flag", "user"}, step[p] = "idle", G!Begin(p, r, s),
         UNCHANGED <<google, mapping, dirty, cals, events, born, granted, missed, orphaned>>,
         listed' \subseteq listed, SyncTypeOK', spent'.links = spent.links,
         \A x \in Resvs : resv'[x] # resv[x] => x = r /\ s = "flag"
  PROVE  SyncInv'
<1>1. SyncTypeOK /\ IdsOK
  BY DEF SyncInv
<1>2. PICK j : j = [resv |-> r, user |-> Null, seen |-> Null, event |-> Null, cal |-> Null, latest |-> Null]
  OBVIOUS
<1>3. /\ step'[p] = s /\ job'[p] = j /\ job[p] = Null
      /\ \A q \in G!Procs \ {p} : job'[q] = job[q] /\ step'[q] = step[q]
      /\ j.resv = r /\ j.event = Null
  BY <1>1, <1>2 DEF G!Begin, G!Go, SyncTypeOK, G!TypeOK
<1>4. step'[p] # "idle"
  BY <1>3
<1>5. job'[p] # Null
  BY <1>4 DEF SyncTypeOK, G!TypeOK
<1>6. IdsOK'
  <2>1. (\A q \in G!Procs : job[q] # Null => job[q].event \in 1 .. born \cup {Null})'
    BY <1>1, <1>3 DEF IdsOK
  <2>2. \A e \in events : e.id # Null
    BY <1>1, StoreTyped, Constants
  <2>3. (\A e \in events, q \in G!Procs : job[q] # Null /\ e.id = job[q].event => e.resv = job[q].resv)'
    BY <1>1, <1>3, <2>2 DEF IdsOK
  <2> QED
    BY <1>1, <2>1, <2>3 DEF IdsOK
<1>7. ASSUME LinkStands PROVE LinkStands'
  BY <1>3, <1>7 DEF LinkStands, AfterUser, Marking, Remaking
<1>8. ASSUME FollowedOK PROVE FollowedOK'
  <2> SUFFICES ASSUME NEW x \in Resvs, Followed(x)' PROVE \E q \in G!Procs : Alone(q, x)' /\ Kept(q, x)'
    BY DEF FollowedOK
  <2>1. Followed(x)
    BY DEF Followed, G!Begin
  <2>2. Mine(x)' = Mine(x)
    BY DEF Mine
  <2>3. CASE x = r
    <3>1. \A q \in G!Procs : ~Doing(q, r)
      BY <2>3 DEF Followed, G!Begin, Doing
    <3>2. Kept(p, r)
      BY <1>8, <2>1, <2>3, <3>1, Sole
    <3>3. Alone(p, r)'
      BY <1>3, <3>1 DEF Alone, Doing
    <3>4. PassFits(p, r)'
      BY <1>3 DEF PassFits, AfterResv, AfterUser, Upserts
    <3>5. s = "user" => Matches(r)' = Matches(r)
      BY <2>2, <2>3 DEF Matches
    <3>6. Doing(p, r)'
      BY <1>3, <1>5 DEF Doing
    <3>7. Kept(p, r)'
      BY <1>3, <2>2, <2>3, <3>1, <3>2, <3>4, <3>5, <3>6 DEF Kept
    <3> QED
      BY <2>3, <3>3, <3>7
  <2>4. CASE x # r
    <3>1. PICK q \in G!Procs : Alone(q, x) /\ Kept(q, x)
      BY <1>8, <2>1 DEF FollowedOK
    <3>2. ~Doing(p, x) /\ ~Doing(p, x)'
      BY <1>3, <2>4 DEF Doing
    <3>3. \A c \in G!Procs \ {p} : Doing(c, x)' = Doing(c, x)
      BY <1>3 DEF Doing
    <3>4. Alone(q, x)'
      BY <3>1, <3>2, <3>3 DEF Alone
    <3>5. Matches(x)' = Matches(x) /\ resv'[x] = resv[x] /\ mapping'[x] = mapping[x]
      BY <2>2, <2>4 DEF Matches
    <3>6. q = p \/ PassFits(q, x)' = PassFits(q, x)
      BY <1>3, <2>2, <3>5 DEF PassFits
    <3> QED
      BY <1>3, <2>2, <3>1, <3>2, <3>3, <3>4, <3>5, <3>6 DEF Kept
  <2> QED
    BY <2>3, <2>4
<1> QED
  BY <1>6, <1>7, <1>8 DEF SyncInv, AllLinked

\* The types when a pass begins.
LEMMA BeginTypes ==
  ASSUME SyncTypeOK, NEW p \in G!Procs, NEW r \in Resvs, NEW s \in {"flag", "user"}, G!Begin(p, r, s)
  PROVE  /\ step' \in [G!Procs -> G!Steps] /\ job' \in [G!Procs -> G!Pass \cup {Null}]
         /\ \A q \in G!Procs : (step'[q] = "idle" <=> job'[q] = Null) /\ ReadBy(step'[q], job'[q])
         /\ overlapped' \subseteq Resvs
<1>1. PICK j : j = [resv |-> r, user |-> Null, seen |-> Null, event |-> Null, cal |-> Null, latest |-> Null]
  OBVIOUS
<1>2. j \in G!Pass /\ j # Null
  BY <1>1, Constants DEF G!Pass, G!Ids
<1>3. step' = [step EXCEPT ![p] = s] /\ job' = [job EXCEPT ![p] = j] /\ s \in G!Steps /\ s # "idle"
  BY <1>1 DEF G!Begin, G!Go, G!Steps
<1>4. ReadBy(s, j)
  BY DEF ReadBy, AfterUser, AfterResv, Marking, Remaking
<1>5. step' \in [G!Procs -> G!Steps] /\ job' \in [G!Procs -> G!Pass \cup {Null}]
  BY <1>2, <1>3 DEF SyncTypeOK, G!TypeOK
<1>6. /\ step'[p] = s /\ job'[p] = j
      /\ \A q \in G!Procs \ {p} : job'[q] = job[q] /\ step'[q] = step[q]
  BY <1>3 DEF SyncTypeOK, G!TypeOK
<1>7. \A q \in G!Procs : (step'[q] = "idle" <=> job'[q] = Null) /\ ReadBy(step'[q], job'[q])
  BY <1>2, <1>3, <1>4, <1>6 DEF SyncTypeOK, G!TypeOK
<1>8. overlapped' \subseteq Resvs
  BY StoreTyped DEF G!Begin
<1> QED
  BY <1>5, <1>7, <1>8

LEMMA SweepKeeps == ASSUME SyncInv, G!Sweep PROVE SyncInv'
<1>1. SyncTypeOK /\ Cron \in G!Procs
  BY DEF SyncInv, G!Procs
<1>2. CASE G!SweepList
  <2>1. UNCHANGED <<resv, google, mapping, dirty, cals, events, born, granted, step, job, spent, missed, orphaned,
                    overlapped>> /\ listed' = dirty
    BY <1>2 DEF G!SweepList, G!remote
  <2>2. SyncTypeOK'
    BY <1>1, <2>1 DEF SyncTypeOK, G!TypeOK
  <2>3. IdsOK' = IdsOK /\ LinkStands' = LinkStands
    BY <2>1 DEF IdsOK, LinkStands
  <2>4. FollowedOK' = FollowedOK
    BY <2>1 DEF FollowedOK, Followed, Alone, Kept, PassFits, Matches, Mine, Doing
  <2> QED
    BY <2>1, <2>2, <2>3, <2>4 DEF SyncInv, AllLinked
<1>3. ASSUME NEW r \in Resvs, G!SweepNext(r) PROVE SyncInv'
  <2>1. /\ step[Cron] = "idle" /\ listed' = listed \ {r} /\ G!Begin(Cron, r, "user")
        /\ UNCHANGED <<resv, google, mapping, dirty, cals, events, born, granted, spent, missed, orphaned>>
    BY <1>3 DEF G!SweepNext, G!remote
  <2>2. SyncTypeOK'
    <3>1. /\ step' \in [G!Procs -> G!Steps] /\ job' \in [G!Procs -> G!Pass \cup {Null}]
          /\ \A q \in G!Procs : (step'[q] = "idle" <=> job'[q] = Null) /\ ReadBy(step'[q], job'[q])
          /\ overlapped' \subseteq Resvs
      BY <1>1, <2>1, BeginTypes
    <3> QED
      BY <1>1, <2>1, <3>1 DEF SyncTypeOK, G!TypeOK
  <2> QED
    BY <1>1, <2>1, <2>2, Beginning
<1> QED
  BY <1>2, <1>3 DEF G!Sweep

LEMMA MutateKeeps == ASSUME SyncInv, NEW p \in Requests, NEW r \in Resvs, G!Mutate(p, r) PROVE SyncInv'
<1>1. SyncTypeOK /\ p \in G!Procs
  BY DEF SyncInv, G!Procs
<1>2. /\ step[p] = "idle" /\ spent.revs < MaxRevs /\ G!Spend("revs")
      /\ UNCHANGED <<google, mapping, dirty, cals, events, born, granted, listed, orphaned>>
  BY DEF G!Mutate, G!remote
<1>3. PICK b \in BOOLEAN : resv' = [resv EXCEPT ![r] = [confirmed |-> b, rev |-> @.rev + 1]]
  BY DEF G!Mutate
<1>4. /\ spent' \in [revs : 0 .. MaxRevs, faults : 0 .. MaxTroubles, links : 0 .. MaxTroubles]
      /\ spent'.revs = spent.revs + 1 /\ spent'.links = spent.links
  <2>1. spent \in [revs : 0 .. MaxRevs, faults : 0 .. MaxTroubles, links : 0 .. MaxTroubles]
    BY <1>1 DEF SyncTypeOK, G!TypeOK
  <2> QED
    BY <1>2, <2>1, Constants DEF G!Spend
<1>5. /\ resv' \in [Resvs -> G!Snapshot] /\ \A x \in Resvs : resv'[x].rev <= spent'.revs
      /\ \A x \in Resvs : resv'[x] # resv[x] => x = r
  <2>1. resv \in [Resvs -> G!Snapshot] /\ \A x \in Resvs : resv[x].rev \in Nat /\ resv[x].rev <= spent.revs
    BY <1>1, StoreTyped DEF SyncTypeOK, G!Snapshot
  <2>2. spent.revs \in Nat
    BY <1>1 DEF SyncTypeOK, G!TypeOK
  <2>3. resv[r].rev + 1 \in 0 .. MaxRevs
    BY <1>2, <2>1, <2>2, Constants
  <2>4. [confirmed |-> b, rev |-> resv[r].rev + 1] \in G!Snapshot
    BY <2>3 DEF G!Snapshot
  <2>5. /\ resv' \in [Resvs -> G!Snapshot] /\ resv'[r] = [confirmed |-> b, rev |-> resv[r].rev + 1]
        /\ \A x \in Resvs \ {r} : resv'[x] = resv[x]
    BY <1>3, <2>1, <2>4
  <2>6. resv'[r].rev = resv[r].rev + 1
    BY <2>5
  <2> QED
    BY <1>4, <2>1, <2>2, <2>5, <2>6
<1>6. CASE google = Null
  <2>1. UNCHANGED <<step, job, overlapped>> /\ missed' = missed \cup {r}
    BY <1>6 DEF G!Mutate
  <2>2. SyncTypeOK'
    BY <1>1, <1>2, <1>4, <1>5, <2>1 DEF SyncTypeOK, G!TypeOK
  <2>3. ~LinkStands
    BY <1>6, LinkKnown
  <2>4. IdsOK' = IdsOK
    BY <1>2, <2>1 DEF IdsOK
  <2> QED
    BY <1>4, <2>2, <2>3, <2>4 DEF SyncInv, AllLinked
<1>7. CASE google # Null
  <2>1. G!Begin(p, r, "flag") /\ UNCHANGED missed
    BY <1>7 DEF G!Mutate
  <2>2. /\ step' \in [G!Procs -> G!Steps] /\ job' \in [G!Procs -> G!Pass \cup {Null}]
        /\ \A q \in G!Procs : (step'[q] = "idle" <=> job'[q] = Null) /\ ReadBy(step'[q], job'[q])
        /\ overlapped' \subseteq Resvs
    BY <1>1, <2>1, BeginTypes
  <2>3. SyncTypeOK'
    BY <1>1, <1>2, <1>4, <1>5, <2>1, <2>2 DEF SyncTypeOK, G!TypeOK
  <2> QED
    BY <1>1, <1>2, <1>4, <1>5, <2>1, <2>3, Beginning
<1> QED
  BY <1>6, <1>7

LEMMA ChangeLinkKeeps == ASSUME SyncInv, G!ChangeLink PROVE SyncInv'
<1>1. SyncTypeOK /\ IdsOK
  BY DEF SyncInv
<1>2. UNCHANGED <<resv, mapping, dirty, born, step, job, listed, missed, orphaned, overlapped>>
  BY DEF G!ChangeLink
<1>3. /\ google' \in G!Google \cup {Null} /\ granted' \in BOOLEAN
      /\ cals' \subseteq cals /\ events' \subseteq events
  <2>1. google \in G!Google \cup {Null} /\ granted \in BOOLEAN
    BY <1>1, StoreTyped
  <2>2. [cal |-> IF google = Null THEN Null ELSE google.cal, reauth |-> FALSE] \in G!Google
    BY <2>1 DEF G!Google, G!Ids
  <2>3. /\ google' \in {Null, google, [cal |-> IF google = Null THEN Null ELSE google.cal, reauth |-> FALSE]}
        /\ granted' = granted \/ granted' = TRUE \/ granted' = FALSE
    BY DEF G!ChangeLink
  <2>4. cals' \subseteq cals /\ events' \subseteq events
    BY DEF G!ChangeLink
  <2> QED
    BY <2>1, <2>2, <2>3, <2>4
<1>4. /\ spent' \in [revs : 0 .. MaxRevs, faults : 0 .. MaxTroubles, links : 0 .. MaxTroubles]
      /\ spent'.revs = spent.revs /\ spent'.links # 0
  <2>1. spent \in [revs : 0 .. MaxRevs, faults : 0 .. MaxTroubles, links : 0 .. MaxTroubles]
    BY <1>1 DEF SyncTypeOK, G!TypeOK
  <2> QED
    BY <2>1, Constants DEF G!ChangeLink, G!Trouble, G!Spend
<1>5. SyncTypeOK'
  BY <1>1, <1>2, <1>3, <1>4 DEF SyncTypeOK, G!TypeOK
<1>6. IdsOK'
  BY <1>1, <1>2, <1>3 DEF IdsOK
<1> QED
  BY <1>4, <1>5, <1>6 DEF SyncInv, AllLinked

-----------------------------------------------------------------------------
\* GcalSync counts as this module does.
LEMMA FewOf == G!Cardinality({}) = 0 /\ \A x : G!Cardinality({x}) = 1
<1>1. \A S : G!IsFiniteSet(S) <=> IsFiniteSet(S)
  BY DEF IsFiniteSet, G!IsFiniteSet
<1>2. \A S : G!Cardinality(S) = Cardinality(S)
  BY <1>1 DEF Cardinality, G!Cardinality
<1> QED
  BY <1>2, FS_Singleton, FS_EmptySet

\* The inductive invariant holds at the start, and every step keeps it.
LEMMA SyncInit == ASSUME G!Init PROVE SyncInv
<1>1. cals \subseteq {1} /\ (FirstCalendar # Null => FirstCalendar = 1 /\ cals = {1})
  BY Constants DEF G!Init
<1>2. born \in Nat /\ cals \subseteq 1 .. born
  <2>0. born = G!Cardinality(cals)
    BY DEF G!Init
  <2>1. CASE cals = {}
    BY <2>0, <2>1, FewOf
  <2>2. CASE cals = {1}
    BY <2>0, <2>2, FewOf
  <2> QED
    BY <1>1, <2>1, <2>2
<1>3. G!TypeOK
  <2>1. FirstCalendar \in G!Ids
    BY Constants DEF G!Ids
  <2>2. google \in G!Google
    BY <2>1 DEF G!Init, G!Google
  <2>3. /\ resv \in [Resvs -> G!Snapshot] /\ mapping \in [Resvs -> G!Ids]
        /\ step \in [G!Procs -> G!Steps] /\ job \in [G!Procs -> G!Pass \cup {Null}]
        /\ \A q \in G!Procs : step[q] = "idle" <=> job[q] = Null
    BY Constants DEF G!Init, G!Snapshot, G!Ids, G!Steps
  <2>4. spent \in [revs : 0 .. MaxRevs, faults : 0 .. MaxTroubles, links : 0 .. MaxTroubles]
    BY Constants DEF G!Init
  <2> QED
    BY <1>2, <2>2, <2>3, <2>4 DEF G!Init, G!TypeOK
<1>4. SyncTypeOK
  BY <1>2, <1>3 DEF G!Init, SyncTypeOK, ReadBy, AfterUser, AfterResv, Marking, Remaking
<1>5. IdsOK
  BY DEF G!Init, IdsOK
<1>6. FirstCalendar # Null => LinkStands
  BY <1>1 DEF G!Init, LinkStands, AfterUser, Marking, Remaking
<1>7. FollowedOK
  <2>1. Cron \in G!Procs
    BY DEF G!Procs
  <2>2. ASSUME NEW r \in Resvs PROVE Alone(Cron, r) /\ Kept(Cron, r)
    BY <2>1 DEF G!Init, Alone, Kept, Doing, Matches, Mine
  <2> QED
    BY <2>1, <2>2 DEF FollowedOK
<1> QED
  BY <1>4, <1>5, <1>6, <1>7 DEF SyncInv, AllLinked

LEMMA SyncNext == ASSUME SyncInv, [G!Next]_(G!vars) PROVE SyncInv'
<1>1. ASSUME NEW p \in G!Procs, G!Step(p) PROVE SyncInv'
  BY <1>1, FlagKeeps, ReadUserKeeps, RefreshTokenKeeps, ReadResvKeeps, ReadMappingKeeps, CheckCalendarKeeps,
     NewCalendarKeeps, ReadForUpdateKeeps, KeepCalendarKeeps, MarkReauthKeeps, PatchEventKeeps, InsertEventKeeps,
     SetMappingKeeps, DeleteEventKeeps, DropMappingKeeps, ClearFlagKeeps DEF G!Step
<1>2. CASE UNCHANGED G!vars
  <2>1. UNCHANGED <<resv, google, mapping, dirty, cals, events, born, granted, step, job, listed, spent, missed,
                    overlapped, orphaned>>
    BY <1>2 DEF G!vars, G!remote
  <2>2. SyncTypeOK' = SyncTypeOK /\ IdsOK' = IdsOK /\ LinkStands' = LinkStands
    BY <2>1 DEF SyncTypeOK, G!TypeOK, IdsOK, LinkStands
  <2>3. FollowedOK' = FollowedOK
    BY <2>1 DEF FollowedOK, Followed, Alone, Kept, PassFits, Matches, Mine, Doing
  <2> QED
    BY <2>1, <2>2, <2>3 DEF SyncInv, AllLinked
<1>3. CASE G!Done
  BY <1>2, <1>3 DEF G!Done
<1> QED
  BY <1>1, <1>2, <1>3, CrashKeeps, MutateKeeps, SweepKeeps, ChangeLinkKeeps DEF G!Next

\* The invariant holds throughout (sync.ts, gcal.ts and their callers).
THEOREM SyncInvariance == G!Spec => []SyncInv
<1>1. G!Init => SyncInv
  BY SyncInit
<1>2. SyncInv /\ [G!Next]_(G!vars) => SyncInv'
  BY SyncNext
<1> QED
  BY <1>1, <1>2, PTL DEF G!Spec

\* Once no pass runs, a reservation without a flag has in Google Calendar what it should
\* have (sync.ts:57-85), unless the user changed the link, a request ended before its
\* flag, an id was lost, or two passes met; for any number of requests, reservations,
\* mutations and faults. The account has a calendar: the first passes over two
\* reservations would each create one, and forget the other.
LEMMA SyncedWhenClean == ASSUME FirstCalendar # Null, SyncInv PROVE CleanMeansInSync
<1> SUFFICES ASSUME G!AtRest, NEW r \in Resvs \ (dirty \cup missed \cup overlapped \cup orphaned)
             PROVE  G!InSync(r)
  BY DEF CleanMeansInSync, G!CleanMeansInSync
<1>1. LinkStands /\ FollowedOK
  BY DEF SyncInv, AllLinked, G!AtRest
<1>2. PICK p \in G!Procs : Alone(p, r) /\ Kept(p, r)
  BY <1>1 DEF FollowedOK, Followed
<1>3. Matches(r)
  BY <1>2 DEF Kept, G!AtRest
<1>4. CASE ~resv[r].confirmed
  BY <1>3, <1>4 DEF Matches, Mine, G!InSync
<1>5. CASE resv[r].confirmed
  <2>1. PICK e \in Mine(r) : Mine(r) = {e} /\ e.rev = resv[r].rev
    BY <1>3, <1>5 DEF Matches
  <2>2. G!Cardinality(Mine(r)) = 1
    BY <2>1, FewOf
  <2>3. google.cal = 1 /\ e.cal = 1
    BY <1>1, <2>1, LinkKnown DEF LinkStands, Mine
  <2>4. {f \in events : f.resv = r} = {e}
    BY <2>1 DEF Mine
  <2> QED
    BY <1>5, <2>1, <2>2, <2>3, <2>4 DEF G!InSync, Mine
<1> QED
  BY <1>4, <1>5

\* SyncedWhenClean, in every state a behaviour reaches (syncReservation, sweepDirty).
THEOREM CleanCalendarsMatch == FirstCalendar # Null => (G!Spec => []CleanMeansInSync)
<1> SUFFICES ASSUME FirstCalendar # Null PROVE G!Spec => []CleanMeansInSync
  OBVIOUS
<1>1. SyncInv => CleanMeansInSync
  BY SyncedWhenClean
<1>2. G!Spec => []SyncInv
  BY SyncInvariance
<1> QED
  BY <1>1, <1>2, PTL

\* Type correctness, from the same invariant.
THEOREM SyncTypeCorrect == G!Spec => []G!TypeOK
<1>1. SyncInv => G!TypeOK
  BY DEF SyncInv, SyncTypeOK
<1>2. G!Spec => []SyncInv
  BY SyncInvariance
<1> QED
  BY <1>1, <1>2, PTL
=============================================================================
