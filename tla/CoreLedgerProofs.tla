------------------------- MODULE CoreLedgerProofs -------------------------
(***************************************************************************)
(* Proofs about CoreLedger, for any number of sessions, reservations,      *)
(* plans and calls: the log explains what is stored, however tool calls    *)
(* overlap and wherever the process dies; and, one call after the other,   *)
(* the quota holds and the log folds to what is stored.  Then proofs about *)
(* RemoteTools, CancellationPolicy and Triggers.                           *)
(***************************************************************************)
EXTENDS MCCoreLedger, FiniteSetTheorems, SequenceTheorems, WellFoundedInduction, TLAPS

EventT == [at : Nat, type : Types, res : Ids \cup {Null}, plan : Plans \cup {Null},
           rec : Reservation \cup {Null}, cause : {"confirmed", Null}]
PlanPutT == [plan : Plans, rec : Plan]
NoticeT == [plan : Plans, at : Nat, remaining : {Cardinality(S) : S \in SUBSET Put}]

CallT ==
  [pc : Pcs, tool : AllTools \cup {Null}, id : Ids \cup {Null},
   rec : Reservation \cup {Null}, plan : Plans \cup {Null}, planrec : Plan \cup {Null},
   sibs : SUBSET Put, todo : SUBSET Ids, events : Seq(EventT), puts : Seq(Put),
   planput : PlanPutT \cup {Null}, notice : NoticeT \cup {Null}]

\* Events of E say what status r has, and that its policy is known when it is.
Explains(E, i, r) ==
  /\ \E e \in E : e.res = i /\ Yields(e) = r.status
  /\ r.policy => \E e \in E : e.res = i /\ (e.type = "policy" \/ (e.type = "created" /\ e.rec.policy))

SettledIn(E, p) == \E e \in E : e.type = "settled" /\ e.plan = p
CausedIn(E, e) == e.cause # Null => \E f \in E : f.at = e.at /\ f.type = e.cause

\* What a call has read is explained by the log.
ReadsOK(k, L, st) ==
  /\ k.rec # Null => Explains(L, k.id, k.rec)
  /\ IsFiniteSet(k.sibs) /\ \A r \in k.sibs : Explains(L, r.id, r.rec)
  /\ \A i \in k.todo : st[i] # Null
  /\ k.pc = "link" /\ k.planrec.status = "settled" => SettledIn(L, k.plan)

\* What it is about to write will be, by the log and the events it appends first:
\* the cause of an event is in the log or is the next to be appended.
WritesOK(k, L) ==
  /\ \A j \in DOMAIN k.events :
       \/ CausedIn(L, k.events[j])
       \/ j > 1 /\ CausedIn({k.events[1]}, k.events[j])
  /\ \A j \in DOMAIN k.puts : Explains(L \cup Range(k.events), k.puts[j].id, k.puts[j].rec)
  /\ k.planput # Null /\ k.planput.rec.status = "settled" =>
       SettledIn(L \cup Range(k.events), k.planput.plan)

\* Where a call stands tells what it carries.
ShapeOK(k) ==
  /\ k.pc \in {"target", "plan", "scan", "siblings"} =>
       k.tool \in {"confirm", "report", "void", "policy"} /\ k.id \in Ids
  /\ k.pc = "link" => k.id \in Ids /\ k.plan \in Plans /\ k.planrec \in Plan
  /\ k.pc \in {"plan", "scan", "siblings"} => k.rec \in Reservation /\ k.rec.plan \in Plans
  /\ k.pc \in {"scan", "siblings"} => k.planrec \in Plan

CallOK(k, L, st) == k \in CallT /\ ShapeOK(k) /\ ReadsOK(k, L, st) /\ WritesOK(k, L)

Types4 ==
  /\ store \in [Ids -> Reservation \cup {Null}]
  /\ plans \in [Plans -> Plan \cup {Null}]
  /\ issued \subseteq Ids
  /\ minted \in Nat
  /\ DOMAIN call = Sessions

IInv ==
  /\ Types4
  /\ \A s \in Sessions : CallOK(call[s], log, store)
  /\ LogExplainsStore

-----------------------------------------------------------------------------
(* What calls have in hand.                                                *)

\* What explains a reservation goes on doing so while the log grows.
LEMMA ExplainsGrows ==
  ASSUME NEW L, NEW M, L \subseteq M, NEW i, NEW r, Explains(L, i, r)
  PROVE  Explains(M, i, r)
BY DEF Explains

\* A call stays right while the log grows and no reservation is removed.
LEMMA CallFrame ==
  ASSUME NEW L, NEW M, L \subseteq M, NEW st, NEW st2,
         \A i \in Ids : st[i] # Null => st2[i] # Null,
         NEW k, CallOK(k, L, st)
  PROVE  CallOK(k, M, st2)
<1>1. k \in CallT /\ ShapeOK(k)
  BY DEF CallOK
<1>2. ReadsOK(k, M, st2)
  <2>1. k.todo \subseteq Ids
    BY <1>1 DEF CallT
  <2> QED  BY <2>1, ExplainsGrows DEF CallOK, ReadsOK, SettledIn
<1>3. WritesOK(k, M)
  <2>1. \A j \in DOMAIN k.puts : Explains(M \cup Range(k.events), k.puts[j].id, k.puts[j].rec)
    BY ExplainsGrows, L \cup Range(k.events) \subseteq M \cup Range(k.events) DEF CallOK, WritesOK
  <2>2. \A j \in DOMAIN k.events : CausedIn(L, k.events[j]) => CausedIn(M, k.events[j])
    BY DEF CausedIn
  <2> QED  BY <2>1, <2>2 DEF CallOK, WritesOK, SettledIn
<1> QED  BY <1>1, <1>2, <1>3 DEF CallOK

\* No call: nothing in hand.
LEMMA IdleOK ==
  ASSUME NEW L, NEW st
  PROVE  CallOK(Idle, L, st)
<1>1. Idle \in CallT
  BY DEF Idle, CallT, Pcs
<1>2. ReadsOK(Idle, L, st)
  BY FS_EmptySet DEF ReadsOK, Idle
<1> QED  BY <1>1, <1>2 DEF CallOK, ShapeOK, WritesOK, Idle

\* An accepted transition: what it writes is all a call has in hand.
LEMMA OutcomeOK ==
  ASSUME NEW L, NEW st,
         NEW events \in Seq(EventT), NEW puts \in Seq(Put),
         NEW planput \in PlanPutT \cup {Null}, NEW notice \in NoticeT \cup {Null},
         \A j \in DOMAIN events :
            CausedIn(L, events[j]) \/ (j > 1 /\ CausedIn({events[1]}, events[j])),
         \A j \in DOMAIN puts : Explains(L \cup Range(events), puts[j].id, puts[j].rec),
         planput # Null /\ planput.rec.status = "settled" => SettledIn(L \cup Range(events), planput.plan)
  PROVE  CallOK(Outcome(events, puts, planput, notice), L, st)
<1> DEFINE k == Outcome(events, puts, planput, notice)
<1>1. /\ k \in CallT
      /\ k.pc = "write" /\ k.events = events /\ k.puts = puts /\ k.planput = planput
      /\ k.rec = Null /\ k.sibs = {} /\ k.todo = {}
  BY DEF Outcome, Idle, CallT, Pcs
<1> HIDE DEF k
<1>2. ShapeOK(k)
  BY <1>1 DEF ShapeOK
<1>3. ReadsOK(k, L, st)
  BY <1>1, FS_EmptySet DEF ReadsOK
<1>4. WritesOK(k, L)
  BY <1>1 DEF WritesOK
<1> QED  BY <1>1, <1>2, <1>3, <1>4 DEF CallOK, k

-----------------------------------------------------------------------------
(* The transitions.                                                        *)

\* An event of the command that is being computed.
LEMMA EventOfType ==
  ASSUME minted \in Nat, NEW type \in Types, NEW i \in Ids \cup {Null},
         NEW plan \in Plans \cup {Null}, NEW cause \in {"confirmed", Null}
  PROVE  /\ EventOf(type, i, plan, cause) \in EventT
         /\ EventOf(type, i, plan, cause).at = minted + 1
         /\ EventOf(type, i, plan, cause).type = type
         /\ EventOf(type, i, plan, cause).res = i
         /\ EventOf(type, i, plan, cause).plan = plan
         /\ EventOf(type, i, plan, cause).cause = cause
BY DEF EventOf, EventT

\* A new status leaves the rest.
LEMMA StatusIsSet ==
  ASSUME NEW put \in Put, NEW state \in Statuses
  PROVE  /\ WithStatus(put, state) \in Put
         /\ WithStatus(put, state).id = put.id
         /\ WithStatus(put, state).rec.status = state
         /\ WithStatus(put, state).rec.policy = put.rec.policy
BY DEF WithStatus, Put, Reservation

\* An event that yields the new status explains it; the policy is as known as it was.
LEMMA StatusExplained ==
  ASSUME NEW put \in Put, NEW state \in Statuses, NEW L, Explains(L, put.id, put.rec),
         NEW E, L \subseteq E, NEW e \in E, e.res = put.id, Yields(e) = state
  PROVE  Explains(E, WithStatus(put, state).id, WithStatus(put, state).rec)
<1> DEFINE w == WithStatus(put, state)
<1>1. w.id = put.id /\ w.rec.status = state /\ w.rec.policy = put.rec.policy
  BY StatusIsSet
<1> HIDE DEF w
<1>2. Explains(E, w.id, w.rec)
  BY <1>1 DEF Explains
<1> QED  BY <1>2 DEF w

\* SetToSeq lists members of the set.
LEMMA Listed ==
  ASSUME NEW S, IsFiniteSet(S)
  PROVE  SetToSeq(S) \in [1 .. Cardinality(S) -> S] /\ Cardinality(S) \in Nat
<1>1. Cardinality(S) \in Nat /\ \E f \in [1 .. Cardinality(S) -> S] : IsInjective(f)
  BY FS_CardinalityType DEF ExistsBijection, Bijection, Injection, IsInjective
<1> QED  BY <1>1 DEF SetToSeq

\* A command that writes one event and one reservation.
LEMMA OneWrite ==
  ASSUME NEW L, NEW st, NEW e \in EventT, e.cause = Null, NEW w \in Put,
         Explains(L \cup {e}, w.id, w.rec),
         NEW planput \in PlanPutT \cup {Null},
         planput # Null /\ planput.rec.status = "settled" => SettledIn(L, planput.plan)
  PROVE  CallOK(Outcome(<<e>>, <<w>>, planput, Null), L, st)
<1>1. <<e>> \in Seq(EventT) /\ <<w>> \in Seq(Put) /\ Range(<<e>>) = {e}
  BY DEF Range
<1>2. \A j \in DOMAIN <<e>> : CausedIn(L, <<e>>[j])
  BY DEF CausedIn
<1>3. \A j \in DOMAIN <<w>> : Explains(L \cup Range(<<e>>), <<w>>[j].id, <<w>>[j].rec)
  BY <1>1
<1>4. planput # Null /\ planput.rec.status = "settled" => SettledIn(L \cup Range(<<e>>), planput.plan)
  BY DEF SettledIn
<1> QED  BY <1>1, <1>2, <1>3, <1>4, OutcomeOK

\* reportCancelled and voidReservation.
LEMMA ReportOK ==
  ASSUME minted \in Nat, NEW L, NEW st, NEW target \in Put, Explains(L, target.id, target.rec)
  PROVE  CallOK(ReportCancelled(target), L, st) /\ CallOK(VoidReservation(target), L, st)
<1>1. ASSUME NEW type \in {"cancelled", "voided"}
      PROVE  CallOK(Outcome(<<EventOf(type, target.id, target.rec.plan, Null)>>,
                            <<WithStatus(target, type)>>, Null, Null), L, st)
  <2> DEFINE e == EventOf(type, target.id, target.rec.plan, Null)
  <2>1. type \in Types /\ type \in Statuses /\ target.id \in Ids /\ target.rec.plan \in Plans \cup {Null}
    BY DEF Types, Statuses, Put, Reservation
  <2>2. e \in EventT /\ e.res = target.id /\ e.type = type /\ e.cause = Null
    BY <2>1, EventOfType
  <2> HIDE DEF e
  <2>3. Yields(e) = type
    BY <2>2 DEF Yields
  <2>4. Explains(L \cup {e}, WithStatus(target, type).id, WithStatus(target, type).rec)
    BY <2>1, <2>2, <2>3, StatusExplained, e \in L \cup {e}, L \subseteq L \cup {e}
  <2>5. WithStatus(target, type) \in Put
    BY <2>1, StatusIsSet
  <2>6. CallOK(Outcome(<<e>>, <<WithStatus(target, type)>>, Null, Null), L, st)
    BY <2>2, <2>4, <2>5, OneWrite
  <2> QED  BY <2>6 DEF e
<1> QED  BY <1>1, IdleOK DEF ReportCancelled, VoidReservation

\* set_policy.
LEMMA PolicyOK ==
  ASSUME minted \in Nat, NEW L, NEW st, NEW target \in Put, Explains(L, target.id, target.rec)
  PROVE  CallOK(SetPolicy(target), L, st)
<1> DEFINE e == EventOf("policy", target.id, Null, Null)
           w == [target EXCEPT !.rec.policy = TRUE]
<1>1. e \in EventT /\ e.res = target.id /\ e.type = "policy" /\ e.cause = Null
  BY EventOfType DEF Types, Put
<1>2. w \in Put /\ w.id = target.id /\ w.rec.status = target.rec.status
  BY DEF Put, Reservation
<1> HIDE DEF e, w
<1>3. Explains(L \cup {e}, w.id, w.rec)
  BY <1>1, <1>2 DEF Explains
<1>4. CallOK(Outcome(<<e>>, <<w>>, Null, Null), L, st)
  BY <1>1, <1>2, <1>3, OneWrite
<1> QED  BY <1>4, IdleOK DEF SetPolicy, e, w

\* createReservation, alone or with a plan put that leaves the plan's status.
LEMMA CreatedOK ==
  ASSUME minted \in Nat, NEW L, NEW st, NEW i \in Ids, NEW r \in Reservation, r.status = "candidate",
         NEW planput \in PlanPutT \cup {Null},
         planput # Null /\ planput.rec.status = "settled" => SettledIn(L, planput.plan)
  PROVE  CallOK(Created(i, r, planput), L, st)
<1> DEFINE e == [EventOf("created", i, r.plan, Null) EXCEPT !.rec = r]
           w == [id |-> i, rec |-> r]
<1>1. e \in EventT /\ e.res = i /\ e.type = "created" /\ e.cause = Null /\ e.rec = r
  BY DEF EventOf, EventT, Types, Reservation
<1>2. w \in Put /\ w.id = i /\ w.rec = r
  BY DEF Put
<1> HIDE DEF e, w
<1>3. Explains(L \cup {e}, w.id, w.rec)
  BY <1>1, <1>2 DEF Explains, Yields
<1>4. CallOK(Outcome(<<e>>, <<w>>, planput, Null), L, st)
  BY <1>1, <1>2, <1>3, OneWrite
<1> QED  BY <1>4 DEF Created, e, w

\* The notice of a settlement, whatever it counts.
LEMMA NoticeType ==
  ASSUME minted \in Nat, NEW p \in Plans, NEW read \in SUBSET Put, NEW puts \in Seq(Put)
  PROVE  NoticeOf(p, read, puts) \in NoticeT
<1>1. Snapshot(read, puts) \subseteq Put
  BY DEF Snapshot, ToSet
<1>2. {r \in Snapshot(read, puts) : r.rec.plan = p /\ r.rec.status = "to_cancel"} \in SUBSET Put
  BY <1>1
<1>3. Remaining(Snapshot(read, puts), p) \in {Cardinality(S) : S \in SUBSET Put}
  BY <1>2 DEF Remaining
<1> QED  BY <1>3 DEF NoticeOf, NoticeT

\* What such a confirmation writes is in order: the winner's event comes first, then
\* the settlement and the losers', all caused by it, and each loser has one.
LEMMA SettlementWrites ==
  ASSUME NEW L, NEW st, NEW plan \in Plans, NEW planput \in PlanPutT, planput.plan = plan,
         NEW notice \in NoticeT, NEW n \in Nat, NEW at,
         NEW event \in EventT, event.type = "confirmed", event.at = at, event.cause = Null,
         NEW settled \in EventT, settled.type = "settled", settled.plan = plan,
         settled.at = at, settled.cause = "confirmed",
         NEW autos \in Seq(EventT), Len(autos) = n,
         \A j \in 1 .. n : autos[j].at = at /\ autos[j].cause = "confirmed",
         NEW winner \in Put, Explains(L \cup {event}, winner.id, winner.rec),
         NEW losers \in Seq(Put), Len(losers) = n,
         \A j \in 1 .. n : Explains(L \cup {autos[j]}, losers[j].id, losers[j].rec)
  PROVE  CallOK(Outcome(<<event, settled>> \o autos, <<winner>> \o losers, planput, notice), L, st)
<1> DEFINE first == <<event, settled>>
           events == first \o autos
           own == <<winner>>
           puts == own \o losers
<1>a. /\ events = first \o autos /\ first = <<event, settled>>
      /\ puts = own \o losers /\ own = <<winner>>
  OBVIOUS
<1> HIDE DEF events, puts, first, own
<1>1. /\ events \in Seq(EventT) /\ Len(events) = n + 2
      /\ events[1] = event /\ events[2] = settled /\ \A j \in 1 .. n : events[j + 2] = autos[j]
      /\ DOMAIN events = 1 .. n + 2
  <2>1. first \in Seq(EventT) /\ Len(first) = 2 /\ first[1] = event /\ first[2] = settled
    BY <1>a
  <2>3. /\ events \in Seq(EventT) /\ Len(events) = Len(first) + n
        /\ \A i \in 1 .. Len(first) + n :
             events[i] = IF i <= Len(first) THEN first[i] ELSE autos[i - Len(first)]
    BY <1>a, <2>1, ConcatProperties
  <2>4. /\ DOMAIN events = 1 .. n + 2
        /\ \A j \in 1 .. 2 : events[j] = first[j]
        /\ \A j \in 1 .. n : events[j + 2] = autos[j]
    BY <2>1, <2>3
  <2> QED  BY <2>1, <2>3, <2>4
<1>2. /\ puts \in Seq(Put) /\ Len(puts) = n + 1
      /\ puts[1] = winner /\ \A j \in 1 .. n : puts[j + 1] = losers[j]
      /\ DOMAIN puts = 1 .. n + 1
  <2>1. own \in Seq(Put) /\ Len(own) = 1 /\ own[1] = winner
    BY <1>a
  <2>3. /\ puts \in Seq(Put) /\ Len(puts) = Len(own) + n
        /\ \A i \in 1 .. Len(own) + n :
             puts[i] = IF i <= Len(own) THEN own[i] ELSE losers[i - Len(own)]
    BY <1>a, <2>1, ConcatProperties
  <2>4. /\ DOMAIN puts = 1 .. n + 1
        /\ \A j \in 1 .. 1 : puts[j] = own[j]
        /\ \A j \in 1 .. n : puts[j + 1] = losers[j]
    BY <2>1, <2>3
  <2> QED  BY <2>1, <2>3, <2>4
<1>3. \A j \in DOMAIN events :
          CausedIn(L, events[j]) \/ (j > 1 /\ CausedIn({events[1]}, events[j]))
  <2>1. ASSUME NEW j \in DOMAIN events
        PROVE  \/ j = 1 /\ events[j].cause = Null
               \/ j > 1 /\ events[j].cause = "confirmed" /\ events[j].at = at
    <3>1. j = 1 \/ j = 2 \/ \E i \in 1 .. n : j = i + 2
      <4>1. j \in 1 .. n + 2
        BY <1>1
      <4>2. j = 1 \/ j = 2 \/ (j - 2 \in 1 .. n /\ j = (j - 2) + 2)
        BY <4>1
      <4> QED  BY <4>2
    <3>2. ASSUME NEW i \in 1 .. n, j = i + 2
          PROVE  j > 1 /\ events[j].cause = "confirmed" /\ events[j].at = at
      <4>1. j > 1
        BY <3>2
      <4>2. events[j] = autos[i]
        BY <3>2, <1>1
      <4> QED  BY <4>1, <4>2
    <3> QED  BY <3>1, <3>2, <1>1
  <2> QED  BY <2>1, <1>1 DEF CausedIn
<1>4. \A j \in DOMAIN puts : Explains(L \cup Range(events), puts[j].id, puts[j].rec)
  <2>1. Explains(L \cup Range(events), winner.id, winner.rec)
    <3>1. event \in L \cup Range(events)
      BY <1>1 DEF Range
    <3> QED  BY <3>1, ExplainsGrows, L \cup {event} \subseteq L \cup Range(events)
  <2>2. ASSUME NEW j \in 1 .. n
        PROVE  Explains(L \cup Range(events), losers[j].id, losers[j].rec)
    <3>1. autos[j] \in L \cup Range(events)
      BY <1>1, j + 2 \in DOMAIN events DEF Range
    <3> QED  BY <3>1, ExplainsGrows, L \cup {autos[j]} \subseteq L \cup Range(events)
  <2>3. ASSUME NEW j \in DOMAIN puts
        PROVE  j = 1 \/ (j - 1 \in 1 .. n /\ j = (j - 1) + 1)
    BY <1>2
  <2> QED  BY <2>1, <2>2, <2>3, <1>2
<1>5. SettledIn(L \cup Range(events), planput.plan)
  <2>1. settled \in Range(events)
    BY <1>1 DEF Range
  <2> QED  BY <2>1 DEF SettledIn
<1>6. CallOK(Outcome(events, puts, planput, notice), L, st)
  <2>1. planput \in PlanPutT \cup {Null} /\ notice \in NoticeT \cup {Null}
    OBVIOUS
  <2> QED  BY <1>1, <1>2, <2>1, <1>3, <1>4, <1>5, OutcomeOK
<1> QED  BY <1>6 DEF first, own, events, puts

\* confirm, in a plan or without one.
LEMMA ConfirmedOK ==
  ASSUME minted \in Nat, NEW L, NEW st,
         NEW target \in Put, Explains(L, target.id, target.rec),
         NEW plan \in Plans \cup {Null}, NEW planrec, plan # Null => planrec \in Plan,
         NEW sibs \in SUBSET Put, IsFiniteSet(sibs), \A r \in sibs : Explains(L, r.id, r.rec)
  PROVE  CallOK(Confirmed(target, plan, planrec, sibs), L, st)
<1> DEFINE event == EventOf("confirmed", target.id, plan, Null)
           winner == WithStatus(target, "confirmed")
           others == SetToSeq({r \in sibs : r.rec.status = "candidate"})
           losers == [k \in DOMAIN others |-> WithStatus(others[k], "to_cancel")]
           settled == EventOf("settled", Null, plan, "confirmed")
           autos == [k \in DOMAIN others |-> EventOf("auto", others[k].id, plan, "confirmed")]
           alone == Outcome(<<event>>, <<winner>>, Null, Null)
           whole == Outcome(<<event, settled>> \o autos, <<winner>> \o losers,
                            [plan |-> plan, rec |-> [planrec EXCEPT !.status = "settled"]],
                            NoticeOf(plan, sibs \cup {target}, <<winner>> \o losers))
<1>1. CallOK(alone, L, st)
  <2>1. event \in EventT /\ event.res = target.id /\ event.type = "confirmed" /\ event.cause = Null
    BY EventOfType DEF Types, Put
  <2>2. winner \in Put
    BY StatusIsSet DEF Statuses
  <2>3. Yields(event) = "confirmed"
    BY <2>1 DEF Yields
  <2> HIDE DEF event
  <2>4. Explains(L \cup {event}, winner.id, winner.rec)
    BY <2>1, <2>3, StatusExplained, event \in L \cup {event}, L \subseteq L \cup {event} DEF Statuses
  <2> QED  BY <2>1, <2>2, <2>4, OneWrite
<1>2. ASSUME plan # Null
      PROVE  CallOK(whole, L, st)
  <2> DEFINE n == Cardinality({r \in sibs : r.rec.status = "candidate"})
             planput == [plan |-> plan, rec |-> [planrec EXCEPT !.status = "settled"]]
             notice == NoticeOf(plan, sibs \cup {target}, <<winner>> \o losers)
  <2>1. others \in [1 .. n -> sibs] /\ n \in Nat /\ plan \in Plans /\ planrec \in Plan
    <3>1. IsFiniteSet({r \in sibs : r.rec.status = "candidate"})
      BY FS_Subset
    <3> QED  BY <1>2, <3>1, Listed
  <2> HIDE DEF n, others
  <2>2. /\ event \in EventT /\ event.res = target.id /\ event.type = "confirmed"
        /\ event.at = minted + 1 /\ event.cause = Null
    BY EventOfType DEF Types, Put
  <2>3. /\ settled \in EventT /\ settled.type = "settled" /\ settled.plan = plan
        /\ settled.at = minted + 1 /\ settled.cause = "confirmed"
    BY <2>1, EventOfType DEF Types
  <2>4. /\ autos \in [1 .. n -> EventT]
        /\ \A j \in 1 .. n : /\ autos[j].res = others[j].id /\ autos[j].type = "auto"
                             /\ autos[j].at = minted + 1 /\ autos[j].cause = "confirmed"
    <3>1. ASSUME NEW j \in 1 .. n
          PROVE  /\ autos[j] \in EventT /\ autos[j].res = others[j].id /\ autos[j].type = "auto"
                 /\ autos[j].at = minted + 1 /\ autos[j].cause = "confirmed"
      <4>1. others[j].id \in Ids /\ j \in DOMAIN others
        BY <2>1 DEF Put
      <4>2. autos[j] = EventOf("auto", others[j].id, plan, "confirmed")
        BY <4>1
      <4> QED  BY <4>1, <4>2, EventOfType DEF Types
    <3> QED  BY <2>1, <3>1
  <2>5. winner \in Put
    BY StatusIsSet DEF Statuses
  <2>6. losers \in [1 .. n -> Put]
    <3>1. \A j \in 1 .. n : WithStatus(others[j], "to_cancel") \in Put
      BY <2>1, StatusIsSet DEF Statuses
    <3> QED  BY <2>1, <3>1
  <2>7. planput \in PlanPutT /\ planput.plan = plan
    BY <2>1 DEF PlanPutT, Plan
  <2>8. Explains(L \cup {event}, winner.id, winner.rec)
    <3>1. Yields(event) = "confirmed"
      BY <2>2 DEF Yields
    <3> QED  BY <3>1, <2>2, StatusExplained, event \in L \cup {event}, L \subseteq L \cup {event} DEF Statuses
  <2>9. ASSUME NEW j \in 1 .. n
         PROVE  Explains(L \cup {autos[j]}, losers[j].id, losers[j].rec)
    <3>1. others[j] \in sibs /\ losers[j] = WithStatus(others[j], "to_cancel")
      BY <2>1
    <3>2. Yields(autos[j]) = "to_cancel" /\ autos[j].res = others[j].id
      BY <2>4 DEF Yields
    <3> QED  BY <3>1, <3>2, StatusExplained, autos[j] \in L \cup {autos[j]}, L \subseteq L \cup {autos[j]} DEF Statuses
  <2> HIDE DEF event, settled, autos, winner, losers
  <2>10. autos \in Seq(EventT) /\ Len(autos) = n /\ losers \in Seq(Put) /\ Len(losers) = n
    BY <2>1, <2>4, <2>6
  <2>11. notice \in NoticeT
    <3>1. <<winner>> \o losers \in Seq(Put)
      BY <2>5, <2>10, ConcatProperties
    <3> QED  BY <2>1, <3>1, NoticeType
  <2> HIDE DEF planput, notice
  <2>12. CallOK(Outcome(<<event, settled>> \o autos, <<winner>> \o losers, planput, notice), L, st)
    BY <2>1, <2>2, <2>3, <2>4, <2>5, <2>7, <2>8, <2>9, <2>10, <2>11, SettlementWrites
  <2> QED  BY <2>12 DEF planput, notice
<1>3. Confirmed(target, plan, planrec, sibs) \in {Idle, alone} \cup (IF plan # Null THEN {whole} ELSE {})
  BY DEF Confirmed
<1> QED  BY <1>1, <1>2, <1>3, IdleOK

-----------------------------------------------------------------------------
(* The steps.                                                              *)

\* Where one call goes on as k, the others keep what they have in hand.
LEMMA BecomesOK ==
  ASSUME IInv, NEW s \in Sessions, NEW k, Becomes(s, k), CallOK(k, log', store'),
         log \subseteq log', \A i \in Ids : store[i] # Null => store'[i] # Null
  PROVE  DOMAIN call' = Sessions /\ \A c \in Sessions : CallOK(call'[c], log', store')
<1> DEFINE j == IF k.pc = "write" /\ k.events = <<>> /\ k.puts = <<>>
                   /\ k.planput = Null /\ k.notice = Null
                THEN Idle ELSE k
<1>1. call' = [call EXCEPT ![s] = j] /\ DOMAIN call = Sessions
  BY DEF Becomes, IInv, Types4
<1>2. CallOK(j, log', store')
  BY IdleOK
<1> HIDE DEF j
<1>3. \A c \in Sessions : CallOK(call[c], log', store')
  BY CallFrame DEF IInv
<1> QED  BY <1>1, <1>2, <1>3

\* A step that touches neither the log nor the entries.
LEMMA ReadStep ==
  ASSUME IInv, NEW s \in Sessions, NEW k, Becomes(s, k), CallOK(k, log, store),
         UNCHANGED <<log, store, plans>>, issued' \subseteq Ids, minted' \in Nat
  PROVE  IInv'
<1>1. DOMAIN call' = Sessions /\ \A c \in Sessions : CallOK(call'[c], log', store')
  BY BecomesOK
<1>2. LogExplainsStore'
  BY DEF IInv, LogExplainsStore, FoldedSettled
<1> QED  BY <1>1, <1>2 DEF IInv, Types4

\* The plan put of add_to_plan leaves the plan's status.
LEMMA PlanPutKeepsStatus ==
  ASSUME NEW p \in Plans, NEW planrec \in Plan, NEW i \in Ids
  PROVE  /\ PlanPut(p, planrec, i) \in PlanPutT \cup {Null}
         /\ PlanPut(p, planrec, i) # Null =>
              PlanPut(p, planrec, i).plan = p /\ PlanPut(p, planrec, i).rec.status = planrec.status
BY DEF PlanPut, PlanPutT, Plan

\* What the invariant says of one stored reservation and one stored plan.
LEMMA StoredOK ==
  ASSUME IInv
  PROVE  /\ \A i \in Ids : store[i] # Null => store[i] \in Reservation /\ Explains(log, i, store[i])
         /\ \A p \in Plans : plans[p] # Null =>
              plans[p] \in Plan /\ (plans[p].status = "settled" => SettledIn(log, p))
BY DEF IInv, Types4, LogExplainsStore, Explains, FoldedSettled, SettledIn

\* A transition run on what was read is right.
LEMMA RunOK ==
  ASSUME minted \in Nat, NEW L, NEW st, NEW s, NEW k, NEW planrec \in Plan \cup {Null},
         k.tool \in {"confirm", "report", "void", "policy"}, k.id \in Ids, k.rec \in Reservation,
         planrec # Null => k.rec.plan \in Plans,
         Explains(L, k.id, k.rec),
         NEW sibs \in SUBSET Put, IsFiniteSet(sibs), \A r \in sibs : Explains(L, r.id, r.rec),
         Run(s, k, planrec, sibs)
  PROVE  minted' \in Nat /\ \E o : CallOK(o, L, st) /\ Becomes(s, o)
<1> DEFINE target == [id |-> k.id, rec |-> k.rec]
           plan == IF planrec = Null THEN Null ELSE k.rec.plan
           o == CASE k.tool = "confirm" -> Confirmed(target, plan, planrec, sibs)
                  [] k.tool = "report"  -> ReportCancelled(target)
                  [] k.tool = "void"    -> VoidReservation(target)
                  [] k.tool = "policy"  -> SetPolicy(target)
<1>1. target \in Put /\ target.id = k.id /\ target.rec = k.rec
  BY DEF Put
<1>2. plan \in Plans \cup {Null} /\ (plan # Null => planrec \in Plan)
  OBVIOUS
<1>3. Decide(s, o)
  BY DEF Run
<1> HIDE DEF target, plan
<1>4. CallOK(Confirmed(target, plan, planrec, sibs), L, st)
  BY <1>1, <1>2, ConfirmedOK
<1>5. CallOK(o, L, st)
  BY <1>1, <1>4, ReportOK, PolicyOK
<1> HIDE DEF o
<1> QED  BY <1>3, <1>5 DEF Decide

\* The calls that create: a plan, a reservation, one in a plan.
LEMMA StepCreates ==
  ASSUME IInv, NEW s \in Sessions, CreatePlan(s) \/ CreateReservation(s) \/ AddInline(s)
  PROVE  IInv'
<1>1. ASSUME CreatePlan(s)
      PROVE  IInv'
  <2>1. PICK p \in Plans, q \in Quotas :
           plans' = [plans EXCEPT ![p] = [status |-> "open", confirm_quota |-> q, members |-> {}]]
    BY <1>1 DEF CreatePlan
  <2>2. UNCHANGED <<log, store, issued, minted, call>>
    BY <1>1 DEF CreatePlan
  <2>3. [status |-> "open", confirm_quota |-> q, members |-> {}] \in Plan
    BY DEF Plan
  <2>4. Types4'
    BY <2>1, <2>2, <2>3 DEF IInv, Types4
  <2>5. LogExplainsStore'
    BY <2>1, <2>2 DEF IInv, Types4, LogExplainsStore, FoldedSettled
  <2> QED  BY <2>2, <2>4, <2>5 DEF IInv
<1>2. ASSUME CreateReservation(s)
      PROVE  IInv'
  <2>1. PICK i \in Ids, known \in BOOLEAN, plan \in Plans \cup {Null} :
           /\ issued' = issued \cup {i}
           /\ Decide(s, Created(i, [plan |-> plan, status |-> "candidate", policy |-> known], Null))
    BY <1>2, CoreAssumption DEF CreateReservation
  <2> DEFINE r == [plan |-> plan, status |-> "candidate", policy |-> known]
  <2>2. r \in Reservation /\ r.status = "candidate" /\ minted \in Nat /\ issued \subseteq Ids
    BY DEF Reservation, Statuses, IInv, Types4
  <2>3. Decide(s, Created(i, r, Null))
    BY <2>1
  <2> HIDE DEF r
  <2>4. CallOK(Created(i, r, Null), log, store)
    BY <2>2, CreatedOK
  <2>5. Becomes(s, Created(i, r, Null)) /\ minted' \in Nat
    BY <2>2, <2>3 DEF Decide
  <2> QED  BY <1>2, <2>1, <2>2, <2>4, <2>5, ReadStep DEF CreateReservation
<1>3. ASSUME AddInline(s)
      PROVE  IInv'
  <2>1. PICK i \in Ids, p \in Plans :
           /\ plans[p] # Null /\ issued' = issued \cup {i}
           /\ Decide(s, Created(i, [plan |-> p, status |-> "candidate", policy |-> TRUE],
                                PlanPut(p, plans[p], i)))
    BY <1>3 DEF AddInline
  <2> DEFINE r == [plan |-> p, status |-> "candidate", policy |-> TRUE]
             planput == PlanPut(p, plans[p], i)
  <2>2. r \in Reservation /\ r.status = "candidate" /\ minted \in Nat /\ issued \subseteq Ids
    BY DEF Reservation, Statuses, IInv, Types4
  <2>3. /\ planput \in PlanPutT \cup {Null}
        /\ planput # Null /\ planput.rec.status = "settled" => SettledIn(log, planput.plan)
    BY <2>1, StoredOK, PlanPutKeepsStatus
  <2>4. Decide(s, Created(i, r, planput))
    BY <2>1
  <2> HIDE DEF r, planput
  <2>5. CallOK(Created(i, r, planput), log, store)
    BY <2>2, <2>3, CreatedOK
  <2>6. Becomes(s, Created(i, r, planput)) /\ minted' \in Nat
    BY <2>2, <2>4 DEF Decide
  <2> QED  BY <1>3, <2>1, <2>2, <2>5, <2>6, ReadStep DEF AddInline
<1> QED  BY <1>1, <1>2, <1>3

\* A call that reads on: what it knew it still knows.
LEMMA Idles ==
  ASSUME NEW k, k \in CallT, ShapeOK(k), NEW L, NEW st, ReadsOK(k, L, st),
         k.events = <<>>, k.puts = <<>>, k.planput = Null
  PROVE  CallOK(k, L, st)
BY DEF CallOK, WritesOK

\* add_to_plan with an existing reservation.
LEMMA StepLinks ==
  ASSUME IInv, NEW s \in Sessions, Link(s) \/ LinkExisting(s)
  PROVE  IInv'
<1>0. minted \in Nat /\ issued \subseteq Ids
  BY DEF IInv, Types4
<1>1. ASSUME Link(s)
      PROVE  IInv'
  <2>1. PICK i \in issued, p \in Plans :
           /\ plans[p] # Null
           /\ Becomes(s, [Idle EXCEPT !.pc = "link", !.id = i, !.plan = p, !.planrec = plans[p]])
    BY <1>1 DEF Link
  <2> DEFINE k == [Idle EXCEPT !.pc = "link", !.id = i, !.plan = p, !.planrec = plans[p]]
  <2>2. plans[p] \in Plan /\ (plans[p].status = "settled" => SettledIn(log, p))
    BY <2>1, StoredOK
  <2>3. /\ k \in CallT /\ k.pc = "link" /\ k.id = i /\ k.plan = p /\ k.planrec = plans[p]
        /\ k.rec = Null /\ k.sibs = {} /\ k.todo = {}
        /\ k.events = <<>> /\ k.puts = <<>> /\ k.planput = Null
    <3>1. i \in Ids
      BY <1>0
    <3>2. PICK pr \in Plan : pr = plans[p]
      BY <2>2
    <3>3. k = [Idle EXCEPT !.pc = "link", !.id = i, !.plan = p, !.planrec = pr]
      BY <3>2
    <3> HIDE DEF k
    <3>4. k \in CallT
      <4>1. Idle \in CallT /\ "link" \in Pcs
        BY IdleOK DEF CallOK, Pcs
      <4> QED  BY <3>1, <3>3, <4>1 DEF CallT
    <3>5. /\ k.pc = "link" /\ k.id = i /\ k.plan = p /\ k.planrec = pr
          /\ k.rec = Null /\ k.sibs = {} /\ k.todo = {}
          /\ k.events = <<>> /\ k.puts = <<>> /\ k.planput = Null
      BY <3>3 DEF Idle
    <3> QED  BY <3>2, <3>4, <3>5
  <2>4. Becomes(s, k)
    BY <2>1
  <2> HIDE DEF k
  <2>5. ShapeOK(k) /\ ReadsOK(k, log, store)
    BY <1>0, <2>2, <2>3, FS_EmptySet DEF ShapeOK, ReadsOK
  <2> QED  BY <1>0, <1>1, <2>3, <2>4, <2>5, Idles, ReadStep DEF Link
<1>2. ASSUME LinkExisting(s)
      PROVE  IInv'
  <2>0. PICK k : k = call[s]
    OBVIOUS
  <2>1. CallOK(k, log, store) /\ k.pc = "link"
    BY <1>2, <2>0 DEF IInv, LinkExisting
  <2>2. /\ k.id \in Ids /\ k.plan \in Plans /\ k.planrec \in Plan
        /\ k.planrec.status = "settled" => SettledIn(log, k.plan)
    BY <2>1 DEF CallOK, ShapeOK, ReadsOK
  <2> DEFINE w == [id |-> k.id, rec |-> [store[k.id] EXCEPT !.plan = k.plan]]
             planput == PlanPut(k.plan, k.planrec, k.id)
             o == Outcome(<<>>, <<w>>, planput, Null)
  <2>3. \/ Becomes(s, Idle)
        \/ store[k.id] # Null /\ Becomes(s, o)
    BY <1>2, <2>0 DEF LinkExisting
  <2>4. ASSUME store[k.id] # Null
        PROVE  CallOK(o, log, store)
    <3>1. store[k.id] \in Reservation /\ Explains(log, k.id, store[k.id])
      BY <2>2, <2>4, StoredOK
    <3>2. w \in Put /\ Explains(log, w.id, w.rec)
      BY <2>2, <3>1 DEF Put, Reservation, Explains
    <3>3. /\ planput \in PlanPutT \cup {Null}
          /\ planput # Null /\ planput.rec.status = "settled" => SettledIn(log, planput.plan)
      BY <2>2, PlanPutKeepsStatus
    <3> HIDE DEF w, planput
    <3>4. <<>> \in Seq(EventT) /\ <<w>> \in Seq(Put) /\ log \subseteq log \cup Range(<<>>)
      BY <3>2
    <3>5. Explains(log \cup Range(<<>>), w.id, w.rec)
      BY <3>2, <3>4, ExplainsGrows
    <3>6. \A j \in DOMAIN <<w>> : Explains(log \cup Range(<<>>), <<w>>[j].id, <<w>>[j].rec)
      BY <3>5
    <3>7. \A j \in DOMAIN <<>> : FALSE
      OBVIOUS
    <3>8. planput # Null /\ planput.rec.status = "settled" => SettledIn(log \cup Range(<<>>), planput.plan)
      BY <3>3, <3>4 DEF SettledIn
    <3> QED  BY <3>3, <3>4, <3>6, <3>7, <3>8, OutcomeOK
  <2> HIDE DEF o
  <2>5. UNCHANGED <<log, store, plans, issued, minted>>
    BY <1>2 DEF LinkExisting
  <2> QED  BY <1>0, <2>3, <2>4, <2>5, IdleOK, ReadStep
<1> QED  BY <1>1, <1>2

\* A call is given a command, and reads its target.
LEMMA StepTargets ==
  ASSUME IInv, NEW s \in Sessions, Command(s) \/ ReadTarget(s)
  PROVE  IInv'
<1>0. minted \in Nat /\ issued \subseteq Ids
  BY DEF IInv, Types4
<1>1. ASSUME Command(s)
      PROVE  IInv'
  <2>1. PICK tool \in {"confirm", "report", "void", "policy"}, i \in issued :
           Becomes(s, [Idle EXCEPT !.pc = "target", !.tool = tool, !.id = i])
    BY <1>1 DEF Command
  <2> DEFINE k == [Idle EXCEPT !.pc = "target", !.tool = tool, !.id = i]
  <2>2. /\ k.pc = "target" /\ k.tool = tool /\ k.id = i
        /\ k.rec = Null /\ k.sibs = {} /\ k.todo = {}
        /\ k.events = <<>> /\ k.puts = <<>> /\ k.planput = Null
    BY DEF Idle
  <2>3. k \in CallT
    <3>1. Idle \in CallT /\ "target" \in Pcs /\ tool \in AllTools /\ i \in Ids
      BY <1>0, IdleOK DEF CallOK, Pcs, AllTools
    <3> QED  BY <3>1 DEF CallT
  <2>4. Becomes(s, k)
    BY <2>1
  <2> HIDE DEF k
  <2>5. ShapeOK(k) /\ ReadsOK(k, log, store)
    BY <1>0, <2>2, FS_EmptySet DEF ShapeOK, ReadsOK
  <2> QED  BY <1>0, <1>1, <2>2, <2>3, <2>4, <2>5, Idles, ReadStep DEF Command
<1>2. ASSUME ReadTarget(s)
      PROVE  IInv'
  <2>0. PICK k0 : k0 = call[s]
    OBVIOUS
  <2>1. CallOK(k0, log, store) /\ k0.pc = "target"
    BY <1>2, <2>0 DEF IInv, ReadTarget
  <2>2. PICK r : r = store[k0.id]
    OBVIOUS
  <2> DEFINE k == [k0 EXCEPT !.rec = r]
  <2>3. /\ k0 \in CallT /\ k0.id \in Ids /\ k0.tool \in {"confirm", "report", "void", "policy"}
    BY <2>1 DEF CallOK, ShapeOK
  <2>4. UNCHANGED <<log, store, plans, issued>>
    BY <1>2 DEF ReadTarget
  <2>5. CASE r = Null /\ Becomes(s, Idle) /\ UNCHANGED minted
    BY <1>0, <2>4, <2>5, IdleOK, ReadStep
  <2>6. ASSUME r # Null
        PROVE  /\ r \in Reservation /\ Explains(log, k0.id, r)
               /\ k \in CallT /\ k.id = k0.id /\ k.tool = k0.tool /\ k.rec = r
    <3>1. r \in Reservation /\ Explains(log, k0.id, r)
      BY <2>2, <2>3, <2>6, StoredOK
    <3> QED  BY <2>3, <3>1 DEF CallT
  <2>7. CASE r # Null /\ Run(s, k, Null, {})
    <3> HIDE DEF k
    <3>1. PICK o : CallOK(o, log, store) /\ Becomes(s, o) /\ minted' \in Nat
      BY <1>0, <2>3, <2>6, <2>7, FS_EmptySet, RunOK
    <3> QED  BY <1>0, <2>4, <3>1, ReadStep
  <2>8. CASE r # Null /\ r.plan # Null /\ Becomes(s, [k EXCEPT !.pc = "plan"]) /\ UNCHANGED minted
    <3> DEFINE m == [k EXCEPT !.pc = "plan"]
    <3>1. /\ m \in CallT /\ m.pc = "plan" /\ m.id = k.id /\ m.tool = k.tool /\ m.rec = r
          /\ m.sibs = k0.sibs /\ m.todo = k0.todo
          /\ m.events = k0.events /\ m.puts = k0.puts /\ m.planput = k0.planput
      <4>1. /\ k.sibs = k0.sibs /\ k.todo = k0.todo
            /\ k.events = k0.events /\ k.puts = k0.puts /\ k.planput = k0.planput
        BY <2>3 DEF CallT
      <4> HIDE DEF k
      <4> QED  BY <2>6, <2>8, <4>1 DEF CallT, Pcs
    <3>2. Becomes(s, m)
      BY <2>8
    <3> HIDE DEF m, k
    <3>3. r.plan \in Plans
      BY <2>6, <2>8 DEF Reservation
    <3>4. CallOK(m, log, store)
      BY <2>1, <2>3, <2>6, <2>8, <3>1, <3>3 DEF CallOK, ShapeOK, ReadsOK, WritesOK
    <3> QED  BY <1>0, <2>4, <2>8, <3>2, <3>4, ReadStep
  <2> QED  BY <1>2, <2>0, <2>2, <2>5, <2>7, <2>8 DEF ReadTarget
<1> QED  BY <1>1, <1>2

\* A call reads the plan of its target, the index, and each sibling.
LEMMA StepContext ==
  ASSUME IInv, NEW s \in Sessions, ReadPlan(s) \/ ScanIndex(s) \/ ReadSibling(s)
  PROVE  IInv'
<1>0. minted \in Nat /\ issued \subseteq Ids
  BY DEF IInv, Types4
<1>1. PICK k : k = call[s]
  OBVIOUS
<1>2. /\ CallOK(k, log, store) /\ k.pc \in {"plan", "scan", "siblings"}
      /\ UNCHANGED <<log, store, plans, issued>>
  BY <1>1 DEF IInv, ReadPlan, ScanIndex, ReadSibling
<1>3. /\ k \in CallT /\ k.id \in Ids /\ k.tool \in {"confirm", "report", "void", "policy"}
      /\ k.rec \in Reservation /\ k.rec.plan \in Plans /\ Explains(log, k.id, k.rec)
  BY <1>2, NullAssumption DEF CallOK, ShapeOK, ReadsOK
<1>4. ASSUME NEW planrec \in Plan \cup {Null}, NEW sibs \in SUBSET Put, IsFiniteSet(sibs),
             \A r \in sibs : Explains(log, r.id, r.rec), Run(s, k, planrec, sibs)
      PROVE  IInv'
  <2>1. PICK o : CallOK(o, log, store) /\ Becomes(s, o) /\ minted' \in Nat
    BY <1>0, <1>3, <1>4, RunOK
  <2> QED  BY <1>0, <1>2, <2>1, ReadStep
<1>5. CASE ReadPlan(s)
  <2>1. PICK planrec : planrec = plans[k.rec.plan]
    OBVIOUS
  <2>2. planrec = Null \/ planrec \in Plan
    BY <1>3, <2>1, StoredOK
  <2>3. CASE Run(s, k, Null, {})
    BY <1>4, <2>3, FS_EmptySet
  <2>4. CASE planrec # Null /\ Becomes(s, [k EXCEPT !.pc = "scan", !.planrec = planrec]) /\ UNCHANGED minted
    <3> DEFINE m == [k EXCEPT !.pc = "scan", !.planrec = planrec]
    <3>1. /\ m \in CallT /\ m.pc = "scan" /\ m.id = k.id /\ m.tool = k.tool /\ m.rec = k.rec
          /\ m.planrec = planrec /\ m.sibs = k.sibs /\ m.todo = k.todo
          /\ m.events = k.events /\ m.puts = k.puts /\ m.planput = k.planput
      BY <1>3, <2>2, <2>4 DEF CallT, Pcs
    <3>2. Becomes(s, m)
      BY <2>4
    <3> HIDE DEF m
    <3>3. CallOK(m, log, store)
      BY <1>2, <1>3, <2>2, <2>4, <3>1 DEF CallOK, ShapeOK, ReadsOK, WritesOK
    <3> QED  BY <1>0, <1>2, <2>4, <3>2, <3>3, ReadStep
  <2> QED  BY <1>1, <1>5, <2>1, <2>3, <2>4 DEF ReadPlan
<1>6. CASE ScanIndex(s)
  <2>1. k.pc = "scan" /\ k.planrec \in Plan
    BY <1>1, <1>2, <1>6 DEF CallOK, ShapeOK, ScanIndex
  <2>2. CASE Run(s, k, k.planrec, {})
    BY <1>4, <2>1, <2>2, FS_EmptySet
  <2>3. ASSUME NEW found \in SUBSET Ids, \A i \in found : store[i] # Null,
               Becomes(s, [k EXCEPT !.pc = "siblings", !.todo = found]), UNCHANGED minted
        PROVE  IInv'
    <3> DEFINE m == [k EXCEPT !.pc = "siblings", !.todo = found]
    <3>1. /\ m \in CallT /\ m.pc = "siblings" /\ m.id = k.id /\ m.tool = k.tool /\ m.rec = k.rec
          /\ m.planrec = k.planrec /\ m.sibs = k.sibs /\ m.todo = found
          /\ m.events = k.events /\ m.puts = k.puts /\ m.planput = k.planput
      BY <1>3 DEF CallT, Pcs
    <3>2. Becomes(s, m)
      BY <2>3
    <3> HIDE DEF m
    <3>3. CallOK(m, log, store)
      BY <1>2, <1>3, <2>1, <2>3, <3>1 DEF CallOK, ShapeOK, ReadsOK, WritesOK
    <3> QED  BY <1>0, <1>2, <2>3, <3>2, <3>3, ReadStep
  <2>4. \/ Run(s, k, k.planrec, {})
        \/ \E found \in SUBSET Ids :
             /\ \A i \in found : store[i] # Null
             /\ Becomes(s, [k EXCEPT !.pc = "siblings", !.todo = found]) /\ UNCHANGED minted
    <3> DEFINE found == {i \in Ids \ {k.id} : store[i] # Null /\ store[i].plan = k.rec.plan}
    <3>1. \/ Run(s, k, k.planrec, {})
          \/ Becomes(s, [k EXCEPT !.pc = "siblings", !.todo = found]) /\ UNCHANGED minted
      BY <1>1, <1>6 DEF ScanIndex
    <3>2. found \in SUBSET Ids /\ \A i \in found : store[i] # Null
      OBVIOUS
    <3> HIDE DEF found
    <3> QED  BY <3>1, <3>2
  <2> QED  BY <2>2, <2>3, <2>4
<1>7. CASE ReadSibling(s)
  <2>1. /\ k.pc = "siblings" /\ k.planrec \in Plan /\ IsFiniteSet(k.sibs) /\ k.sibs \subseteq Put
        /\ \A r \in k.sibs : Explains(log, r.id, r.rec)
        /\ k.todo \subseteq Ids /\ \A i \in k.todo : store[i] # Null
    BY <1>1, <1>2, <1>7 DEF CallOK, ShapeOK, ReadsOK, CallT, ReadSibling
  <2>2. PICK i \in k.todo :
          LET sibs == k.sibs \cup {[id |-> i, rec |-> store[i]]} IN
          IF k.todo = {i} THEN Run(s, k, k.planrec, sibs)
          ELSE Becomes(s, [k EXCEPT !.todo = @ \ {i}, !.sibs = sibs]) /\ UNCHANGED minted
    BY <1>1, <1>7 DEF ReadSibling
  <2> DEFINE r == [id |-> i, rec |-> store[i]]
             sibs == k.sibs \cup {r}
  <2>3. r \in Put /\ Explains(log, r.id, r.rec)
    <3>1. i \in Ids /\ store[i] # Null
      BY <2>1
    <3> QED  BY <3>1, StoredOK DEF Put
  <2>4. \/ Run(s, k, k.planrec, sibs)
        \/ Becomes(s, [k EXCEPT !.todo = @ \ {i}, !.sibs = sibs]) /\ UNCHANGED minted
    BY <2>2
  <2> HIDE DEF r
  <2>5. sibs \in SUBSET Put /\ IsFiniteSet(sibs) /\ \A w \in sibs : Explains(log, w.id, w.rec)
    BY <2>1, <2>3, FS_AddElement
  <2> HIDE DEF sibs
  <2>6. CASE Run(s, k, k.planrec, sibs)
    BY <1>4, <2>1, <2>5, <2>6
  <2>7. CASE Becomes(s, [k EXCEPT !.todo = @ \ {i}, !.sibs = sibs]) /\ UNCHANGED minted
    <3> DEFINE m == [k EXCEPT !.todo = @ \ {i}, !.sibs = sibs]
    <3>1. /\ m \in CallT /\ m.pc = k.pc /\ m.id = k.id /\ m.tool = k.tool /\ m.rec = k.rec
          /\ m.planrec = k.planrec /\ m.sibs = sibs /\ m.todo = k.todo \ {i}
          /\ m.events = k.events /\ m.puts = k.puts /\ m.planput = k.planput
      BY <1>3, <2>1, <2>5 DEF CallT
    <3>2. Becomes(s, m)
      BY <2>7
    <3> HIDE DEF m
    <3>3. CallOK(m, log, store)
      BY <1>2, <1>3, <2>1, <2>5, <3>1 DEF CallOK, ShapeOK, ReadsOK, WritesOK
    <3> QED  BY <1>0, <1>2, <2>7, <3>2, <3>3, ReadStep
  <2> QED  BY <2>4, <2>6, <2>7
<1> QED  BY <1>5, <1>6, <1>7

\* An event reaches the log: its cause is there, and what waited for it is explained.
LEMMA StepAppends ==
  ASSUME IInv, NEW s \in Sessions, AppendEvent(s)
  PROVE  IInv'
<1>1. PICK k : k = call[s]
  OBVIOUS
<1>2. CallOK(k, log, store) /\ k.events # <<>> /\ k.pc = "write" /\ k \in CallT
  BY <1>1 DEF IInv, AppendEvent, CallOK
<1>3. PICK e, t : e = Head(k.events) /\ t = Tail(k.events)
  OBVIOUS
<1> DEFINE m == [k EXCEPT !.events = t]
<1>4. Becomes(s, m) /\ log' = log \cup {e} /\ UNCHANGED <<store, plans, issued, minted>>
  BY <1>1, <1>3 DEF AppendEvent
<1>5. /\ k.events \in Seq(EventT) /\ t \in Seq(EventT) /\ Len(t) = Len(k.events) - 1
      /\ \A j \in 1 .. Len(t) : t[j] = k.events[j + 1]
  <2>1. k.events \in Seq(EventT)
    BY <1>2 DEF CallT
  <2> QED  BY <1>2, <1>3, <2>1, HeadTailProperties
<1>6. Len(k.events) \in Nat /\ Len(k.events) > 0 /\ e = k.events[1] /\ DOMAIN k.events = 1 .. Len(k.events)
  BY <1>2, <1>3, <1>5
<1>7. log \cup Range(k.events) \subseteq log' \cup Range(t)
  <2>1. ASSUME NEW j \in 1 .. Len(k.events)
        PROVE  k.events[j] \in {e} \cup Range(t)
    <3>1. CASE j = 1
      BY <1>6, <3>1
    <3>2. CASE j # 1
      <4>1. j - 1 \in 1 .. Len(t) /\ t[j - 1] = k.events[j]
        BY <1>5, <1>6, <3>2
      <4>2. j - 1 \in DOMAIN t
        BY <1>5, <4>1
      <4> QED  BY <4>1, <4>2 DEF Range
    <3> QED  BY <3>1, <3>2
  <2> QED  BY <1>4, <1>6, <2>1 DEF Range
<1>8. /\ m \in CallT /\ m.pc = "write" /\ m.id = k.id /\ m.rec = k.rec /\ m.sibs = k.sibs
      /\ m.todo = k.todo /\ m.events = t /\ m.puts = k.puts /\ m.planput = k.planput
  BY <1>2, <1>5 DEF CallT
<1> HIDE DEF m
<1>9. ReadsOK(m, log', store)
  BY <1>2, <1>4, <1>8, ExplainsGrows, log \subseteq log \cup {e} DEF CallOK, ReadsOK
<1>10. WritesOK(m, log')
  <2>1. ASSUME NEW j \in DOMAIN t
        PROVE  CausedIn(log', t[j])
    <3>1. j \in 1 .. Len(t) /\ j + 1 \in DOMAIN k.events /\ t[j] = k.events[j + 1]
      BY <1>5, <1>6
    <3>2. CausedIn(log, k.events[j + 1]) \/ CausedIn({k.events[1]}, k.events[j + 1])
      BY <1>2, <3>1 DEF CallOK, WritesOK
    <3> QED  BY <1>4, <1>6, <3>1, <3>2 DEF CausedIn
  <2>2. \A j \in DOMAIN k.puts : Explains(log' \cup Range(t), k.puts[j].id, k.puts[j].rec)
    BY <1>2, <1>7, ExplainsGrows DEF CallOK, WritesOK
  <2>3. k.planput # Null /\ k.planput.rec.status = "settled" => SettledIn(log' \cup Range(t), k.planput.plan)
    BY <1>2, <1>7 DEF CallOK, WritesOK, SettledIn
  <2> QED  BY <1>8, <2>1, <2>2, <2>3 DEF WritesOK
<1>11. CallOK(m, log', store')
  BY <1>4, <1>8, <1>9, <1>10 DEF CallOK, ShapeOK
<1>12. DOMAIN call' = Sessions /\ \A c \in Sessions : CallOK(call'[c], log', store')
  BY <1>4, <1>11, BecomesOK
<1>13. LogExplainsStore'
  <2>1. CausedIn(log, e)
    BY <1>2, <1>6 DEF CallOK, WritesOK
  <2> QED  BY <1>4, <2>1 DEF IInv, LogExplainsStore, CausedIn, FoldedSettled
<1> QED  BY <1>4, <1>12, <1>13 DEF IInv, Types4

\* A reservation reaches the store once its events are in the log.
LEMMA StepPutsReservation ==
  ASSUME IInv, NEW s \in Sessions, PutReservation(s)
  PROVE  IInv'
<1>1. PICK k : k = call[s]
  OBVIOUS
<1>2. CallOK(k, log, store) /\ k.events = <<>> /\ k.puts # <<>> /\ k.pc = "write" /\ k \in CallT
  BY <1>1 DEF IInv, PutReservation, CallOK
<1>3. PICK w, t : w = Head(k.puts) /\ t = Tail(k.puts)
  OBVIOUS
<1> DEFINE m == [k EXCEPT !.puts = t]
<1>4. /\ Becomes(s, m) /\ store' = [store EXCEPT ![w.id] = w.rec]
      /\ UNCHANGED <<log, plans, issued, minted>>
  BY <1>1, <1>3 DEF PutReservation
<1>5. /\ k.puts \in Seq(Put) /\ w \in Put /\ t \in Seq(Put) /\ Len(t) = Len(k.puts) - 1
      /\ \A j \in 1 .. Len(t) : t[j] = k.puts[j + 1]
  <2>1. k.puts \in Seq(Put)
    BY <1>2 DEF CallT
  <2> QED  BY <1>2, <1>3, <2>1, HeadTailProperties
<1>6. Len(k.puts) \in Nat /\ Len(k.puts) > 0 /\ w = k.puts[1] /\ DOMAIN k.puts = 1 .. Len(k.puts)
  BY <1>2, <1>3, <1>5
<1>7. log \cup Range(k.events) = log
  <2>1. Range(k.events) = {}
    BY <1>2 DEF Range
  <2> QED  BY <2>1
<1>8. w.id \in Ids /\ w.rec \in Reservation /\ w.rec # Null /\ Explains(log, w.id, w.rec)
  <2>1. w.id \in Ids /\ w.rec \in Reservation /\ w.rec # Null
    BY <1>5, NullAssumption DEF Put
  <2>2. 1 \in DOMAIN k.puts
    BY <1>6
  <2>3. Explains(log \cup Range(k.events), k.puts[1].id, k.puts[1].rec)
    BY <1>2, <2>2 DEF CallOK, WritesOK
  <2> QED  BY <1>6, <1>7, <2>1, <2>3
<1>9. /\ m \in CallT /\ m.pc = "write" /\ m.id = k.id /\ m.rec = k.rec /\ m.sibs = k.sibs
      /\ m.todo = k.todo /\ m.events = k.events /\ m.puts = t /\ m.planput = k.planput
  BY <1>2, <1>5 DEF CallT
<1> HIDE DEF m
<1>10. CallOK(m, log, store)
  <2>1. ASSUME NEW j \in DOMAIN t
        PROVE  Explains(log \cup Range(k.events), t[j].id, t[j].rec)
    <3>1. j + 1 \in DOMAIN k.puts /\ t[j] = k.puts[j + 1]
      BY <1>5, <1>6
    <3> QED  BY <1>2, <3>1 DEF CallOK, WritesOK
  <2> QED  BY <1>2, <1>9, <2>1 DEF CallOK, ShapeOK, ReadsOK, WritesOK
<1>11. store \in [Ids -> Reservation \cup {Null}]
  BY DEF IInv, Types4
<1>12. \A i \in Ids : store[i] # Null => store'[i] # Null
  <2>1. ASSUME NEW i \in Ids
        PROVE  store'[i] = IF i = w.id THEN w.rec ELSE store[i]
    BY <1>4, <1>11
  <2> QED  BY <1>8, <2>1
<1>13. CallOK(m, log', store')
  <2>1. log \subseteq log'
    BY <1>4
  <2> QED  BY <2>1, <1>10, <1>12, CallFrame
<1>14. DOMAIN call' = Sessions /\ \A c \in Sessions : CallOK(call'[c], log', store')
  BY <1>4, <1>12, <1>13, BecomesOK
<1>15. LogExplainsStore'
  <2>1. ASSUME NEW i \in Ids, store'[i] # Null
        PROVE  Explains(log, i, store'[i])
    BY <1>4, <1>8, <1>11, <2>1, StoredOK
  <2> QED  BY <1>4, <2>1 DEF IInv, LogExplainsStore, Explains, FoldedSettled
<1> QED  BY <1>4, <1>8, <1>11, <1>14, <1>15 DEF IInv, Types4

\* A plan is put, the notice enqueued, or the process dies.
LEMMA StepEnds ==
  ASSUME IInv, NEW s \in Sessions, PutPlan(s) \/ Enqueue(s) \/ Crash(s)
  PROVE  IInv'
<1>0. minted \in Nat /\ issued \subseteq Ids /\ plans \in [Plans -> Plan \cup {Null}]
  BY DEF IInv, Types4
<1>1. PICK k : k = call[s]
  OBVIOUS
<1>2. CallOK(k, log, store) /\ k \in CallT
  BY <1>1 DEF IInv, CallOK
<1>3. CASE PutPlan(s)
  <2> DEFINE m == [k EXCEPT !.planput = Null]
  <2>1. /\ k.events = <<>> /\ k.planput # Null /\ k.pc = "write" /\ Becomes(s, m)
        /\ plans' = [plans EXCEPT ![k.planput.plan] = k.planput.rec]
        /\ UNCHANGED <<log, store, issued, minted>>
    BY <1>1, <1>3 DEF PutPlan
  <2>2. /\ m \in CallT /\ m.pc = "write" /\ m.id = k.id /\ m.rec = k.rec /\ m.sibs = k.sibs
        /\ m.todo = k.todo /\ m.events = k.events /\ m.puts = k.puts /\ m.planput = Null
    BY <1>2, <2>1 DEF CallT
  <2> HIDE DEF m
  <2>3. CallOK(m, log', store')
    BY <1>2, <2>1, <2>2 DEF CallOK, ShapeOK, ReadsOK, WritesOK
  <2>4. DOMAIN call' = Sessions /\ \A c \in Sessions : CallOK(call'[c], log', store')
    BY <2>1, <2>3, BecomesOK
  <2>5. PICK p \in Plans, rec \in Plan : p = k.planput.plan /\ rec = k.planput.rec
    BY <1>2, <2>1 DEF CallT, PlanPutT
  <2>6. rec.status = "settled" => SettledIn(log, p)
    <3>1. Range(k.events) = {}
      BY <2>1 DEF Range
    <3> QED  BY <1>2, <2>1, <2>5, <3>1 DEF CallOK, WritesOK
  <2>7. plans' = [plans EXCEPT ![p] = rec]
    BY <2>1, <2>5
  <2>8. LogExplainsStore'
    BY <1>0, <2>1, <2>6, <2>7 DEF IInv, LogExplainsStore, FoldedSettled, SettledIn
  <2> QED  BY <1>0, <2>1, <2>4, <2>5, <2>7, <2>8 DEF IInv, Types4
<1>4. CASE Enqueue(s)
  <2> DEFINE m == [k EXCEPT !.notice = Null]
  <2>1. k.pc = "write" /\ Becomes(s, m) /\ UNCHANGED <<log, store, plans, issued, minted>>
    BY <1>1, <1>4 DEF Enqueue
  <2>2. /\ m \in CallT /\ m.pc = "write" /\ m.id = k.id /\ m.rec = k.rec /\ m.sibs = k.sibs
        /\ m.todo = k.todo /\ m.events = k.events /\ m.puts = k.puts /\ m.planput = k.planput
    BY <1>2, <2>1 DEF CallT
  <2> HIDE DEF m
  <2>3. CallOK(m, log, store)
    BY <1>2, <2>1, <2>2 DEF CallOK, ShapeOK, ReadsOK, WritesOK
  <2> QED  BY <1>0, <2>1, <2>3, ReadStep
<1>5. CASE Crash(s)
  BY <1>0, <1>5, IdleOK, ReadStep DEF Crash
<1> QED  BY <1>3, <1>4, <1>5

-----------------------------------------------------------------------------

\* At the start nothing is stored and nothing under way.
LEMMA InitOK == Init => IInv
<1> SUFFICES ASSUME Init PROVE IInv
  OBVIOUS
<1>1. Types4
  BY DEF Init, Types4
<1>2. \A s \in Sessions : CallOK(call[s], log, store)
  BY IdleOK DEF Init
<1>3. LogExplainsStore
  BY DEF Init, LogExplainsStore
<1> QED  BY <1>1, <1>2, <1>3 DEF IInv

\* Every step keeps the invariant.
LEMMA NextOK == IInv /\ [Next]_vars => IInv'
<1> SUFFICES ASSUME IInv, [Next]_vars PROVE IInv'
  OBVIOUS
<1>1. CASE Next
  <2>1. PICK s \in Sessions :
          \/ CreatePlan(s) \/ CreateReservation(s) \/ AddInline(s)
          \/ Link(s) \/ LinkExisting(s)
          \/ Command(s) \/ ReadTarget(s)
          \/ ReadPlan(s) \/ ScanIndex(s) \/ ReadSibling(s)
          \/ AppendEvent(s) \/ PutReservation(s)
          \/ PutPlan(s) \/ Enqueue(s) \/ Crash(s)
    BY <1>1 DEF Next
  <2> QED  BY <2>1, StepCreates, StepLinks, StepTargets, StepContext, StepAppends,
              StepPutsReservation, StepEnds
<1>2. CASE UNCHANGED vars
  BY <1>2 DEF vars, IInv, Types4, LogExplainsStore, FoldedSettled
<1> QED  BY <1>1, <1>2

\* Whatever tool calls overlap and wherever the process dies, an event in the log has
\* its cause in it, and every stored status, known policy and settled plan has the
\* event that says so: events go first, and every read is of what the log explains.
THEOREM LogExplains == Spec => []LogExplainsStore
<1>1. Spec => []IInv
  BY InitOK, NextOK, PTL DEF Spec
<1>2. IInv => LogExplainsStore
  BY DEF IInv
<1> QED  BY <1>1, <1>2, PTL

-----------------------------------------------------------------------------
(* The quota.  One call after the other, what a call has read is what is    *)
(* stored, and what it is about to confirm was counted.                    *)

Winners(st, p) == {i \in Ids : st[i] # Null /\ st[i].plan = p /\ st[i].status = "confirmed"}
Pending(k, p) ==
  {i \in Ids : \E w \in Range(k.puts) : w.id = i /\ w.rec.plan = p /\ w.rec.status = "confirmed"}

\* The plan of a reservation exists, or never will.
Known(r, pl) == r.plan = Null \/ r.plan \in Foreign \/ pl[r.plan] # Null
AllKnown(st, pl) == \A i \in Ids : st[i] # Null => Known(st[i], pl)

HeldIn(st, pl) ==
  \A p \in Plans : pl[p] # Null => Cardinality(Winners(st, p)) <= pl[p].confirm_quota

\* The siblings of the reservation i of plan p are all in sibs.
Complete(i, p, sibs, st) ==
  \A j \in Ids \ {i} : st[j] # Null /\ st[j].plan = p => [id |-> j, rec |-> st[j]] \in sibs

Fresh(k, st, pl) ==
  /\ k.pc # "link"
  /\ k.pc \in {"plan", "scan", "siblings"} => st[k.id] = k.rec
  /\ k.pc \in {"scan", "siblings"} => k.planrec = pl[k.rec.plan]
  /\ k.pc = "siblings" =>
       Complete(k.id, k.rec.plan, k.sibs \cup {[id |-> j, rec |-> st[j]] : j \in k.todo}, st)
  /\ \A r \in k.sibs : Known(r.rec, pl)
  /\ \A w \in Range(k.puts) : Known(w.rec, pl)
  /\ k.planput # Null =>
       /\ pl[k.planput.plan] # Null
       /\ k.planput.rec.confirm_quota = pl[k.planput.plan].confirm_quota

Within(k, st, pl) ==
  \A p \in Plans : pl[p] # Null =>
    Cardinality(Winners(st, p) \cup Pending(k, p)) <= pl[p].confirm_quota

QuotaInv ==
  ~mixed =>
    /\ AllKnown(store, plans) /\ HeldIn(store, plans)
    /\ \A s \in Busy : Fresh(call[s], store, plans) /\ Within(call[s], store, plans)

\* Winners are finite in number, and fewer when every one of them is among others.
LEMMA FewerWinners ==
  ASSUME NEW A \in SUBSET Ids, NEW B \in SUBSET A, NEW q \in Nat, Cardinality(A) <= q
  PROVE  Cardinality(B) <= q
<1>1. IsFiniteSet(A)
  BY CoreAssumption, FS_Subset
<1>2. Cardinality(B) <= Cardinality(A) /\ Cardinality(A) \in Nat /\ Cardinality(B) \in Nat
  BY <1>1, FS_Subset, FS_CardinalityType
<1> QED  BY <1>2

\* A step after which no two calls have overlapped is of the only call there is.
LEMMA Alone ==
  ASSUME NEW s \in Sessions, NEW k, Mixes(s, k), ~mixed'
  PROVE  ~mixed /\ k.pc # "link" /\ Busy \subseteq {s}
<1>1. ~mixed /\ k.pc # "link" /\ ~(Cardinality(Busy \cup {s}) > 1)
  BY DEF Mixes
<1>2. IsFiniteSet(Busy \cup {s})
  BY CoreAssumption, FS_Subset DEF Busy
<1>3. Cardinality({s}) = 1 /\ Cardinality(Busy \cup {s}) \in Nat
  BY <1>2, FS_Singleton, FS_CardinalityType
<1>4. {s} \in SUBSET (Busy \cup {s})
  OBVIOUS
<1>5. Cardinality({s}) <= Cardinality(Busy \cup {s})
      /\ (Cardinality(Busy \cup {s}) = Cardinality({s}) => Busy \cup {s} = {s})
  BY <1>2, <1>4, FS_Subset
<1> QED  BY <1>1, <1>3, <1>5

\* So it is enough to look at what that call goes on as.
LEMMA AloneOK ==
  ASSUME IInv, NEW s \in Sessions, NEW k, Becomes(s, k),
         ~mixed' => /\ AllKnown(store', plans') /\ HeldIn(store', plans')
                    /\ k.pc # "idle" => Fresh(k, store', plans') /\ Within(k, store', plans')
  PROVE  QuotaInv'
<1> SUFFICES ASSUME ~mixed'
             PROVE  \A c \in Busy' : Fresh(call'[c], store', plans') /\ Within(call'[c], store', plans')
  BY DEF QuotaInv
<1> DEFINE j == IF k.pc = "write" /\ k.events = <<>> /\ k.puts = <<>>
                   /\ k.planput = Null /\ k.notice = Null
                THEN Idle ELSE k
<1>1. call' = [call EXCEPT ![s] = j] /\ DOMAIN call = Sessions /\ Mixes(s, k)
  BY DEF Becomes, IInv, Types4
<1>2. j.pc # "idle" => j = k
  BY DEF Idle
<1>3. Busy \subseteq {s}
  BY <1>1, Alone
<1> HIDE DEF j
<1>4. ASSUME NEW c \in Busy'
      PROVE  c = s /\ call'[c] = j /\ j.pc # "idle"
  <2>1. c \in Sessions /\ call'[c].pc # "idle"
    BY DEF Busy
  <2>2. c = s
    BY <1>1, <1>3, <2>1 DEF Busy
  <2> QED  BY <1>1, <2>1, <2>2
<1> QED  BY <1>2, <1>4

\* Tail and Head of what is to be put.
LEMMA RangeOfPuts ==
  ASSUME NEW puts \in Seq(Put), puts # <<>>
  PROVE  Head(puts) \in Put /\ Range(puts) = {Head(puts)} \cup Range(Tail(puts))
<1>1. /\ Tail(puts) \in Seq(Put) /\ Len(Tail(puts)) = Len(puts) - 1 /\ Head(puts) \in Put
      /\ \A j \in 1 .. Len(Tail(puts)) : Tail(puts)[j] = puts[j + 1]
  BY HeadTailProperties
<1>2. Len(puts) \in Nat /\ Len(puts) > 0 /\ Head(puts) = puts[1] /\ DOMAIN puts = 1 .. Len(puts)
  OBVIOUS
<1> DEFINE t == Tail(puts)
<1>3. DOMAIN t = 1 .. Len(puts) - 1 /\ \A j \in 1 .. Len(puts) - 1 : t[j] = puts[j + 1]
  BY <1>1
<1> HIDE DEF t
<1>4. ASSUME NEW j \in DOMAIN puts
      PROVE  puts[j] \in {puts[1]} \cup Range(t)
  <2>1. CASE j = 1
    BY <2>1
  <2>2. CASE j # 1
    <3>1. j - 1 \in 1 .. Len(puts) - 1 /\ (j - 1) + 1 = j
      BY <1>2, <2>2
    <3>2. j - 1 \in DOMAIN t /\ t[j - 1] = puts[j]
      BY <1>3, <3>1
    <3> QED  BY <3>2 DEF Range
  <2> QED  BY <2>1, <2>2
<1>5. ASSUME NEW j \in DOMAIN t
      PROVE  t[j] \in Range(puts)
  <2>1. j + 1 \in DOMAIN puts /\ t[j] = puts[j + 1]
    BY <1>2, <1>3
  <2> QED  BY <2>1 DEF Range
<1>6. puts[1] \in Range(puts)
  BY <1>2 DEF Range
<1>7. Range(puts) \subseteq {puts[1]} \cup Range(t)
  BY <1>4 DEF Range
<1>8. Range(t) \subseteq Range(puts)
  BY <1>5 DEF Range
<1> QED  BY <1>1, <1>2, <1>6, <1>7, <1>8 DEF t

\* An outcome has read nothing that could change: what counts is what it puts.
LEMMA OutcomeSound ==
  ASSUME NEW st, NEW pl, NEW events, NEW puts, NEW planput, NEW notice,
         \A w \in Range(puts) : Known(w.rec, pl),
         planput # Null =>
           pl[planput.plan] # Null /\ planput.rec.confirm_quota = pl[planput.plan].confirm_quota,
         NEW k, k = Outcome(events, puts, planput, notice),
         Within(k, st, pl)
  PROVE  Fresh(k, st, pl)
<1>1. k.pc = "write" /\ k.puts = puts /\ k.planput = planput /\ k.sibs = {}
  BY DEF Outcome, Idle
<1> QED  BY <1>1 DEF Fresh

\* One put that confirms nothing that was not confirmed.
LEMMA OneSound ==
  ASSUME NEW st, NEW pl, HeldIn(st, pl), NEW events, NEW w \in Put, NEW planput, NEW notice,
         Known(w.rec, pl),
         w.rec.status = "confirmed" => w.id \in Winners(st, w.rec.plan),
         planput # Null =>
           pl[planput.plan] # Null /\ planput.rec.confirm_quota = pl[planput.plan].confirm_quota
  PROVE  /\ Fresh(Outcome(events, <<w>>, planput, notice), st, pl)
         /\ Within(Outcome(events, <<w>>, planput, notice), st, pl)
<1> DEFINE k == Outcome(events, <<w>>, planput, notice)
<1>1. k.puts = <<w>>
  BY DEF Outcome, Idle
<1>2. Range(<<w>>) = {w}
  BY DEF Range
<1>3. k = Outcome(events, <<w>>, planput, notice)
  OBVIOUS
<1> HIDE DEF k
<1>4. Within(k, st, pl)
  <2>1. ASSUME NEW p \in Plans
        PROVE  Winners(st, p) \cup Pending(k, p) = Winners(st, p)
    BY <1>1, <1>2 DEF Pending
  <2> QED  BY <2>1 DEF Within, HeldIn
<1>5. Fresh(k, st, pl)
  BY <1>2, <1>3, <1>4, OutcomeSound
<1> QED  BY <1>4, <1>5 DEF k

\* The confirmed siblings that were counted are at least the other winners.
LEMMA CountedAll ==
  ASSUME NEW st, NEW p, NEW i \in Ids, NEW sibs \in SUBSET Put, IsFiniteSet(sibs), Complete(i, p, sibs, st)
  PROVE  /\ Cardinality(Winners(st, p) \ {i}) <= Cardinality({r \in sibs : r.rec.status = "confirmed"})
         /\ Cardinality({r \in sibs : r.rec.status = "confirmed"}) \in Nat
<1> DEFINE W == Winners(st, p) \ {i}
           T == {r \in sibs : r.rec.status = "confirmed"}
           f == [j \in W |-> [id |-> j, rec |-> st[j]]]
<1>1. IsFiniteSet(T)
  BY FS_Subset
<1>2. \A j \in W : [id |-> j, rec |-> st[j]] \in T
  BY DEF Winners, Complete
<1>3. f \in Injection(W, T)
  <2>1. f \in [W -> T]
    BY <1>2
  <2>2. \A a, b \in W : f[a] = f[b] => a = b
    <3>1. \A a \in W : f[a].id = a
      OBVIOUS
    <3> HIDE DEF f
    <3> QED  BY <3>1
  <2> HIDE DEF f, W, T
  <2> QED  BY <2>1, <2>2 DEF Injection, IsInjective
<1> HIDE DEF f, W, T
<1>4. Cardinality(W) <= Cardinality(T) /\ Cardinality(T) \in Nat
  BY <1>1, <1>3, FS_Injection, FS_CardinalityType
<1> QED  BY <1>4 DEF W, T

\* What is put when a list follows one put.
LEMMA Prefixed ==
  ASSUME NEW w \in Put, NEW t \in Seq(Put)
  PROVE  Range(<<w>> \o t) \subseteq {w} \cup Range(t)
<1>1. <<w>> \in Seq(Put) /\ Len(<<w>>) = 1 /\ <<w>>[1] = w
  OBVIOUS
<1>2. Len(t) \in Nat /\ DOMAIN t = 1 .. Len(t)
  OBVIOUS
<1> DEFINE own == <<w>>
           u == own \o t
<1>3. own \in Seq(Put) /\ Len(own) = 1 /\ own[1] = w
  BY <1>1
<1> HIDE DEF own
<1>4. /\ u \in Seq(Put) /\ Len(u) = Len(own) + Len(t)
      /\ \A i \in 1 .. Len(own) + Len(t) : u[i] = IF i <= Len(own) THEN own[i] ELSE t[i - Len(own)]
  BY <1>3, ConcatProperties
<1> HIDE DEF u
<1>5. DOMAIN u = 1 .. 1 + Len(t)
  BY <1>2, <1>3, <1>4
<1>6. ASSUME NEW j \in DOMAIN u
      PROVE  u[j] \in {w} \cup Range(t)
  <2>1. CASE j = 1
    BY <1>2, <1>3, <1>4, <1>5, <2>1
  <2>2. CASE j # 1
    <3>1. j \in 1 .. 1 + Len(t) /\ j - 1 \in 1 .. Len(t) /\ ~(j <= 1)
      BY <1>2, <1>5, <2>2
    <3>2. u[j] = t[j - 1]
      BY <1>2, <1>3, <1>4, <3>1
    <3> QED  BY <1>2, <3>1, <3>2 DEF Range
  <2> QED  BY <2>1, <2>2
<1>7. Range(u) \subseteq {w} \cup Range(t)
  BY <1>6 DEF Range
<1> QED  BY <1>7 DEF u, own

\* confirm, of a target and siblings that are what is stored: no plan gets more
\* winners than it may have.
LEMMA ConfirmedSound ==
  ASSUME minted \in Nat, NEW st, NEW pl \in [Plans -> Plan \cup {Null}],
         AllKnown(st, pl), HeldIn(st, pl),
         NEW target \in Put, st[target.id] = target.rec,
         NEW planrec, planrec = Null \/ planrec \in Plan,
         planrec = Null => target.rec.plan = Null \/ pl[target.rec.plan] = Null,
         planrec # Null => target.rec.plan \in Plans /\ planrec = pl[target.rec.plan],
         NEW plan, plan = (IF planrec = Null THEN Null ELSE target.rec.plan),
         NEW sibs \in SUBSET Put, IsFiniteSet(sibs), \A r \in sibs : Known(r.rec, pl),
         planrec # Null => Complete(target.id, target.rec.plan, sibs, st),
         NEW k, k = Confirmed(target, plan, planrec, sibs), k.pc # "idle"
  PROVE  Fresh(k, st, pl) /\ Within(k, st, pl)
<1> DEFINE winner == WithStatus(target, "confirmed")
           lost == {r \in sibs : r.rec.status = "candidate"}
           others == SetToSeq(lost)
           losers == [j \in DOMAIN others |-> WithStatus(others[j], "to_cancel")]
           existing == Cardinality({r \in sibs : r.rec.status = "confirmed"})
           settled == [plan |-> plan, rec |-> [planrec EXCEPT !.status = "settled"]]
<1>1. /\ winner \in Put /\ winner.id = target.id /\ winner.rec.status = "confirmed"
      /\ winner.rec.plan = target.rec.plan
  BY DEF WithStatus, Put, Reservation, Statuses
<1>2. losers \in Seq(Put) /\ \A w \in Range(losers) : \E r \in sibs : w = WithStatus(r, "to_cancel")
  <2>1. others \in [1 .. Cardinality(lost) -> lost] /\ Cardinality(lost) \in Nat
    <3>1. IsFiniteSet(lost)
      BY FS_Subset
    <3> QED  BY <3>1, Listed
  <2> HIDE DEF others
  <2>2. \A j \in 1 .. Cardinality(lost) : WithStatus(others[j], "to_cancel") \in Put /\ others[j] \in sibs
    BY <2>1, StatusIsSet DEF Statuses
  <2>3. DOMAIN others = 1 .. Cardinality(lost)
    BY <2>1
  <2> HIDE DEF lost
  <2>4. losers \in [1 .. Cardinality(lost) -> Put]
    BY <2>2, <2>3
  <2>5. \A w \in Range(losers) : \E r \in sibs : w = WithStatus(r, "to_cancel")
    BY <2>2, <2>3 DEF Range
  <2> HIDE DEF losers
  <2> QED  BY <2>1, <2>4, <2>5
<1>3. ASSUME NEW w \in Range(losers)
      PROVE  w.rec.status = "to_cancel" /\ Known(w.rec, pl)
  <2>1. PICK r \in sibs : w = WithStatus(r, "to_cancel")
    BY <1>2, <1>3
  <2>2. w.rec.status = "to_cancel" /\ w.rec.plan = r.rec.plan
    BY <2>1 DEF WithStatus, Put, Reservation
  <2> QED  BY <2>2 DEF Known
<1>4. PICK events, notice : /\ target.rec.status = "candidate"
                            /\ \/ plan = Null /\ k = Outcome(events, <<winner>>, Null, Null)
                               \/ /\ plan # Null /\ ~QuotaFull(existing, planrec)
                                  /\ \/ k = Outcome(events, <<winner>>, Null, Null)
                                     \/ k = Outcome(events, <<winner>> \o losers, settled, notice)
  BY DEF Confirmed, Idle
<1>5. PICK puts, planput, n : /\ puts = <<winner>> \/ puts = <<winner>> \o losers
                              /\ planput # Null => planput = settled /\ plan # Null
                              /\ k = Outcome(events, puts, planput, n)
  <2> HIDE DEF winner, losers, settled, existing
  <2>1. CASE k = Outcome(events, <<winner>>, Null, Null)
    BY <2>1, Zenon
  <2>2. CASE plan # Null /\ k = Outcome(events, <<winner>> \o losers, settled, notice)
    BY <2>2, Zenon
  <2> QED  BY <1>4, <2>1, <2>2
<1>6. Range(puts) \subseteq {winner} \cup Range(losers)
  <2>1. <<winner>> \in Seq(Put) /\ Range(<<winner>>) = {winner}
    BY <1>1 DEF Range
  <2> HIDE DEF losers, winner
  <2>2. Range(<<winner>> \o losers) \subseteq {winner} \cup Range(losers)
    BY <1>1, <1>2, Prefixed
  <2> QED  BY <1>5, <2>1, <2>2
<1>7. target.id \in Ids /\ target.rec # Null /\ target.rec \in Reservation
  BY NullAssumption DEF Put
<1>8. Known(winner.rec, pl)
  <2>1. Known(target.rec, pl)
    BY <1>7 DEF AllKnown
  <2> QED  BY <1>1, <2>1 DEF Known
<1> HIDE DEF winner, losers, others, lost, existing
<1>9. \A w \in Range(puts) : Known(w.rec, pl)
  BY <1>3, <1>6, <1>8
<1>10. planput # Null =>
         pl[planput.plan] # Null /\ planput.rec.confirm_quota = pl[planput.plan].confirm_quota
  BY <1>5 DEF Plan
<1>11. Within(k, st, pl)
  <2>1. k.puts = puts
    BY <1>5 DEF Outcome, Idle
  <2> SUFFICES ASSUME NEW p \in Plans, pl[p] # Null
               PROVE  Cardinality(Winners(st, p) \cup Pending(k, p)) <= pl[p].confirm_quota
    BY DEF Within
  <2>2. Pending(k, p) \subseteq {target.id} /\ (Pending(k, p) # {} => p = target.rec.plan)
    BY <1>1, <1>3, <1>6, <2>1 DEF Pending
  <2>3. CASE Pending(k, p) = {}
    <3>1. Winners(st, p) \cup Pending(k, p) = Winners(st, p)
      BY <2>3
    <3> QED  BY <3>1 DEF HeldIn
  <2>4. CASE Pending(k, p) # {}
    <3>1. p = target.rec.plan /\ planrec # Null /\ planrec = pl[p] /\ plan # Null /\ planrec \in Plan
      BY <2>2, <2>4, CoreAssumption
    <3>2. Cardinality(Winners(st, p) \ {target.id}) <= existing /\ existing \in Nat
      BY <1>7, <3>1, CountedAll DEF existing
    <3>3. planrec.confirm_quota \in Nat /\ ~(existing >= planrec.confirm_quota)
      BY <1>4, <3>1, CoreAssumption DEF QuotaFull, Plan
    <3>4. target.id \notin Winners(st, p)
      BY <1>4 DEF Winners
    <3>5. Winners(st, p) \cup Pending(k, p) = (Winners(st, p) \ {target.id}) \cup {target.id}
      BY <2>2, <2>4, <3>4
    <3>6. IsFiniteSet(Winners(st, p) \ {target.id})
      BY CoreAssumption, FS_Subset DEF Winners
    <3>7. Cardinality((Winners(st, p) \ {target.id}) \cup {target.id})
            = Cardinality(Winners(st, p) \ {target.id}) + 1
      BY <3>6, FS_AddElement
    <3>8. Cardinality(Winners(st, p) \ {target.id}) \in Nat
      BY <3>6, FS_CardinalityType
    <3> QED  BY <3>1, <3>2, <3>3, <3>5, <3>7, <3>8
  <2> QED  BY <2>3, <2>4
<1> QED  BY <1>5, <1>9, <1>10, <1>11, OutcomeSound

\* The other transitions, of a target that is what is stored.
LEMMA RunSound ==
  ASSUME minted \in Nat, NEW st, NEW pl \in [Plans -> Plan \cup {Null}], NEW s, NEW k, NEW planrec, NEW sibs,
         AllKnown(st, pl), HeldIn(st, pl),
         k.tool \in {"confirm", "report", "void", "policy"}, k.id \in Ids, k.rec \in Reservation,
         st[k.id] = k.rec,
         planrec = Null \/ planrec \in Plan,
         k.tool = "confirm" /\ planrec = Null => k.rec.plan = Null \/ pl[k.rec.plan] = Null,
         planrec # Null => k.rec.plan \in Plans /\ planrec = pl[k.rec.plan],
         sibs \in SUBSET Put, IsFiniteSet(sibs), \A r \in sibs : Known(r.rec, pl),
         planrec # Null => Complete(k.id, k.rec.plan, sibs, st),
         Run(s, k, planrec, sibs)
  PROVE  \E o : Becomes(s, o) /\ (o.pc # "idle" => Fresh(o, st, pl) /\ Within(o, st, pl))
<1> DEFINE target == [id |-> k.id, rec |-> k.rec]
           plan == IF planrec = Null THEN Null ELSE k.rec.plan
           o == CASE k.tool = "confirm" -> Confirmed(target, plan, planrec, sibs)
                  [] k.tool = "report"  -> ReportCancelled(target)
                  [] k.tool = "void"    -> VoidReservation(target)
                  [] k.tool = "policy"  -> SetPolicy(target)
<1>1. target \in Put /\ target.id = k.id /\ target.rec = k.rec
  BY DEF Put
<1>2. plan = (IF planrec = Null THEN Null ELSE target.rec.plan)
  OBVIOUS
<1>3. Becomes(s, o)
  BY DEF Run, Decide
<1> HIDE DEF target, plan
<1>4. Known(k.rec, pl) /\ k.rec # Null
  BY NullAssumption DEF AllKnown
<1>5. CASE k.tool = "confirm"
  <2>1. PICK c : c = Confirmed(target, plan, planrec, sibs)
    OBVIOUS
  <2>2. c.pc # "idle" => Fresh(c, st, pl) /\ Within(c, st, pl)
    BY <1>1, <1>2, <1>5, <2>1, ConfirmedSound
  <2> QED  BY <1>3, <1>5, <2>1, <2>2
<1>6. ASSUME NEW state \in {"cancelled", "voided"}, NEW events
      PROVE  LET w == Outcome(events, <<WithStatus(target, state)>>, Null, Null)
             IN Fresh(w, st, pl) /\ Within(w, st, pl)
  <2> DEFINE w == WithStatus(target, state)
  <2>1. w \in Put /\ w.rec.status # "confirmed" /\ w.rec.plan = k.rec.plan
    BY <1>1 DEF WithStatus, Put, Reservation, Statuses
  <2> HIDE DEF w
  <2>2. Known(w.rec, pl)
    BY <1>4, <2>1 DEF Known
  <2>3. LET m == Outcome(events, <<w>>, Null, Null) IN Fresh(m, st, pl) /\ Within(m, st, pl)
    BY <2>1, <2>2, OneSound
  <2> QED  BY <2>3 DEF w
<1>7. CASE k.tool = "report"
  <2>1. PICK c : c = ReportCancelled(target)
    OBVIOUS
  <2>2. c.pc # "idle" => Fresh(c, st, pl) /\ Within(c, st, pl)
    BY <2>1, <1>6 DEF ReportCancelled, Idle
  <2> QED  BY <1>3, <1>7, <2>1, <2>2
<1>8. CASE k.tool = "void"
  <2>1. PICK c : c = VoidReservation(target)
    OBVIOUS
  <2>2. c.pc # "idle" => Fresh(c, st, pl) /\ Within(c, st, pl)
    BY <2>1, <1>6 DEF VoidReservation, Idle
  <2> QED  BY <1>3, <1>8, <2>1, <2>2
<1>9. CASE k.tool = "policy"
  <2> DEFINE w == [target EXCEPT !.rec.policy = TRUE]
             m == Outcome(<<EventOf("policy", target.id, Null, Null)>>, <<w>>, Null, Null)
  <2>1. w \in Put /\ w.id = k.id /\ w.rec.status = k.rec.status /\ w.rec.plan = k.rec.plan
    BY <1>1 DEF Put, Reservation
  <2> HIDE DEF w
  <2>2. Known(w.rec, pl)
    BY <1>4, <2>1 DEF Known
  <2>3. w.rec.status = "confirmed" => w.id \in Winners(st, w.rec.plan)
    BY <1>4, <2>1 DEF Winners
  <2>4. Fresh(m, st, pl) /\ Within(m, st, pl)
    BY <2>1, <2>2, <2>3, OneSound
  <2>5. PICK c : c = SetPolicy(target)
    OBVIOUS
  <2>6. c = Idle \/ c = m
    BY <2>5 DEF SetPolicy, w
  <2> HIDE DEF m
  <2>7. c.pc # "idle" => Fresh(c, st, pl) /\ Within(c, st, pl)
    BY <2>4, <2>6 DEF Idle
  <2> QED  BY <1>3, <1>9, <2>5, <2>7
<1> QED  BY <1>5, <1>7, <1>8, <1>9

\* A step that leaves what is stored.
LEMMA SoundStep ==
  ASSUME IInv, QuotaInv, NEW s \in Sessions, NEW k, Becomes(s, k), UNCHANGED <<store, plans>>,
         ~mixed /\ k.pc # "idle" => Fresh(k, store, plans) /\ Within(k, store, plans)
  PROVE  QuotaInv'
<1>1. Mixes(s, k)
  BY DEF Becomes
<1>2. ASSUME ~mixed'
      PROVE  ~mixed
  BY <1>1, <1>2, Alone
<1>3. PICK st, pl : st = store /\ pl = plans
  OBVIOUS
<1>4. store' = st /\ plans' = pl
  BY <1>3
<1>5. ~mixed' => /\ AllKnown(st, pl) /\ HeldIn(st, pl)
                 /\ k.pc # "idle" => Fresh(k, st, pl) /\ Within(k, st, pl)
  BY <1>2, <1>3 DEF QuotaInv
<1>6. ~mixed' => /\ AllKnown(store', plans') /\ HeldIn(store', plans')
                 /\ k.pc # "idle" => Fresh(k, store', plans') /\ Within(k, store', plans')
  BY <1>4, <1>5
<1> QED  BY <1>6, AloneOK

\* A call with nothing to put keeps within what holds.
LEMMA NothingPending ==
  ASSUME NEW st, NEW pl, HeldIn(st, pl), NEW k, k.puts = <<>>
  PROVE  Within(k, st, pl)
<1>1. Range(k.puts) = {}
  BY DEF Range
<1>2. \A p \in Plans : Winners(st, p) \cup Pending(k, p) = Winners(st, p)
  BY <1>1 DEF Pending
<1> QED  BY <1>2 DEF Within, HeldIn

\* What a call of the only session under way has, by the two invariants.
LEMMA InHand ==
  ASSUME IInv, QuotaInv, NEW s \in Sessions, NEW k, k = call[s], k.pc # "idle"
  PROVE  /\ CallOK(k, log, store) /\ k \in CallT
         /\ ~mixed => /\ Fresh(k, store, plans) /\ Within(k, store, plans)
                      /\ AllKnown(store, plans) /\ HeldIn(store, plans)
<1>1. s \in Busy
  BY DEF Busy
<1> QED  BY <1>1 DEF IInv, QuotaInv, CallOK

\* The calls that create.
LEMMA QuotaCreates ==
  ASSUME IInv, QuotaInv, NEW s \in Sessions, CreatePlan(s) \/ CreateReservation(s) \/ AddInline(s)
  PROVE  QuotaInv'
<1>1. ASSUME CreatePlan(s)
      PROVE  QuotaInv'
  <2>1. PICK p \in Plans \ Foreign, q \in Quotas :
           /\ plans[p] = Null
           /\ plans' = [plans EXCEPT ![p] = [status |-> "open", confirm_quota |-> q, members |-> {}]]
    BY <1>1 DEF CreatePlan
  <2>2. UNCHANGED <<store, call>> /\ call[s].pc = "idle" /\ Mixes(s, Idle)
    BY <1>1 DEF CreatePlan, Start
  <2> SUFFICES ASSUME ~mixed' PROVE QuotaInv'
    BY DEF QuotaInv
  <2>3. ~mixed /\ Busy = {}
    <3>1. ~mixed /\ Busy \subseteq {s}
      BY <2>2, Alone
    <3> QED  BY <2>2, <3>1 DEF Busy
  <2>4. AllKnown(store, plans) /\ HeldIn(store, plans)
    BY <2>3 DEF QuotaInv
  <2>5. PICK rec \in Plan : rec = [status |-> "open", confirm_quota |-> q, members |-> {}]
    BY DEF Plan
  <2>6. plans \in [Plans -> Plan \cup {Null}] /\ plans' = [plans EXCEPT ![p] = rec] /\ rec # Null
    BY <2>1, <2>5, NullAssumption DEF IInv, Types4
  <2>7. \A x \in Plans : plans'[x] = IF x = p THEN rec ELSE plans[x]
    BY <2>6
  <2>8. AllKnown(store', plans')
    <3>1. ASSUME NEW i \in Ids, store[i] # Null
          PROVE  Known(store[i], plans')
      <4>1. Known(store[i], plans) /\ store[i].plan \in Plans \cup {Null}
        BY <2>4, <3>1, StoredOK DEF AllKnown, Reservation
      <4> QED  BY <2>6, <2>7, <4>1 DEF Known
    <3> QED  BY <2>2, <3>1 DEF AllKnown
  <2>9. HeldIn(store', plans')
    <3>1. Winners(store, p) = {}
      BY <2>1, <2>4, CoreAssumption DEF Winners, AllKnown, Known
    <3>2. Cardinality(Winners(store, p)) <= rec.confirm_quota
      <4>1. Cardinality(Winners(store, p)) = 0
        BY <3>1, FS_EmptySet
      <4>2. rec.confirm_quota = q /\ q \in Nat
        BY <2>5, CoreAssumption
      <4> QED  BY <4>1, <4>2
    <3>3. \A x \in Plans : plans'[x] # Null => Cardinality(Winners(store, x)) <= plans'[x].confirm_quota
      BY <2>4, <2>7, <3>2 DEF HeldIn
    <3> QED  BY <2>2, <3>3 DEF HeldIn
  <2>10. Busy' = {}
    BY <2>2, <2>3 DEF Busy
  <2> QED  BY <2>8, <2>9, <2>10 DEF QuotaInv
<1>2. ASSUME CreateReservation(s)
      PROVE  QuotaInv'
  <2>1. PICK i \in Ids, known \in BOOLEAN, plan \in {p \in Plans : plans[p] # Null} \cup Foreign \cup {Null} :
           Becomes(s, Created(i, [plan |-> plan, status |-> "candidate", policy |-> known], Null))
    BY <1>2 DEF CreateReservation, Decide
  <2> DEFINE r == [plan |-> plan, status |-> "candidate", policy |-> known]
             w == [id |-> i, rec |-> r]
             k == Created(i, r, Null)
  <2>2. w \in Put /\ w.rec.status = "candidate" /\ Known(w.rec, plans)
    BY CoreAssumption DEF Put, Reservation, Statuses, Known
  <2>3. PICK events : k = Outcome(events, <<w>>, Null, Null)
    BY DEF Created
  <2>4. Becomes(s, k)
    BY <2>1
  <2> HIDE DEF w, k
  <2>5. ~mixed => Fresh(k, store, plans) /\ Within(k, store, plans)
    BY <2>2, <2>3, OneSound DEF QuotaInv
  <2>6. UNCHANGED <<store, plans>>
    BY <1>2 DEF CreateReservation
  <2> QED  BY <2>4, <2>5, <2>6, SoundStep
<1>3. ASSUME AddInline(s)
      PROVE  QuotaInv'
  <2>1. PICK i \in Ids, p \in Plans :
           /\ plans[p] # Null
           /\ Becomes(s, Created(i, [plan |-> p, status |-> "candidate", policy |-> TRUE],
                                 PlanPut(p, plans[p], i)))
    BY <1>3 DEF AddInline, Decide
  <2> DEFINE r == [plan |-> p, status |-> "candidate", policy |-> TRUE]
             w == [id |-> i, rec |-> r]
             planput == PlanPut(p, plans[p], i)
             k == Created(i, r, planput)
  <2>2. w \in Put /\ w.rec.status = "candidate" /\ Known(w.rec, plans)
    BY <2>1 DEF Put, Reservation, Statuses, Known
  <2>3. PICK events : k = Outcome(events, <<w>>, planput, Null)
    BY DEF Created
  <2>4. Becomes(s, k)
    BY <2>1
  <2>5. planput # Null =>
          plans[planput.plan] # Null /\ planput.rec.confirm_quota = plans[planput.plan].confirm_quota
    <3>1. plans[p] \in Plan
      BY <2>1, StoredOK
    <3> QED  BY <2>1, <3>1 DEF PlanPut, Plan
  <2> HIDE DEF w, k, planput
  <2>6. ~mixed => Fresh(k, store, plans) /\ Within(k, store, plans)
    BY <2>2, <2>3, <2>5, OneSound DEF QuotaInv
  <2>7. UNCHANGED <<store, plans>>
    BY <1>3 DEF AddInline
  <2> QED  BY <2>4, <2>6, <2>7, SoundStep
<1> QED  BY <1>1, <1>2, <1>3

\* Linking what exists is what `mixed' records; a command has read nothing yet.
LEMMA QuotaStarts ==
  ASSUME IInv, QuotaInv, NEW s \in Sessions, Link(s) \/ LinkExisting(s) \/ Command(s)
  PROVE  QuotaInv'
<1>1. CASE Link(s)
  <2>1. PICK i \in issued, p \in Plans :
           Becomes(s, [Idle EXCEPT !.pc = "link", !.id = i, !.plan = p, !.planrec = plans[p]])
    BY <1>1 DEF Link
  <2>2. PICK k : k = [Idle EXCEPT !.pc = "link", !.id = i, !.plan = p, !.planrec = plans[p]]
    OBVIOUS
  <2>3. k.pc = "link" /\ Mixes(s, k)
    BY <2>1, <2>2 DEF Becomes, Idle
  <2>4. mixed'
    BY <2>3 DEF Mixes
  <2> QED  BY <2>4 DEF QuotaInv
<1>2. CASE LinkExisting(s)
  <2>1. PICK k : k = call[s]
    OBVIOUS
  <2>2. k.pc = "link"
    BY <1>2, <2>1 DEF LinkExisting
  <2>3. mixed
    BY <2>1, <2>2, InHand DEF Fresh
  <2>4. \E m : Mixes(s, m)
    BY <1>2 DEF LinkExisting, Becomes
  <2>5. mixed'
    BY <2>3, <2>4 DEF Mixes
  <2> QED  BY <2>5 DEF QuotaInv
<1>3. CASE Command(s)
  <2>1. PICK tool \in {"confirm", "report", "void", "policy"}, i \in issued :
           Becomes(s, [Idle EXCEPT !.pc = "target", !.tool = tool, !.id = i])
    BY <1>3 DEF Command
  <2> DEFINE k == [Idle EXCEPT !.pc = "target", !.tool = tool, !.id = i]
  <2>2. k.pc = "target" /\ k.sibs = {} /\ k.puts = <<>> /\ k.planput = Null
    BY DEF Idle
  <2>3. Becomes(s, k)
    BY <2>1
  <2> HIDE DEF k
  <2>4. Range(k.puts) = {}
    BY <2>2 DEF Range
  <2>5. ~mixed => Fresh(k, store, plans) /\ Within(k, store, plans)
    BY <2>2, <2>4, NothingPending DEF Fresh, QuotaInv
  <2>6. UNCHANGED <<store, plans>>
    BY <1>3 DEF Command
  <2> QED  BY <2>3, <2>5, <2>6, SoundStep
<1> QED  BY <1>1, <1>2, <1>3

\* A call that reads: alone, it reads what is stored, and it counts them all.
LEMMA QuotaReads ==
  ASSUME IInv, QuotaInv, NEW s \in Sessions,
         ReadTarget(s) \/ ReadPlan(s) \/ ScanIndex(s) \/ ReadSibling(s)
  PROVE  QuotaInv'
<1> SUFFICES ASSUME ~mixed' PROVE QuotaInv'
  BY DEF QuotaInv
<1>1. ~mixed
  <2>1. \E m : Mixes(s, m)
    BY DEF ReadTarget, ReadPlan, ScanIndex, ReadSibling, Run, Decide, Becomes
  <2> QED  BY <2>1, Alone
<1>2. PICK k : k = call[s]
  OBVIOUS
<1>3. k.pc \in {"target", "plan", "scan", "siblings"} /\ UNCHANGED <<store, plans>>
  BY <1>2 DEF ReadTarget, ReadPlan, ScanIndex, ReadSibling
<1>4. /\ CallOK(k, log, store) /\ k \in CallT /\ Fresh(k, store, plans) /\ Within(k, store, plans)
      /\ AllKnown(store, plans) /\ HeldIn(store, plans)
  BY <1>1, <1>2, <1>3, InHand
<1>5. /\ k.id \in Ids /\ k.tool \in {"confirm", "report", "void", "policy"}
      /\ minted \in Nat /\ plans \in [Plans -> Plan \cup {Null}]
  BY <1>3, <1>4 DEF CallOK, ShapeOK, IInv, Types4
<1>6. ASSUME NEW m, m.puts = k.puts
      PROVE  Within(m, store, plans)
  <2>1. \A p \in Plans : Pending(m, p) = Pending(k, p)
    BY <1>6 DEF Pending
  <2> QED  BY <1>4, <2>1 DEF Within
<1>7. ASSUME NEW h, h.tool = k.tool, h.id = k.id, h.rec \in Reservation, store[h.id] = h.rec,
             NEW planrec, planrec = Null \/ planrec \in Plan,
             h.tool = "confirm" /\ planrec = Null => h.rec.plan = Null \/ plans[h.rec.plan] = Null,
             planrec # Null => h.rec.plan \in Plans /\ planrec = plans[h.rec.plan],
             NEW sibs \in SUBSET Put, IsFiniteSet(sibs), \A r \in sibs : Known(r.rec, plans),
             planrec # Null => Complete(h.id, h.rec.plan, sibs, store),
             Run(s, h, planrec, sibs)
      PROVE  QuotaInv'
  <2>1. PICK st, pl : st = store /\ pl = plans
    OBVIOUS
  <2>2. \E o : Becomes(s, o) /\ (o.pc # "idle" => Fresh(o, st, pl) /\ Within(o, st, pl))
    BY <1>4, <1>5, <1>7, <2>1, RunSound
  <2> QED  BY <1>3, <2>1, <2>2, SoundStep
<1>8. CASE ReadTarget(s)
  <2>1. PICK r : r = store[k.id]
    OBVIOUS
  <2> DEFINE h == [k EXCEPT !.rec = r]
  <2>2. CASE Becomes(s, Idle)
    BY <1>3, <2>2, SoundStep DEF Idle
  <2>3. ASSUME r # Null
        PROVE  /\ r \in Reservation /\ h \in CallT /\ h.pc = k.pc /\ h.tool = k.tool /\ h.id = k.id /\ h.rec = r
               /\ h.sibs = k.sibs /\ h.todo = k.todo /\ h.puts = k.puts /\ h.planput = k.planput
    <3>1. r \in Reservation
      BY <1>5, <2>1, <2>3, StoredOK
    <3> QED  BY <1>4, <3>1 DEF CallT
  <2>4. CASE r # Null /\ (r.plan = Null \/ k.tool = "policy") /\ Run(s, h, Null, {})
    <3> HIDE DEF h
    <3> QED  BY <1>7, <2>1, <2>3, <2>4, FS_EmptySet
  <2>5. CASE r # Null /\ Becomes(s, [h EXCEPT !.pc = "plan"])
    <3> DEFINE m == [h EXCEPT !.pc = "plan"]
    <3> HIDE DEF h
    <3>1. /\ m.pc = "plan" /\ m.id = k.id /\ m.rec = r /\ m.sibs = k.sibs /\ m.puts = k.puts
          /\ m.planput = k.planput
      BY <2>3, <2>5 DEF CallT
    <3>2. Becomes(s, m)
      BY <2>5
    <3> HIDE DEF m
    <3>3. Fresh(m, store, plans) /\ Within(m, store, plans)
      BY <1>4, <1>6, <2>1, <3>1 DEF Fresh
    <3> QED  BY <1>3, <3>2, <3>3, SoundStep
  <2>6. \/ Becomes(s, Idle)
        \/ r # Null /\ (r.plan = Null \/ h.tool = "policy") /\ Run(s, h, Null, {})
        \/ r # Null /\ Becomes(s, [h EXCEPT !.pc = "plan"])
    BY <1>2, <1>8, <2>1 DEF ReadTarget
  <2> QED  BY <2>2, <2>3, <2>4, <2>5, <2>6
<1>9. ASSUME k.pc \in {"plan", "scan", "siblings"}
      PROVE  k.rec \in Reservation /\ k.rec.plan \in Plans /\ store[k.id] = k.rec
  BY <1>4, <1>9 DEF CallOK, ShapeOK, Fresh
<1>10. CASE ReadPlan(s)
  <2>1. k.pc = "plan"
    BY <1>2, <1>10 DEF ReadPlan
  <2>2. PICK planrec : planrec = plans[k.rec.plan]
    OBVIOUS
  <2>3. planrec = Null \/ planrec \in Plan
    BY <1>5, <1>9, <2>1, <2>2
  <2>4. CASE planrec = Null /\ Run(s, k, Null, {})
    BY <1>7, <1>9, <2>1, <2>2, <2>4, FS_EmptySet
  <2>5. CASE planrec # Null /\ Becomes(s, [k EXCEPT !.pc = "scan", !.planrec = planrec])
    <3> DEFINE m == [k EXCEPT !.pc = "scan", !.planrec = planrec]
    <3>1. /\ m.pc = "scan" /\ m.id = k.id /\ m.rec = k.rec /\ m.planrec = planrec
          /\ m.sibs = k.sibs /\ m.puts = k.puts /\ m.planput = k.planput
      BY <1>4 DEF CallT
    <3>2. Becomes(s, m)
      BY <2>5
    <3> HIDE DEF m
    <3>3. Fresh(m, store, plans) /\ Within(m, store, plans)
      BY <1>4, <1>6, <1>9, <2>1, <2>2, <3>1 DEF Fresh
    <3> QED  BY <1>3, <3>2, <3>3, SoundStep
  <2>6. \/ planrec = Null /\ Run(s, k, Null, {})
        \/ planrec # Null /\ Becomes(s, [k EXCEPT !.pc = "scan", !.planrec = planrec])
    BY <1>2, <1>10, <2>2 DEF ReadPlan
  <2> QED  BY <2>4, <2>5, <2>6
<1>11. CASE ScanIndex(s)
  <2>1. k.pc = "scan"
    BY <1>2, <1>11 DEF ScanIndex
  <2>2. k.planrec \in Plan /\ k.planrec = plans[k.rec.plan]
    BY <1>4, <2>1 DEF CallOK, ShapeOK, Fresh
  <2>3. PICK found : found = {i \in Ids \ {k.id} : store[i] # Null /\ store[i].plan = k.rec.plan}
    OBVIOUS
  <2>4. CASE found = {} /\ Run(s, k, k.planrec, {})
    <3>1. Complete(k.id, k.rec.plan, {}, store)
      BY <2>3, <2>4 DEF Complete
    <3> QED  BY <1>7, <1>9, <2>1, <2>2, <2>4, <3>1, NullAssumption, FS_EmptySet
  <2>5. CASE Becomes(s, [k EXCEPT !.pc = "siblings", !.todo = found])
    <3> DEFINE m == [k EXCEPT !.pc = "siblings", !.todo = found]
    <3>1. /\ m.pc = "siblings" /\ m.id = k.id /\ m.rec = k.rec /\ m.planrec = k.planrec
          /\ m.sibs = k.sibs /\ m.todo = found /\ m.puts = k.puts /\ m.planput = k.planput
      BY <1>4 DEF CallT
    <3>2. Becomes(s, m)
      BY <2>5
    <3> HIDE DEF m
    <3>3. Complete(m.id, m.rec.plan, m.sibs \cup {[id |-> j, rec |-> store[j]] : j \in m.todo}, store)
      BY <2>3, <3>1 DEF Complete
    <3>4. Fresh(m, store, plans) /\ Within(m, store, plans)
      BY <1>4, <1>6, <1>9, <2>1, <2>2, <3>1, <3>3 DEF Fresh
    <3> QED  BY <1>3, <3>2, <3>4, SoundStep
  <2>6. \/ found = {} /\ Run(s, k, k.planrec, {})
        \/ Becomes(s, [k EXCEPT !.pc = "siblings", !.todo = found])
    BY <1>2, <1>11, <2>3 DEF ScanIndex
  <2> QED  BY <2>4, <2>5, <2>6
<1>12. CASE ReadSibling(s)
  <2>1. k.pc = "siblings"
    BY <1>2, <1>12 DEF ReadSibling
  <2>2. /\ k.planrec \in Plan /\ k.planrec = plans[k.rec.plan] /\ \A r \in k.sibs : Known(r.rec, plans)
        /\ IsFiniteSet(k.sibs) /\ k.sibs \subseteq Put /\ k.todo \subseteq Ids
        /\ \A i \in k.todo : store[i] # Null
        /\ Complete(k.id, k.rec.plan, k.sibs \cup {[id |-> j, rec |-> store[j]] : j \in k.todo}, store)
    BY <1>4, <2>1 DEF CallOK, ShapeOK, ReadsOK, Fresh, CallT
  <2>3. PICK i \in k.todo :
          LET sibs == k.sibs \cup {[id |-> i, rec |-> store[i]]} IN
          IF k.todo = {i} THEN Run(s, k, k.planrec, sibs)
          ELSE Becomes(s, [k EXCEPT !.todo = @ \ {i}, !.sibs = sibs])
    BY <1>2, <1>12 DEF ReadSibling
  <2>4. PICK w : w = [id |-> i, rec |-> store[i]]
    OBVIOUS
  <2>5. PICK sibs : sibs = k.sibs \cup {w}
    OBVIOUS
  <2>6. w \in Put /\ Known(w.rec, plans)
    <3>1. i \in Ids /\ store[i] # Null /\ store[i] \in Reservation
      BY <2>2, StoredOK
    <3> QED  BY <1>4, <2>4, <3>1 DEF Put, AllKnown
  <2>7. sibs \in SUBSET Put /\ IsFiniteSet(sibs) /\ \A r \in sibs : Known(r.rec, plans)
    BY <2>2, <2>5, <2>6, FS_AddElement
  <2>8. Complete(k.id, k.rec.plan, sibs \cup {[id |-> j, rec |-> store[j]] : j \in k.todo \ {i}}, store)
    BY <2>2, <2>4, <2>5 DEF Complete
  <2>9. CASE k.todo = {i} /\ Run(s, k, k.planrec, sibs)
    <3>1. Complete(k.id, k.rec.plan, sibs, store)
      BY <2>8, <2>9 DEF Complete
    <3> QED  BY <1>7, <1>9, <2>1, <2>2, <2>7, <2>9, <3>1, NullAssumption
  <2>10. CASE Becomes(s, [k EXCEPT !.todo = @ \ {i}, !.sibs = sibs])
    <3> DEFINE m == [k EXCEPT !.todo = @ \ {i}, !.sibs = sibs]
    <3>1. /\ m.pc = "siblings" /\ m.id = k.id /\ m.rec = k.rec /\ m.planrec = k.planrec
          /\ m.sibs = sibs /\ m.todo = k.todo \ {i} /\ m.puts = k.puts /\ m.planput = k.planput
      BY <1>4, <2>1 DEF CallT
    <3>2. Becomes(s, m)
      BY <2>10
    <3> HIDE DEF m
    <3>3. Complete(m.id, m.rec.plan, m.sibs \cup {[id |-> j, rec |-> store[j]] : j \in m.todo}, store)
      BY <2>8, <3>1
    <3>4. Fresh(m, store, plans) /\ Within(m, store, plans)
      BY <1>4, <1>6, <1>9, <2>1, <2>2, <2>7, <3>1, <3>3 DEF Fresh
    <3> QED  BY <1>3, <3>2, <3>4, SoundStep
  <2> QED  BY <2>3, <2>4, <2>5, <2>9, <2>10
<1> QED  BY <1>8, <1>10, <1>11, <1>12

\* A call that writes: what it puts was counted, a put at a time or none of them.
LEMMA QuotaWrites ==
  ASSUME IInv, QuotaInv, NEW s \in Sessions,
         AppendEvent(s) \/ PutReservation(s) \/ PutPlan(s) \/ Enqueue(s) \/ Crash(s)
  PROVE  QuotaInv'
<1> SUFFICES ASSUME ~mixed' PROVE QuotaInv'
  BY DEF QuotaInv
<1>1. ~mixed
  <2>1. \E m : Mixes(s, m)
    BY DEF AppendEvent, PutReservation, PutPlan, Enqueue, Crash, Becomes
  <2> QED  BY <2>1, Alone
<1>2. PICK k : k = call[s]
  OBVIOUS
<1>3. ASSUME k.pc = "write"
      PROVE  /\ k \in CallT /\ Fresh(k, store, plans) /\ Within(k, store, plans)
             /\ AllKnown(store, plans) /\ HeldIn(store, plans)
  BY <1>1, <1>2, <1>3, InHand
<1>4. store \in [Ids -> Reservation \cup {Null}] /\ plans \in [Plans -> Plan \cup {Null}]
  BY DEF IInv, Types4
<1>5. ASSUME k.pc = "write", NEW m, m.pc = "write", m.sibs = k.sibs, m.puts = k.puts, m.planput = k.planput,
             Becomes(s, m), UNCHANGED <<store, plans>>
      PROVE  QuotaInv'
  <2>1. Fresh(m, store, plans)
    BY <1>3, <1>5 DEF Fresh
  <2>2. \A p \in Plans : Pending(m, p) = Pending(k, p)
    BY <1>5 DEF Pending
  <2>3. Within(m, store, plans)
    BY <1>3, <1>5, <2>2 DEF Within
  <2> QED  BY <1>5, <2>1, <2>3, SoundStep
<1>6. CASE AppendEvent(s)
  <2> DEFINE m == [k EXCEPT !.events = Tail(k.events)]
  <2>1. k.pc = "write" /\ Becomes(s, m) /\ UNCHANGED <<store, plans>>
    BY <1>2, <1>6 DEF AppendEvent
  <2>2. m.pc = "write" /\ m.sibs = k.sibs /\ m.puts = k.puts /\ m.planput = k.planput
    BY <1>3, <2>1 DEF CallT
  <2> HIDE DEF m
  <2> QED  BY <1>5, <2>1, <2>2
<1>7. CASE Enqueue(s)
  <2> DEFINE m == [k EXCEPT !.notice = Null]
  <2>1. k.pc = "write" /\ Becomes(s, m) /\ UNCHANGED <<store, plans>>
    BY <1>2, <1>7 DEF Enqueue
  <2>2. m.pc = "write" /\ m.sibs = k.sibs /\ m.puts = k.puts /\ m.planput = k.planput
    BY <1>3, <2>1 DEF CallT
  <2> HIDE DEF m
  <2> QED  BY <1>5, <2>1, <2>2
<1>8. CASE Crash(s)
  <2>1. Becomes(s, Idle) /\ UNCHANGED <<store, plans>>
    BY <1>8 DEF Crash
  <2> QED  BY <2>1, SoundStep DEF Idle
<1>9. CASE PutReservation(s)
  <2>1. PICK w, t : w = Head(k.puts) /\ t = Tail(k.puts)
    OBVIOUS
  <2> DEFINE m == [k EXCEPT !.puts = t]
  <2>2. /\ k.pc = "write" /\ k.puts # <<>> /\ Becomes(s, m) /\ UNCHANGED plans
        /\ store' = [store EXCEPT ![w.id] = w.rec]
    BY <1>2, <1>9, <2>1 DEF PutReservation
  <2>3. m.pc = "write" /\ m.sibs = k.sibs /\ m.puts = t /\ m.planput = k.planput
    BY <1>3, <2>2 DEF CallT
  <2> HIDE DEF m
  <2>4. k.puts \in Seq(Put)
    BY <1>3, <2>2 DEF CallT
  <2>5. w \in Put /\ Range(k.puts) = {w} \cup Range(t)
    BY <2>1, <2>2, <2>4, RangeOfPuts
  <2>6. w.id \in Ids /\ w.rec \in Reservation /\ w.rec # Null /\ Known(w.rec, plans)
    <3>1. w.id \in Ids /\ w.rec \in Reservation /\ w.rec # Null
      BY <2>5, NullAssumption DEF Put
    <3> QED  BY <1>3, <2>2, <2>5, <3>1 DEF Fresh
  <2>7. PICK st : st = store'
    OBVIOUS
  <2>8. \A i \in Ids : st[i] = IF i = w.id THEN w.rec ELSE store[i]
    BY <1>4, <2>2, <2>6, <2>7
  <2>9. AllKnown(st, plans)
    BY <1>3, <2>2, <2>6, <2>8 DEF AllKnown
  <2>10. ASSUME NEW p \in Plans, plans[p] # Null
         PROVE  /\ Cardinality(Winners(st, p)) <= plans[p].confirm_quota
                /\ Cardinality(Winners(st, p) \cup Pending(m, p)) <= plans[p].confirm_quota
    <3>1. Winners(st, p) \subseteq Winners(store, p) \cup Pending(k, p)
      BY <2>5, <2>8 DEF Winners, Pending
    <3>2. Pending(m, p) \subseteq Pending(k, p)
      BY <2>3, <2>5 DEF Pending
    <3>3. PICK q : q = plans[p].confirm_quota
      OBVIOUS
    <3>4. q \in Nat
      BY <1>4, <2>10, <3>3, CoreAssumption DEF Plan
    <3> DEFINE A == Winners(store, p) \cup Pending(k, p)
    <3>5. Cardinality(A) <= q
      BY <1>3, <2>2, <2>10, <3>3 DEF Within
    <3>6. /\ A \in SUBSET Ids /\ Winners(st, p) \in SUBSET A
          /\ Winners(st, p) \cup Pending(m, p) \in SUBSET A
      BY <3>1, <3>2 DEF Winners, Pending
    <3> HIDE DEF A
    <3>7. Cardinality(Winners(st, p)) <= q /\ Cardinality(Winners(st, p) \cup Pending(m, p)) <= q
      BY <3>4, <3>5, <3>6, FewerWinners
    <3> QED  BY <3>3, <3>7
  <2>11. HeldIn(st, plans) /\ Within(m, st, plans)
    BY <2>10 DEF HeldIn, Within
  <2>12. Fresh(m, st, plans)
    BY <1>3, <2>2, <2>3, <2>5 DEF Fresh
  <2>13. AllKnown(store', plans') /\ HeldIn(store', plans') /\ Fresh(m, store', plans') /\ Within(m, store', plans')
    <3>1. PICK pl : pl = plans
      OBVIOUS
    <3>2. store' = st /\ plans' = pl
      BY <2>2, <2>7, <3>1
    <3>3. AllKnown(st, pl) /\ HeldIn(st, pl) /\ Fresh(m, st, pl) /\ Within(m, st, pl)
      BY <2>9, <2>11, <2>12, <3>1
    <3> QED  BY <3>2, <3>3
  <2> QED  BY <2>2, <2>13, AloneOK
<1>10. CASE PutPlan(s)
  <2>1. /\ k.pc = "write" /\ k.puts = <<>> /\ k.planput # Null /\ UNCHANGED store
        /\ Becomes(s, [k EXCEPT !.planput = Null])
        /\ plans' = [plans EXCEPT ![k.planput.plan] = k.planput.rec]
    BY <1>2, <1>10 DEF PutPlan
  <2>2. PICK m : m = [k EXCEPT !.planput = Null]
    OBVIOUS
  <2>3. m.pc = "write" /\ m.sibs = k.sibs /\ m.puts = <<>> /\ m.planput = Null
    BY <1>3, <2>1, <2>2 DEF CallT
  <2>4. PICK p \in Plans, rec \in Plan : p = k.planput.plan /\ rec = k.planput.rec
    BY <1>3, <2>1 DEF CallT, PlanPutT
  <2>5. rec # Null /\ plans[p] # Null /\ rec.confirm_quota = plans[p].confirm_quota
    BY <1>3, <2>1, <2>4, NullAssumption DEF Fresh
  <2>6. PICK pl : pl = plans'
    OBVIOUS
  <2>7. \A x \in Plans : pl[x] = IF x = p THEN rec ELSE plans[x]
    BY <1>4, <2>1, <2>4, <2>6
  <2>8. ASSUME NEW r \in Reservation, Known(r, plans)
        PROVE  Known(r, pl)
    BY <2>5, <2>7, <2>8 DEF Known, Reservation
  <2>9. AllKnown(store, pl)
    BY <1>3, <2>1, <2>8, StoredOK DEF AllKnown
  <2>10. HeldIn(store, pl)
    BY <1>3, <2>1, <2>5, <2>7 DEF HeldIn
  <2>11. Within(m, store, pl)
    BY <2>3, <2>10, NothingPending
  <2>12. Fresh(m, store, pl)
    <3>1. \A r \in k.sibs : r.rec \in Reservation /\ Known(r.rec, plans)
      BY <1>3, <2>1 DEF CallT, Put, Fresh
    <3>2. Range(m.puts) = {}
      BY <2>3 DEF Range
    <3> QED  BY <2>3, <2>8, <3>1, <3>2 DEF Fresh
  <2>13. AllKnown(store', plans') /\ HeldIn(store', plans') /\ Fresh(m, store', plans') /\ Within(m, store', plans')
    <3>1. PICK st : st = store
      OBVIOUS
    <3>2. store' = st /\ plans' = pl
      BY <2>1, <2>6, <3>1
    <3>3. AllKnown(st, pl) /\ HeldIn(st, pl) /\ Fresh(m, st, pl) /\ Within(m, st, pl)
      BY <2>9, <2>10, <2>11, <2>12, <3>1
    <3> QED  BY <3>2, <3>3
  <2>14. Becomes(s, m)
    BY <2>1, <2>2
  <2> QED  BY <2>13, <2>14, AloneOK
<1> QED  BY <1>6, <1>7, <1>8, <1>9, <1>10

\* At the start nothing is confirmed.
LEMMA QuotaInit == Init => QuotaInv
<1> SUFFICES ASSUME Init PROVE AllKnown(store, plans) /\ HeldIn(store, plans) /\ Busy = {}
  BY DEF QuotaInv
<1> QED  BY DEF Init, AllKnown, HeldIn, Busy, Idle

\* Every step keeps the invariant.
LEMMA QuotaNext == IInv /\ QuotaInv /\ [Next]_vars => QuotaInv'
<1> SUFFICES ASSUME IInv, QuotaInv, [Next]_vars PROVE QuotaInv'
  OBVIOUS
<1>1. CASE Next
  <2>1. PICK s \in Sessions :
          \/ CreatePlan(s) \/ CreateReservation(s) \/ AddInline(s)
          \/ Link(s) \/ LinkExisting(s) \/ Command(s)
          \/ ReadTarget(s) \/ ReadPlan(s) \/ ScanIndex(s) \/ ReadSibling(s)
          \/ AppendEvent(s) \/ PutReservation(s) \/ PutPlan(s) \/ Enqueue(s) \/ Crash(s)
    BY <1>1 DEF Next
  <2> QED  BY <2>1, QuotaCreates, QuotaStarts, QuotaReads, QuotaWrites
<1>2. CASE UNCHANGED vars
  <2>1. UNCHANGED <<store, plans, call, mixed>>
    BY <1>2 DEF vars
  <2> QED  BY <2>1 DEF QuotaInv, AllKnown, Known, HeldIn, Winners, Busy, Fresh, Complete, Within, Pending
<1> QED  BY <1>1, <1>2

\* One call after the other, and wherever the process dies, no plan ever has more
\* confirmed reservations than its quota: confirm counts every one that is stored.
THEOREM QuotaCorrect == Spec => []QuotaHeld
<1>1. IInv /\ QuotaInv => QuotaHeld
  BY DEF QuotaInv, HeldIn, Winners, QuotaHeld, ConfirmedIn
<1> QED  BY <1>1, InitOK, NextOK, QuotaInit, QuotaNext, PTL DEF Spec

-----------------------------------------------------------------------------
(* The projection.  One call after the other, what a call is about to write *)
(* is what its events will make of what the log says already.               *)

\* A nonempty set of naturals has a least element.
LEMMA LeastNatural ==
  ASSUME NEW T, T \subseteq Nat, T # {}
  PROVE  \E x \in T : \A y \in T : x <= y
<1>1. PICK x \in T : \A y \in T : ~ (<<y, x>> \in OpToRel(<, Nat))
  BY NatLessThanWellFounded, WFMin
<1>2. \A y \in T : ~(y < x)
  BY <1>1 DEF OpToRel
<1> QED
  BY <1>2

\* g folds every subset of S.
IsFold(S, g) ==
  g = [E \in SUBSET S |->
         IF E = {} THEN Null ELSE ApplyReservationEvent(g[E \ {Latest(E)}], Latest(E))]

\* Events that were computed one after the other, all of them before n.
Below(S, n) ==
  /\ \A e \in S : e.at \in Nat /\ e.at < n
  /\ \A e, f \in S : e.at = f.at => e = f

\* What is folded is S itself.
LEMMA FoldIsFold ==
  ASSUME NEW S
  PROVE  FoldEvents(S) = (CHOOSE g : IsFold(S, g))[S]
BY DEF FoldEvents, MapThenFoldSet, IsFold

\* Such events have a latest one, and the others come before it.
LEMMA LatestIsLast ==
  ASSUME NEW n \in Nat, NEW S, Below(S, n), S # {}
  PROVE  /\ Latest(S) \in S /\ \A f \in S : f.at <= Latest(S).at
         /\ Below(S \ {Latest(S)}, Latest(S).at)
         /\ \A E \in SUBSET S : Latest(S) \in E => Latest(E) = Latest(S)
<1> DEFINE T == {m \in Nat : \A e \in S : e.at < m}
<1>1. PICK m \in T : \A y \in T : m <= y
  <2>1. n \in T
    BY DEF Below
  <2> QED  BY <2>1, LeastNatural
<1>2. \E e \in S : \A f \in S : f.at <= e.at
  <2>1. PICK f \in S : TRUE
    OBVIOUS
  <2>2. m > 0 /\ m - 1 \in Nat /\ ~(m <= m - 1)
    BY <2>1 DEF Below
  <2>3. m - 1 \notin T
    BY <1>1, <2>2
  <2>4. PICK e \in S : ~(e.at < m - 1)
    BY <2>2, <2>3
  <2> QED  BY <1>1, <2>4 DEF Below
<1>3. Latest(S) \in S /\ \A f \in S : f.at <= Latest(S).at
  BY <1>2 DEF Latest
<1>4. Below(S \ {Latest(S)}, Latest(S).at)
  BY <1>3 DEF Below
<1>5. ASSUME NEW E \in SUBSET S, Latest(S) \in E
      PROVE  Latest(E) = Latest(S)
  <2>1. PICK l : l = Latest(S)
    OBVIOUS
  <2>2. \E e \in E : \A f \in E : f.at <= e.at
    BY <1>3, <1>5
  <2>3. Latest(E) \in E /\ \A f \in E : f.at <= Latest(E).at
    BY <2>2 DEF Latest
  <2>4. Latest(E) \in S /\ l \in S /\ l \in E /\ Latest(E).at <= l.at
    BY <1>3, <1>5, <2>1, <2>3
  <2>5. Latest(E).at = l.at
    BY <2>3, <2>4 DEF Below
  <2> QED  BY <2>1, <2>4, <2>5 DEF Below
<1> QED  BY <1>3, <1>4, <1>5

\* They can be folded.
LEMMA FoldExists ==
  ASSUME NEW n \in Nat
  PROVE  \A S : Below(S, n) => \E g : IsFold(S, g)
<1> DEFINE Good(m) == \A S : Below(S, m) => \E g : IsFold(S, g)
           Bad == {m \in Nat : ~Good(m)}
<1> SUFFICES ASSUME Bad # {} PROVE FALSE
  OBVIOUS
<1>1. PICK m \in Bad : \A y \in Bad : m <= y
  BY LeastNatural
<1>2. PICK S : Below(S, m) /\ ~ \E g : IsFold(S, g)
  BY <1>1
<1>3. CASE S = {}
  <2>1. IsFold(S, [E \in SUBSET S |-> Null])
    BY <1>3 DEF IsFold
  <2> QED  BY <1>2, <2>1
<1>4. CASE S # {}
  <2>1. PICK e : e = Latest(S)
    OBVIOUS
  <2>2. /\ e \in S /\ Below(S \ {e}, e.at)
        /\ \A E \in SUBSET S : e \in E => Latest(E) = e
    BY <1>1, <1>2, <1>4, <2>1, LatestIsLast
  <2>3. e.at \in Nat /\ e.at < m
    BY <1>2, <2>2 DEF Below
  <2>4. e.at \notin Bad
    BY <1>1, <2>3
  <2>5. PICK h : IsFold(S \ {e}, h)
    BY <2>2, <2>3, <2>4
  <2> DEFINE g == [E \in SUBSET S |->
                     IF e \in E THEN ApplyReservationEvent(h[E \ {e}], e) ELSE h[E]]
             rest(E) == IF E = {} THEN Null
                        ELSE ApplyReservationEvent(g[E \ {Latest(E)}], Latest(E))
  <2>6. ASSUME NEW E \in SUBSET (S \ {e})
        PROVE  h[E] = IF E = {} THEN Null
                      ELSE ApplyReservationEvent(h[E \ {Latest(E)}], Latest(E))
    BY <2>5 DEF IsFold
  <2>7. ASSUME NEW E \in SUBSET S
        PROVE  g[E] = rest(E)
    <3>1. CASE e \in E
      <4>1. Latest(E) = e /\ E # {} /\ E \ {e} \in SUBSET S /\ e \notin E \ {e}
        BY <2>2, <3>1
      <4>2. g[E \ {e}] = h[E \ {e}] /\ g[E] = ApplyReservationEvent(h[E \ {e}], e)
        BY <3>1, <4>1
      <4> HIDE DEF g
      <4> QED  BY <4>1, <4>2
    <3>2. CASE e \notin E
      <4>1. E \in SUBSET (S \ {e}) /\ E \ {Latest(E)} \in SUBSET S /\ e \notin E \ {Latest(E)}
        BY <3>2
      <4>2. g[E] = h[E] /\ g[E \ {Latest(E)}] = h[E \ {Latest(E)}]
        BY <3>2, <4>1
      <4> HIDE DEF g
      <4> QED  BY <2>6, <4>1, <4>2
    <3> QED  BY <3>1, <3>2
  <2>8. g = [E \in SUBSET S |-> rest(E)]
    <3>1. g = [E \in SUBSET S |-> g[E]]
      OBVIOUS
    <3> HIDE DEF g, rest
    <3>2. [E \in SUBSET S |-> g[E]] = [E \in SUBSET S |-> rest(E)]
      BY <2>7
    <3> QED  BY <3>1, <3>2
  <2> HIDE DEF g
  <2>9. IsFold(S, g)
    BY <2>8 DEF IsFold
  <2> QED  BY <1>2, <2>9
<1> QED  BY <1>3, <1>4

\* In one way only, whatever other events there are.
LEMMA FoldIsUnique ==
  ASSUME NEW S, NEW Q, NEW g, NEW h, IsFold(S, g), IsFold(Q, h), NEW n \in Nat
  PROVE  \A E : E \subseteq S /\ E \subseteq Q /\ Below(E, n) => g[E] = h[E]
<1> DEFINE Good(m) == \A E : E \subseteq S /\ E \subseteq Q /\ Below(E, m) => g[E] = h[E]
           Bad == {m \in Nat : ~Good(m)}
<1> SUFFICES ASSUME Bad # {} PROVE FALSE
  OBVIOUS
<1>1. PICK m \in Bad : \A y \in Bad : m <= y
  BY LeastNatural
<1>2. PICK E : E \subseteq S /\ E \subseteq Q /\ Below(E, m) /\ g[E] # h[E]
  BY <1>1
<1>3. /\ g[E] = IF E = {} THEN Null ELSE ApplyReservationEvent(g[E \ {Latest(E)}], Latest(E))
      /\ h[E] = IF E = {} THEN Null ELSE ApplyReservationEvent(h[E \ {Latest(E)}], Latest(E))
  <2>1. ASSUME NEW f, NEW U, IsFold(U, f), E \in SUBSET U
        PROVE  f[E] = IF E = {} THEN Null
                      ELSE ApplyReservationEvent(f[E \ {Latest(E)}], Latest(E))
    BY <2>1 DEF IsFold
  <2>2. E \in SUBSET S /\ E \in SUBSET Q
    BY <1>2
  <2>3. /\ g[E] = IF E = {} THEN Null ELSE ApplyReservationEvent(g[E \ {Latest(E)}], Latest(E))
        /\ h[E] = IF E = {} THEN Null ELSE ApplyReservationEvent(h[E \ {Latest(E)}], Latest(E))
    BY <2>1, <2>2
  <2> QED  BY <2>3
<1>4. E # {}
  BY <1>2, <1>3
<1>5. PICK e : e = Latest(E)
  OBVIOUS
<1>6. e \in E /\ Below(E \ {e}, e.at)
  BY <1>1, <1>2, <1>4, <1>5, LatestIsLast
<1>7. e.at \in Nat /\ e.at < m
  BY <1>2, <1>6 DEF Below
<1>8. e.at \notin Bad
  BY <1>1, <1>7
<1>9. g[E \ {e}] = h[E \ {e}]
  <2>1. E \ {e} \subseteq S /\ E \ {e} \subseteq Q
    BY <1>2
  <2> QED  BY <1>6, <1>7, <1>8, <2>1
<1> QED  BY <1>2, <1>3, <1>4, <1>5, <1>9

\* What a later event makes of the events so far.
LEMMA FoldGrows ==
  ASSUME NEW S, NEW e, Below(S, e.at), e.at \in Nat, e \notin S
  PROVE  FoldEvents(S \cup {e}) = ApplyReservationEvent(FoldEvents(S), e)
<1> DEFINE whole == S \cup {e}
<1>1. Below(whole, e.at + 1)
  BY DEF Below
<1>2. PICK g : g = (CHOOSE f : IsFold(S, f)) /\ IsFold(S, g)
  BY FoldExists
<1>3. PICK h : h = (CHOOSE f : IsFold(whole, f)) /\ IsFold(whole, h)
  BY <1>1, FoldExists, e.at + 1 \in Nat
<1>4. Latest(whole) = e
  <2>1. Latest(whole) \in whole /\ e.at <= Latest(whole).at
    BY <1>1, LatestIsLast, e.at + 1 \in Nat, e \in whole
  <2> QED  BY <2>1 DEF Below
<1>5. h[whole] = ApplyReservationEvent(h[S], e)
  <2>1. whole \ {e} = S /\ whole # {} /\ whole \in SUBSET whole
    OBVIOUS
  <2> HIDE DEF whole
  <2> QED  BY <1>3, <1>4, <2>1 DEF IsFold
<1>6. g[S] = h[S]
  <2>1. S \subseteq S /\ S \subseteq whole
    OBVIOUS
  <2> HIDE DEF whole
  <2>2. \A E : E \subseteq S /\ E \subseteq whole /\ Below(E, e.at) => g[E] = h[E]
    BY <1>2, <1>3, FoldIsUnique
  <2> QED  BY <2>1, <2>2
<1> HIDE DEF whole
<1>7. FoldEvents(whole) = h[whole] /\ FoldEvents(S) = g[S]
  BY <1>2, <1>3, FoldIsFold
<1> QED  BY <1>5, <1>6, <1>7 DEF whole

\* Of no events: nothing.
LEMMA FoldOfNone == FoldEvents({}) = Null
<1>1. PICK g : g = (CHOOSE f : IsFold({}, f)) /\ IsFold({}, g)
  <2>1. IsFold({}, [E \in SUBSET {} |-> Null])
    BY DEF IsFold
  <2> QED  BY <2>1
<1>2. g[{}] = Null
  BY <1>1 DEF IsFold
<1> QED  BY <1>1, <1>2, FoldIsFold
About(L, i) == {e \in L : e.res = i}

\* L says of every reservation and plan what is stored of it.
Agrees(L, st, pl) ==
  /\ \A i \in Ids : st[i] = FoldEvents(About(L, i))
  /\ \A p \in Plans : SettledIn(L, p) <=> pl[p] # Null /\ pl[p].status = "settled"

\* Of two events about a reservation one was computed before the other.
LogOrdered(L, n) ==
  /\ \A e \in L : e.at \in Nat /\ e.at <= n
  /\ \A e, f \in L : e.res \in Ids /\ e.res = f.res /\ e.at = f.at => e = f

\* The events a call is to append are about a reservation each, and the latest about it.
EventsOrdered(k, L, n) ==
  /\ \A e \in Range(k.events) :
       e.at <= n /\ (e.res \in Ids => \A f \in L : f.res = e.res => f.at < e.at)
  /\ \A j, l \in DOMAIN k.events :
       k.events[j].res \in Ids /\ k.events[j].res = k.events[l].res => j = l

\* A reservation will be what the event about it makes of it, and what has no event
\* is or will be what the log says.
PutsAgree(k, L, st) ==
  \A i \in Ids :
    /\ \A e \in Range(k.events) : e.res = i =>
         /\ \E w \in Range(k.puts) : w.id = i
         /\ \A w \in Range(k.puts) : w.id = i =>
              w.rec = ApplyReservationEvent(FoldEvents(About(L, i)), e)
    /\ (\A e \in Range(k.events) : e.res # i) =>
         /\ \A w \in Range(k.puts) : w.id = i => w.rec = FoldEvents(About(L, i))
         /\ (\A w \in Range(k.puts) : w.id # i) => st[i] = FoldEvents(About(L, i))

\* So will every plan.
PlanAgrees(k, L, pl) ==
  \A p \in Plans :
    SettledIn(L \cup Range(k.events), p) <=>
      IF k.planput # Null /\ k.planput.plan = p THEN k.planput.rec.status = "settled"
      ELSE pl[p] # Null /\ pl[p].status = "settled"

\* The siblings in hand are what is stored of the plan p but for its reservation i.
SiblingsAre(sibs, i, p, st) == \A r \in sibs : st[r.id] = r.rec /\ r.id # i /\ r.rec.plan = p

\* A call finds siblings where they are stored.
ReadsAgree(k, st) ==
  /\ k.pc \in {"target", "plan", "scan"} => k.sibs = {}
  /\ k.pc = "siblings" =>
       /\ \A j \in k.todo : j # k.id /\ st[j].plan = k.rec.plan
       /\ SiblingsAre(k.sibs, k.id, k.rec.plan, st)

\* What a call writes will agree with the log; until it writes, what is stored does.
Agreeing(k, L, st, pl, n) ==
  IF k.pc = "write" THEN EventsOrdered(k, L, n) /\ PutsAgree(k, L, st) /\ PlanAgrees(k, L, pl)
  ELSE Agrees(L, st, pl) /\ ReadsAgree(k, st)

\* The log is in order and, a call under way or not, agrees with what is stored.
ProjInv ==
  ~torn /\ ~mixed =>
    /\ LogOrdered(log, minted)
    /\ Busy = {} => Agrees(log, store, plans)
    /\ \A s \in Busy : Agreeing(call[s], log, store, plans, minted)

\* A call that has written everything leaves what agrees.
LEMMA Written ==
  ASSUME NEW k, NEW L, NEW st, NEW pl, NEW n, Agreeing(k, L, st, pl, n), k.pc = "write",
         k.events = <<>>, k.puts = <<>>, k.planput = Null
  PROVE  Agrees(L, st, pl)
<1>1. Range(k.events) = {} /\ Range(k.puts) = {}
  BY DEF Range
<1>2. \A i \in Ids : st[i] = FoldEvents(About(L, i))
  BY <1>1 DEF Agreeing, PutsAgree
<1>3. L \cup Range(k.events) = L
  BY <1>1
<1>4. \A p \in Plans : SettledIn(L, p) <=> pl[p] # Null /\ pl[p].status = "settled"
  BY <1>3 DEF Agreeing, PlanAgrees
<1> QED  BY <1>2, <1>4 DEF Agrees

\* Who has nothing under way is in agreement when the stored is.
LEMMA IdleAgrees ==
  ASSUME NEW L, NEW st, NEW pl, NEW n, Agrees(L, st, pl)
  PROVE  Agreeing(Idle, L, st, pl, n)
BY DEF Agreeing, Idle, ReadsAgree

\* Calls that do not overlap: it is enough to look at the one that steps.
LEMMA OnlyCall ==
  ASSUME IInv, NEW s \in Sessions, NEW k, Becomes(s, k),
         ~torn' /\ ~mixed' =>
           LogOrdered(log', minted') /\ Agreeing(k, log', store', plans', minted')
  PROVE  ProjInv'
<1> SUFFICES ASSUME ~torn', ~mixed' PROVE ProjInv'
  BY DEF ProjInv
<1>1. PICK L, st, pl, n : L = log' /\ st = store' /\ pl = plans' /\ n = minted'
  OBVIOUS
<1>2. LogOrdered(L, n) /\ Agreeing(k, L, st, pl, n)
  BY <1>1
<1> DEFINE over == k.pc = "write" /\ k.events = <<>> /\ k.puts = <<>>
                   /\ k.planput = Null /\ k.notice = Null
           j == IF over THEN Idle ELSE k
<1>3. call' = [call EXCEPT ![s] = j] /\ DOMAIN call = Sessions /\ Mixes(s, k)
  BY DEF Becomes, IInv, Types4
<1>4. Agreeing(j, L, st, pl, n) /\ (j.pc = "idle" => Agrees(L, st, pl))
  <2>1. CASE over
    BY <1>2, <2>1, Written, IdleAgrees
  <2>2. CASE ~over
    BY <1>2, <2>2 DEF Agreeing
  <2> QED  BY <2>1, <2>2
<1>5. Busy \subseteq {s}
  BY <1>3, Alone
<1> HIDE DEF j
<1>6. ASSUME NEW c \in Sessions
      PROVE  call'[c] = IF c = s THEN j ELSE call[c]
  BY <1>3
<1>7. ASSUME NEW c \in Busy'
      PROVE  c = s /\ call'[c] = j
  BY <1>5, <1>6 DEF Busy
<1>8. Busy' = {} => j.pc = "idle"
  BY <1>6 DEF Busy
<1>9. /\ LogOrdered(L, n)
      /\ Busy' = {} => Agrees(L, st, pl)
      /\ \A c \in Busy' : Agreeing(call'[c], L, st, pl, n)
  BY <1>2, <1>4, <1>7, <1>8
<1> QED  BY <1>1, <1>9 DEF ProjInv

\* The log is in order whatever is counted on.
LEMMA OrderKept ==
  ASSUME NEW L, NEW n \in Nat, NEW m \in Nat, n <= m, LogOrdered(L, n)
  PROVE  LogOrdered(L, m)
BY DEF LogOrdered

\* A step that writes nothing.
LEMMA NothingWritten ==
  ASSUME IInv, ProjInv, NEW s \in Sessions, NEW k, Becomes(s, k),
         UNCHANGED <<log, store, plans, torn>>, minted' \in Nat, minted <= minted',
         ~torn /\ ~mixed /\ Busy \subseteq {s} => Agreeing(k, log, store, plans, minted')
  PROVE  ProjInv'
<1>1. Mixes(s, k)
  BY DEF Becomes
<1>2. ASSUME ~torn', ~mixed'
      PROVE  ~torn /\ ~mixed /\ Busy \subseteq {s}
  BY <1>1, <1>2, Alone
<1>3. PICK L, st, pl : L = log /\ st = store /\ pl = plans
  OBVIOUS
<1>4. ~torn' /\ ~mixed' => LogOrdered(L, minted') /\ Agreeing(k, L, st, pl, minted')
  BY <1>2, <1>3, OrderKept DEF ProjInv, IInv, Types4
<1>5. log' = L /\ store' = st /\ plans' = pl
  BY <1>3
<1>6. ~torn' /\ ~mixed' => LogOrdered(log', minted') /\ Agreeing(k, log', store', plans', minted')
  BY <1>4, <1>5
<1> QED  BY <1>6, OnlyCall

\* What an event makes of a reservation.
LEMMA Applied ==
  ASSUME NEW r \in Reservation, NEW e
  PROVE  /\ e.type = "confirmed" /\ e.plan \in {Null, r.plan} =>
              ApplyReservationEvent(r, e) = [r EXCEPT !.status = "confirmed"]
         /\ e.type = "auto" /\ e.plan = r.plan =>
              ApplyReservationEvent(r, e) = [r EXCEPT !.status = "to_cancel"]
         /\ e.type \in {"cancelled", "voided"} =>
              ApplyReservationEvent(r, e) = [r EXCEPT !.status = e.type]
         /\ e.type = "policy" => ApplyReservationEvent(r, e) = [r EXCEPT !.policy = TRUE]
<1>1. r # Null
  BY NullAssumption
<1>2. CASE e.type = "confirmed"
  BY <1>1, <1>2 DEF ApplyReservationEvent, Reservation
<1>3. CASE e.type = "auto"
  BY <1>1, <1>3 DEF ApplyReservationEvent, Reservation
<1>4. CASE e.type \in {"cancelled", "voided"}
  BY <1>1, <1>4 DEF ApplyReservationEvent, Reservation
<1>5. CASE e.type = "policy"
  BY <1>1, <1>5 DEF ApplyReservationEvent, Reservation
<1> QED  BY <1>2, <1>3, <1>4, <1>5

\* A creation makes of it what the event carries.
LEMMA AppliedCreation ==
  ASSUME NEW state, NEW e, e.type = "created"
  PROVE  ApplyReservationEvent(state, e) = e.rec
BY DEF ApplyReservationEvent

\* A command of one event and one reservation.
LEMMA OneAgrees ==
  ASSUME NEW L, NEW st, NEW pl, NEW n \in Nat, Agrees(L, st, pl), LogOrdered(L, n),
         NEW e, e.at = n + 1, e.type # "settled", NEW w, w.id = e.res,
         w.rec = ApplyReservationEvent(FoldEvents(About(L, e.res)), e),
         NEW planput,
         planput # Null =>
           (planput.rec.status = "settled" <=> pl[planput.plan] # Null /\ pl[planput.plan].status = "settled"),
         NEW k, k = Outcome(<<e>>, <<w>>, planput, Null)
  PROVE  Agreeing(k, L, st, pl, n + 1)
<1>1. k.pc = "write" /\ k.events = <<e>> /\ k.puts = <<w>> /\ k.planput = planput
  BY DEF Outcome, Idle
<1>2. Range(k.events) = {e} /\ Range(k.puts) = {w} /\ DOMAIN k.events = {1}
  BY <1>1 DEF Range
<1>3. EventsOrdered(k, L, n + 1)
  BY <1>2 DEF EventsOrdered, LogOrdered
<1>4. PutsAgree(k, L, st)
  BY <1>2 DEF PutsAgree, Agrees
<1>5. PlanAgrees(k, L, pl)
  <2>1. \A p \in Plans : SettledIn(L \cup {e}, p) <=> SettledIn(L, p)
    BY DEF SettledIn
  <2> QED  BY <1>1, <1>2, <2>1 DEF PlanAgrees, Agrees
<1> QED  BY <1>1, <1>3, <1>4, <1>5 DEF Agreeing

\* u is the list s followed by t.
Lists(u, s, t) ==
  /\ \A j \in DOMAIN u :
       \/ j \in 1 .. Len(s) /\ u[j] = s[j]
       \/ \E l \in 1 .. Len(t) : j = Len(s) + l /\ u[j] = t[l]
  /\ \A j \in 1 .. Len(s) : s[j] \in Range(u)
  /\ \A j \in 1 .. Len(t) : t[j] \in Range(u)

\* So is their concatenation.
LEMMA Joined ==
  ASSUME NEW A, NEW s \in Seq(A), NEW t \in Seq(A)
  PROVE  Lists(s \o t, s, t)
<1>1. PICK u : u = s \o t
  OBVIOUS
<1>2. PICK a \in Nat, m \in Nat : a = Len(s) /\ m = Len(t)
  OBVIOUS
<1>3. /\ u \in Seq(A) /\ Len(u) = a + m
      /\ \A i \in 1 .. a + m : u[i] = IF i <= a THEN s[i] ELSE t[i - a]
  BY <1>1, <1>2, ConcatProperties
<1>4. DOMAIN u = 1 .. a + m
  BY <1>3
<1>5. ASSUME NEW j \in DOMAIN u
      PROVE  \/ j \in 1 .. a /\ u[j] = s[j]
             \/ \E l \in 1 .. m : j = a + l /\ u[j] = t[l]
  <2>1. CASE j <= a
    BY <1>3, <1>4, <2>1
  <2>2. CASE ~(j <= a)
    <3>1. j \in Nat /\ j <= a + m
      BY <1>4
    <3>2. j - a \in 1 .. m /\ j = a + (j - a)
      BY <2>2, <3>1
    <3>3. u[j] = t[j - a]
      BY <1>3, <1>4, <2>2
    <3> QED  BY <3>2, <3>3
  <2> QED  BY <2>1, <2>2
<1>6. ASSUME NEW j \in 1 .. a
      PROVE  s[j] \in Range(u)
  <2>1. j \in DOMAIN u /\ u[j] = s[j]
    BY <1>3, <1>4
  <2> QED  BY <2>1 DEF Range
<1>7. ASSUME NEW j \in 1 .. m
      PROVE  t[j] \in Range(u)
  <2>1. a + j \in DOMAIN u /\ ~(a + j <= a) /\ (a + j) - a = j
    BY <1>4
  <2>2. u[a + j] = t[j]
    BY <1>3, <1>4, <2>1
  <2> QED  BY <2>1, <2>2 DEF Range
<1>8. Lists(u, s, t)
  BY <1>2, <1>5, <1>6, <1>7 DEF Lists
<1> QED  BY <1>1, <1>8

\* SetToSeq lists a member once.
LEMMA ListedOnce ==
  ASSUME NEW S, IsFiniteSet(S), NEW i \in 1 .. Cardinality(S), NEW j \in 1 .. Cardinality(S),
         SetToSeq(S)[i] = SetToSeq(S)[j]
  PROVE  i = j
<1>1. \E f \in [1 .. Cardinality(S) -> S] : IsInjective(f)
  BY FS_CardinalityType DEF ExistsBijection, Bijection, Injection, IsInjective
<1>2. IsInjective(SetToSeq(S)) /\ SetToSeq(S) \in [1 .. Cardinality(S) -> S]
  BY <1>1 DEF SetToSeq
<1> QED  BY <1>2 DEF IsInjective

\* What the confirmation that settles a plan writes: the winner and m losers with an
\* event each, and the settlement.
EventsAre(k, event, settled, autos, m) ==
  /\ \A j \in DOMAIN k.events :
       \/ j = 1 /\ k.events[j] = event
       \/ j = 2 /\ k.events[j] = settled
       \/ \E l \in 1 .. m : j = 2 + l /\ k.events[j] = autos[l]
  /\ event \in Range(k.events) /\ settled \in Range(k.events)
  /\ \A j \in 1 .. m : autos[j] \in Range(k.events)

PutsAre(k, winner, losers, m) ==
  /\ \A w \in Range(k.puts) : w = winner \/ \E j \in 1 .. m : w = losers[j]
  /\ winner \in Range(k.puts)
  /\ \A j \in 1 .. m : losers[j] \in Range(k.puts)

\* Each loser is another reservation than the winner, put as its event makes it.
LosersAre(losers, autos, m, winner, L, n) ==
  /\ \A j \in 1 .. m :
       /\ losers[j].id # winner.id /\ losers[j].id \in Ids
       /\ autos[j].at = n /\ autos[j].type = "auto" /\ autos[j].res = losers[j].id
       /\ losers[j].rec = ApplyReservationEvent(FoldEvents(About(L, losers[j].id)), autos[j])
  /\ \A j, l \in 1 .. m : losers[j].id = losers[l].id => j = l

\* The confirmation that settles a plan agrees with what the log will say.
LEMMA SettlementAgrees ==
  ASSUME NEW L, NEW st, NEW pl, NEW n \in Nat, Agrees(L, st, pl), LogOrdered(L, n),
         NEW m \in Nat, NEW plan \in Plans, NEW k, k.pc = "write",
         k.planput # Null, k.planput.plan = plan, k.planput.rec.status = "settled",
         NEW winner \in Put, NEW event \in EventT, event.at = n + 1, event.type = "confirmed",
         event.res = winner.id,
         winner.rec = ApplyReservationEvent(FoldEvents(About(L, winner.id)), event),
         NEW settled \in EventT, settled.at = n + 1, settled.type = "settled",
         settled.res = Null, settled.plan = plan,
         NEW losers, NEW autos, LosersAre(losers, autos, m, winner, L, n + 1),
         EventsAre(k, event, settled, autos, m), PutsAre(k, winner, losers, m)
  PROVE  Agreeing(k, L, st, pl, n + 1)
<1>1. /\ \A j \in 1 .. m :
           /\ losers[j].id # winner.id /\ losers[j].id \in Ids
           /\ autos[j].at = n + 1 /\ autos[j].type = "auto" /\ autos[j].res = losers[j].id
           /\ losers[j].rec = ApplyReservationEvent(FoldEvents(About(L, losers[j].id)), autos[j])
      /\ \A j, l \in 1 .. m : losers[j].id = losers[l].id => j = l
  BY DEF LosersAre
<1>2. /\ \A j \in DOMAIN k.events :
           \/ j = 1 /\ k.events[j] = event
           \/ j = 2 /\ k.events[j] = settled
           \/ \E l \in 1 .. m : j = 2 + l /\ k.events[j] = autos[l]
      /\ event \in Range(k.events) /\ settled \in Range(k.events)
      /\ \A j \in 1 .. m : autos[j] \in Range(k.events)
  BY DEF EventsAre
<1>3. /\ \A w \in Range(k.puts) : w = winner \/ \E j \in 1 .. m : w = losers[j]
      /\ winner \in Range(k.puts)
      /\ \A j \in 1 .. m : losers[j] \in Range(k.puts)
  BY DEF PutsAre
<1> USE <1>1, <1>2, <1>3
<1>4. ASSUME NEW e \in Range(k.events)
      PROVE  e = event \/ e = settled \/ \E j \in 1 .. m : e = autos[j]
  <2>1. PICK j \in DOMAIN k.events : e = k.events[j]
    BY DEF Range
  <2> QED  BY <2>1
<1>5. ASSUME NEW w \in Range(k.puts)
      PROVE  w = winner \/ \E j \in 1 .. m : w = losers[j]
  OBVIOUS
<1>6. winner \in Range(k.puts) /\ event \in Range(k.events) /\ settled \in Range(k.events)
  OBVIOUS
<1>7. ASSUME NEW j \in 1 .. m
      PROVE  losers[j] \in Range(k.puts) /\ autos[j] \in Range(k.events)
  OBVIOUS
<1>8. Null \notin Ids /\ winner.id \in Ids
  BY CoreAssumption DEF Put
<1>9. EventsOrdered(k, L, n + 1)
  <2>1. ASSUME NEW e \in Range(k.events)
        PROVE  e.at = n + 1
    BY <1>4
  <2>2. \A f \in L : f.at < n + 1
    BY DEF LogOrdered
  <2>3. ASSUME NEW j \in DOMAIN k.events, NEW l \in DOMAIN k.events,
               k.events[j].res \in Ids, k.events[j].res = k.events[l].res
        PROVE  j = l
    <3>1. ASSUME NEW x \in DOMAIN k.events, k.events[x].res \in Ids
          PROVE  \/ x = 1 /\ k.events[x].res = winner.id
                 \/ \E y \in 1 .. m : x = 2 + y /\ k.events[x].res = losers[y].id
      BY <1>8, <3>1
    <3>2. CASE j = 1 \/ l = 1
      BY <2>3, <3>1, <3>2
    <3>3. CASE j # 1 /\ l # 1
      <4>1. PICK y \in 1 .. m : j = 2 + y /\ k.events[j].res = losers[y].id
        BY <2>3, <3>1, <3>3
      <4>2. PICK z \in 1 .. m : l = 2 + z /\ k.events[l].res = losers[z].id
        BY <2>3, <3>1, <3>3
      <4>3. y = z
        BY <2>3, <4>1, <4>2
      <4> QED  BY <4>1, <4>2, <4>3
    <3> QED  BY <3>2, <3>3
  <2> QED  BY <2>1, <2>2, <2>3 DEF EventsOrdered
<1>10. PutsAgree(k, L, st)
  <2> SUFFICES ASSUME NEW i \in Ids
               PROVE  /\ \A e \in Range(k.events) : e.res = i =>
                           /\ \E w \in Range(k.puts) : w.id = i
                           /\ \A w \in Range(k.puts) : w.id = i =>
                                w.rec = ApplyReservationEvent(FoldEvents(About(L, i)), e)
                      /\ (\A e \in Range(k.events) : e.res # i) =>
                           /\ \A w \in Range(k.puts) : w.id = i => w.rec = FoldEvents(About(L, i))
                           /\ (\A w \in Range(k.puts) : w.id # i) => st[i] = FoldEvents(About(L, i))
    BY DEF PutsAgree
  <2>1. ASSUME NEW e \in Range(k.events), e.res = i
        PROVE  /\ \E w \in Range(k.puts) : w.id = i
               /\ \A w \in Range(k.puts) : w.id = i =>
                    w.rec = ApplyReservationEvent(FoldEvents(About(L, i)), e)
    <3>1. CASE e = event
      BY <1>5, <1>6, <2>1, <3>1
    <3>2. ASSUME NEW j \in 1 .. m, e = autos[j]
          PROVE  /\ \E w \in Range(k.puts) : w.id = i
                 /\ \A w \in Range(k.puts) : w.id = i =>
                      w.rec = ApplyReservationEvent(FoldEvents(About(L, i)), e)
      <4>1. i = losers[j].id
        BY <2>1, <3>2
      <4>2. \A w \in Range(k.puts) : w.id = i => w = losers[j]
        BY <1>5, <4>1
      <4> QED  BY <1>7, <3>2, <4>1, <4>2
    <3> QED  BY <1>4, <1>8, <2>1, <3>1, <3>2
  <2>2. ASSUME \A e \in Range(k.events) : e.res # i
        PROVE  /\ \A w \in Range(k.puts) : w.id # i
               /\ st[i] = FoldEvents(About(L, i))
    BY <1>5, <1>6, <1>7, <2>2 DEF Agrees
  <2> QED  BY <2>1, <2>2
<1>11. PlanAgrees(k, L, pl)
  <2>1. SettledIn(L \cup Range(k.events), plan)
    BY <1>6 DEF SettledIn
  <2>2. ASSUME NEW p \in Plans, p # plan
        PROVE  SettledIn(L \cup Range(k.events), p) <=> SettledIn(L, p)
    BY <1>4, <2>2 DEF SettledIn
  <2> QED  BY <2>1, <2>2 DEF PlanAgrees, Agrees
<1> QED  BY <1>9, <1>10, <1>11 DEF Agreeing

\* A status that is set.
LEMMA StatusIsAll ==
  ASSUME NEW put \in Put, NEW state
  PROVE  WithStatus(put, state).id = put.id
         /\ WithStatus(put, state).rec = [put.rec EXCEPT !.status = state]
BY DEF WithStatus, Put

\* confirm, of a target and siblings that are what is stored.
LEMMA ConfirmedAgrees ==
  ASSUME minted \in Nat, NEW L, NEW st, NEW pl, Agrees(L, st, pl), LogOrdered(L, minted),
         NEW target \in Put, st[target.id] = target.rec,
         NEW planrec, planrec = Null \/ planrec \in Plan, planrec # Null => target.rec.plan \in Plans,
         NEW plan, plan = (IF planrec = Null THEN Null ELSE target.rec.plan),
         NEW sibs \in SUBSET Put, IsFiniteSet(sibs),
         SiblingsAre(sibs, target.id, target.rec.plan, st),
         NEW k, k = Confirmed(target, plan, planrec, sibs)
  PROVE  k = Idle \/ (k.events # <<>> /\ Agreeing(k, L, st, pl, minted + 1))
<1> DEFINE lost == {r \in sibs : r.rec.status = "candidate"}
           others == SetToSeq(lost)
           m == Cardinality(lost)
           event == EventOf("confirmed", target.id, plan, Null)
           winner == WithStatus(target, "confirmed")
           settled == EventOf("settled", Null, plan, "confirmed")
           autos == [j \in DOMAIN others |-> EventOf("auto", others[j].id, plan, "confirmed")]
           losers == [j \in DOMAIN others |-> WithStatus(others[j], "to_cancel")]
           planput == [plan |-> plan, rec |-> [planrec EXCEPT !.status = "settled"]]
           alone == Outcome(<<event>>, <<winner>>, Null, Null)
           notice == NoticeOf(plan, sibs \cup {target}, <<winner>> \o losers)
           whole == Outcome(<<event, settled>> \o autos, <<winner>> \o losers, planput, notice)
<1>1. target.id \in Ids /\ target.rec \in Reservation /\ plan \in Plans \cup {Null}
      /\ plan \in {Null, target.rec.plan}
  BY DEF Put
<1>2. /\ event.at = minted + 1 /\ event.type = "confirmed" /\ event.res = target.id
      /\ event.plan = plan /\ event \in EventT
  BY <1>1, EventOfType DEF Types
<1>3. winner \in Put /\ winner.id = target.id /\ winner.rec = [target.rec EXCEPT !.status = "confirmed"]
  BY StatusIsSet, StatusIsAll DEF Statuses
<1>4. FoldEvents(About(L, target.id)) = target.rec
  BY <1>1 DEF Agrees
<1>5. winner.rec = ApplyReservationEvent(FoldEvents(About(L, winner.id)), event)
  <2>1. ApplyReservationEvent(target.rec, event) = [target.rec EXCEPT !.status = "confirmed"]
    BY <1>1, <1>2, Applied
  <2> QED  BY <1>3, <1>4, <2>1
<1>6. alone.events # <<>> /\ Agreeing(alone, L, st, pl, minted + 1)
  <2> HIDE DEF event, winner
  <2>1. alone.events # <<>>
    BY DEF Outcome, Idle
  <2>2. Agreeing(alone, L, st, pl, minted + 1)
    BY <1>2, <1>3, <1>5, OneAgrees
  <2> QED  BY <2>1, <2>2
<1>7. ASSUME plan # Null
      PROVE  whole.events # <<>> /\ Agreeing(whole, L, st, pl, minted + 1)
  <2>1. others \in [1 .. m -> lost] /\ m \in Nat
        /\ \A i, j \in 1 .. m : others[i] = others[j] => i = j
    <3>1. IsFiniteSet(lost)
      BY FS_Subset
    <3> HIDE DEF lost
    <3> QED  BY <3>1, Listed, ListedOnce
  <2>2. /\ settled.at = minted + 1 /\ settled.type = "settled" /\ settled.res = Null
        /\ settled.plan = plan /\ settled \in EventT
    BY <1>1, EventOfType DEF Types
  <2>3. lost \subseteq Put /\ \A r \in lost : r \in sibs
    OBVIOUS
  <2> HIDE DEF event, winner, settled, others, m, lost
  <2>4. ASSUME NEW j \in 1 .. m
        PROVE  /\ others[j] \in Put /\ others[j] \in sibs
               /\ autos[j] \in EventT /\ autos[j].at = minted + 1 /\ autos[j].type = "auto"
               /\ autos[j].res = others[j].id /\ autos[j].plan = plan
               /\ losers[j] \in Put /\ losers[j].id = others[j].id
               /\ losers[j].rec = [others[j].rec EXCEPT !.status = "to_cancel"]
    <3>1. others[j] \in Put /\ others[j] \in sibs /\ j \in DOMAIN others /\ others[j].id \in Ids
      BY <2>1, <2>3 DEF Put
    <3>2. autos[j] = EventOf("auto", others[j].id, plan, "confirmed")
          /\ losers[j] = WithStatus(others[j], "to_cancel")
      BY <3>1
    <3> QED  BY <1>1, <3>1, <3>2, EventOfType, StatusIsSet, StatusIsAll DEF Types, Statuses
  <2>5. autos \in [1 .. m -> EventT] /\ losers \in [1 .. m -> Put]
    BY <2>1, <2>4
  <2> HIDE DEF autos, losers
  <2>6. autos \in Seq(EventT) /\ Len(autos) = m /\ losers \in Seq(Put) /\ Len(losers) = m
    BY <2>1, <2>5
  <2>7. ASSUME NEW j \in 1 .. m
        PROVE  /\ losers[j].id # winner.id /\ losers[j].id \in Ids
               /\ losers[j].rec = ApplyReservationEvent(FoldEvents(About(L, losers[j].id)), autos[j])
    <3>1. /\ others[j].rec \in Reservation /\ others[j].id \in Ids /\ others[j].rec.plan = plan
          /\ others[j].id # target.id /\ st[others[j].id] = others[j].rec
      BY <1>7, <1>1, <2>4 DEF Put, SiblingsAre
    <3>2. FoldEvents(About(L, others[j].id)) = others[j].rec
      BY <3>1 DEF Agrees
    <3>3. ApplyReservationEvent(others[j].rec, autos[j]) = [others[j].rec EXCEPT !.status = "to_cancel"]
      BY <2>4, <3>1, Applied
    <3> QED  BY <1>3, <2>4, <3>1, <3>2, <3>3
  <2>8. ASSUME NEW j \in 1 .. m, NEW l \in 1 .. m, losers[j].id = losers[l].id
        PROVE  j = l
    <3>1. /\ others[j] \in Put /\ others[l] \in Put /\ others[j].id = others[l].id
          /\ others[j].rec = st[others[j].id] /\ others[l].rec = st[others[l].id]
      BY <2>4, <2>8 DEF SiblingsAre
    <3>2. others[j] = others[l]
      BY <3>1 DEF Put
    <3> QED  BY <2>1, <3>2
  <2>9. planput # Null /\ planput.plan = plan /\ planput.rec.status = "settled" /\ plan \in Plans
    <3>1. planrec \in Plan /\ plan \in Plans
      BY <1>7, <1>1
    <3>2. /\ [planrec EXCEPT !.status = "settled"] \in Plan
          /\ [planrec EXCEPT !.status = "settled"].status = "settled"
      BY <3>1 DEF Plan
    <3>3. planput \in [plan : Plans, rec : Plan] /\ planput.plan = plan /\ planput.rec.status = "settled"
      BY <3>1, <3>2
    <3> QED  BY <3>1, <3>3, NullAssumption
  <2> HIDE DEF planput
  <2>10. PICK first, own, es, ps : /\ first = <<event, settled>> /\ own = <<winner>>
                                  /\ es = first \o autos /\ ps = own \o losers
                                  /\ whole = Outcome(es, ps, planput, notice)
    OBVIOUS
  <2>11. /\ first \in Seq(EventT) /\ Len(first) = 2 /\ first[1] = event /\ first[2] = settled
        /\ own \in Seq(Put) /\ Len(own) = 1 /\ own[1] = winner
    BY <1>2, <1>3, <2>2, <2>10
  <2> HIDE DEF whole, notice
  <2>12. whole.pc = "write" /\ whole.planput = planput /\ whole.events = es /\ whole.puts = ps
    BY <2>10 DEF Outcome, Idle
  <2>13. EventsAre(whole, event, settled, autos, m)
    <3>1. Lists(es, first, autos)
      BY <2>11, <2>6, <2>10, Joined
    <3>2. \A j \in 1 .. Len(first) : j = 1 \/ j = 2
      BY <2>11
    <3>3. 1 \in 1 .. Len(first) /\ 2 \in 1 .. Len(first)
      BY <2>11
    <3>4. event \in Range(es) /\ settled \in Range(es)
      BY <2>11, <3>1, <3>3 DEF Lists
    <3> QED  BY <2>11, <2>6, <2>12, <3>1, <3>2, <3>4 DEF Lists, EventsAre
  <2>14. PutsAre(whole, winner, losers, m)
    <3>1. Lists(ps, own, losers)
      BY <2>11, <2>6, <2>10, Joined
    <3>2. 1 \in 1 .. Len(own) /\ \A j \in 1 .. Len(own) : j = 1
      BY <2>11
    <3>3. winner \in Range(ps) /\ \A j \in 1 .. m : losers[j] \in Range(ps)
      BY <2>11, <2>6, <3>1, <3>2 DEF Lists
    <3>4. \A w \in Range(ps) : w = winner \/ \E j \in 1 .. m : w = losers[j]
      <4>1. ASSUME NEW j \in DOMAIN ps
            PROVE  ps[j] = winner \/ \E l \in 1 .. m : ps[j] = losers[l]
        BY <2>11, <2>6, <3>1, <3>2 DEF Lists
      <4> QED  BY <4>1 DEF Range
    <3> QED  BY <2>12, <3>3, <3>4 DEF PutsAre
  <2>15. PICK n \in Nat : n = minted
    OBVIOUS
  <2>16. LosersAre(losers, autos, m, winner, L, minted + 1)
    BY <2>4, <2>7, <2>8 DEF LosersAre
  <2>17. Agreeing(whole, L, st, pl, n + 1)
    BY <1>2, <1>3, <1>5, <2>1, <2>2, <2>9, <2>12, <2>13, <2>14, <2>15, <2>16, SettlementAgrees
  <2>18. whole.events # <<>>
    <3>1. event \in Range(es) /\ Range(<<>>) = {}
      BY <2>12, <2>13 DEF EventsAre, Range
    <3> QED  BY <2>12, <3>1
  <2> QED  BY <2>15, <2>17, <2>18
<1>8. k = Idle \/ k = alone \/ (plan # Null /\ k = whole)
  BY DEF Confirmed
<1> HIDE DEF alone, whole
<1> QED  BY <1>6, <1>7, <1>8

\* The other transitions, of a target that is what is stored.
LEMMA RunAgrees ==
  ASSUME minted \in Nat, NEW L, NEW st, NEW pl, Agrees(L, st, pl), LogOrdered(L, minted),
         NEW s, NEW k, NEW planrec, NEW sibs,
         k.tool \in {"confirm", "report", "void", "policy"}, k.id \in Ids, k.rec \in Reservation,
         st[k.id] = k.rec,
         planrec = Null \/ planrec \in Plan, planrec # Null => k.rec.plan \in Plans,
         sibs \in SUBSET Put, IsFiniteSet(sibs),
         SiblingsAre(sibs, k.id, k.rec.plan, st),
         Run(s, k, planrec, sibs)
  PROVE  minted' \in Nat /\ minted <= minted'
         /\ \E o : Becomes(s, o) /\ Agreeing(o, L, st, pl, minted')
<1> DEFINE target == [id |-> k.id, rec |-> k.rec]
           plan == IF planrec = Null THEN Null ELSE k.rec.plan
           o == CASE k.tool = "confirm" -> Confirmed(target, plan, planrec, sibs)
                  [] k.tool = "report"  -> ReportCancelled(target)
                  [] k.tool = "void"    -> VoidReservation(target)
                  [] k.tool = "policy"  -> SetPolicy(target)
<1>1. target \in Put /\ target.id = k.id /\ target.rec = k.rec
  BY DEF Put
<1>2. plan = (IF planrec = Null THEN Null ELSE target.rec.plan)
  OBVIOUS
<1>3. Becomes(s, o) /\ minted' = IF o.events = <<>> THEN minted ELSE minted + 1
  BY DEF Run, Decide
<1>4. FoldEvents(About(L, target.id)) = target.rec
  BY <1>1 DEF Agrees
<1> HIDE DEF target, plan
<1>5. ASSUME NEW e, e.at = minted + 1, e.type # "settled", e.res = target.id,
             NEW w, w.id = target.id, w.rec = ApplyReservationEvent(target.rec, e),
             NEW c, c = Outcome(<<e>>, <<w>>, Null, Null)
      PROVE  c.events # <<>> /\ Agreeing(c, L, st, pl, minted + 1)
  <2>1. c.events # <<>>
    BY <1>5 DEF Outcome, Idle
  <2> QED  BY <1>4, <1>5, <2>1, OneAgrees
<1>6. o = Idle \/ (o.events # <<>> /\ Agreeing(o, L, st, pl, minted + 1))
  <2>1. CASE k.tool = "confirm"
    <3>1. PICK c : c = Confirmed(target, plan, planrec, sibs)
      OBVIOUS
    <3>2. c = Idle \/ (c.events # <<>> /\ Agreeing(c, L, st, pl, minted + 1))
      BY <1>1, <1>2, <3>1, ConfirmedAgrees
    <3> QED  BY <2>1, <3>1, <3>2
  <2>2. ASSUME NEW state \in {"cancelled", "voided"}, NEW c,
               c = Outcome(<<EventOf(state, target.id, target.rec.plan, Null)>>,
                           <<WithStatus(target, state)>>, Null, Null)
        PROVE  c.events # <<>> /\ Agreeing(c, L, st, pl, minted + 1)
    <3>1. PICK e, w : /\ e = EventOf(state, target.id, target.rec.plan, Null)
                      /\ w = WithStatus(target, state) /\ c = Outcome(<<e>>, <<w>>, Null, Null)
      BY <2>2
    <3>2. /\ target.rec \in Reservation /\ target.rec.plan \in Plans \cup {Null}
          /\ state \in Types /\ target.id \in Ids
      BY <1>1 DEF Put, Reservation, Types
    <3>3. e.at = minted + 1 /\ e.type = state /\ e.res = target.id
      BY <3>1, <3>2, EventOfType
    <3>4. w.id = target.id /\ w.rec = [target.rec EXCEPT !.status = state]
      BY <1>1, <3>1, StatusIsAll
    <3>5. w.rec = ApplyReservationEvent(target.rec, e)
      BY <3>2, <3>3, <3>4, Applied
    <3> QED  BY <1>5, <3>1, <3>3, <3>4, <3>5
  <2>3. CASE k.tool = "report"
    BY <2>2, <2>3 DEF ReportCancelled
  <2>4. CASE k.tool = "void"
    BY <2>2, <2>4 DEF VoidReservation
  <2>5. CASE k.tool = "policy"
    <3>1. PICK e, w, c : /\ e = EventOf("policy", target.id, Null, Null)
                         /\ w = [target EXCEPT !.rec.policy = TRUE] /\ c = Outcome(<<e>>, <<w>>, Null, Null)
      OBVIOUS
    <3>2. e.at = minted + 1 /\ e.type = "policy" /\ e.res = target.id /\ target.rec \in Reservation
      BY <1>1, <3>1, EventOfType DEF Put, Types
    <3>3. w.id = target.id /\ w.rec = [target.rec EXCEPT !.policy = TRUE]
      BY <1>1, <3>1 DEF Put
    <3>4. w.rec = ApplyReservationEvent(target.rec, e)
      BY <3>2, <3>3, Applied
    <3>5. c.events # <<>> /\ Agreeing(c, L, st, pl, minted + 1)
      BY <1>5, <3>1, <3>2, <3>3, <3>4
    <3>6. o = Idle \/ o = c
      BY <2>5, <3>1 DEF SetPolicy
    <3> HIDE DEF o
    <3> QED  BY <3>5, <3>6
  <2> QED  BY <2>1, <2>3, <2>4, <2>5
<1> HIDE DEF o
<1>7. CASE o = Idle
  <2>1. o.events = <<>>
    BY <1>7 DEF Idle
  <2> QED  BY <1>3, <1>7, <2>1, IdleAgrees
<1>8. CASE o # Idle
  BY <1>3, <1>6, <1>8
<1> QED  BY <1>7, <1>8

\* The calls that create.
LEMMA ProjCreates ==
  ASSUME IInv, QuotaInv, ProjInv, NEW s \in Sessions, CreatePlan(s) \/ CreateReservation(s) \/ AddInline(s)
  PROVE  ProjInv'
<1>1. minted \in Nat
  BY DEF IInv, Types4
<1>2. ASSUME CreatePlan(s)
      PROVE  ProjInv'
  <2>1. PICK p \in Plans \ Foreign, q \in Quotas :
           /\ plans[p] = Null
           /\ plans' = [plans EXCEPT ![p] = [status |-> "open", confirm_quota |-> q, members |-> {}]]
    BY <1>2 DEF CreatePlan
  <2>2. UNCHANGED <<log, store, call, minted, torn>> /\ call[s].pc = "idle" /\ Mixes(s, Idle)
    BY <1>2 DEF CreatePlan, Start
  <2> SUFFICES ASSUME ~torn', ~mixed' PROVE ProjInv'
    BY DEF ProjInv
  <2>3. ~mixed /\ Busy = {}
    <3>1. ~mixed /\ Busy \subseteq {s}
      BY <2>2, Alone
    <3> QED  BY <2>2, <3>1 DEF Busy
  <2>4. LogOrdered(log, minted) /\ Agrees(log, store, plans)
    BY <2>2, <2>3 DEF ProjInv
  <2>5. PICK rec : rec = [status |-> "open", confirm_quota |-> q, members |-> {}]
    OBVIOUS
  <2>6. PICK pl : pl = plans'
    OBVIOUS
  <2>7. \A x \in Plans : pl[x] = IF x = p THEN rec ELSE plans[x]
    BY <2>1, <2>5, <2>6 DEF IInv, Types4
  <2>8. rec.status # "settled"
    BY <2>5
  <2>9. Agrees(log, store, pl)
    BY <2>1, <2>4, <2>7, <2>8 DEF Agrees
  <2>10. Busy' = {}
    BY <2>2, <2>3 DEF Busy
  <2>11. PICK L, st, n : L = log /\ st = store /\ n = minted
    OBVIOUS
  <2>12. LogOrdered(L, n) /\ Agrees(L, st, pl)
    BY <2>4, <2>9, <2>11
  <2>13. log' = L /\ store' = st /\ minted' = n
    BY <2>2, <2>11
  <2>14. LogOrdered(log', minted') /\ Agrees(log', store', plans')
    BY <2>6, <2>12, <2>13
  <2> QED  BY <2>10, <2>14 DEF ProjInv
<1>3. ASSUME call[s].pc = "idle", NEW i \in Ids, NEW r, NEW planput, Decide(s, Created(i, r, planput)),
             UNCHANGED <<log, store, plans, torn>>,
             planput # Null =>
               (planput.rec.status = "settled" <=>
                  plans[planput.plan] # Null /\ plans[planput.plan].status = "settled")
      PROVE  ProjInv'
  <2> DEFINE e == [EventOf("created", i, r.plan, Null) EXCEPT !.rec = r]
             w == [id |-> i, rec |-> r]
             k == Created(i, r, planput)
  <2>1. e.at = minted + 1 /\ e.type = "created" /\ e.res = i /\ e.rec = r /\ w.id = i /\ w.rec = r
    BY DEF EventOf
  <2>2. k = Outcome(<<e>>, <<w>>, planput, Null)
    BY DEF Created
  <2> HIDE DEF e, w, k
  <2>3. Becomes(s, k) /\ minted' = IF k.events = <<>> THEN minted ELSE minted + 1
    BY <1>3 DEF Decide, k
  <2>4. k.events # <<>>
    BY <2>2 DEF Outcome, Idle
  <2>5. w.rec = ApplyReservationEvent(FoldEvents(About(log, e.res)), e)
    BY <2>1, AppliedCreation
  <2>6. ASSUME ~torn, ~mixed, Busy \subseteq {s}
        PROVE  Agreeing(k, log, store, plans, minted + 1)
    <3>1. Busy = {}
      BY <1>3, <2>6 DEF Busy
    <3>2. PICK L, st, pl, n : L = log /\ st = store /\ pl = plans /\ n = minted
      OBVIOUS
    <3>3. n \in Nat /\ Agrees(L, st, pl) /\ LogOrdered(L, n)
      BY <1>1, <2>6, <3>1, <3>2 DEF ProjInv
    <3>4. Agreeing(k, L, st, pl, n + 1)
      BY <1>3, <2>1, <2>2, <2>5, <3>2, <3>3, OneAgrees
    <3> QED  BY <3>2, <3>4
  <2> QED  BY <1>1, <1>3, <2>3, <2>4, <2>6, NothingWritten
<1>4. ASSUME CreateReservation(s)
      PROVE  ProjInv'
  <2>1. PICK i, r : i \in Ids /\ Decide(s, Created(i, r, Null))
    BY <1>4 DEF CreateReservation
  <2>2. call[s].pc = "idle" /\ UNCHANGED <<log, store, plans, torn>>
    BY <1>4 DEF CreateReservation, Start
  <2> QED  BY <1>3, <2>1, <2>2
<1>5. ASSUME AddInline(s)
      PROVE  ProjInv'
  <2>1. PICK i \in Ids, p \in Plans :
           /\ plans[p] # Null
           /\ Decide(s, Created(i, [plan |-> p, status |-> "candidate", policy |-> TRUE],
                                PlanPut(p, plans[p], i)))
    BY <1>5 DEF AddInline
  <2>2. call[s].pc = "idle" /\ UNCHANGED <<log, store, plans, torn>>
    BY <1>5 DEF AddInline, Start
  <2>3. PICK planput : planput = PlanPut(p, plans[p], i)
    OBVIOUS
  <2>4. planput # Null => planput.plan = p /\ planput.rec.status = plans[p].status
    BY <2>1, <2>3, StoredOK, PlanPutKeepsStatus
  <2> QED  BY <1>3, <2>1, <2>2, <2>3, <2>4
<1> QED  BY <1>2, <1>4, <1>5

\* Commands start; links are what `mixed' records.
LEMMA ProjStarts ==
  ASSUME IInv, QuotaInv, ProjInv, NEW s \in Sessions, Link(s) \/ LinkExisting(s) \/ Command(s)
  PROVE  ProjInv'
<1>1. minted \in Nat
  BY DEF IInv, Types4
<1>2. CASE Link(s)
  <2>1. PICK i \in issued, p \in Plans :
           Becomes(s, [Idle EXCEPT !.pc = "link", !.id = i, !.plan = p, !.planrec = plans[p]])
    BY <1>2 DEF Link
  <2>2. [Idle EXCEPT !.pc = "link", !.id = i, !.plan = p, !.planrec = plans[p]].pc = "link"
    BY DEF Idle
  <2>3. mixed'
    BY <2>1, <2>2, Alone DEF Becomes
  <2> QED  BY <2>3 DEF ProjInv
<1>3. CASE LinkExisting(s)
  <2>1. call[s].pc = "link" /\ \E k : Becomes(s, k)
    BY <1>3 DEF LinkExisting
  <2>2. ~mixed => Fresh(call[s], store, plans)
    BY <2>1, InHand
  <2>3. mixed
    BY <2>1, <2>2 DEF Fresh
  <2>4. mixed'
    BY <2>1, <2>3 DEF Becomes, Mixes
  <2> QED  BY <2>4 DEF ProjInv
<1>4. CASE Command(s)
  <2>1. PICK tool \in {"confirm", "report", "void", "policy"}, i \in issued :
           Becomes(s, [Idle EXCEPT !.pc = "target", !.tool = tool, !.id = i])
    BY <1>4 DEF Command
  <2>2. UNCHANGED <<log, store, plans, minted, torn>> /\ call[s].pc = "idle"
    BY <1>4 DEF Command, Start
  <2>3. PICK k : k = [Idle EXCEPT !.pc = "target", !.tool = tool, !.id = i]
    OBVIOUS
  <2>4. k.pc = "target" /\ k.sibs = {}
    BY <2>3 DEF Idle
  <2>5. ASSUME ~torn, ~mixed, Busy \subseteq {s}
        PROVE  Agreeing(k, log, store, plans, minted)
    <3>1. Busy = {}
      BY <2>2, <2>5 DEF Busy
    <3> QED  BY <2>4, <2>5, <3>1 DEF ProjInv, Agreeing, ReadsAgree
  <2> QED  BY <1>1, <2>1, <2>2, <2>3, <2>5, NothingWritten
<1> QED  BY <1>2, <1>3, <1>4

\* What the only call under way has, by the invariants.
LEMMA AgreesInHand ==
  ASSUME IInv, QuotaInv, ProjInv, NEW s \in Sessions, NEW k, k = call[s], k.pc # "idle", ~torn, ~mixed
  PROVE  /\ CallOK(k, log, store) /\ k \in CallT /\ Fresh(k, store, plans)
         /\ LogOrdered(log, minted) /\ Agreeing(k, log, store, plans, minted)
<1>1. s \in Busy
  BY DEF Busy
<1> QED  BY <1>1, InHand DEF ProjInv

\* The first of the events and what is left of them.
LEMMA FirstEvent ==
  ASSUME NEW es \in Seq(EventT), es # <<>>
  PROVE  /\ Head(es) \in EventT /\ Head(es) = es[1] /\ 1 \in DOMAIN es
         /\ Range(es) = {Head(es)} \cup Range(Tail(es))
         /\ \A j \in DOMAIN Tail(es) : j \in Nat \ {0} /\ j + 1 \in DOMAIN es /\ Tail(es)[j] = es[j + 1]
<1>1. /\ Tail(es) \in Seq(EventT) /\ Len(Tail(es)) = Len(es) - 1 /\ Head(es) \in EventT
      /\ \A j \in 1 .. Len(Tail(es)) : Tail(es)[j] = es[j + 1]
  BY HeadTailProperties
<1>2. PICK t : t = Tail(es)
  OBVIOUS
<1>3. Len(es) \in Nat /\ Len(es) > 0 /\ Head(es) = es[1] /\ DOMAIN es = 1 .. Len(es)
  OBVIOUS
<1>4. DOMAIN t = 1 .. Len(es) - 1 /\ \A j \in 1 .. Len(es) - 1 : t[j] = es[j + 1]
  BY <1>1, <1>2
<1>5. \A j \in DOMAIN t : j \in Nat \ {0} /\ j + 1 \in DOMAIN es /\ t[j] = es[j + 1]
  BY <1>3, <1>4
<1>6. ASSUME NEW j \in DOMAIN es
      PROVE  es[j] \in {es[1]} \cup Range(t)
  <2>1. CASE j = 1
    BY <2>1
  <2>2. CASE j # 1
    <3>1. j - 1 \in 1 .. Len(es) - 1 /\ (j - 1) + 1 = j
      BY <1>3, <2>2
    <3>2. j - 1 \in DOMAIN t /\ t[j - 1] = es[j]
      BY <1>4, <3>1
    <3> QED  BY <3>2 DEF Range
  <2> QED  BY <2>1, <2>2
<1>7. Range(es) \subseteq {es[1]} \cup Range(t)
  BY <1>6 DEF Range
<1>8. 1 \in DOMAIN es /\ es[1] \in Range(es)
  BY <1>3 DEF Range
<1>9. Range(t) \subseteq Range(es)
  BY <1>5 DEF Range
<1> QED  BY <1>1, <1>2, <1>3, <1>5, <1>7, <1>8, <1>9

\* The next event of a call joins the log: what the log says of its reservation is now
\* what was to be put of it.
LEMMA AppendAgrees ==
  ASSUME NEW L, NEW st, NEW pl, NEW n \in Nat, LogOrdered(L, n),
         NEW k, Agreeing(k, L, st, pl, n), k.pc = "write", k.events \in Seq(EventT), k.events # <<>>,
         NEW e, e = Head(k.events), NEW m, m.pc = "write", m.events = Tail(k.events),
         m.puts = k.puts, m.planput = k.planput
  PROVE  LogOrdered(L \cup {e}, n) /\ Agreeing(m, L \cup {e}, st, pl, n)
<1>1. PICK t : t = Tail(k.events)
  OBVIOUS
<1>2. /\ e \in EventT /\ e = k.events[1] /\ 1 \in DOMAIN k.events /\ Range(k.events) = {e} \cup Range(t)
      /\ \A j \in DOMAIN t : j \in Nat \ {0} /\ j + 1 \in DOMAIN k.events /\ t[j] = k.events[j + 1]
  BY <1>1, FirstEvent
<1>3. EventsOrdered(k, L, n) /\ PutsAgree(k, L, st) /\ PlanAgrees(k, L, pl)
  BY DEF Agreeing
<1>4. e.at \in Nat /\ e.at <= n /\ (e.res \in Ids => \A f \in L : f.res = e.res => f.at < e.at)
  BY <1>2, <1>3 DEF EventsOrdered, EventT
<1>5. ASSUME NEW f \in Range(t), f.res \in Ids
      PROVE  f.res # e.res
  <2>1. PICK j \in DOMAIN t : f = t[j]
    BY DEF Range
  <2>2. j + 1 \in DOMAIN k.events /\ f = k.events[j + 1] /\ j + 1 # 1
    BY <1>2, <2>1
  <2> QED  BY <1>2, <1>3, <1>5, <2>2 DEF EventsOrdered
<1>6. LogOrdered(L \cup {e}, n)
  BY <1>4 DEF LogOrdered
<1>7. EventsOrdered(m, L \cup {e}, n)
  <2>1. ASSUME NEW f \in Range(t)
        PROVE  f.at <= n /\ (f.res \in Ids => \A g \in L \cup {e} : g.res = f.res => g.at < f.at)
    BY <1>2, <1>3, <1>5 DEF EventsOrdered
  <2>2. ASSUME NEW j \in DOMAIN t, NEW l \in DOMAIN t, t[j].res \in Ids, t[j].res = t[l].res
        PROVE  j = l
    <3>1. j + 1 = l + 1
      BY <1>2, <1>3, <2>2 DEF EventsOrdered
    <3> QED  BY <1>2, <3>1
  <2> QED  BY <1>1, <2>1, <2>2 DEF EventsOrdered
<1>8. ASSUME NEW i \in Ids, e.res # i
      PROVE  About(L \cup {e}, i) = About(L, i)
  BY <1>8 DEF About
<1>9. ASSUME e.res \in Ids
      PROVE  FoldEvents(About(L \cup {e}, e.res)) = ApplyReservationEvent(FoldEvents(About(L, e.res)), e)
  <2>1. PICK S : S = About(L, e.res)
    OBVIOUS
  <2>2. About(L \cup {e}, e.res) = S \cup {e}
    BY <2>1 DEF About
  <2>3. Below(S, e.at) /\ e \notin S
    BY <1>4, <1>9, <2>1 DEF Below, About, LogOrdered
  <2>4. FoldEvents(S \cup {e}) = ApplyReservationEvent(FoldEvents(S), e)
    BY <1>4, <2>3, FoldGrows
  <2> QED  BY <2>1, <2>2, <2>4
<1>10. PutsAgree(m, L \cup {e}, st)
  <2> SUFFICES ASSUME NEW i \in Ids
               PROVE  /\ \A x \in Range(m.events) : x.res = i =>
                           /\ \E w \in Range(m.puts) : w.id = i
                           /\ \A w \in Range(m.puts) : w.id = i =>
                                w.rec = ApplyReservationEvent(FoldEvents(About(L \cup {e}, i)), x)
                      /\ (\A x \in Range(m.events) : x.res # i) =>
                           /\ \A w \in Range(m.puts) : w.id = i => w.rec = FoldEvents(About(L \cup {e}, i))
                           /\ (\A w \in Range(m.puts) : w.id # i) => st[i] = FoldEvents(About(L \cup {e}, i))
    BY DEF PutsAgree
  <2>1. Range(m.events) = Range(t) /\ m.puts = k.puts
    BY <1>1
  <2>2. /\ \A f \in Range(k.events) : f.res = i =>
             /\ \E w \in Range(k.puts) : w.id = i
             /\ \A w \in Range(k.puts) : w.id = i =>
                  w.rec = ApplyReservationEvent(FoldEvents(About(L, i)), f)
        /\ (\A f \in Range(k.events) : f.res # i) =>
             /\ \A w \in Range(k.puts) : w.id = i => w.rec = FoldEvents(About(L, i))
             /\ (\A w \in Range(k.puts) : w.id # i) => st[i] = FoldEvents(About(L, i))
    BY <1>3 DEF PutsAgree
  <2>3. CASE e.res = i
    <3>1. \A f \in Range(t) : f.res # i
      BY <1>5, <2>3
    <3>2. /\ \E w \in Range(k.puts) : w.id = i
          /\ \A w \in Range(k.puts) : w.id = i => w.rec = FoldEvents(About(L \cup {e}, i))
      BY <1>2, <1>9, <2>2, <2>3
    <3> QED  BY <2>1, <3>1, <3>2
  <2>4. CASE e.res # i
    <3>1. FoldEvents(About(L \cup {e}, i)) = FoldEvents(About(L, i))
      BY <1>8, <2>4
    <3> QED  BY <1>2, <2>2, <2>4, <2>1, <3>1
  <2> QED  BY <2>3, <2>4
<1>11. PlanAgrees(m, L \cup {e}, pl)
  <2>1. (L \cup {e}) \cup Range(t) = L \cup Range(k.events)
    BY <1>2
  <2> QED  BY <1>1, <1>3, <2>1 DEF PlanAgrees
<1> QED  BY <1>6, <1>7, <1>10, <1>11 DEF Agreeing

\* A put of a call whose events are all in the log.
LEMMA PutAgrees ==
  ASSUME NEW L, NEW st, NEW pl, NEW n, NEW k, Agreeing(k, L, st, pl, n), k.pc = "write", k.events = <<>>,
         k.puts \in Seq(Put), k.puts # <<>>, NEW w, w = Head(k.puts),
         NEW m, m.pc = "write", m.events = <<>>, m.puts = Tail(k.puts), m.planput = k.planput,
         NEW sn, \A i \in Ids : sn[i] = IF i = w.id THEN w.rec ELSE st[i]
  PROVE  Agreeing(m, L, sn, pl, n)
<1>1. PICK t : t = Tail(k.puts)
  OBVIOUS
<1>2. w \in Put /\ Range(k.puts) = {w} \cup Range(t)
  BY <1>1, RangeOfPuts
<1>3. EventsOrdered(k, L, n) /\ PutsAgree(k, L, st) /\ PlanAgrees(k, L, pl)
  BY DEF Agreeing
<1>4. Range(k.events) = {} /\ Range(m.events) = {}
  BY DEF Range
<1>5. EventsOrdered(m, L, n)
  BY <1>3, <1>4 DEF EventsOrdered
<1>6. PlanAgrees(m, L, pl)
  BY <1>3, <1>4 DEF PlanAgrees
<1>7. ASSUME NEW i \in Ids
      PROVE  /\ \A v \in Range(t) : v.id = i => v.rec = FoldEvents(About(L, i))
             /\ (\A v \in Range(t) : v.id # i) => sn[i] = FoldEvents(About(L, i))
  <2>1. /\ \A v \in Range(k.puts) : v.id = i => v.rec = FoldEvents(About(L, i))
        /\ (\A v \in Range(k.puts) : v.id # i) => st[i] = FoldEvents(About(L, i))
    BY <1>3, <1>4 DEF PutsAgree
  <2> QED  BY <1>2, <2>1
<1>8. PutsAgree(m, L, sn)
  BY <1>1, <1>4, <1>7 DEF PutsAgree
<1> QED  BY <1>5, <1>6, <1>8 DEF Agreeing

\* The plan's put, when the log says everything.
LEMMA PlanPutAgrees ==
  ASSUME NEW L, NEW st, NEW pl, NEW n, NEW k, Agreeing(k, L, st, pl, n), k.pc = "write",
         k.events = <<>>, k.puts = <<>>, k.planput # Null, k.planput.plan \in Plans, k.planput.rec # Null,
         NEW m, m.pc = "write", m.events = <<>>, m.puts = <<>>, m.planput = Null,
         NEW pn, \A p \in Plans : pn[p] = IF p = k.planput.plan THEN k.planput.rec ELSE pl[p]
  PROVE  Agreeing(m, L, st, pn, n)
<1>1. EventsOrdered(k, L, n) /\ PutsAgree(k, L, st) /\ PlanAgrees(k, L, pl)
  BY DEF Agreeing
<1>2. EventsOrdered(m, L, n)
  BY <1>1 DEF EventsOrdered
<1>3. PutsAgree(m, L, st)
  BY <1>1 DEF PutsAgree
<1>4. PlanAgrees(m, L, pn)
  BY <1>1 DEF PlanAgrees
<1> QED  BY <1>2, <1>3, <1>4 DEF Agreeing

\* What a command reads is what the log says, and so is what it goes on to write.
LEMMA ProjReads ==
  ASSUME IInv, QuotaInv, ProjInv, NEW s \in Sessions,
         ReadTarget(s) \/ ReadPlan(s) \/ ScanIndex(s) \/ ReadSibling(s)
  PROVE  ProjInv'
<1> SUFFICES ASSUME ~torn', ~mixed' PROVE ProjInv'
  BY DEF ProjInv
<1>1. ~torn /\ ~mixed /\ UNCHANGED <<log, store, plans, torn>>
  <2>1. UNCHANGED <<log, store, plans, torn>> /\ \E m : Mixes(s, m)
    BY DEF ReadTarget, ReadPlan, ScanIndex, ReadSibling, Run, Decide, Becomes
  <2> QED  BY <2>1, Alone
<1>2. PICK k : k = call[s]
  OBVIOUS
<1>3. k.pc \in {"target", "plan", "scan", "siblings"}
  BY <1>2 DEF ReadTarget, ReadPlan, ScanIndex, ReadSibling
<1>4. PICK L, st, pl, n : L = log /\ st = store /\ pl = plans /\ n = minted
  OBVIOUS
<1>5. /\ CallOK(k, L, st) /\ k \in CallT /\ Fresh(k, st, pl)
      /\ LogOrdered(L, n) /\ Agrees(L, st, pl) /\ ReadsAgree(k, st)
  BY <1>1, <1>2, <1>3, <1>4, AgreesInHand DEF Agreeing
<1>6. /\ k.id \in Ids /\ k.tool \in {"confirm", "report", "void", "policy"}
      /\ n \in Nat /\ pl \in [Plans -> Plan \cup {Null}] /\ st \in [Ids -> Reservation \cup {Null}]
  BY <1>3, <1>4, <1>5 DEF CallOK, ShapeOK, IInv, Types4
<1>7. ASSUME NEW m, Becomes(s, m), UNCHANGED minted, m.pc # "write", ReadsAgree(m, st)
      PROVE  ProjInv'
  <2>1. Agreeing(m, L, st, pl, n)
    BY <1>5, <1>7 DEF Agreeing
  <2>2. minted' = n /\ n <= n
    BY <1>4, <1>6, <1>7
  <2> QED  BY <1>1, <1>4, <1>6, <1>7, <2>1, <2>2, NothingWritten
<1>8. ASSUME NEW h, h.tool = k.tool, h.id = k.id, h.rec \in Reservation, st[h.id] = h.rec,
             NEW planrec, planrec = Null \/ planrec \in Plan, planrec # Null => h.rec.plan \in Plans,
             NEW sibs \in SUBSET Put, IsFiniteSet(sibs), SiblingsAre(sibs, h.id, h.rec.plan, st),
             Run(s, h, planrec, sibs)
      PROVE  ProjInv'
  <2>1. minted \in Nat /\ LogOrdered(L, minted)
    BY <1>4, <1>5, <1>6
  <2>2. minted' \in Nat /\ minted <= minted' /\ \E o : Becomes(s, o) /\ Agreeing(o, L, st, pl, minted')
    BY <1>5, <1>6, <1>8, <2>1, RunAgrees
  <2> QED  BY <1>1, <1>4, <2>2, NothingWritten
<1>9. \A i : SiblingsAre({}, k.id, i, st)
  BY DEF SiblingsAre
<1>10. CASE ReadTarget(s)
  <2>1. k.pc = "target" /\ k.sibs = {}
    BY <1>2, <1>5, <1>10 DEF ReadTarget, ReadsAgree
  <2>2. PICK r : r = st[k.id]
    OBVIOUS
  <2> DEFINE h == [k EXCEPT !.rec = r]
  <2>3. CASE Becomes(s, Idle) /\ UNCHANGED minted
    BY <1>7, <2>3 DEF Idle, ReadsAgree
  <2>4. ASSUME r # Null
        PROVE  r \in Reservation /\ h \in CallT /\ h.tool = k.tool /\ h.id = k.id /\ h.rec = r /\ h.sibs = {}
    <3>1. r \in Reservation
      BY <1>6, <2>2, <2>4
    <3> QED  BY <1>5, <2>1, <3>1 DEF CallT
  <2>5. CASE r # Null /\ Run(s, h, Null, {})
    <3> HIDE DEF h
    <3>1. SiblingsAre({}, h.id, h.rec.plan, st)
      BY <1>9, <2>4, <2>5
    <3> QED  BY <1>8, <2>2, <2>4, <2>5, <3>1, FS_EmptySet
  <2>6. CASE r # Null /\ Becomes(s, [h EXCEPT !.pc = "plan"]) /\ UNCHANGED minted
    <3> DEFINE m == [h EXCEPT !.pc = "plan"]
    <3> HIDE DEF h
    <3>1. m.pc = "plan" /\ m.sibs = {}
      BY <2>4, <2>6 DEF CallT
    <3>2. Becomes(s, m)
      BY <2>6
    <3> HIDE DEF m
    <3>3. ReadsAgree(m, st)
      BY <3>1 DEF ReadsAgree
    <3> QED  BY <1>7, <2>6, <3>1, <3>2, <3>3
  <2>7. \/ Becomes(s, Idle) /\ UNCHANGED minted
        \/ r # Null /\ Run(s, h, Null, {})
        \/ r # Null /\ Becomes(s, [h EXCEPT !.pc = "plan"]) /\ UNCHANGED minted
    BY <1>2, <1>4, <1>10, <2>2 DEF ReadTarget
  <2> QED  BY <2>3, <2>5, <2>6, <2>7
<1>11. ASSUME k.pc \in {"plan", "scan", "siblings"}
       PROVE  k.rec \in Reservation /\ k.rec.plan \in Plans /\ st[k.id] = k.rec
  BY <1>5, <1>11 DEF CallOK, ShapeOK, Fresh
<1>12. CASE ReadPlan(s)
  <2>1. k.pc = "plan" /\ k.sibs = {}
    BY <1>2, <1>5, <1>12 DEF ReadPlan, ReadsAgree
  <2>2. PICK planrec : planrec = pl[k.rec.plan]
    OBVIOUS
  <2>3. CASE Run(s, k, Null, {})
    BY <1>8, <1>9, <1>11, <2>1, <2>3, FS_EmptySet
  <2>4. CASE Becomes(s, [k EXCEPT !.pc = "scan", !.planrec = planrec]) /\ UNCHANGED minted
    <3> DEFINE m == [k EXCEPT !.pc = "scan", !.planrec = planrec]
    <3>1. m.pc = "scan" /\ m.sibs = {}
      BY <1>5, <2>1 DEF CallT
    <3>2. Becomes(s, m)
      BY <2>4
    <3> HIDE DEF m
    <3>3. ReadsAgree(m, st)
      BY <3>1 DEF ReadsAgree
    <3> QED  BY <1>7, <2>4, <3>1, <3>2, <3>3
  <2>5. \/ Run(s, k, Null, {})
        \/ Becomes(s, [k EXCEPT !.pc = "scan", !.planrec = planrec]) /\ UNCHANGED minted
    BY <1>2, <1>4, <1>12, <2>2 DEF ReadPlan
  <2> QED  BY <2>3, <2>4, <2>5
<1>13. CASE ScanIndex(s)
  <2>1. k.pc = "scan" /\ k.sibs = {}
    BY <1>2, <1>5, <1>13 DEF ScanIndex, ReadsAgree
  <2>2. k.planrec \in Plan
    BY <1>5, <2>1 DEF CallOK, ShapeOK
  <2>3. PICK found : found = {i \in Ids \ {k.id} : st[i] # Null /\ st[i].plan = k.rec.plan}
    OBVIOUS
  <2>4. CASE Run(s, k, k.planrec, {})
    BY <1>8, <1>9, <1>11, <2>1, <2>2, <2>4, FS_EmptySet
  <2>5. CASE Becomes(s, [k EXCEPT !.pc = "siblings", !.todo = found]) /\ UNCHANGED minted
    <3> DEFINE m == [k EXCEPT !.pc = "siblings", !.todo = found]
    <3>1. /\ m.pc = "siblings" /\ m.id = k.id /\ m.rec = k.rec /\ m.sibs = {} /\ m.todo = found
      BY <1>5, <2>1 DEF CallT
    <3>2. Becomes(s, m)
      BY <2>5
    <3> HIDE DEF m
    <3>3. ReadsAgree(m, st)
      BY <2>3, <3>1 DEF ReadsAgree, SiblingsAre
    <3> QED  BY <1>7, <2>5, <3>1, <3>2, <3>3
  <2>6. \/ Run(s, k, k.planrec, {})
        \/ Becomes(s, [k EXCEPT !.pc = "siblings", !.todo = found]) /\ UNCHANGED minted
    BY <1>2, <1>4, <1>13, <2>3 DEF ScanIndex
  <2> QED  BY <2>4, <2>5, <2>6
<1>14. CASE ReadSibling(s)
  <2>1. k.pc = "siblings"
    BY <1>2, <1>14 DEF ReadSibling
  <2>2. /\ k.planrec \in Plan /\ IsFiniteSet(k.sibs) /\ k.sibs \subseteq Put /\ k.todo \subseteq Ids
        /\ \A i \in k.todo : st[i] # Null /\ i # k.id /\ st[i].plan = k.rec.plan
        /\ SiblingsAre(k.sibs, k.id, k.rec.plan, st)
    BY <1>5, <2>1 DEF CallOK, ShapeOK, ReadsOK, ReadsAgree, CallT
  <2>3. PICK i \in k.todo :
          LET sibs == k.sibs \cup {[id |-> i, rec |-> st[i]]} IN
          IF k.todo = {i} THEN Run(s, k, k.planrec, sibs)
          ELSE Becomes(s, [k EXCEPT !.todo = @ \ {i}, !.sibs = sibs]) /\ UNCHANGED minted
    BY <1>2, <1>4, <1>14 DEF ReadSibling
  <2>4. PICK w : w = [id |-> i, rec |-> st[i]]
    OBVIOUS
  <2>5. PICK sibs : sibs = k.sibs \cup {w}
    OBVIOUS
  <2>6. w \in Put /\ w.id = i /\ w.rec = st[i]
    <3>1. i \in Ids /\ st[i] \in Reservation
      BY <1>6, <2>2
    <3> QED  BY <2>4, <3>1 DEF Put
  <2>7. sibs \in SUBSET Put /\ IsFiniteSet(sibs)
    BY <2>2, <2>5, <2>6, FS_AddElement
  <2>8. SiblingsAre(sibs, k.id, k.rec.plan, st)
    BY <2>2, <2>5, <2>6 DEF SiblingsAre
  <2>9. CASE Run(s, k, k.planrec, sibs)
    BY <1>8, <1>11, <2>1, <2>2, <2>7, <2>8, <2>9
  <2>10. CASE Becomes(s, [k EXCEPT !.todo = @ \ {i}, !.sibs = sibs]) /\ UNCHANGED minted
    <3> DEFINE m == [k EXCEPT !.todo = @ \ {i}, !.sibs = sibs]
    <3>1. /\ m.pc = "siblings" /\ m.id = k.id /\ m.rec = k.rec /\ m.sibs = sibs /\ m.todo = k.todo \ {i}
      BY <1>5, <2>1 DEF CallT
    <3>2. Becomes(s, m)
      BY <2>10
    <3> HIDE DEF m
    <3>3. ReadsAgree(m, st)
      BY <2>2, <2>8, <3>1 DEF ReadsAgree
    <3> QED  BY <1>7, <2>10, <3>1, <3>2, <3>3
  <2> QED  BY <2>3, <2>4, <2>5, <2>9, <2>10
<1> QED  BY <1>10, <1>12, <1>13, <1>14

\* A call that writes: an event, a reservation, the plan and the notice in turn.
LEMMA ProjWrites ==
  ASSUME IInv, QuotaInv, ProjInv, NEW s \in Sessions,
         AppendEvent(s) \/ PutReservation(s) \/ PutPlan(s) \/ Enqueue(s) \/ Crash(s)
  PROVE  ProjInv'
<1> SUFFICES ASSUME ~torn', ~mixed' PROVE ProjInv'
  BY DEF ProjInv
<1>1. ~torn /\ ~mixed /\ UNCHANGED minted
  <2>1. UNCHANGED minted /\ \E m : Mixes(s, m)
    BY DEF AppendEvent, PutReservation, PutPlan, Enqueue, Crash, Becomes
  <2>2. torn' = torn \/ torn' = (torn \/ call[s].pc = "write")
    BY DEF AppendEvent, PutReservation, PutPlan, Enqueue, Crash
  <2>3. ~torn
    BY <2>2, Zenon
  <2>4. ~mixed
    BY <2>1, Alone
  <2> QED  BY <2>1, <2>3, <2>4
<1>2. PICK k : k = call[s]
  OBVIOUS
<1>3. PICK L, st, pl, n : L = log /\ st = store /\ pl = plans /\ n = minted
  OBVIOUS
<1>4. n \in Nat /\ st \in [Ids -> Reservation \cup {Null}] /\ pl \in [Plans -> Plan \cup {Null}]
  BY <1>3 DEF IInv, Types4
<1>5. ASSUME k.pc # "idle"
      PROVE  k \in CallT /\ LogOrdered(L, n) /\ Agreeing(k, L, st, pl, n)
  BY <1>1, <1>2, <1>3, <1>5, AgreesInHand
<1>6. ASSUME NEW m, Becomes(s, m), NEW Ln, NEW sn, NEW pn, log' = Ln, store' = sn, plans' = pn,
             LogOrdered(Ln, n), Agreeing(m, Ln, sn, pn, n)
      PROVE  ProjInv'
  <2>1. minted' = n
    BY <1>1, <1>3
  <2>2. LogOrdered(log', minted') /\ Agreeing(m, log', store', plans', minted')
    BY <1>6, <2>1
  <2> QED  BY <1>6, <2>2, OnlyCall
<1>7. CASE AppendEvent(s)
  <2>1. PICK e : e = Head(k.events)
    OBVIOUS
  <2> DEFINE m == [k EXCEPT !.events = Tail(k.events)]
  <2>2. /\ k.pc = "write" /\ k.events # <<>> /\ Becomes(s, m)
        /\ log' = L \cup {e} /\ store' = st /\ plans' = pl
    BY <1>2, <1>3, <1>7, <2>1 DEF AppendEvent
  <2>3. /\ m.pc = "write" /\ m.events = Tail(k.events) /\ m.puts = k.puts /\ m.planput = k.planput
        /\ k.events \in Seq(EventT)
    BY <1>5, <2>2 DEF CallT
  <2> HIDE DEF m
  <2>4. LogOrdered(L \cup {e}, n) /\ Agreeing(m, L \cup {e}, st, pl, n)
    BY <1>4, <1>5, <2>1, <2>2, <2>3, AppendAgrees
  <2> QED  BY <1>6, <2>2, <2>4
<1>8. CASE PutReservation(s)
  <2>1. PICK w : w = Head(k.puts)
    OBVIOUS
  <2> DEFINE m == [k EXCEPT !.puts = Tail(k.puts)]
  <2>2. /\ k.pc = "write" /\ k.events = <<>> /\ k.puts # <<>> /\ Becomes(s, m)
        /\ log' = L /\ store' = [st EXCEPT ![w.id] = w.rec] /\ plans' = pl
    BY <1>2, <1>3, <1>8, <2>1 DEF PutReservation
  <2>3. /\ m.pc = "write" /\ m.events = <<>> /\ m.puts = Tail(k.puts) /\ m.planput = k.planput
        /\ k.puts \in Seq(Put)
    BY <1>5, <2>2 DEF CallT
  <2> HIDE DEF m
  <2>4. PICK sn : sn = store'
    OBVIOUS
  <2>5. \A i \in Ids : sn[i] = IF i = w.id THEN w.rec ELSE st[i]
    BY <1>4, <2>2, <2>4
  <2>6. Agreeing(m, L, sn, pl, n)
    BY <1>5, <2>1, <2>2, <2>3, <2>5, PutAgrees
  <2> QED  BY <1>5, <1>6, <2>2, <2>4, <2>6
<1>9. CASE PutPlan(s)
  <2> DEFINE m == [k EXCEPT !.planput = Null]
  <2>1. /\ k.pc = "write" /\ k.events = <<>> /\ k.puts = <<>> /\ k.planput # Null /\ Becomes(s, m)
        /\ log' = L /\ store' = st /\ plans' = [pl EXCEPT ![k.planput.plan] = k.planput.rec]
    BY <1>2, <1>3, <1>9 DEF PutPlan
  <2>2. /\ m.pc = "write" /\ m.events = <<>> /\ m.puts = <<>> /\ m.planput = Null
        /\ k.planput.plan \in Plans /\ k.planput.rec \in Plan /\ k.planput.rec # Null
    BY <1>5, <2>1, NullAssumption DEF CallT, PlanPutT
  <2> HIDE DEF m
  <2>3. PICK pn : pn = plans'
    OBVIOUS
  <2>4. \A p \in Plans : pn[p] = IF p = k.planput.plan THEN k.planput.rec ELSE pl[p]
    BY <1>4, <2>1, <2>3
  <2>5. Agreeing(m, L, st, pn, n)
    BY <1>5, <2>1, <2>2, <2>4, PlanPutAgrees
  <2> QED  BY <1>5, <1>6, <2>1, <2>3, <2>5
<1>10. CASE Enqueue(s)
  <2> DEFINE m == [k EXCEPT !.notice = Null]
  <2>1. /\ k.pc = "write" /\ k.events = <<>> /\ k.puts = <<>> /\ k.planput = Null /\ Becomes(s, m)
        /\ log' = L /\ store' = st /\ plans' = pl
    BY <1>2, <1>3, <1>10 DEF Enqueue
  <2>2. m.pc = "write" /\ m.events = k.events /\ m.puts = k.puts /\ m.planput = k.planput
    BY <1>5, <2>1 DEF CallT
  <2> HIDE DEF m
  <2>3. EventsOrdered(k, L, n) /\ PutsAgree(k, L, st) /\ PlanAgrees(k, L, pl)
    BY <1>5, <2>1 DEF Agreeing
  <2>4. EventsOrdered(m, L, n)
    BY <2>2, <2>3 DEF EventsOrdered
  <2>5. PutsAgree(m, L, st)
    BY <2>2, <2>3 DEF PutsAgree
  <2>6. PlanAgrees(m, L, pl)
    BY <2>2, <2>3 DEF PlanAgrees
  <2>7. Agreeing(m, L, st, pl, n)
    BY <2>2, <2>4, <2>5, <2>6 DEF Agreeing
  <2> QED  BY <1>5, <1>6, <2>1, <2>7
<1>11. CASE Crash(s)
  <2>1. k.pc # "idle" /\ k.pc # "write" /\ Becomes(s, Idle) /\ log' = L /\ store' = st /\ plans' = pl
    BY <1>2, <1>3, <1>11 DEF Crash, Busy
  <2>2. Agreeing(Idle, L, st, pl, n)
    BY <1>5, <2>1, IdleAgrees DEF Agreeing
  <2> QED  BY <1>5, <1>6, <2>1, <2>2
<1> QED  BY <1>7, <1>8, <1>9, <1>10, <1>11

\* At the start nothing is stored and nothing is logged.
LEMMA ProjInit == Init => ProjInv
<1> SUFFICES ASSUME Init PROVE LogOrdered(log, minted) /\ Agrees(log, store, plans) /\ Busy = {}
  BY DEF ProjInv
<1>1. log = {} /\ Busy = {}
  BY DEF Init, Busy, Idle
<1>2. \A i : About({}, i) = {}
  BY DEF About
<1>3. \A i \in Ids : store[i] = FoldEvents(About({}, i))
  BY <1>2, FoldOfNone DEF Init
<1>4. Agrees({}, store, plans)
  BY <1>3 DEF Init, Agrees, SettledIn
<1> QED  BY <1>1, <1>4 DEF LogOrdered

\* Every step keeps the invariant.
LEMMA ProjNext == IInv /\ QuotaInv /\ ProjInv /\ [Next]_vars => ProjInv'
<1> SUFFICES ASSUME IInv, QuotaInv, ProjInv, [Next]_vars PROVE ProjInv'
  OBVIOUS
<1>1. CASE Next
  <2>1. PICK s \in Sessions :
          \/ CreatePlan(s) \/ CreateReservation(s) \/ AddInline(s)
          \/ Link(s) \/ LinkExisting(s) \/ Command(s)
          \/ ReadTarget(s) \/ ReadPlan(s) \/ ScanIndex(s) \/ ReadSibling(s)
          \/ AppendEvent(s) \/ PutReservation(s) \/ PutPlan(s) \/ Enqueue(s) \/ Crash(s)
    BY <1>1 DEF Next
  <2> QED  BY <2>1, ProjCreates, ProjStarts, ProjReads, ProjWrites
<1>2. CASE UNCHANGED vars
  <2>1. PICK L, st, pl, n, c : L = log /\ st = store /\ pl = plans /\ n = minted /\ c = call
    OBVIOUS
  <2>2. log' = L /\ store' = st /\ plans' = pl /\ minted' = n /\ call' = c
        /\ UNCHANGED <<torn, mixed>> /\ Busy' = Busy
    BY <1>2, <2>1 DEF vars, Busy
  <2>3. ~torn /\ ~mixed => /\ LogOrdered(L, n)
                           /\ Busy = {} => Agrees(L, st, pl)
                           /\ \A s \in Busy : Agreeing(c[s], L, st, pl, n)
    BY <2>1 DEF ProjInv
  <2> QED  BY <2>2, <2>3 DEF ProjInv
<1> QED  BY <1>1, <1>2

\* One call after the other, with no call cut short while it was writing and no existing
\* reservation linked, folding the event log gives back every stored reservation and
\* every settled plan: verify-projection finds no mismatch.
THEOREM ProjectionCorrect == Spec => []ProjectionAgrees
<1>1. ASSUME ProjInv, ~torn, ~mixed, Busy = {}
      PROVE  VerifyProjection
  <2>1. Agrees(log, store, plans)
    BY <1>1 DEF ProjInv
  <2> QED  BY <2>1 DEF Agrees, VerifyProjection, FoldReservation, About, FoldedSettled, SettledIn
<1>2. ProjInv => ProjectionAgrees
  BY <1>1 DEF ProjectionAgrees
<1> QED  BY <1>2, InitOK, NextOK, QuotaInit, QuotaNext, ProjInit, ProjNext, PTL DEF Spec

-----------------------------------------------------------------------------
(* RemoteTools, for any number of calls, rows, places, times and policies,  *)
(* and any way to fold names into places.                                  *)

\* Calls under way together have raced.
AloneOrRaced ==
  \A c, d \in Sessions : c # d /\ asks[c] # Null /\ asks[d] # Null => asks[c].raced

\* A call that checked for a duplicate, and was alone since, finds at most rows that were
\* brought back or changed after its check.
CheckHolds ==
  \A c \in Sessions : asks[c] # Null /\ asks[c].pc # "list" /\ ~asks[c].free /\ ~asks[c].raced =>
    \A i \in R!Live : R!SameBooking(i, asks[c].name, asks[c].at) => rows[i].free

\* What a lookup has kept is there, what is there it has had; it goes on to the scan
\* because its own spelling was missing.
LookupOK(k) ==
  /\ k.pc \in {"list", "post", "exact", "scan"} => k.got = Null
  /\ k.pc \in {"exact", "scan"} =>
       /\ k.kept \subseteq R!Known(k.name)
       /\ \A m \in R!Known(k.name) : <<m, templates[m]>> \in k.had
  /\ k.pc = "scan" => k.name \notin k.kept

\* The same of every call under way.
LookupsOK == \A c \in Sessions : asks[c] # Null => LookupOK(asks[c])

\* The inductive invariant.
RemoteInv ==
  R!TypeOK /\ AloneOrRaced /\ CheckHolds /\ LookupsOK /\ R!NoSecondRow /\ R!TaughtPolicyApplies

-----------------------------------------------------------------------------
\* A call that goes to another step, or is over, keeps the types.
LEMMA CallTypes ==
  ASSUME R!TypeOK, NEW c \in Sessions, asks[c] # Null
  PROVE  asks[c] \in R!CallState
  BY DEF R!TypeOK

\* Another request's change of a row leaves it gone, not live or marked as free.
LEMMA RowChanged ==
  ASSUME R!TypeOK, NEW i \in 1 .. MaxRows, R!ChangeRow(i)
  PROVE  \E r \in R!Row \cup {Null} :
           rows' = [rows EXCEPT ![i] = r] /\ (r # Null => ~r.live \/ r.free)
<1>1. rows \in [1 .. MaxRows -> R!Row \cup {Null}] /\ rows[i] \in R!Row
  BY DEF R!ChangeRow, R!TypeOK
<1>2. CASE rows' = [rows EXCEPT ![i].live = FALSE]
  <2>1. [rows[i] EXCEPT !.live = FALSE] \in R!Row /\ ~[rows[i] EXCEPT !.live = FALSE].live
    BY <1>1 DEF R!Row
  <2> QED
    BY <1>2, <2>1
<1>3. CASE rows' = [rows EXCEPT ![i].live = TRUE, ![i].free = TRUE]
  <2> DEFINE r == [rows[i] EXCEPT !.live = TRUE, !.free = TRUE]
  <2>1. r \in R!Row /\ r.free
    BY <1>1 DEF R!Row
  <2>2. rows' = [rows EXCEPT ![i] = r]
    BY <1>1, <1>3
  <2> QED
    BY <2>1, <2>2
<1>4. ASSUME NEW n \in Names, NEW t \in Times,
             rows' = [rows EXCEPT ![i].name = n, ![i].at = t, ![i].free = TRUE]
      PROVE  \E r \in R!Row : rows' = [rows EXCEPT ![i] = r] /\ r.free
  <2> DEFINE r == [rows[i] EXCEPT !.name = n, !.at = t, !.free = TRUE]
  <2>1. r \in R!Row /\ r.free
    BY <1>1 DEF R!Row
  <2>2. rows' = [rows EXCEPT ![i] = r]
    BY <1>1, <1>4
  <2> QED
    BY <2>1, <2>2
<1>5. CASE rows' = [rows EXCEPT ![i] = Null]
  BY <1>5
<1> QED
  BY <1>2, <1>3, <1>4, <1>5 DEF R!ChangeRow

\* The types hold at the start, and every step keeps them.
LEMMA RemoteInit == ASSUME R!Init PROVE R!TypeOK
  BY RemoteToolsOK DEF R!Init, R!TypeOK, R!RemoteToolsAssumption

\* No step takes a variable out of its type.
LEMMA RemoteTypes == ASSUME R!TypeOK, LookupsOK, [R!Next]_(R!vars) PROVE R!TypeOK'
<1> USE DEF R!Goto
<1>1. CASE UNCHANGED R!vars
  BY <1>1 DEF R!vars, R!TypeOK
<1>2. ASSUME NEW c \in Sessions, NEW n \in Names, NEW t \in Times, NEW given \in BOOLEAN, NEW free \in BOOLEAN,
             R!Create(c, n, t, given, free)
      PROVE  R!TypeOK'
  <2> DEFINE raced == R!Busy # {}
             k == [pc |-> IF free THEN "post" ELSE "list", name |-> n, at |-> t, given |-> given,
                   got |-> Null, free |-> free, raced |-> raced, kept |-> {}, had |-> {}]
  <2>1. k \in R!CallState
    BY DEF R!CallState
  <2>2. ASSUME NEW d \in Sessions, asks[d] # Null PROVE [asks[d] EXCEPT !.raced = TRUE] \in R!CallState
    BY <2>2, CallTypes DEF R!CallState
  <2>3. asks' = [d \in Sessions |-> IF d = c THEN k
                                 ELSE IF asks[d] = Null THEN Null ELSE [asks[d] EXCEPT !.raced = TRUE]]
    BY <1>2 DEF R!Create
  <2>4. asks' \in [Sessions -> R!CallState \cup {Null}]
    BY <2>1, <2>2, <2>3
  <2>5. changes' \in 0 .. MaxChanges
    BY <1>2, RemoteToolsOK DEF R!Create, R!Change, R!TypeOK, R!RemoteToolsAssumption
  <2> QED
    BY <1>2, <2>4, <2>5 DEF R!Create, R!TypeOK
<1>3. ASSUME NEW c \in Sessions, R!List(c) PROVE R!TypeOK'
  <2>1. [asks[c] EXCEPT !.pc = "post"] \in R!CallState
    BY <1>3, CallTypes DEF R!List, R!CallState
  <2> QED
    BY <1>3, <2>1 DEF R!List, R!TypeOK
<1>4. ASSUME NEW c \in Sessions, R!Post(c) PROVE R!TypeOK'
  <2> DEFINE had == {<<m, templates[m]>> : m \in R!Known(asks[c].name)}
  <2>1. asks[c] \in R!CallState
    BY <1>4, CallTypes DEF R!Post
  <2>2. had \subseteq Names \X FeeTables
    BY DEF R!Known, R!TypeOK
  <2>3. /\ [asks[c] EXCEPT !.pc = "write"] \in R!CallState
        /\ [asks[c] EXCEPT !.pc = "exact", !.kept = R!Known(asks[c].name), !.had = had] \in R!CallState
    BY <2>1, <2>2 DEF R!CallState, R!Known
  <2> QED
    BY <1>4, <2>3 DEF R!Post, R!TypeOK
<1>5. ASSUME NEW c \in Sessions, R!Exact(c) PROVE R!TypeOK'
  <2> DEFINE found == templates[asks[c].name]
  <2>1. asks[c] \in R!CallState
    BY <1>5, CallTypes DEF R!Exact
  <2>2. found \in FeeTables \cup {Null}
    BY <2>1 DEF R!CallState, R!TypeOK
  <2>3. [asks[c] EXCEPT !.got = found, !.pc = IF found = Null THEN "scan" ELSE "write"] \in R!CallState
    BY <2>1, <2>2 DEF R!CallState
  <2> QED
    BY <1>5, <2>3 DEF R!Exact, R!TypeOK
<1>6. ASSUME NEW c \in Sessions, R!Scan(c) PROVE R!TypeOK'
  <2>1. asks[c] \in R!CallState
    BY <1>6, CallTypes DEF R!Scan
  <2>2. [asks[c] EXCEPT !.pc = "write"] \in R!CallState
    BY <2>1 DEF R!CallState
  <2>3. ASSUME NEW m \in R!Known(asks[c].name)
        PROVE  [asks[c] EXCEPT !.got = templates[m], !.pc = "write"] \in R!CallState
    BY <2>1 DEF R!CallState, R!Known, R!TypeOK
  <2> QED
    BY <1>6, <2>2, <2>3 DEF R!Scan, R!TypeOK
<1>7. ASSUME NEW c \in Sessions, R!Write(c) PROVE R!TypeOK'
  <2>1. asks[c] \in R!CallState
    BY <1>7, CallTypes DEF R!Write
  <2>2. [name |-> asks[c].name, at |-> asks[c].at, live |-> TRUE,
         free |-> asks[c].free, raced |-> asks[c].raced] \in R!Row
    BY <2>1 DEF R!CallState, R!Row
  <2> QED
    BY <1>7, <2>2 DEF R!Write, R!Vacant, R!TypeOK
<1>8. ASSUME NEW c \in Sessions, R!Fail(c) PROVE R!TypeOK'
  BY <1>8 DEF R!Fail, R!TypeOK
<1>9. ASSUME NEW i \in 1 .. MaxRows, R!ChangeRow(i) PROVE R!TypeOK'
  <2>1. rows' \in [1 .. MaxRows -> R!Row \cup {Null}]
    BY <1>9, RowChanged DEF R!TypeOK
  <2>2. changes' \in 0 .. MaxChanges
    <3>1. R!Change
      BY <1>9 DEF R!ChangeRow
    <3> QED
      BY <3>1, RemoteToolsOK DEF R!Change, R!TypeOK, R!RemoteToolsAssumption
  <2>3. UNCHANGED <<templates, asks>>
    BY <1>9 DEF R!ChangeRow
  <2> QED
    BY <2>1, <2>2, <2>3 DEF R!TypeOK
<1>10. ASSUME NEW n \in Names, NEW p \in FeeTables \cup {Null}, R!ChangeTemplate(n, p) PROVE R!TypeOK'
  <2>1. ASSUME NEW c \in Sessions PROVE R!Seen(asks[c], n, p) \in R!CallState \cup {Null}
    <3>1. CASE asks[c] = Null
      BY <3>1 DEF R!Seen
    <3>2. CASE asks[c] # Null
      <4>1. asks[c] \in R!CallState
        BY <3>2, CallTypes
      <4>2. [asks[c] EXCEPT !.kept = @ \ {n}] \in R!CallState
        BY <4>1 DEF R!CallState
      <4>3. p \in FeeTables => [asks[c] EXCEPT !.had = @ \cup {<<n, p>>}] \in R!CallState
        BY <4>1 DEF R!CallState
      <4> QED
        BY <4>1, <4>2, <4>3 DEF R!Seen
    <3> QED
      BY <3>1, <3>2
  <2>2. asks' \in [Sessions -> R!CallState \cup {Null}]
    BY <1>10, <2>1 DEF R!ChangeTemplate
  <2>3. changes' \in 0 .. MaxChanges
    BY <1>10, RemoteToolsOK DEF R!ChangeTemplate, R!Change, R!TypeOK, R!RemoteToolsAssumption
  <2> QED
    BY <1>10, <2>2, <2>3 DEF R!ChangeTemplate, R!TypeOK
<1> QED
  BY <1>1, <1>2, <1>3, <1>4, <1>5, <1>6, <1>7, <1>8, <1>9, <1>10 DEF R!Next, R!SaveTemplate, R!DeleteTemplate
-----------------------------------------------------------------------------
\* What a call under way is, before and after a step that is not its creation.
Follows(k, l) ==
  l # Null => /\ k # Null
              /\ <<l.name, l.at, l.given, l.free, l.raced>> = <<k.name, k.at, k.given, k.free, k.raced>>
              /\ k.pc # "list" => l.pc # "list"

\* Every step of a call, and every change of a template, leaves what was asked.
LEMMA CallsFollow ==
  ASSUME R!TypeOK, NEW d \in Sessions,
         \/ \E c \in Sessions : R!List(c) \/ R!Post(c) \/ R!Exact(c) \/ R!Scan(c) \/ R!Write(c) \/ R!Fail(c)
         \/ \E n \in Names, p \in FeeTables \cup {Null} : R!ChangeTemplate(n, p)
  PROVE  Follows(asks[d], asks'[d])
<1>1. asks \in [Sessions -> R!CallState \cup {Null}]
  BY DEF R!TypeOK
<1>2. ASSUME NEW c \in Sessions, R!List(c) PROVE Follows(asks[d], asks'[d])
  BY <1>1, <1>2 DEF R!List, R!Goto, Follows, R!CallState
<1>3. ASSUME NEW c \in Sessions, R!Post(c) PROVE Follows(asks[d], asks'[d])
  <2> DEFINE kept == R!Known(asks[c].name)
             had == {<<m, templates[m]>> : m \in R!Known(asks[c].name)}
             k == [asks[c] EXCEPT !.pc = "exact", !.kept = kept, !.had = had]
  <2>1. asks[c] \in R!CallState
    BY <1>3, CallTypes DEF R!Post
  <2>2. CASE R!Goto(c, "write")
    BY <1>1, <1>3, <2>2 DEF R!Post, R!Goto, Follows, R!CallState
  <2>3. CASE asks' = [asks EXCEPT ![c] = k]
    <3>1. Follows(asks[c], k)
      <4> HIDE DEF kept, had
      <4> QED
        BY <1>3, <2>1 DEF R!Post, Follows, R!CallState
    <3>2. CASE c = d
      <4>1. asks'[d] = k
        BY <1>1, <2>3, <3>2
      <4> QED
        BY <3>1, <3>2, <4>1
    <3>3. CASE c # d
      <4>1. asks'[d] = asks[d]
        BY <1>1, <2>3, <3>3
      <4> QED
        BY <4>1 DEF Follows
    <3> QED
      BY <3>2, <3>3
  <2> QED
    BY <1>1, <1>3, <2>2, <2>3 DEF R!Post
<1>4. ASSUME NEW c \in Sessions, R!Exact(c) PROVE Follows(asks[d], asks'[d])
  BY <1>1, <1>4 DEF R!Exact, Follows, R!CallState
<1>5. ASSUME NEW c \in Sessions, R!Scan(c) PROVE Follows(asks[d], asks'[d])
  <2>1. CASE R!Goto(c, "write")
    <3>1. asks[c] \in R!CallState /\ asks[c] # Null
      BY <1>5, CallTypes DEF R!Scan
    <3> QED
      BY <1>1, <2>1, <3>1 DEF R!Goto, Follows, R!CallState
  <2>2. ASSUME NEW m \in R!Known(asks[c].name), asks' = [asks EXCEPT ![c].got = templates[m], ![c].pc = "write"]
        PROVE  Follows(asks[d], asks'[d])
    <3> DEFINE got == templates[m]
    <3> HIDE DEF got
    <3>1. asks' = [asks EXCEPT ![c].got = got, ![c].pc = "write"]
      BY <2>2 DEF got
    <3>2. asks[c] \in R!CallState /\ asks[c] # Null
      BY <1>5, CallTypes DEF R!Scan
    <3>3. Follows(asks[c], [asks[c] EXCEPT !.got = got, !.pc = "write"])
      BY <3>2 DEF Follows, R!CallState
    <3>4. CASE c = d
      <4>1. asks'[d] = [asks[c] EXCEPT !.got = got, !.pc = "write"]
        BY <1>1, <3>1, <3>4
      <4> QED
        BY <3>3, <3>4, <4>1
    <3>5. CASE c # d
      <4>1. asks'[d] = asks[d]
        BY <1>1, <3>1, <3>5
      <4> QED
        BY <4>1 DEF Follows
    <3> QED
      BY <3>4, <3>5
  <2> QED
    BY <1>5, <2>1, <2>2 DEF R!Scan
<1>6. ASSUME NEW c \in Sessions, R!Write(c) \/ R!Fail(c) PROVE Follows(asks[d], asks'[d])
  BY <1>1, <1>6 DEF R!Write, R!Fail, Follows
<1>7. ASSUME NEW n \in Names, NEW p \in FeeTables \cup {Null}, R!ChangeTemplate(n, p)
      PROVE  Follows(asks[d], asks'[d])
  BY <1>1, <1>7 DEF R!ChangeTemplate, R!Seen, Follows, R!CallState
<1> QED
  BY <1>2, <1>3, <1>4, <1>5, <1>6, <1>7

\* Somebody asks for c.
Creates(c) == \E n \in Names, t \in Times, given, free \in BOOLEAN : R!Create(c, n, t, given, free)

\* A call that is created has raced if another is under way, and so have the others.
LEMMA CreateRaces ==
  ASSUME R!TypeOK, NEW c \in Sessions, Creates(c)
  PROVE  /\ UNCHANGED <<rows, templates>>
         /\ R!Busy # {} => asks'[c].raced = TRUE
         /\ asks'[c].pc = "list" \/ (asks'[c].pc = "post" /\ asks'[c].free = TRUE)
         /\ asks'[c].got = Null
         /\ \A d \in Sessions \ {c} : asks'[d] # Null =>
              /\ asks[d] # Null /\ asks'[d].raced = TRUE
              /\ asks'[d] = [asks[d] EXCEPT !.raced = TRUE]
<1> PICK n \in Names, t \in Times, given \in BOOLEAN, free \in BOOLEAN : R!Create(c, n, t, given, free)
  BY DEF Creates
<1>1. \A d \in Sessions \ {c} : asks'[d] = IF asks[d] = Null THEN Null ELSE [asks[d] EXCEPT !.raced = TRUE]
  BY DEF R!Create
<1>2. ASSUME NEW d \in Sessions, asks[d] # Null PROVE [asks[d] EXCEPT !.raced = TRUE].raced = TRUE
  BY <1>2, CallTypes DEF R!CallState
<1>3. asks'[c].raced = (R!Busy # {}) /\ asks'[c].free = free /\ asks'[c].got = Null
  BY DEF R!Create
<1>4. asks'[c].pc = IF free THEN "post" ELSE "list"
  BY DEF R!Create
<1>5. UNCHANGED <<rows, templates>>
  BY DEF R!Create
<1> QED
  BY <1>1, <1>2, <1>3, <1>4, <1>5

\* A call is created alone, or all calls under way have raced.
LEMMA StepAlone ==
  ASSUME R!TypeOK, AloneOrRaced, [R!Next]_(R!vars)
  PROVE  AloneOrRaced'
<1> SUFFICES ASSUME NEW c \in Sessions, NEW d \in Sessions, c # d, asks'[c] # Null, asks'[d] # Null
             PROVE  asks'[c].raced
  BY DEF AloneOrRaced
<1>1. CASE UNCHANGED asks
  BY <1>1 DEF AloneOrRaced
<1>2. ASSUME NEW e \in Sessions, Creates(e) PROVE asks'[c].raced
  <2>1. CASE e = c
    <3>1. asks[d] # Null
      BY <1>2, <2>1, CreateRaces
    <3> QED
      BY <1>2, <2>1, <3>1, CreateRaces DEF R!Busy
  <2>2. CASE e # c
    BY <1>2, <2>2, CreateRaces
  <2> QED
    BY <2>1, <2>2
<1>3. CASE Follows(asks[c], asks'[c]) /\ Follows(asks[d], asks'[d])
  BY <1>3 DEF Follows, AloneOrRaced
<1> QED
  BY <1>1, <1>2, <1>3, CallsFollow DEF R!Next, Creates, R!ChangeRow, R!SaveTemplate, R!DeleteTemplate, R!vars

\* What a call found when it looked for a duplicate stays true while it is alone.
LEMMA StepCheck ==
  ASSUME R!TypeOK, AloneOrRaced, CheckHolds, [R!Next]_(R!vars)
  PROVE  CheckHolds'
<1> DEFINE Holds(c) == asks[c] # Null /\ asks[c].pc # "list" /\ ~asks[c].free /\ ~asks[c].raced =>
                         \A i \in R!Live : R!SameBooking(i, asks[c].name, asks[c].at) => rows[i].free
<1> SUFFICES ASSUME NEW d \in Sessions, asks'[d] # Null, asks'[d].pc # "list", ~asks'[d].free, ~asks'[d].raced,
                    NEW i \in R!Live', R!SameBooking(i, asks[d].name, asks[d].at)'
             PROVE  rows'[i].free
  BY DEF CheckHolds
<1>1. Holds(d)
  BY DEF CheckHolds
<1>2. ASSUME Follows(asks[d], asks'[d]), asks[d].pc # "list", UNCHANGED rows
      PROVE  rows'[i].free
  BY <1>1, <1>2 DEF Follows, R!Live, R!SameBooking
<1>3. CASE UNCHANGED <<rows, asks>>
  BY <1>1, <1>3 DEF R!Live, R!SameBooking
<1>4. ASSUME NEW c \in Sessions, Creates(c) PROVE FALSE
  <2>1. CASE c = d
    BY <1>4, <2>1, CreateRaces
  <2>2. CASE c # d
    BY <1>4, <2>2, CreateRaces
  <2> QED
    BY <2>1, <2>2
<1>5. ASSUME NEW c \in Sessions, R!List(c) PROVE rows'[i].free
  <2>1. asks \in [Sessions -> R!CallState \cup {Null}] /\ UNCHANGED rows
    BY <1>5 DEF R!TypeOK, R!List
  <2>2. CASE c = d
    BY <1>5, <2>1, <2>2 DEF R!List, R!Goto, R!Live, R!SameBooking, R!CallState
  <2>3. CASE c # d
    BY <1>1, <1>5, <2>1, <2>3 DEF R!List, R!Goto, R!Live, R!SameBooking
  <2> QED
    BY <2>2, <2>3
<1>6. ASSUME NEW c \in Sessions, R!Write(c) PROVE FALSE
  <2>1. c # d /\ asks'[d] = asks[d] /\ asks[c] # Null
    BY <1>6 DEF R!Write, R!TypeOK
  <2> QED
    BY <2>1 DEF AloneOrRaced
<1>7. ASSUME NEW j \in 1 .. MaxRows, R!ChangeRow(j) PROVE rows'[i].free
  <2>1. PICK r \in R!Row \cup {Null} : rows' = [rows EXCEPT ![j] = r] /\ (r # Null => ~r.live \/ r.free)
    BY <1>7, RowChanged
  <2>2. UNCHANGED asks
    BY <1>7 DEF R!ChangeRow
  <2>3. rows \in [1 .. MaxRows -> R!Row \cup {Null}]
    BY DEF R!TypeOK
  <2> QED
    BY <1>1, <2>1, <2>2, <2>3 DEF R!Live, R!SameBooking
<1>8. ASSUME NEW c \in Sessions, R!Post(c) \/ R!Exact(c) \/ R!Scan(c) \/ R!Fail(c) PROVE rows'[i].free
  <2>1. UNCHANGED rows /\ Follows(asks[d], asks'[d])
    BY <1>8, CallsFollow DEF R!Post, R!Exact, R!Scan, R!Fail
  <2>2. asks[d].pc # "list"
    BY <1>8 DEF R!Post, R!Exact, R!Scan, R!Fail, R!TypeOK, R!Goto
  <2> QED
    BY <1>2, <2>1, <2>2
<1>9. ASSUME NEW n \in Names, NEW p \in FeeTables \cup {Null}, R!ChangeTemplate(n, p) PROVE rows'[i].free
  <2>1. UNCHANGED rows /\ Follows(asks[d], asks'[d])
    BY <1>9, CallsFollow DEF R!ChangeTemplate
  <2>2. asks[d].pc # "list"
    BY <1>9, <2>1, CallTypes DEF R!ChangeTemplate, R!Seen, Follows, R!CallState
  <2> QED
    BY <1>2, <2>1, <2>2
<1> QED
  BY <1>3, <1>4, <1>5, <1>6, <1>7, <1>8, <1>9 DEF R!Next, Creates, R!SaveTemplate, R!DeleteTemplate, R!vars

\* Only a write makes a row, and its call has looked for a duplicate.
LEMMA StepRows ==
  ASSUME R!TypeOK, CheckHolds, R!NoSecondRow, [R!Next]_(R!vars)
  PROVE  R!NoSecondRow'
<1> SUFFICES ASSUME NEW i \in R!Live', NEW j \in R!Live', i # j,
                    Place(rows'[i].name) = Place(rows'[j].name), rows'[i].at = rows'[j].at
             PROVE  \E k \in {i, j} : rows'[k].free \/ rows'[k].raced
  BY DEF R!NoSecondRow
<1>1. rows \in [1 .. MaxRows -> R!Row \cup {Null}]
  BY DEF R!TypeOK
<1>2. CASE UNCHANGED rows
  BY <1>2 DEF R!NoSecondRow, R!Live
<1>3. ASSUME NEW c \in Sessions, R!Write(c) PROVE \E k \in {i, j} : rows'[k].free \/ rows'[k].raced
  <2> DEFINE r == [name |-> asks[c].name, at |-> asks[c].at, live |-> TRUE,
                   free |-> asks[c].free, raced |-> asks[c].raced]
  <2>1. PICK l \in R!Vacant : rows' = [rows EXCEPT ![l] = r]
    BY <1>3 DEF R!Write
  <2>2. \A m \in 1 .. MaxRows \ {l} : rows'[m] = rows[m]
    BY <1>1, <2>1
  <2>3. rows'[l] = r
    BY <1>1, <2>1 DEF R!Vacant
  <2>4. ASSUME NEW m \in R!Live' \ {l}, Place(rows'[m].name) = Place(r.name), rows'[m].at = r.at
        PROVE  r.free \/ r.raced \/ rows'[m].free
    <3>1. m \in R!Live /\ rows'[m] = rows[m]
      BY <2>2 DEF R!Live
    <3>2. asks[c] # Null /\ asks[c].pc = "write"
      BY <1>3 DEF R!Write
    <3> QED
      BY <2>4, <3>1, <3>2 DEF CheckHolds, R!SameBooking
  <2>5. CASE i = l
    BY <2>3, <2>4, <2>5
  <2>6. CASE j = l
    BY <2>3, <2>4, <2>6
  <2>7. CASE i # l /\ j # l
    BY <2>2, <2>7 DEF R!NoSecondRow, R!Live
  <2> QED
    BY <2>5, <2>6, <2>7
<1>4. ASSUME NEW l \in 1 .. MaxRows, R!ChangeRow(l) PROVE \E k \in {i, j} : rows'[k].free \/ rows'[k].raced
  <2>1. PICK r \in R!Row \cup {Null} : rows' = [rows EXCEPT ![l] = r] /\ (r # Null => ~r.live \/ r.free)
    BY <1>4, RowChanged
  <2>2. rows'[l] = r /\ \A m \in 1 .. MaxRows \ {l} : rows'[m] = rows[m]
    BY <1>1, <2>1
  <2>3. CASE i = l \/ j = l
    BY <2>1, <2>2, <2>3 DEF R!Live
  <2>4. CASE i # l /\ j # l
    BY <2>2, <2>4 DEF R!NoSecondRow, R!Live
  <2> QED
    BY <2>3, <2>4
<1> QED
  BY <1>2, <1>3, <1>4 DEF R!Next, R!Create, R!List, R!Post, R!Exact, R!Scan, R!Fail, R!SaveTemplate, R!DeleteTemplate,
                          R!ChangeTemplate, R!vars
-----------------------------------------------------------------------------
\* A change of a template keeps what the lookups under way have kept and had true.
LEMMA SeenIsTrue ==
  ASSUME R!TypeOK, LookupsOK, NEW n \in Names, NEW p \in FeeTables \cup {Null},
         R!ChangeTemplate(n, p), NEW d \in Sessions, asks'[d] # Null
  PROVE  LookupOK(asks[d])'
<1> DEFINE k == asks[d]
           l == R!Seen(asks[d], n, p)
<1>1. asks'[d] = l /\ templates' = [templates EXCEPT ![n] = p]
  BY DEF R!ChangeTemplate
<1>2. k # Null /\ k \in R!CallState
  BY <1>1, CallTypes DEF R!Seen
<1>3. LookupOK(k)
  BY <1>2 DEF LookupsOK
<1>4. l.pc = k.pc /\ l.got = k.got /\ l.name = k.name
  BY <1>2 DEF R!Seen, R!CallState
<1>5. CASE k.pc \notin {"exact", "scan"}
  BY <1>1, <1>3, <1>4, <1>5 DEF LookupOK
<1>6. CASE Place(k.name) # Place(n)
  <2>1. l = k
    BY <1>6 DEF R!Seen
  <2>2. \A m \in Names : Place(m) = Place(k.name) => templates'[m] = templates[m]
    BY <1>1, <1>6 DEF R!TypeOK
  <2>3. R!Known(k.name)' = R!Known(k.name)
    BY <1>1, <2>1, <2>2 DEF R!Known
  <2>4. \A m \in R!Known(k.name) : templates'[m] = templates[m]
    BY <2>2 DEF R!Known
  <2> QED
    BY <1>1, <1>3, <2>1, <2>3, <2>4 DEF LookupOK
<1>7. CASE Place(k.name) = Place(n) /\ k.pc \in {"exact", "scan"} /\ p = Null
  <2>1. l = [k EXCEPT !.kept = @ \ {n}]
    BY <1>2, <1>7 DEF R!Seen
  <2>2. l.kept = k.kept \ {n} /\ l.had = k.had
    BY <1>2, <2>1 DEF R!CallState
  <2>3. \A m \in Names : templates'[m] = IF m = n THEN Null ELSE templates[m]
    BY <1>1, <1>7 DEF R!TypeOK
  <2>4. R!Known(k.name)' = R!Known(k.name) \ {n}
    BY <1>1, <1>4, <2>3 DEF R!Known
  <2>5. \A m \in R!Known(k.name) \ {n} : <<m, templates'[m]>> \in k.had
    BY <1>3, <1>7, <2>3 DEF LookupOK, R!Known
  <2> QED
    BY <1>1, <1>3, <1>4, <1>7, <2>2, <2>4, <2>5 DEF LookupOK
<1>8. CASE Place(k.name) = Place(n) /\ k.pc \in {"exact", "scan"} /\ p # Null
  <2>1. l = [k EXCEPT !.had = @ \cup {<<n, p>>}]
    BY <1>2, <1>8 DEF R!Seen
  <2>2. l.kept = k.kept /\ l.had = k.had \cup {<<n, p>>}
    BY <1>2, <2>1 DEF R!CallState
  <2>3. \A m \in Names : templates'[m] = IF m = n THEN p ELSE templates[m]
    BY <1>1 DEF R!TypeOK
  <2>4. R!Known(k.name)' = R!Known(k.name) \cup {n}
    BY <1>1, <1>4, <1>8, <2>3 DEF R!Known
  <2>5. \A m \in R!Known(k.name) \cup {n} : <<m, templates'[m]>> \in l.had
    BY <1>3, <1>8, <2>2, <2>3 DEF LookupOK, R!Known
  <2> QED
    BY <1>1, <1>3, <1>4, <1>8, <2>2, <2>4, <2>5 DEF LookupOK
<1> QED
  BY <1>5, <1>6, <1>7, <1>8

\* What a lookup remembers stays true.
LEMMA StepLookups ==
  ASSUME R!TypeOK, LookupsOK, [R!Next]_(R!vars)
  PROVE  LookupsOK'
<1> SUFFICES ASSUME NEW d \in Sessions, asks'[d] # Null PROVE LookupOK(asks[d])'
  BY DEF LookupsOK
<1>1. asks \in [Sessions -> R!CallState \cup {Null}]
  BY DEF R!TypeOK
<1>2. CASE UNCHANGED <<templates, asks>>
  BY <1>2 DEF LookupsOK, LookupOK, R!Known
<1>3. ASSUME UNCHANGED templates, asks'[d] = asks[d] PROVE LookupOK(asks[d])'
  BY <1>3 DEF LookupsOK, LookupOK, R!Known
<1>4. ASSUME NEW c \in Sessions, Creates(c) PROVE LookupOK(asks[d])'
  <2>1. UNCHANGED templates
    BY <1>4, CreateRaces
  <2>2. CASE c = d
    BY <1>4, <2>2, CreateRaces DEF LookupOK
  <2>3. CASE c # d
    <3>1. asks[d] # Null /\ asks'[d] = [asks[d] EXCEPT !.raced = TRUE]
      BY <1>4, <2>3, CreateRaces
    <3>2. /\ asks'[d].pc = asks[d].pc /\ asks'[d].got = asks[d].got /\ asks'[d].name = asks[d].name
          /\ asks'[d].kept = asks[d].kept /\ asks'[d].had = asks[d].had
      BY <3>1, CallTypes DEF R!CallState
    <3> QED
      BY <2>1, <3>1, <3>2 DEF LookupsOK, LookupOK, R!Known
  <2> QED
    BY <2>2, <2>3
<1>5. ASSUME NEW c \in Sessions, R!List(c) PROVE LookupOK(asks[d])'
  <2>1. CASE c = d
    <3>1. asks[c] # Null /\ asks[c] \in R!CallState /\ asks[c].pc = "list"
      BY <1>5, CallTypes DEF R!List
    <3>2. asks'[c] = [asks[c] EXCEPT !.pc = "post"]
      BY <1>1, <1>5, <2>1 DEF R!List, R!Goto
    <3>3. asks'[c].pc = "post" /\ asks'[c].got = asks[c].got
      BY <3>1, <3>2 DEF R!CallState
    <3> QED
      BY <2>1, <3>1, <3>3 DEF LookupsOK, LookupOK
  <2>2. CASE c # d
    BY <1>1, <1>3, <1>5, <2>2 DEF R!List, R!Goto
  <2> QED
    BY <2>1, <2>2
<1>6. ASSUME NEW c \in Sessions, R!Post(c) PROVE LookupOK(asks[d])'
  <2>1. CASE c = d
    <3> DEFINE kept == R!Known(asks[c].name)
               had == {<<m, templates[m]>> : m \in R!Known(asks[c].name)}
    <3>1. asks[c] # Null /\ asks[c] \in R!CallState /\ asks[c].pc = "post" /\ UNCHANGED templates
      BY <1>6, CallTypes DEF R!Post
    <3>2. CASE R!Goto(c, "write")
      <4>1. asks'[c].pc = "write"
        BY <1>1, <3>1, <3>2 DEF R!Goto, R!CallState
      <4> QED
        BY <2>1, <4>1 DEF LookupOK
    <3>3. CASE asks' = [asks EXCEPT ![c] = [asks[c] EXCEPT !.pc = "exact", !.kept = kept, !.had = had]]
      <4> HIDE DEF kept, had
      <4>1. asks'[c] = [asks[c] EXCEPT !.pc = "exact", !.kept = kept, !.had = had]
        BY <1>1, <3>3
      <4>2. /\ asks'[c].pc = "exact" /\ asks'[c].got = asks[c].got /\ asks'[c].name = asks[c].name
            /\ asks'[c].kept = kept /\ asks'[c].had = had
        BY <3>1, <4>1 DEF R!CallState
      <4>3. asks[c].got = Null
        BY <3>1 DEF LookupsOK, LookupOK
      <4>4. R!Known(asks[c].name)' = kept /\ \A m \in kept : <<m, templates'[m]>> \in had
        BY <3>1, <4>2 DEF kept, had, R!Known
      <4> QED
        BY <2>1, <4>2, <4>3, <4>4 DEF LookupOK
    <3> QED
      BY <1>1, <1>6, <3>2, <3>3 DEF R!Post
  <2>2. CASE c # d
    BY <1>1, <1>3, <1>6, <2>2 DEF R!Post, R!Goto
  <2> QED
    BY <2>1, <2>2
<1>7. ASSUME NEW c \in Sessions, R!Exact(c) PROVE LookupOK(asks[d])'
  <2>1. CASE c = d
    <3> DEFINE found == templates[asks[c].name]
    <3>1. asks[c] # Null /\ asks[c] \in R!CallState /\ asks[c].pc = "exact" /\ UNCHANGED templates
      BY <1>7, CallTypes DEF R!Exact
    <3>2. asks'[c] = [asks[c] EXCEPT !.got = found, !.pc = IF found = Null THEN "scan" ELSE "write"]
      BY <1>1, <1>7 DEF R!Exact
    <3>3. /\ asks'[c].pc = (IF found = Null THEN "scan" ELSE "write") /\ asks'[c].got = found
          /\ asks'[c].name = asks[c].name
          /\ asks'[c].kept = asks[c].kept /\ asks'[c].had = asks[c].had
      BY <3>1, <3>2 DEF R!CallState
    <3>4. found = Null => asks[c].name \notin asks[c].kept
      BY <3>1 DEF LookupsOK, LookupOK, R!Known
    <3>5. R!Known(asks[c].name)' = R!Known(asks[c].name)
      BY <3>1, <3>3 DEF R!Known
    <3> QED
      BY <2>1, <3>1, <3>3, <3>4, <3>5 DEF LookupsOK, LookupOK
  <2>2. CASE c # d
    BY <1>1, <1>3, <1>7, <2>2 DEF R!Exact
  <2> QED
    BY <2>1, <2>2
<1>8. ASSUME NEW c \in Sessions, R!Scan(c) PROVE LookupOK(asks[d])'
  <2>1. CASE c = d
    <3>1. asks[c] # Null /\ asks[c] \in R!CallState
      BY <1>8, CallTypes DEF R!Scan
    <3>2. asks'[c].pc = "write"
      BY <1>1, <1>8, <3>1 DEF R!Scan, R!Goto, R!CallState
    <3> QED
      BY <2>1, <3>2 DEF LookupOK
  <2>2. CASE c # d
    BY <1>1, <1>3, <1>8, <2>2 DEF R!Scan, R!Goto
  <2> QED
    BY <2>1, <2>2
<1>9. ASSUME NEW c \in Sessions, R!Write(c) \/ R!Fail(c) PROVE LookupOK(asks[d])'
  BY <1>1, <1>3, <1>9 DEF R!Write, R!Fail
<1> QED
  BY <1>2, <1>4, <1>5, <1>6, <1>7, <1>8, <1>9, SeenIsTrue
     DEF R!Next, Creates, R!ChangeRow, R!SaveTemplate, R!DeleteTemplate, R!vars
-----------------------------------------------------------------------------
\* What TaughtPolicyApplies says of one call.
Applies(k) ==
  k.pc = "write" /\ ~k.given =>
    IF k.got = Null THEN k.kept = {}
    ELSE /\ \E m \in Names : <<m, k.got>> \in k.had
         /\ k.name \in k.kept => <<k.name, k.got>> \in k.had

\* A lookup ends with what its property asks.
LEMMA StepPolicies ==
  ASSUME R!TypeOK, LookupsOK, R!TaughtPolicyApplies, [R!Next]_(R!vars)
  PROVE  R!TaughtPolicyApplies'
<1> SUFFICES ASSUME NEW d \in Sessions, asks'[d] # Null PROVE Applies(asks'[d])
  BY DEF R!TaughtPolicyApplies, R!Busy, Applies
<1>1. asks \in [Sessions -> R!CallState \cup {Null}]
  BY DEF R!TypeOK
<1>2. asks[d] # Null => Applies(asks[d])
  BY DEF R!TaughtPolicyApplies, R!Busy, Applies
<1>3. CASE asks'[d] = asks[d]
  BY <1>2, <1>3
<1>4. CASE asks'[d].pc # "write"
  BY <1>4 DEF Applies
<1>5. ASSUME NEW c \in Sessions, Creates(c) PROVE Applies(asks'[d])
  <2>1. CASE c = d
    BY <1>4, <1>5, <2>1, CreateRaces
  <2>2. CASE c # d
    <3>1. asks[d] # Null /\ asks'[d] = [asks[d] EXCEPT !.raced = TRUE]
      BY <1>5, <2>2, CreateRaces
    <3>2. /\ asks'[d].pc = asks[d].pc /\ asks'[d].got = asks[d].got /\ asks'[d].name = asks[d].name
          /\ asks'[d].kept = asks[d].kept /\ asks'[d].had = asks[d].had /\ asks'[d].given = asks[d].given
      BY <3>1, CallTypes DEF R!CallState
    <3> QED
      BY <1>2, <3>1, <3>2 DEF Applies
  <2> QED
    BY <2>1, <2>2
<1>6. ASSUME NEW c \in Sessions, R!List(c) PROVE Applies(asks'[d])
  <2>1. CASE c = d
    <3>1. asks[c] # Null /\ asks[c] \in R!CallState
      BY <1>6, CallTypes DEF R!List
    <3>2. asks'[c].pc = "post"
      BY <1>1, <1>6, <2>1, <3>1 DEF R!List, R!Goto, R!CallState
    <3> QED
      BY <1>4, <2>1, <3>2
  <2>2. CASE c # d
    BY <1>1, <1>3, <1>6, <2>2 DEF R!List, R!Goto
  <2> QED
    BY <2>1, <2>2
<1>7. ASSUME NEW c \in Sessions, R!Post(c) PROVE Applies(asks'[d])
  <2>1. CASE c = d
    <3> DEFINE kept == R!Known(asks[c].name)
               had == {<<m, templates[m]>> : m \in R!Known(asks[c].name)}
    <3>1. asks[c] # Null /\ asks[c] \in R!CallState
      BY <1>7, CallTypes DEF R!Post
    <3>2. CASE asks[c].given /\ R!Goto(c, "write")
      <4>1. asks'[c].given
        BY <1>1, <3>1, <3>2 DEF R!Goto, R!CallState
      <4> QED
        BY <2>1, <4>1 DEF Applies
    <3>3. CASE asks' = [asks EXCEPT ![c] = [asks[c] EXCEPT !.pc = "exact", !.kept = kept, !.had = had]]
      <4> HIDE DEF kept, had
      <4>1. asks'[c] = [asks[c] EXCEPT !.pc = "exact", !.kept = kept, !.had = had]
        BY <1>1, <3>3
      <4>2. asks'[c].pc = "exact"
        BY <3>1, <4>1 DEF R!CallState
      <4> QED
        BY <1>4, <2>1, <4>2
    <3> QED
      BY <1>1, <1>7, <3>2, <3>3 DEF R!Post
  <2>2. CASE c # d
    BY <1>1, <1>3, <1>7, <2>2 DEF R!Post, R!Goto
  <2> QED
    BY <2>1, <2>2
<1>8. ASSUME NEW c \in Sessions, R!Exact(c) PROVE Applies(asks'[d])
  <2>1. CASE c = d
    <3> DEFINE found == templates[asks[c].name]
    <3>1. asks[c] # Null /\ asks[c] \in R!CallState /\ asks[c].pc = "exact"
      BY <1>8, CallTypes DEF R!Exact
    <3>2. asks'[c] = [asks[c] EXCEPT !.got = found, !.pc = IF found = Null THEN "scan" ELSE "write"]
      BY <1>1, <1>8 DEF R!Exact
    <3>3. /\ asks'[c].pc = (IF found = Null THEN "scan" ELSE "write") /\ asks'[c].got = found
          /\ asks'[c].name = asks[c].name /\ asks'[c].had = asks[c].had
      BY <3>1, <3>2 DEF R!CallState
    <3>4. asks[c].name \in Names
      BY <3>1 DEF R!CallState
    <3>5. found # Null => <<asks[c].name, found>> \in asks[c].had
      BY <3>1, <3>4 DEF LookupsOK, LookupOK, R!Known
    <3> QED
      BY <1>4, <2>1, <3>3, <3>4, <3>5 DEF Applies
  <2>2. CASE c # d
    BY <1>1, <1>3, <1>8, <2>2 DEF R!Exact
  <2> QED
    BY <2>1, <2>2
<1>9. ASSUME NEW c \in Sessions, R!Scan(c) PROVE Applies(asks'[d])
  <2>1. CASE c = d
    <3>1. asks[c] # Null /\ asks[c] \in R!CallState /\ asks[c].pc = "scan"
      BY <1>9, CallTypes DEF R!Scan
    <3>2. /\ asks[c].got = Null /\ asks[c].name \notin asks[c].kept
          /\ asks[c].kept \subseteq R!Known(asks[c].name)
          /\ \A m \in R!Known(asks[c].name) : <<m, templates[m]>> \in asks[c].had
      BY <3>1 DEF LookupsOK, LookupOK
    <3>3. CASE R!Known(asks[c].name) = {} /\ R!Goto(c, "write")
      <4>1. asks'[c].got = Null /\ asks'[c].kept = asks[c].kept
        BY <1>1, <3>1, <3>2, <3>3 DEF R!Goto, R!CallState
      <4> QED
        BY <2>1, <3>2, <3>3, <4>1 DEF Applies
    <3>4. ASSUME NEW m \in R!Known(asks[c].name),
                 asks' = [asks EXCEPT ![c].got = templates[m], ![c].pc = "write"]
          PROVE  Applies(asks'[d])
      <4> DEFINE got == templates[m]
      <4>1. m \in Names /\ got # Null /\ <<m, got>> \in asks[c].had
        BY <3>2 DEF R!Known
      <4> HIDE DEF got
      <4>2. asks'[c] = [asks[c] EXCEPT !.got = got, !.pc = "write"]
        BY <1>1, <3>4 DEF got
      <4>3. /\ asks'[c].got = got /\ asks'[c].name = asks[c].name
            /\ asks'[c].kept = asks[c].kept /\ asks'[c].had = asks[c].had
        BY <3>1, <4>2 DEF R!CallState
      <4> QED
        BY <2>1, <3>2, <4>1, <4>3 DEF Applies
    <3> QED
      BY <1>9, <3>3, <3>4 DEF R!Scan
  <2>2. CASE c # d
    BY <1>1, <1>3, <1>9, <2>2 DEF R!Scan, R!Goto
  <2> QED
    BY <2>1, <2>2
<1>10. ASSUME NEW c \in Sessions, R!Write(c) \/ R!Fail(c) PROVE Applies(asks'[d])
  BY <1>1, <1>3, <1>10 DEF R!Write, R!Fail
<1>11. ASSUME NEW n \in Names, NEW p \in FeeTables \cup {Null}, R!ChangeTemplate(n, p)
       PROVE  Applies(asks'[d])
  <2>1. asks'[d] = R!Seen(asks[d], n, p) /\ asks[d] # Null
    BY <1>11 DEF R!ChangeTemplate, R!Seen
  <2>2. asks[d].pc = "write" => asks'[d] = asks[d]
    BY <2>1 DEF R!Seen
  <2>3. asks'[d].pc = asks[d].pc
    BY <2>1, CallTypes DEF R!Seen, R!CallState
  <2> QED
    BY <1>3, <1>4, <2>2, <2>3
<1>12. CASE UNCHANGED asks
  BY <1>3, <1>12
<1> QED
  BY <1>5, <1>6, <1>7, <1>8, <1>9, <1>10, <1>11, <1>12
     DEF R!Next, Creates, R!ChangeRow, R!SaveTemplate, R!DeleteTemplate, R!vars

-----------------------------------------------------------------------------
\* Everything a call rests on while it is under way holds from the start.
THEOREM RemoteInvariance == R!Spec => []RemoteInv
<1>1. R!Init => RemoteInv
  BY RemoteInit DEF R!Init, RemoteInv, AloneOrRaced, CheckHolds, LookupsOK, R!NoSecondRow, R!Live,
                  R!TaughtPolicyApplies, R!Busy
<1>2. RemoteInv /\ [R!Next]_(R!vars) => RemoteInv'
  BY RemoteTypes, StepAlone, StepCheck, StepLookups, StepRows, StepPolicies DEF RemoteInv
<1> QED
  BY <1>1, <1>2, PTL DEF R!Spec

\* A create_reservation that is made again after its answer was lost makes no second row
\* of the same booking, whatever the other requests do meanwhile (issue #5), unless the
\* two calls ran at the same time.
THEOREM RetriesMakeNoRow == R!Spec => []NoSecondRow
<1>1. RemoteInv => NoSecondRow
  BY DEF RemoteInv, NoSecondRow
<1> QED
  BY <1>1, RemoteInvariance, PTL

\* A row of a place that was taught a policy is watched under it, for every way the
\* templates of the place are saved and deleted while the row is made.
THEOREM TaughtPolicyFound == R!Spec => []TaughtPolicyApplies
<1>1. RemoteInv => TaughtPolicyApplies
  BY DEF RemoteInv, TaughtPolicyApplies
<1> QED
  BY <1>1, RemoteInvariance, PTL

\* Every variable of RemoteTools keeps its type.
THEOREM RemoteToolsTypeCorrect == R!Spec => []R!TypeOK
<1>1. RemoteInv => R!TypeOK
  BY DEF RemoteInv
<1> QED
  BY <1>1, RemoteInvariance, PTL

-----------------------------------------------------------------------------
(* The policy of a reservation (core/domain/policy.ts) and the             *)
(* notifications it makes (notify/trigger.ts), for every stage table,      *)
(* start, amount and length of day.                                        *)
(*                                                                         *)
(* What is said of the stages rests on one fact: as time passes the stages *)
(* still reached only get fewer, so the first of them only moves inward    *)
(* (IndexAdvances).  That the fee then rises uses the schema: adjacent     *)
(* stages are ordered, hence all are (FeesRise), when every stage or none  *)
(* has a fixed fee (Uniform).                                              *)

TariffOK ==
  /\ tariff \in P!Policies /\ begins \in Starts /\ price \in Amounts /\ clock \in Int

\* First is the least of the reached stages.
LEMMA FirstIsLeast ==
  ASSUME NEW T, T \subseteq Nat, T # {}
  PROVE  P!First(T) \in T /\ \A y \in T : P!First(T) <= y
  BY LeastNatural DEF P!First

\* A stage table is a sequence of stages, ordered as the schema says.
LEMMA PolicyIsTable ==
  ASSUME P!PolicyConstants, NEW s \in P!Policies
  PROVE  /\ s \in Seq(P!Stage) /\ Len(s) \in Nat /\ P!ValidStages(s)
         /\ \A i \in 1 .. Len(s) : s[i] \in P!Stage
<1>1. PICK n \in 0 .. MaxStages : s \in [1 .. n -> P!Stage]
  BY DEF P!Policies
<1>2. n \in Nat
  BY <1>1 DEF P!PolicyConstants
<1>3. s \in Seq(P!Stage)
  BY <1>1, <1>2, IsASeq
<1>4. Len(s) \in Nat /\ \A i \in 1 .. Len(s) : s[i] \in P!Stage
  BY <1>3
<1> QED
  BY <1>3, <1>4 DEF P!Policies

\* A boundary is an instant.
LEMMA BoundaryIsInstant ==
  ASSUME P!PolicyConstants, NEW start \in Int, NEW offset \in Int
  PROVE  P!BoundaryInstant(start, offset) \in Int
<1>1. \A x \in Int : x \div Day \in Int
  BY DEF P!PolicyConstants
<1>2. ((start - offset) \div Day) * Day \in Int
  BY <1>1 DEF P!PolicyConstants
<1> QED
  BY <1>2 DEF P!BoundaryInstant, P!EndOfDay, P!PolicyConstants

\* The stages still reached later are among those reached now.
LEMMA ReachedShrinks ==
  ASSUME P!PolicyConstants, NEW s \in P!Policies, NEW start \in Int,
         NEW t \in Int, NEW u \in Int, t <= u
  PROVE  /\ P!Reached(s, start, u) \subseteq P!Reached(s, start, t)
         /\ P!Reached(s, start, t) \subseteq 1 .. Len(s)
<1>1. \A i \in 1 .. Len(s) : s[i].until_offset_hours \in Int
  BY PolicyIsTable DEF P!Stage, P!PolicyConstants
<1>2. \A i \in 1 .. Len(s) : P!BoundaryInstant(start, s[i].until_offset_hours) \in Int
  BY <1>1, BoundaryIsInstant
<1> QED
  BY <1>2 DEF P!Reached

\* The stage in effect is a row of the table.
LEMMA IndexIsRow ==
  ASSUME P!PolicyConstants, NEW s \in P!Policies, NEW start \in Int, NEW t \in Int, Len(s) # 0
  PROVE  P!StageIndex(s, start, t) \in 1 .. Len(s)
<1>1. P!Reached(s, start, t) \subseteq 1 .. Len(s) /\ 1 .. Len(s) \subseteq Nat
  BY ReachedShrinks, PolicyIsTable
<1>2. P!Reached(s, start, t) # {} => P!First(P!Reached(s, start, t)) \in 1 .. Len(s)
  BY <1>1, FirstIsLeast
<1>3. Len(s) \in 1 .. Len(s)
  BY PolicyIsTable
<1> QED
  BY <1>2, <1>3 DEF P!StageIndex

\* As time passes the stage in effect only moves inward.
LEMMA IndexAdvances ==
  ASSUME P!PolicyConstants, NEW s \in P!Policies, NEW start \in Int,
         NEW t \in Int, NEW u \in Int, t <= u, Len(s) # 0
  PROVE  P!StageIndex(s, start, t) <= P!StageIndex(s, start, u)
<1> DEFINE reach == P!Reached(s, start, t)
           Q == P!Reached(s, start, u)
<1>1. Q \subseteq reach /\ reach \subseteq 1 .. Len(s) /\ reach \subseteq Nat
  BY ReachedShrinks, PolicyIsTable
<1>2. P!StageIndex(s, start, t) \in 1 .. Len(s)
  BY IndexIsRow
<1>3. CASE Q = {}
  BY <1>2, <1>3, PolicyIsTable DEF P!StageIndex
<1>4. CASE Q # {}
  <2>1. P!First(Q) \in Q
    BY <1>1, <1>4, FirstIsLeast
  <2>2. P!First(reach) <= P!First(Q)
    BY <1>1, <2>1, FirstIsLeast
  <2>3. P!StageIndex(s, start, t) = P!First(reach) /\ P!StageIndex(s, start, u) = P!First(Q)
    BY <1>1, <1>4 DEF P!StageIndex
  <2> QED
    BY <2>2, <2>3
<1> QED
  BY <1>3, <1>4

\* The types hold in every reachable state.
THEOREM TariffCorrect == P!Spec => []TariffOK
<1>1. P!Init => TariffOK
  BY DEF P!Init, TariffOK
<1>2. TariffOK /\ [P!Next]_(P!vars) => TariffOK'
  BY DEF TariffOK, P!Next, P!Pass, P!vars
<1> QED
  BY <1>1, <1>2, PTL DEF P!Spec

\* No stage changes before the boundary core/domain/policy.ts announces, one
\* changes right after it, and none ever changes when it announces none.
LEMMA NextChange == P!PolicyConstants /\ TariffOK => P!BoundaryIsTheNextChange
<1> SUFFICES ASSUME P!PolicyConstants, TariffOK PROVE P!BoundaryIsTheNextChange
  OBVIOUS
<1> DEFINE reach == P!Reached(tariff, begins, clock)
           n == Len(tariff)
           f == P!First(reach)
           idx(t) == P!StageIndex(tariff, begins, t)
<1>1. begins \in Int /\ clock \in Int /\ n \in Nat /\ tariff \in P!Policies
  BY PolicyIsTable DEF TariffOK, P!PolicyConstants
<1>2. \A t \in Int : t >= clock => P!Reached(tariff, begins, t) \subseteq reach
  BY <1>1, ReachedShrinks
<1>3. reach \subseteq 1 .. n /\ reach \subseteq Nat
  BY <1>1, ReachedShrinks
<1>4. P!Instants \subseteq Int
  BY DEF P!Instants
<1>5. CASE reach = {}
  <2>1. \A t \in Int : t >= clock => idx(t) = n
    BY <1>2, <1>5 DEF P!StageIndex
  <2>2. P!NextBoundary(tariff, begins, clock) = Null
    BY <1>5 DEF P!NextBoundary
  <2> HIDE DEF idx
  <2>3. \A t \in P!Instants : t >= clock => idx(t) = idx(clock)
    BY <2>1, <1>1, <1>4
  <2> QED
    BY <2>2, <2>3 DEF P!BoundaryIsTheNextChange, idx
<1>6. CASE reach # {} /\ f = n
  <2>1. idx(clock) = n
    BY <1>6 DEF P!StageIndex
  <2>2. ASSUME NEW t \in Int, t >= clock PROVE idx(t) = n
    <3> DEFINE Q == P!Reached(tariff, begins, t)
    <3>1. CASE Q = {}
      BY <3>1 DEF P!StageIndex
    <3>2. CASE Q # {}
      <4>1. Q \subseteq reach /\ P!First(Q) \in Q
        BY <1>2, <1>3, <2>2, <3>2, FirstIsLeast
      <4>2. P!First(Q) = n
        BY <4>1, <1>3, <1>6, <1>1, FirstIsLeast
      <4> QED
        BY <3>2, <4>2 DEF P!StageIndex
    <3> QED
      BY <3>1, <3>2
  <2>3. P!NextBoundary(tariff, begins, clock) = Null
    BY <1>6 DEF P!NextBoundary
  <2> HIDE DEF idx
  <2>4. \A t \in P!Instants : t >= clock => idx(t) = idx(clock)
    BY <2>1, <2>2, <1>4
  <2> QED
    BY <2>3, <2>4 DEF P!BoundaryIsTheNextChange, idx
<1>7. CASE reach # {} /\ f # n
  <2> DEFINE edge == P!BoundaryInstant(begins, tariff[f].until_offset_hours)
  <2>1. f \in reach /\ f \in 1 .. n /\ \A j \in reach : f <= j
    BY <1>3, <1>7, FirstIsLeast
  <2>2. edge \in Int /\ clock <= edge
    <3>1. tariff[f].until_offset_hours \in Int
      BY <2>1, <1>1, PolicyIsTable DEF P!Stage, P!PolicyConstants
    <3> QED
      BY <3>1, <1>1, <2>1, BoundaryIsInstant DEF P!Reached
  <2>3. P!NextBoundary(tariff, begins, clock) = [at |-> edge, to |-> f + 1]
    BY <1>7 DEF P!NextBoundary
  <2>4. [at |-> edge, to |-> f + 1] # Null
    BY <2>1, <2>2 DEF P!PolicyConstants
  <2>5. idx(clock) = f
    BY <1>7 DEF P!StageIndex
  <2>6. ASSUME NEW t \in clock .. edge PROVE idx(t) = f
    <3> DEFINE Q == P!Reached(tariff, begins, t)
    <3>1. t \in Int /\ t >= clock /\ t <= edge
      BY <2>6, <2>2, <1>1
    <3>2. f \in Q /\ Q \subseteq reach
      BY <1>2, <2>1, <3>1 DEF P!Reached
    <3>3. P!First(Q) \in Q /\ P!First(Q) <= f
      BY <3>2, <1>3, FirstIsLeast
    <3>4. P!First(Q) = f
      BY <3>2, <3>3, <2>1, <1>3
    <3> QED
      BY <3>2, <3>4 DEF P!StageIndex
  <2>7. idx(edge + 1) # f
    <3> DEFINE Q == P!Reached(tariff, begins, edge + 1)
    <3>1. f \notin Q
      BY <2>2 DEF P!Reached
    <3>2. Q \subseteq reach
      BY <1>2, <1>1, <2>2
    <3>3. CASE Q = {}
      BY <3>3, <1>7 DEF P!StageIndex
    <3>4. CASE Q # {}
      <4>1. P!First(Q) \in Q
        BY <3>2, <3>4, <1>3, FirstIsLeast
      <4> QED
        BY <3>1, <3>4, <4>1 DEF P!StageIndex
    <3> QED
      BY <3>3, <3>4
  <2> HIDE DEF idx, edge
  <2>8. edge >= clock /\ (\A t \in clock .. edge : idx(t) = idx(clock)) /\ idx(edge + 1) # idx(clock)
    BY <2>2, <2>5, <2>6, <2>7, <1>1
  <2> QED
    BY <2>3, <2>4, <2>8 DEF P!BoundaryIsTheNextChange, idx
<1> QED
  BY <1>5, <1>6, <1>7

\* nextBoundary is the next change, in every reachable state.
THEOREM BoundaryCorrect == P!Spec => []BoundaryIsTheNextChange
<1>1. TariffOK => BoundaryIsTheNextChange
  BY NextChange, TariffAssumption DEF BoundaryIsTheNextChange
<1> QED
  BY <1>1, TariffCorrect, PTL

\* The fields of a stage are numbers, the fixed fee or Null.
LEMMA StageFields ==
  ASSUME P!PolicyConstants, NEW a \in P!Stage
  PROVE  /\ a.fee_percent \in Nat
         /\ a.fee_fixed_jpy \in FixedFees
         /\ a.fee_fixed_jpy # Null => a.fee_fixed_jpy \in Int
<1>1. a.fee_percent \in Percents /\ a.fee_fixed_jpy \in FixedFees
  BY DEF P!Stage
<1>2. /\ \A x \in Percents : x \in Nat
      /\ \A x \in FixedFees : x # Null => x \in Int
  BY DEF P!PolicyConstants
<1>3. a.fee_percent \in Nat
  BY <1>1, <1>2
<1>4. a.fee_fixed_jpy # Null => a.fee_fixed_jpy \in Int
  BY <1>1, <1>2
<1> QED
  BY <1>1, <1>3, <1>4

\* Adjacent stages are ordered, hence all are: take the least row that charges
\* less than row i.
LEMMA FeesRise ==
  ASSUME P!PolicyConstants, NEW s \in P!Policies, P!Uniform(s),
         NEW i \in 1 .. Len(s), NEW j \in 1 .. Len(s), i <= j
  PROVE  /\ s[i].fee_percent <= s[j].fee_percent
         /\ s[i].fee_fixed_jpy # Null => s[i].fee_fixed_jpy <= s[j].fee_fixed_jpy
<1> DEFINE less(k) == \/ s[k].fee_percent < s[i].fee_percent
                      \/ s[i].fee_fixed_jpy # Null /\ s[k].fee_fixed_jpy < s[i].fee_fixed_jpy
           T == {k \in i .. Len(s) : less(k)}
<1>1. Len(s) \in Nat /\ \A k \in 1 .. Len(s) : s[k] \in P!Stage
  BY PolicyIsTable
<1>2. \A k \in 1 .. Len(s) : /\ s[k].fee_percent \in Int
                             /\ s[k].fee_fixed_jpy \in FixedFees
                             /\ s[i].fee_fixed_jpy # Null => s[k].fee_fixed_jpy \in Int
  BY <1>1, StageFields DEF P!Uniform
<1>3. ASSUME T # {} PROVE FALSE
  <2>1. T \subseteq Nat
    BY <1>1
  <2>2. PICK k \in T : \A x \in T : k <= x
    BY <1>3, <2>1, LeastNatural
  <2>3. k # i /\ k \in i .. Len(s) /\ less(k)
    BY <2>2, <1>2
  <2> DEFINE m == k - 1
  <2>4. m \in i .. Len(s) /\ m \in 1 .. Len(s) - 1 /\ m + 1 = k /\ k \in 1 .. Len(s)
    BY <2>3, <1>1
  <2> HIDE DEF m
  <2>5. ~less(m)
    BY <2>2, <2>4, <1>1
  <2>6. /\ s[k].fee_percent >= s[m].fee_percent
        /\ s[i].fee_fixed_jpy # Null => s[k].fee_fixed_jpy >= s[m].fee_fixed_jpy
    <3>1. P!ValidStages(s)
      BY PolicyIsTable
    <3>2. /\ s[k].fee_percent >= s[m].fee_percent
          /\ s[m].fee_fixed_jpy # Null /\ s[k].fee_fixed_jpy # Null =>
               s[k].fee_fixed_jpy >= s[m].fee_fixed_jpy
      BY <3>1, <2>4 DEF P!ValidStages
    <3>3. s[i].fee_fixed_jpy # Null => s[m].fee_fixed_jpy # Null /\ s[k].fee_fixed_jpy # Null
      BY <1>2, <2>4 DEF P!PolicyConstants
    <3> QED
      BY <3>2, <3>3
  <2>7. m \in 1 .. Len(s)
    BY <2>4, <1>1
  <2>8. /\ s[k].fee_percent \in Int /\ s[m].fee_percent \in Int /\ s[i].fee_percent \in Int
        /\ s[i].fee_fixed_jpy # Null =>
             s[k].fee_fixed_jpy \in Int /\ s[m].fee_fixed_jpy \in Int /\ s[i].fee_fixed_jpy \in Int
    BY <1>2, <2>4, <2>7
  <2> QED
    BY <2>3, <2>5, <2>6, <2>8
<1>4. j \in i .. Len(s) /\ ~less(j)
  BY <1>3, <1>1
<1> QED
  BY <1>2, <1>4

\* A dearer stage costs no less, whichever of its two fees applies.
LEMMA FeeIsMonotone ==
  ASSUME P!PolicyConstants, NEW a \in P!Stage, NEW b \in P!Stage, NEW yen \in Nat,
         a.fee_fixed_jpy = Null <=> b.fee_fixed_jpy = Null,
         a.fee_percent <= b.fee_percent,
         a.fee_fixed_jpy # Null => a.fee_fixed_jpy <= b.fee_fixed_jpy
  PROVE  P!FeeOf(a, yen) <= P!FeeOf(b, yen)
<1>1. a.fee_percent \in Nat /\ b.fee_percent \in Nat
  BY StageFields
<1>2. yen * a.fee_percent <= yen * b.fee_percent
  BY <1>1
<1>3. yen * a.fee_percent \in Nat /\ yen * b.fee_percent \in Nat
  BY <1>1
<1> DEFINE p == yen * a.fee_percent
           q == yen * b.fee_percent
<1> HIDE DEF p, q
<1>4. p \in Nat /\ q \in Nat /\ p <= q
  BY <1>2, <1>3 DEF p, q
<1>5. p \div 100 \in Int /\ q \div 100 \in Int /\ p \div 100 <= q \div 100
  BY <1>4
<1>6. /\ a.fee_fixed_jpy = Null <=> b.fee_fixed_jpy = Null
      /\ a.fee_fixed_jpy # Null => a.fee_fixed_jpy \in Int /\ b.fee_fixed_jpy \in Int
  BY StageFields
<1>7. P!FeeOf(a, yen) = IF a.fee_fixed_jpy = Null \/ p \div 100 >= a.fee_fixed_jpy
                      THEN p \div 100 ELSE a.fee_fixed_jpy
  BY DEF P!FeeOf, p
<1>8. P!FeeOf(b, yen) = IF b.fee_fixed_jpy = Null \/ q \div 100 >= b.fee_fixed_jpy
                      THEN q \div 100 ELSE b.fee_fixed_jpy
  BY DEF P!FeeOf, q
<1> QED
  BY <1>5, <1>6, <1>7, <1>8

\* An hour passing never lowers the fee.
LEMMA FeeStep ==
  ASSUME P!PolicyConstants, P!Uniform(tariff), TariffOK, P!Pass
  PROVE  P!FeeAt(tariff, begins, price, clock') >= P!FeeAt(tariff, begins, price, clock)
<1> DEFINE i == P!StageIndex(tariff, begins, clock)
           j == P!StageIndex(tariff, begins, clock')
<1>1. /\ tariff \in P!Policies /\ begins \in Int /\ price \in Nat
      /\ clock \in Int /\ clock' \in Int /\ clock <= clock'
  BY DEF TariffOK, P!Pass, P!PolicyConstants
<1>2. CASE tariff = <<>>
  BY <1>2 DEF P!FeeAt
<1>3. CASE tariff # <<>>
  <2>1. Len(tariff) # 0
    BY <1>1, <1>3, PolicyIsTable, EmptySeq
  <2>2. i \in 1 .. Len(tariff) /\ j \in 1 .. Len(tariff) /\ i <= j
    BY <1>1, <2>1, IndexIsRow, IndexAdvances
  <2> HIDE DEF i, j
  <2>3. tariff[i] \in P!Stage /\ tariff[j] \in P!Stage
    BY <1>1, <2>2, PolicyIsTable
  <2>4. P!FeeOf(tariff[i], price) <= P!FeeOf(tariff[j], price)
    <3>1. tariff[i].fee_fixed_jpy = Null <=> tariff[j].fee_fixed_jpy = Null
      BY <2>2 DEF P!Uniform
    <3> QED
      BY <1>1, <2>2, <2>3, <3>1, FeesRise, FeeIsMonotone
  <2>5. /\ P!FeeAt(tariff, begins, price, clock) = P!FeeOf(tariff[i], price)
        /\ P!FeeAt(tariff, begins, price, clock') = P!FeeOf(tariff[j], price)
    BY <1>3 DEF P!FeeAt, i, j
  <2>6. P!FeeOf(tariff[i], price) \in Int /\ P!FeeOf(tariff[j], price) \in Int
    <3>1. ASSUME NEW a \in P!Stage PROVE P!FeeOf(a, price) \in Int
      <4>1. price * a.fee_percent \in Int
        BY <1>1, StageFields
      <4>2. (price * a.fee_percent) \div 100 \in Int
        BY <4>1
      <4>3. a.fee_fixed_jpy # Null => a.fee_fixed_jpy \in Int
        BY StageFields
      <4> QED
        BY <4>2, <4>3 DEF P!FeeOf
    <3> QED
      BY <2>3, <3>1
  <2> QED
    BY <2>4, <2>5, <2>6
<1> QED
  BY <1>2, <1>3

\* Waiting never makes cancelling cheaper, for every uniform table.
THEOREM FeeCorrect == P!Spec => FeeNeverDrops
<1>1. TariffOK /\ [P!Next]_(P!vars) =>
        [P!ValidStages(tariff) /\ P!Uniform(tariff) =>
           P!FeeAt(tariff, begins, price, clock') >= P!FeeAt(tariff, begins, price, clock)]_(P!vars)
  BY FeeStep, TariffAssumption DEF P!Next
<1> QED
  BY <1>1, TariffCorrect, PTL DEF P!Spec, FeeNeverDrops, P!FeeNeverDrops

(* The reminder: a tick of the morning of the day enqueues it, or finds it *)
(* enqueued, and nothing is taken out of the outbox.                       *)

LEMMA SameDate ==
  \A d \in Nat \ {0} : \A b, x \in Int : (b \div d) * d <= x /\ x <= b => x \div d = b \div d
<1> SUFFICES ASSUME NEW d \in Nat \ {0}, NEW b \in Int, NEW x \in Int, (b \div d) * d <= x, x <= b
             PROVE  x \div d = b \div d
  OBVIOUS
<1>1. PICK q \in Int : q = b \div d
  OBVIOUS
<1>2. x \div d <= q /\ x \div d \in Int
  BY <1>1
<1>3. q * d <= x /\ q * d \in Int
  BY <1>1
<1>4. (q * d) \div d = q
  OBVIOUS
<1>5. q <= x \div d
  BY <1>3, <1>4
<1> QED
  BY <1>1, <1>2, <1>5

MorningOf == P!TokyoMorning(P!TokyoDate(begins))

RemindInv ==
  /\ clock \in Nat /\ begins \in Starts /\ edits \in Nat
  /\ status = "confirmed" /\ edits = 0 =>
       \A x \in MorningOf .. begins : 0 < x /\ x <= clock /\ P!IsTick(x) => P!Taken(P!ReminderNote)

\* What the outbox has taken stays, and a reminder that is due is taken.
LEMMA EnqueueTakes ==
  ASSUME NEW now
  PROVE  /\ enqueued \subseteq P!Enqueue(now)
         /\ P!ReminderNote \in P!PendingNotifications(now) =>
              \E m \in P!Enqueue(now) :
                m.trigger = P!ReminderNote.trigger /\ m.key = P!ReminderNote.key
<1>1. enqueued \subseteq P!Enqueue(now)
  BY DEF P!Enqueue
<1>2. ASSUME P!ReminderNote \in P!PendingNotifications(now)
      PROVE  \E m \in P!Enqueue(now) :
               m.trigger = P!ReminderNote.trigger /\ m.key = P!ReminderNote.key
  <2>1. PICK r : r = P!ReminderNote
    OBVIOUS
  <2>2. CASE \E m \in enqueued : m.trigger = r.trigger /\ m.key = r.key
    BY <1>1, <2>1, <2>2
  <2>3. CASE ~ \E m \in enqueued : m.trigger = r.trigger /\ m.key = r.key
    <3>1. \A m \in enqueued : <<m.trigger, m.key>> # <<r.trigger, r.key>>
      BY <2>3
    <3>2. r \in P!Enqueue(now)
      BY <1>2, <2>1, <3>1 DEF P!Enqueue
    <3> QED
      BY <2>1, <3>2
  <2> QED
    BY <2>2, <2>3
<1> QED
  BY <1>1, <1>2

\* In the morning of its day, until it starts, a confirmed reservation's reminder is due.
LEMMA ReminderIsDue ==
  ASSUME P!PolicyConstants, P!TriggersAssumption, begins \in Starts,
         status = "confirmed", NEW x \in MorningOf .. begins
  PROVE  P!ReminderNote \in P!PendingNotifications(x)
<1>1. Day \in Nat \ {0} /\ Morning \in Nat /\ begins \in Int
  BY DEF P!PolicyConstants, P!TriggersAssumption
<1>2. PICK q \in Int : q = begins \div Day
  BY <1>1
<1>3. MorningOf = q * Day + Morning /\ q * Day \in Int
  BY <1>1, <1>2 DEF MorningOf, P!TokyoMorning, P!TokyoDate
<1>4. x \in Int /\ MorningOf <= x /\ x <= begins /\ q * Day <= x /\ MorningOf \in Int
  BY <1>1, <1>3
<1>5. P!TokyoDate(x) = P!TokyoDate(begins)
  <2>1. x \div Day = q
    BY <1>1, <1>2, <1>4, SameDate
  <2> QED
    BY <1>2, <2>1 DEF P!TokyoDate
<1>6. P!ReminderInstant <= x
  <2>1. MorningOf <= begins
    BY <1>1, <1>4
  <2>2. P!ReminderInstant = MorningOf
    BY <2>1 DEF P!ReminderInstant, P!Earlier, MorningOf
  <2> QED
    BY <1>4, <2>2
<1>7. x \in {y \in {x} : /\ status = "confirmed" /\ P!TokyoDate(y) = P!TokyoDate(begins)
                         /\ P!ReminderInstant <= y /\ y <= begins}
  BY <1>4, <1>5, <1>6
<1> QED
  BY <1>7 DEF P!PendingNotifications

LEMMA RemindStep ==
  ASSUME P!PolicyConstants, P!TriggersAssumption, RemindInv, [P!NoticeNext]_(P!noticeVars)
  PROVE  RemindInv'
<1>1. CASE P!RunTick
  <2>1. /\ clock' = clock + 1
        /\ UNCHANGED <<begins, status, edits>>
        /\ enqueued' = IF P!IsTick(clock + 1) THEN P!Enqueue(clock + 1) ELSE enqueued
    BY <1>1 DEF P!RunTick, P!Pass
  <2>2. PICK n : n = clock + 1
    OBVIOUS
  <2>3. clock \in Nat /\ n \in Nat
    BY <2>2 DEF RemindInv
  <2>4. MorningOf' = MorningOf /\ P!ReminderNote' = P!ReminderNote
    BY <2>1 DEF MorningOf, P!TokyoMorning, P!TokyoDate, P!ReminderNote, P!ReminderInstant,
         P!Earlier, P!Note
  <2>5. enqueued \subseteq enqueued'
    BY <2>1, EnqueueTakes
  <2>6. ASSUME status = "confirmed", edits = 0,
               NEW x \in MorningOf .. begins, 0 < x, x <= n, P!IsTick(x)
        PROVE  \E m \in enqueued' : m.trigger = P!ReminderNote.trigger /\ m.key = P!ReminderNote.key
    <3>1. CASE x <= clock
      <4>1. P!Taken(P!ReminderNote)
        BY <2>6, <3>1 DEF RemindInv
      <4> QED
        BY <2>5, <4>1 DEF P!Taken
    <3>2. CASE ~(x <= clock)
      <4>1. x = n
        <5>1. x \in Int
          BY DEF MorningOf
        <5> QED
          BY <2>2, <2>3, <2>6, <3>2, <5>1
      <4>2. P!ReminderNote \in P!PendingNotifications(x)
        BY <2>6, ReminderIsDue DEF RemindInv
      <4>3. enqueued' = P!Enqueue(x)
        BY <2>1, <2>2, <2>6, <4>1
      <4> QED
        BY <4>2, <4>3, EnqueueTakes
    <3> QED
      BY <3>1, <3>2
  <2>7. \A x : P!IsTick(x)' <=> P!IsTick(x)
    BY DEF P!IsTick
  <2> QED
    BY <2>1, <2>2, <2>3, <2>4, <2>6, <2>7 DEF RemindInv, P!Taken
<1>2. CASE P!SimulateNotifications
  <2>1. UNCHANGED <<clock, begins, status, edits, enqueued>>
    BY <1>2 DEF P!SimulateNotifications, P!vars
  <2> QED
    BY <2>1 DEF RemindInv, MorningOf, P!TokyoMorning, P!TokyoDate, P!Taken, P!ReminderNote,
         P!ReminderInstant, P!Earlier, P!Note, P!IsTick
<1>3. CASE P!ChangeStatus
  <2>1. UNCHANGED <<clock, begins>> /\ edits' = edits + 1 /\ edits \in Nat
    BY <1>3 DEF P!ChangeStatus, P!vars, RemindInv
  <2>2. edits' \in Nat /\ edits' # 0
    BY <2>1
  <2> QED
    BY <2>1, <2>2 DEF RemindInv
<1>4. CASE UNCHANGED P!noticeVars
  <2>1. UNCHANGED <<clock, begins, status, edits, enqueued>>
    BY <1>4 DEF P!noticeVars, P!vars
  <2> QED
    BY <2>1 DEF RemindInv, MorningOf, P!TokyoMorning, P!TokyoDate, P!Taken, P!ReminderNote,
         P!ReminderInstant, P!Earlier, P!Note, P!IsTick
<1> QED
  BY <1>1, <1>2, <1>3, <1>4 DEF P!NoticeNext

\* A reservation confirmed all along that starts after a tick of the morning of its day has had
\* its reminder when it has begun, whatever the length of a day and the rhythm of the ticks
\* (trigger.ts, reminderInstant; tick.ts).
THEOREM ReminderComesInTime == P!NoticeSpec => []RemindedInTime
<1>1. P!NoticeInit => RemindInv
  BY DEF P!NoticeInit, RemindInv
<1>2. RemindInv /\ [P!NoticeNext]_(P!noticeVars) => RemindInv'
  BY RemindStep, TariffAssumption, NoticesAssumption
<1>3. RemindInv => RemindedInTime
  BY DEF RemindInv, RemindedInTime, P!RemindedInTime, P!TickIn, MorningOf
<1> QED
  BY <1>1, <1>2, <1>3, PTL DEF P!NoticeSpec

-----------------------------------------------------------------------------
(* The preview.  A stage that is not the last has a positive offset when no *)
(* offset is negative, so its boundary is the end of a day, and two of them *)
(* are a day apart or one: who looks for the next boundary at any instant   *)
(* of the day before it finds it (SameBoundary).  So a notice due at a tick *)
(* is due at every instant between the one announced for it and its end,    *)
(* and the ticks after the preview have taken whatever was due at them.     *)

LEMMA DayDivision ==
  /\ \A d \in Nat \ {0} : \A x \in Int :
       x \div d \in Int /\ (x \div d) * d \in Int /\ (x \div d) * d <= x /\ x < ((x \div d) * d) + d
  /\ \A d \in Nat \ {0} : \A x, y \in Int : x <= y => x \div d <= y \div d
  /\ \A d \in Nat \ {0} : \A q, r \in Int : q < r => q * d + d <= r * d
<1>1. \A d \in Nat \ {0} : \A x \in Int :
       x \div d \in Int /\ (x \div d) * d \in Int /\ (x \div d) * d <= x /\ x < ((x \div d) * d) + d
  OBVIOUS
<1>2. \A d \in Nat \ {0} : \A x, y \in Int : x <= y => x \div d <= y \div d
  OBVIOUS
<1>3. ASSUME NEW d \in Nat \ {0}, NEW q \in Int, NEW r \in Int, q < r PROVE q * d + d <= r * d
  <2>1. q + 1 <= r /\ r - (q + 1) \in Nat
    BY <1>3
  <2>2. PICK k \in Nat : k = r - (q + 1)
    BY <2>1
  <2>3. r = q + 1 + k
    BY <2>2
  <2>4. r * d = q * d + d + k * d /\ k * d \in Nat /\ q * d \in Int
    BY <2>3
  <2> QED
    BY <2>4
<1> QED
  BY <1>1, <1>2, <1>3

\* The ends of two days are a day apart.
LEMMA EndsApart ==
  ASSUME P!PolicyConstants, NEW a \in Int, NEW b \in Int, P!EndOfDay(a) < P!EndOfDay(b)
  PROVE  P!EndOfDay(a) + Day <= P!EndOfDay(b)
<1>1. Day \in Nat \ {0}
  BY DEF P!PolicyConstants
<1>2. PICK q \in Int, r \in Int : q = a \div Day /\ r = b \div Day
  BY <1>1, DayDivision
<1>3. P!EndOfDay(a) = q * Day + Day - 1 /\ P!EndOfDay(b) = r * Day + Day - 1
  BY <1>2 DEF P!EndOfDay
<1>4. q * Day \in Int /\ r * Day \in Int
  BY <1>1
<1>5. q * Day < r * Day
  BY <1>1, <1>3, <1>4
<1>6. q < r
  <2>1. CASE q = r
    BY <2>1, <1>5, <1>4
  <2>2. CASE r < q
    <3>1. r * Day + Day <= q * Day
      BY <2>2, <1>1, DayDivision
    <3> QED
      BY <3>1, <1>1, <1>4, <1>5
  <2> QED
    BY <2>1, <2>2
<1>7. q * Day + Day <= r * Day
  BY <1>6, <1>1, DayDivision
<1> QED
  BY <1>1, <1>3, <1>4, <1>7

\* Of a stage that is not the last the boundary is the end of a day.
LEMMA EndsOfDays ==
  ASSUME P!PolicyConstants, Offsets \subseteq Nat, NEW s \in P!Policies, NEW start \in Int,
         NEW i \in 1 .. Len(s) - 1
  PROVE  \E a \in Int : P!BoundaryInstant(start, s[i].until_offset_hours) = P!EndOfDay(a)
<1>1. Len(s) \in Nat /\ i \in 1 .. Len(s) /\ i + 1 \in 1 .. Len(s)
  BY PolicyIsTable
<1>2. s[i].until_offset_hours \in Nat /\ s[i+1].until_offset_hours \in Nat
  BY <1>1, PolicyIsTable DEF P!Stage
<1>3. s[i+1].until_offset_hours < s[i].until_offset_hours
  BY PolicyIsTable DEF P!ValidStages
<1>4. PICK o \in Int : o = s[i].until_offset_hours
  BY <1>2
<1>5. ~(o <= 0)
  BY <1>2, <1>3, <1>4
<1>6. P!BoundaryInstant(start, o) = P!EndOfDay(start - o) /\ start - o \in Int
  BY <1>5 DEF P!BoundaryInstant
<1> QED
  BY <1>4, <1>6

\* Whoever asks on the day before a boundary is told of it.
LEMMA SameBoundary ==
  ASSUME P!PolicyConstants, Offsets \subseteq Nat, NEW s \in P!Policies, NEW start \in Int,
         NEW t \in Int, NEW u \in Int, NEW b, b = P!NextBoundary(s, start, t), b # Null,
         b.at - Day < u, u <= b.at
  PROVE  P!NextBoundary(s, start, u) = b
<1> DEFINE edge(i) == P!BoundaryInstant(start, s[i].until_offset_hours)
           rt == P!Reached(s, start, t)
           ru == P!Reached(s, start, u)
           f == P!First(rt)
           j == P!First(ru)
           n == Len(s)
<1>1. n \in Nat /\ rt \subseteq 1 .. n /\ ru \subseteq 1 .. n /\ 1 .. n \subseteq Nat
  BY PolicyIsTable, ReachedShrinks
<1>2. \A i \in 1 .. n : edge(i) \in Int
  <2>1. \A i \in 1 .. n : s[i].until_offset_hours \in Int
    BY PolicyIsTable DEF P!Stage, P!PolicyConstants
  <2> QED
    BY <2>1, BoundaryIsInstant
<1>3. rt # {} /\ f # n /\ b = [at |-> edge(f), to |-> f + 1]
  BY DEF P!NextBoundary
<1>4. f \in rt /\ (\A i \in rt : f <= i) /\ f \in 1 .. n - 1
  BY <1>1, <1>3, FirstIsLeast
<1>5. b.at = edge(f) /\ t <= edge(f) /\ f \in 1 .. n /\ Day \in Nat \ {0}
  BY <1>1, <1>3, <1>4 DEF P!Reached, P!PolicyConstants
<1>6. f \in ru
  BY <1>5 DEF P!Reached
<1>7. j \in ru /\ (\A i \in ru : j <= i)
  BY <1>1, <1>6, FirstIsLeast
<1>8. ASSUME j # f PROVE FALSE
  <2>1. j < f /\ j \in 1 .. n - 1 /\ j \in 1 .. n
    BY <1>1, <1>4, <1>6, <1>7, <1>8
  <2>2. j \notin rt
    BY <2>1, <1>1, <1>4
  <2>3. u <= edge(j) /\ ~(t <= edge(j))
    BY <2>1, <2>2, <1>7 DEF P!Reached
  <2>4. PICK a \in Int : edge(j) = P!EndOfDay(a)
    BY <2>1, EndsOfDays
  <2>5. PICK c \in Int : edge(f) = P!EndOfDay(c)
    BY <1>4, EndsOfDays
  <2>6. edge(j) \in Int /\ edge(f) \in Int
    BY <2>1, <1>2, <1>5
  <2> HIDE DEF edge, rt, ru, f, j
  <2>7. edge(j) < edge(f)
    BY <2>3, <2>6, <1>5
  <2>8. edge(j) + Day <= edge(f)
    BY <2>4, <2>5, <2>7, EndsApart
  <2> QED
    BY <2>3, <2>6, <2>8, <1>5
<1>9. ru # {} /\ j = f
  BY <1>6, <1>8
<1> QED
  BY <1>3, <1>9 DEF P!NextBoundary

LEMMA BoundaryFields ==
  ASSUME P!PolicyConstants, NEW s \in P!Policies, NEW start \in Int, NEW t \in Int,
         NEW b, b = P!NextBoundary(s, start, t), b # Null
  PROVE  b.at \in Int /\ t <= b.at
<1> DEFINE reach == P!Reached(s, start, t)
           f == P!First(reach)
<1>1. Len(s) \in Nat /\ reach \subseteq 1 .. Len(s) /\ 1 .. Len(s) \subseteq Nat
  BY PolicyIsTable, ReachedShrinks
<1>2. reach # {} /\ b = [at |-> P!BoundaryInstant(start, s[f].until_offset_hours), to |-> f + 1]
  BY DEF P!NextBoundary
<1>3. f \in reach /\ f \in 1 .. Len(s)
  BY <1>1, <1>2, FirstIsLeast
<1>4. P!BoundaryInstant(start, s[f].until_offset_hours) \in Int
  <2>1. s[f].until_offset_hours \in Int
    BY <1>3, PolicyIsTable DEF P!Stage, P!PolicyConstants
  <2> QED
    BY <2>1, BoundaryIsInstant
<1>5. t <= P!BoundaryInstant(start, s[f].until_offset_hours)
  BY <1>3 DEF P!Reached
<1> QED
  BY <1>2, <1>4, <1>5

\* The three notices by name.
LEMMA DueNotices ==
  ASSUME NEW x, NEW n
  PROVE  n \in P!PendingNotifications(x) <=>
           \/ \E b \in P!BoundaryHitAt(x) : b.at - Day <= x /\ x < b.at /\ n = P!BoundaryNote(b)
           \/ /\ P!Unknowns /\ P!TokyoMorning(P!TokyoDate(x)) <= x
              /\ n = P!DigestNote(P!TokyoDate(x))
           \/ /\ status = "confirmed" /\ P!TokyoDate(x) = P!TokyoDate(begins)
              /\ P!ReminderInstant <= x /\ x <= begins /\ n = P!ReminderNote
  BY DEF P!PendingNotifications

LEMMA PreviewedNotices ==
  ASSUME NEW a, NEW n
  PROVE  n \in P!PreviewNotifications(a) <=>
           /\ n.fire_at \in a .. a + Horizon
           /\ \/ \E b \in P!Walk(a, a + Horizon) : n = P!BoundaryNote(b)
              \/ \E d \in P!TokyoDate(a) .. P!TokyoDate(a + Horizon) : P!Unknowns /\ n = P!DigestNote(d)
              \/ status = "confirmed" /\ n = P!ReminderNote
  BY DEF P!PreviewNotifications

\* What a day's morning is to the instants of the day.
LEMMA MorningOfDay ==
  ASSUME P!PolicyConstants, P!TriggersAssumption, NEW d \in Int
  PROVE  /\ P!TokyoMorning(d) \in Int
         /\ P!TokyoDate(P!TokyoMorning(d)) = d
         /\ P!EndOfDay(P!TokyoMorning(d)) = d * Day + Day - 1
         /\ \A x \in Int : P!TokyoMorning(d) <= x /\ x <= d * Day + Day - 1 => P!TokyoDate(x) = d
<1>1. Day \in Nat \ {0} /\ Morning \in 0 .. Day - 1
  BY DEF P!PolicyConstants, P!TriggersAssumption
<1>2. PICK m \in Int : m = d * Day
  BY <1>1
<1>3. P!TokyoMorning(d) = m + Morning /\ m + Morning \in Int
  BY <1>1, <1>2 DEF P!TokyoMorning
<1>4. ASSUME NEW x \in Int, m <= x, x <= m + Day - 1 PROVE x \div Day = d
  <2>1. PICK q \in Int : q = x \div Day
    BY <1>1, DayDivision
  <2>2. q * Day \in Int /\ q * Day <= x /\ x < (q * Day) + Day
    BY <1>1, <2>1, DayDivision
  <2>3. CASE q < d
    <3>1. (q * Day) + Day <= m
      BY <2>3, <1>1, <1>2, DayDivision
    <3> QED
      BY <3>1, <2>2, <1>1, <1>4
  <2>4. CASE d < q
    <3>1. m + Day <= q * Day
      BY <2>4, <1>1, <1>2, DayDivision
    <3> QED
      BY <3>1, <2>2, <1>1, <1>4
  <2> QED
    BY <2>1, <2>3, <2>4
<1>5. (m + Morning) \div Day = d
  <2>1. m <= m + Morning /\ m + Morning <= m + Day - 1
    BY <1>1
  <2> QED
    BY <2>1, <1>3, <1>4
<1>6. P!EndOfDay(m + Morning) = m + Day - 1
  BY <1>2, <1>5 DEF P!EndOfDay
<1>7. \A x \in Int : m + Morning <= x /\ x <= m + Day - 1 => x \div Day = d
  BY <1>1, <1>4
<1> QED
  BY <1>2, <1>3, <1>5, <1>6, <1>7 DEF P!TokyoDate

\* A boundary that is the next at one instant is the next at every instant of its day before.
LEMMA HitStays ==
  ASSUME P!PolicyConstants, Offsets \subseteq Nat, tariff \in P!Policies, begins \in Starts,
         NEW t \in Int, NEW u \in Int, NEW b \in P!BoundaryHitAt(t), b.at - Day < u, u <= b.at
  PROVE  b \in P!BoundaryHitAt(u)
<1>1. begins \in Int
  BY DEF P!PolicyConstants
<1>2. b = P!NextBoundary(tariff, begins, t) /\ b # Null /\ status \in P!LiveStatuses /\ ~unknown
  BY DEF P!BoundaryHitAt
<1>3. P!NextBoundary(tariff, begins, u) = b
  BY <1>1, <1>2, SameBoundary
<1> QED
  BY <1>2, <1>3 DEF P!BoundaryHitAt

LEMMA HitFields ==
  ASSUME P!PolicyConstants, tariff \in P!Policies, begins \in Starts,
         NEW t \in Int, NEW b \in P!BoundaryHitAt(t)
  PROVE  b.at \in Int /\ t <= b.at
<1>1. begins \in Int
  BY DEF P!PolicyConstants
<1>2. b = P!NextBoundary(tariff, begins, t) /\ b # Null
  BY DEF P!BoundaryHitAt
<1> QED
  BY <1>1, <1>2, BoundaryFields

\* After the instant announced for it and until it is over, a notice is due.
LEMMA PromisedIsDue ==
  ASSUME P!PolicyConstants, P!TriggersAssumption, Offsets \subseteq Nat,
         tariff \in P!Policies, begins \in Starts, NEW a \in Int,
         NEW n \in P!PreviewNotifications(a), NEW x \in n.fire_at + 1 .. P!Until(n)
  PROVE  n \in P!PendingNotifications(x)
<1>1. /\ Day \in Nat \ {0} /\ Morning \in 0 .. Day - 1 /\ begins \in Int /\ Horizon \in Nat
      /\ \A t \in Int : P!TokyoDate(t) \in Int
  BY DayDivision DEF P!PolicyConstants, P!TriggersAssumption, P!TokyoDate
<1>2. ASSUME NEW b \in P!Walk(a, a + Horizon), n = P!BoundaryNote(b)
      PROVE  n \in P!PendingNotifications(x)
  <2>1. PICK t \in Int : b \in P!BoundaryHitAt(t)
    BY <1>1, <1>2 DEF P!Walk
  <2>2. b.at \in Int
    BY <2>1, HitFields
  <2>3. n.fire_at = b.at - Day /\ P!Until(n) = b.at - 1
    BY <1>2 DEF P!BoundaryNote, P!Note, P!Until
  <2>4. x \in Int /\ b.at - Day < x /\ x < b.at
    BY <1>1, <2>2, <2>3
  <2>5. b \in P!BoundaryHitAt(x)
    BY <2>1, <2>2, <2>4, HitStays
  <2> QED
    BY <1>1, <1>2, <2>2, <2>4, <2>5, DueNotices
<1>3. ASSUME NEW d \in P!TokyoDate(a) .. P!TokyoDate(a + Horizon), P!Unknowns, n = P!DigestNote(d)
      PROVE  n \in P!PendingNotifications(x)
  <2>1. d \in Int
    BY <1>1
  <2>2. n.fire_at = P!TokyoMorning(d) /\ P!Until(n) = P!EndOfDay(P!TokyoMorning(d))
    BY <1>3 DEF P!DigestNote, P!Note, P!Until
  <2>3. P!Until(n) = d * Day + Day - 1 /\ P!TokyoMorning(d) \in Int
    BY <2>1, <2>2, MorningOfDay
  <2>4. x \in Int /\ P!TokyoMorning(d) <= x /\ x <= d * Day + Day - 1
    BY <1>1, <2>1, <2>2, <2>3
  <2>5. P!TokyoDate(x) = d
    BY <2>1, <2>4, MorningOfDay
  <2> QED
    BY <1>3, <2>4, <2>5, DueNotices
<1>4. ASSUME status = "confirmed", n = P!ReminderNote PROVE n \in P!PendingNotifications(x)
  <2>1. n.fire_at = P!ReminderInstant /\ P!Until(n) = begins
    BY <1>4 DEF P!ReminderNote, P!Note, P!Until
  <2>2. MorningOf \in Int
    BY <1>1, MorningOfDay DEF MorningOf
  <2>3. P!ReminderInstant = MorningOf
    <3>1. CASE MorningOf <= begins
      BY <3>1 DEF P!ReminderInstant, P!Earlier, MorningOf
    <3>2. CASE ~(MorningOf <= begins)
      <4>1. P!ReminderInstant = begins
        BY <3>2 DEF P!ReminderInstant, P!Earlier, MorningOf
      <4> QED
        BY <4>1, <2>1, <1>1
    <3> QED
      BY <3>1, <3>2
  <2>4. x \in MorningOf .. begins
    BY <1>1, <2>1, <2>2, <2>3
  <2> QED
    BY <1>4, <2>4, ReminderIsDue
<1> QED
  BY <1>2, <1>3, <1>4, PreviewedNotices

\* What is due in the time the preview looks at was announced, or due when it was made.
LEMMA DueWasPromised ==
  ASSUME P!PolicyConstants, P!TriggersAssumption, Offsets \subseteq Nat,
         tariff \in P!Policies, begins \in Starts, NEW a \in Int,
         NEW x \in a .. a + Horizon, NEW n \in P!PendingNotifications(x)
  PROVE  n \in P!PreviewNotifications(a) \cup P!PendingNotifications(a)
<1>1. /\ Day \in Nat \ {0} /\ Morning \in 0 .. Day - 1 /\ begins \in Int /\ Horizon \in Nat
      /\ \A t \in Int : P!TokyoDate(t) \in Int
  BY DayDivision DEF P!PolicyConstants, P!TriggersAssumption, P!TokyoDate
<1>2. x \in Int /\ a <= x /\ x <= a + Horizon /\ a + Horizon \in Int
  BY <1>1
<1>3. ASSUME NEW b \in P!BoundaryHitAt(x), b.at - Day <= x, x < b.at, n = P!BoundaryNote(b)
      PROVE  n \in P!PreviewNotifications(a) \cup P!PendingNotifications(a)
  <2>1. n.fire_at = b.at - Day /\ b.at \in Int
    BY <1>2, <1>3, HitFields DEF P!BoundaryNote, P!Note
  <2>2. CASE a <= b.at - Day
    <3>1. n.fire_at \in a .. a + Horizon
      BY <1>1, <1>2, <1>3, <2>1, <2>2
    <3>2. x \in a .. (a + Horizon) + Day
      BY <1>1, <1>2
    <3>3. b \in P!Walk(a, a + Horizon)
      BY <1>3, <3>2 DEF P!Walk
    <3> QED
      BY <1>3, <3>1, <3>3, PreviewedNotices
  <2>3. CASE ~(a <= b.at - Day)
    <3>1. b.at - Day < a /\ b.at - Day <= a /\ a < b.at /\ a <= b.at
      BY <1>1, <1>2, <1>3, <2>1, <2>3
    <3>2. b \in P!BoundaryHitAt(a)
      BY <1>2, <3>1, HitStays
    <3> QED
      BY <1>3, <3>1, <3>2, DueNotices
  <2> QED
    BY <2>2, <2>3
<1>4. ASSUME P!Unknowns, P!TokyoMorning(P!TokyoDate(x)) <= x, n = P!DigestNote(P!TokyoDate(x))
      PROVE  n \in P!PreviewNotifications(a) \cup P!PendingNotifications(a)
  <2>1. PICK d \in Int : d = P!TokyoDate(x)
    BY <1>1, <1>2
  <2>2. n.fire_at = P!TokyoMorning(d) /\ P!TokyoMorning(d) \in Int
    BY <1>4, <2>1, MorningOfDay DEF P!DigestNote, P!Note
  <2>3. CASE a <= P!TokyoMorning(d)
    <3>1. n.fire_at \in a .. a + Horizon
      BY <1>1, <1>2, <1>4, <2>1, <2>2, <2>3
    <3>2. P!TokyoDate(a) <= d /\ d <= P!TokyoDate(a + Horizon)
      BY <1>1, <1>2, <2>1, DayDivision DEF P!TokyoDate
    <3>3. d \in P!TokyoDate(a) .. P!TokyoDate(a + Horizon)
      BY <1>1, <1>2, <2>1, <3>2
    <3> QED
      BY <1>4, <2>1, <3>1, <3>3, PreviewedNotices
  <2>4. CASE ~(a <= P!TokyoMorning(d))
    <3>1. P!TokyoMorning(d) <= a
      BY <2>2, <2>4
    <3>2. x <= d * Day + Day - 1
      <4>1. PICK m \in Int : m = d * Day
        BY <1>1
      <4>2. x < m + Day
        BY <1>1, <1>2, <2>1, <4>1, DayDivision DEF P!TokyoDate
      <4> QED
        BY <1>1, <1>2, <4>1, <4>2
    <3>3. a <= d * Day + Day - 1
      <4>1. d * Day + Day - 1 \in Int
        BY <1>1
      <4> QED
        BY <4>1, <1>2, <3>2
    <3>4. P!TokyoDate(a) = d
      BY <3>1, <3>3, MorningOfDay
    <3> QED
      BY <1>4, <2>1, <3>1, <3>4, DueNotices
  <2> QED
    BY <2>3, <2>4
<1>5. ASSUME status = "confirmed", P!TokyoDate(x) = P!TokyoDate(begins),
             P!ReminderInstant <= x, x <= begins, n = P!ReminderNote
      PROVE  n \in P!PreviewNotifications(a) \cup P!PendingNotifications(a)
  <2>1. n.fire_at = P!ReminderInstant
    BY <1>5 DEF P!ReminderNote, P!Note
  <2>2. MorningOf \in Int /\ P!ReminderInstant \in {MorningOf, begins}
    BY <1>1, MorningOfDay DEF MorningOf, P!ReminderInstant, P!Earlier
  <2>3. CASE a <= P!ReminderInstant
    <3>1. n.fire_at \in a .. a + Horizon
      BY <1>1, <1>2, <1>5, <2>1, <2>2, <2>3
    <3> QED
      BY <1>5, <3>1, PreviewedNotices
  <2>4. CASE ~(a <= P!ReminderInstant)
    <3>1. P!ReminderInstant = MorningOf
      BY <1>1, <1>2, <1>5, <2>2, <2>4
    <3>2. a \in MorningOf .. begins
      BY <1>1, <1>2, <1>5, <2>2, <2>4, <3>1
    <3>3. P!ReminderNote \in P!PendingNotifications(a)
      BY <1>5, <3>2, ReminderIsDue
    <3> QED
      BY <1>5, <3>3
  <2> QED
    BY <2>3, <2>4
<1> QED
  BY <1>2, <1>3, <1>4, <1>5, DueNotices

\* As long as nobody changes the reservation the preview says what it would say now, and the
\* ticks since it was made have taken what was due at them.
PreviewInv ==
  /\ clock \in Nat /\ edits \in Nat /\ begins \in Starts /\ tariff \in P!Policies
  /\ preview # Null =>
       /\ preview.edits \in Nat /\ preview.edits <= edits
       /\ preview.asOf \in Nat /\ preview.asOf <= clock /\ preview.until = preview.asOf + Horizon
       /\ preview.edits = edits =>
            /\ preview.notes = P!PreviewNotifications(preview.asOf)
            /\ \A x \in preview.asOf + 1 .. clock : P!IsTick(x) =>
                 \A n \in P!PendingNotifications(x) : P!Taken(n)

\* Whatever is due at a tick is taken, now or before.
LEMMA EnqueueTakesAll ==
  ASSUME NEW now, NEW n \in P!PendingNotifications(now)
  PROVE  \E m \in P!Enqueue(now) : m.trigger = n.trigger /\ m.key = n.key
<1>1. CASE \E m \in enqueued : m.trigger = n.trigger /\ m.key = n.key
  BY <1>1, EnqueueTakes
<1>2. CASE ~ \E m \in enqueued : m.trigger = n.trigger /\ m.key = n.key
  <2>1. \A m \in enqueued : <<m.trigger, m.key>> # <<n.trigger, n.key>>
    BY <1>2
  <2>2. n \in P!Enqueue(now)
    BY <2>1 DEF P!Enqueue
  <2> QED
    BY <2>2
<1> QED
  BY <1>1, <1>2

\* The notices depend on the reservation alone.
LEMMA NoticesStay ==
  ASSUME UNCHANGED <<tariff, begins, unknown, status>>
  PROVE  \A t : /\ P!PendingNotifications(t)' = P!PendingNotifications(t)
                /\ P!PreviewNotifications(t)' = P!PreviewNotifications(t)
<1> SUFFICES ASSUME NEW t
             PROVE  /\ P!PendingNotifications(t)' = P!PendingNotifications(t)
                    /\ P!PreviewNotifications(t)' = P!PreviewNotifications(t)
  OBVIOUS
<1>1. \A u : P!BoundaryHitAt(u)' = P!BoundaryHitAt(u)
  BY DEF P!BoundaryHitAt
<1>2. \A u, v : P!Walk(u, v)' = P!Walk(u, v)
  BY <1>1 DEF P!Walk
<1>3. P!ReminderInstant' = P!ReminderInstant /\ P!ReminderNote' = P!ReminderNote
      /\ P!Unknowns' = P!Unknowns
  BY DEF P!ReminderInstant, P!ReminderNote, P!Unknowns, P!TokyoDate, P!TokyoMorning, P!Earlier, P!Note
<1>4. P!PendingNotifications(t)' = P!PendingNotifications(t)
  BY <1>1, <1>3 DEF P!PendingNotifications, P!BoundaryNote, P!DigestNote, P!Note, P!TokyoDate, P!TokyoMorning
<1>5. P!PreviewNotifications(t)' = P!PreviewNotifications(t)
  BY <1>2, <1>3 DEF P!PreviewNotifications, P!BoundaryNote, P!DigestNote, P!Note, P!TokyoDate, P!TokyoMorning
<1> QED
  BY <1>4, <1>5

LEMMA PreviewStep ==
  ASSUME P!TriggersAssumption, PreviewInv, [P!NoticeNext]_(P!noticeVars)
  PROVE  PreviewInv'
<1>1. CASE P!RunTick
  <2>1. /\ clock' = clock + 1
        /\ UNCHANGED <<tariff, begins, unknown, status, preview, edits>>
        /\ enqueued' = IF P!IsTick(clock + 1) THEN P!Enqueue(clock + 1) ELSE enqueued
    BY <1>1 DEF P!RunTick, P!Pass
  <2>2. PICK c : c = clock + 1
    OBVIOUS
  <2>3. clock \in Nat /\ c \in Nat /\ clock < c
    BY <2>2 DEF PreviewInv
  <2>4. enqueued \subseteq enqueued'
    BY <2>1, EnqueueTakes
  <2>5. ASSUME preview # Null, preview.edits = edits,
               NEW x \in preview.asOf + 1 .. c, P!IsTick(x), NEW n \in P!PendingNotifications(x)
        PROVE  \E m \in enqueued' : m.trigger = n.trigger /\ m.key = n.key
    <3>1. x \in Int /\ preview.asOf + 1 <= x /\ x <= c /\ preview.asOf \in Nat
      BY <2>3, <2>5 DEF PreviewInv
    <3>2. CASE x <= clock
      <4>1. x \in preview.asOf + 1 .. clock
        BY <3>1, <3>2, <2>3
      <4>2. P!Taken(n)
        BY <4>1, <2>5 DEF PreviewInv
      <4> QED
        BY <4>2, <2>4 DEF P!Taken
    <3>3. CASE ~(x <= clock)
      <4>1. x = c
        BY <2>2, <2>3, <3>1, <3>3
      <4>2. enqueued' = P!Enqueue(x)
        BY <2>1, <2>2, <2>5, <4>1
      <4> QED
        BY <2>5, <4>2, EnqueueTakesAll
    <3> QED
      BY <3>2, <3>3
  <2>6. \A t : /\ P!PendingNotifications(t)' = P!PendingNotifications(t)
               /\ P!PreviewNotifications(t)' = P!PreviewNotifications(t)
    BY <2>1, NoticesStay
  <2>7. PICK a : a = preview.asOf
    OBVIOUS
  <2>8. /\ P!PreviewNotifications(a)' = P!PreviewNotifications(a)
        /\ \A x : P!IsTick(x)' <=> P!IsTick(x)
    BY <2>6 DEF P!IsTick
  <2>9. preview # Null =>
          /\ preview.edits \in Nat /\ preview.edits <= edits
          /\ preview.asOf \in Nat /\ preview.asOf <= c /\ preview.until = preview.asOf + Horizon
    BY <2>3 DEF PreviewInv
  <2>10. preview # Null /\ preview.edits = edits =>
          preview.notes = P!PreviewNotifications(a)
    BY <2>7 DEF PreviewInv
  <2>11. preview' # Null /\ preview'.edits = edits' =>
           /\ preview'.notes = P!PreviewNotifications(preview.asOf)'
           /\ \A x \in preview.asOf + 1 .. c : P!IsTick(x) =>
                \A n \in P!PendingNotifications(x) : \E m \in enqueued' : m.trigger = n.trigger /\ m.key = n.key
    BY <2>1, <2>5, <2>7, <2>8, <2>10
  <2> QED
    BY <2>1, <2>2, <2>3, <2>6, <2>8, <2>9, <2>11 DEF PreviewInv, P!Taken
<1>2. CASE P!SimulateNotifications
  <2>1. /\ UNCHANGED <<tariff, begins, clock, unknown, status, edits, enqueued>>
        /\ preview' = [asOf |-> clock, until |-> clock + Horizon,
                       notes |-> P!PreviewNotifications(clock), edits |-> edits]
    BY <1>2 DEF P!SimulateNotifications, P!vars
  <2>2. PICK c \in Nat : c = clock
    BY DEF PreviewInv
  <2>3. P!PreviewNotifications(c)' = P!PreviewNotifications(c)
    BY <2>1, NoticesStay
  <2>4. preview'.asOf = c /\ preview'.until = c + Horizon /\ preview'.edits = edits
        /\ preview'.notes = P!PreviewNotifications(c)
    BY <2>1, <2>2
  <2>5. \A x : x \notin c + 1 .. c
    BY <2>2
  <2> QED
    BY <2>1, <2>2, <2>3, <2>4, <2>5 DEF PreviewInv
<1>3. CASE P!ChangeStatus
  <2>1. UNCHANGED <<tariff, begins, clock, preview>> /\ edits' = edits + 1
    BY <1>3 DEF P!ChangeStatus, P!vars
  <2>2. edits \in Nat /\ edits' \in Nat
    BY <2>1 DEF PreviewInv
  <2>3. preview # Null => preview.edits \in Nat /\ preview.edits <= edits' /\ preview.edits # edits'
    BY <2>1, <2>2 DEF PreviewInv
  <2> QED
    BY <2>1, <2>2, <2>3 DEF PreviewInv
<1>4. CASE UNCHANGED P!noticeVars
  <2>1. UNCHANGED <<tariff, begins, clock, unknown, status, edits, enqueued, preview>>
    BY <1>4 DEF P!noticeVars, P!vars
  <2>2. \A t : P!PendingNotifications(t)' = P!PendingNotifications(t)
    BY <2>1, NoticesStay
  <2>3. PICK a : a = preview.asOf
    OBVIOUS
  <2>4. P!PreviewNotifications(a)' = P!PreviewNotifications(a)
    BY <2>1, NoticesStay
  <2>5. \A n : P!Taken(n)' <=> P!Taken(n)
    BY <2>1 DEF P!Taken
  <2>6. \A x : P!IsTick(x)' <=> P!IsTick(x)
    BY DEF P!IsTick
  <2> QED
    BY <2>1, <2>2, <2>3, <2>4, <2>5, <2>6 DEF PreviewInv
<1> QED
  BY <1>1, <1>2, <1>3, <1>4 DEF P!NoticeNext

\* What falls due was announced, or was due when the preview was made; and what was announced is
\* enqueued when a tick comes after the instant announced and before it is over (trigger.ts,
\* previewNotifications): of every table whose stages end at the start or before, whatever the
\* length of a day, the rhythm of the ticks and the preview's horizon.
THEOREM PreviewKept == Offsets \subseteq Nat => (P!NoticeSpec => []PreviewIsKept)
<1> SUFFICES ASSUME Offsets \subseteq Nat PROVE P!NoticeSpec => []PreviewIsKept
  OBVIOUS
<1>1. P!NoticeInit => PreviewInv
  BY DEF P!NoticeInit, PreviewInv
<1>2. PreviewInv /\ [P!NoticeNext]_(P!noticeVars) => PreviewInv'
  BY PreviewStep, NoticesAssumption
<1>3. ASSUME PreviewInv PROVE PreviewIsKept
  <2> SUFFICES ASSUME preview # Null, preview.edits = edits
               PROVE  /\ \A n \in P!PendingNotifications(clock) :
                           clock \in preview.asOf .. preview.until =>
                             n \in preview.notes \cup P!PendingNotifications(preview.asOf)
                      /\ \A n \in preview.notes : P!TickIn(n.fire_at + 1, P!Until(n)) => P!Taken(n)
    BY DEF PreviewIsKept, P!PreviewIsKept
  <2>1. PICK a \in Nat : a = preview.asOf
    BY <1>3 DEF PreviewInv
  <2>2. /\ tariff \in P!Policies /\ begins \in Starts /\ clock \in Nat /\ a <= clock
        /\ preview.until = a + Horizon /\ preview.notes = P!PreviewNotifications(a)
        /\ \A x \in a + 1 .. clock : P!IsTick(x) => \A n \in P!PendingNotifications(x) : P!Taken(n)
    BY <1>3, <2>1 DEF PreviewInv
  <2>3. ASSUME NEW n \in P!PendingNotifications(clock), clock \in a .. a + Horizon
        PROVE  n \in P!PreviewNotifications(a) \cup P!PendingNotifications(a)
    BY <2>2, <2>3, DueWasPromised, TariffAssumption, NoticesAssumption
  <2>4. ASSUME NEW n \in P!PreviewNotifications(a), P!TickIn(n.fire_at + 1, P!Until(n))
        PROVE  P!Taken(n)
    <3>1. PICK x \in n.fire_at + 1 .. P!Until(n) : 0 < x /\ x <= clock /\ P!IsTick(x)
      BY <2>4 DEF P!TickIn
    <3>2. n \in P!PendingNotifications(x)
      BY <2>2, PromisedIsDue, TariffAssumption, NoticesAssumption
    <3>3. n.fire_at \in a .. a + Horizon
      BY PreviewedNotices
    <3>4. a + Horizon \in Int
      BY NoticesAssumption DEF P!TriggersAssumption
    <3>5. n.fire_at \in Int /\ a <= n.fire_at
      BY <3>3, <3>4
    <3>6. x \in Int /\ n.fire_at + 1 <= x
      BY <3>1, <3>5
    <3>7. x \in a + 1 .. clock
      BY <2>2, <3>1, <3>5, <3>6
    <3> QED
      BY <2>2, <3>1, <3>2, <3>7
  <2> QED
    BY <2>1, <2>2, <2>3, <2>4
<1>4. PreviewInv => PreviewIsKept
  BY <1>3
<1> HIDE DEF PreviewInv
<1> QED
  BY <1>1, <1>2, <1>4, PTL DEF P!NoticeSpec
=============================================================================
