---------------------------- MODULE CoreLedger ----------------------------
(***************************************************************************)
(* The event-sourced ledger: the transition functions of core/domain, the  *)
(* append-only event log of core/eventlog, the KvStore and the tools of    *)
(* mcp/tools that run them.                                                *)
(*                                                                         *)
(* A tool call reads what its transition needs, computes the outcome, and  *)
(* then appends the events, puts the reservations, puts the plan and       *)
(* enqueues the notice, one KV call at a time and with no version check.   *)
(* Other calls run in between, and the process may die between any two.    *)
(*                                                                         *)
(* Event ids are ULIDs minted when the outcome is computed, so the log is  *)
(* listed in the order of computation, not of appending: at is that order. *)
(* The events of one command share it; they are about different entities.  *)
(***************************************************************************)
EXTENDS Naturals, FiniteSets, SequencesExt

CONSTANTS
  Sessions,      \* tool calls that may be in flight at once
  Ids,           \* reservation ids newUlid() can hand out; bounds the ledger
  Plans,         \* plan ids
  Foreign,       \* those of them that create_plan never hands out
  Null,          \* JavaScript null
  Quotas,        \* values of confirm_quota
  MaxCommands,   \* bounds the tool calls of a behaviour
  Tools,         \* the tools this instance calls
  CanCrash       \* whether the process may die

AllTools == {"create_plan", "create", "add", "link", "confirm", "report", "void", "policy"}

ASSUME CoreAssumption ==
  /\ Null \notin Ids \cup Plans
  /\ IsFiniteSet(Sessions) /\ IsFiniteSet(Ids)
  /\ Quotas \subseteq Nat \ {0} /\ MaxCommands \in Nat /\ Foreign \subseteq Plans
  /\ Tools \subseteq AllTools /\ CanCrash \in BOOLEAN

\* No tool reaches markDone, so nothing becomes "done"; nothing closes a plan.
Statuses == {"candidate", "confirmed", "to_cancel", "cancelled", "voided"}

\* policy: whether the cancellation policy is known.
Reservation == [plan : Plans \cup {Null}, status : Statuses, policy : BOOLEAN]
Plan == [status : {"open", "settled"}, confirm_quota : Quotas, members : SUBSET Ids]

ASSUME NullAssumption ==
  Null \notin Reservation /\ Null \notin Plan /\ Null \notin [plan : Plans, rec : Plan]

Types == {"created", "confirmed", "settled", "auto", "cancelled", "voided", "policy"}

\* res is the reservation an event is about, Null for plan.settled.  cause is
\* caused_by: the type of an event minted by the same command, or Null.
Event == [at : 1 .. MaxCommands, type : Types, res : Ids \cup {Null},
          plan : Plans \cup {Null}, rec : Reservation \cup {Null},
          cause : {"confirmed", Null}]

VARIABLES
  log,       \* the domain_event entries
  store,     \* the reservation entries and, by plan, their index
  plans,     \* the plan entries
  outbox,    \* plan_settled notices: [plan, at, remaining]
  issued,    \* reservation ids minted
  started,   \* tool calls made
  minted,    \* commands that have computed an outcome
  call,      \* what each session's tool call is doing
  torn,      \* history: has a process died while its call was writing
  mixed      \* history: has a call overlapped another, or linked what exists

vars == <<log, store, plans, outbox, issued, started, minted, call, torn, mixed>>

\* target, plan, scan, siblings, link: about to read those; write: writing.
Pcs == {"idle", "target", "plan", "scan", "siblings", "link", "write"}

Idle == [pc |-> "idle", tool |-> Null, id |-> Null, rec |-> Null, plan |-> Null,
         planrec |-> Null, sibs |-> {}, todo |-> {},
         events |-> <<>>, puts |-> <<>>, planput |-> Null, notice |-> Null]

Notice == [plan : Plans, at : 1 .. MaxCommands, remaining : 0 .. Cardinality(Ids)]
Put == [id : Ids, rec : Reservation]

TypeOK ==
  /\ log \subseteq Event
  /\ store \in [Ids -> Reservation \cup {Null}]
  /\ plans \in [Plans -> Plan \cup {Null}]
  /\ outbox \subseteq Notice
  /\ issued \subseteq Ids
  /\ started \in 0 .. MaxCommands /\ minted \in 0 .. started /\ torn \in BOOLEAN /\ mixed \in BOOLEAN
  /\ \A s \in Sessions :
       /\ call[s].pc \in Pcs /\ call[s].tool \in AllTools \cup {Null}
       /\ call[s].todo \subseteq Ids /\ call[s].sibs \subseteq Put
       /\ ToSet(call[s].events) \subseteq Event /\ ToSet(call[s].puts) \subseteq Put
       /\ call[s].planput \in {Null} \cup [plan : Plans, rec : Plan]
       /\ call[s].notice \in Notice \cup {Null}

Init ==
  /\ log = {} /\ outbox = {} /\ issued = {} /\ started = 0 /\ minted = 0
  /\ torn = FALSE /\ mixed = FALSE
  /\ store = [i \in Ids |-> Null]
  /\ plans = [p \in Plans |-> Null]
  /\ call = [s \in Sessions |-> Idle]

-----------------------------------------------------------------------------
(* core/domain/transitions.ts                                              *)

EventOf(type, i, plan, cause) ==
  [at |-> minted + 1, type |-> type, res |-> i, plan |-> plan, rec |-> Null, cause |-> cause]

WithStatus(put, status) == [put EXCEPT !.rec.status = status]

\* What a transition hands to persistTransition.  Nothing: it was rejected.
Outcome(events, puts, planput, notice) ==
  [Idle EXCEPT !.pc = "write", !.events = events, !.puts = puts,
               !.planput = planput, !.notice = notice]

\* Mutant: one confirmation too many.
QuotaFullLate(existing, plan) == plan.status = "settled" \/ existing > plan.confirm_quota

QuotaFull(existing, plan) == plan.status = "settled" \/ existing >= plan.confirm_quota

\* The post-transition snapshot: what was read, with what changed.
Snapshot(read, puts) ==
  ToSet(puts) \cup {r \in read : \A w \in ToSet(puts) : w.id # r.id}

Remaining(snapshot, p) ==
  Cardinality({r \in snapshot : r.rec.plan = p /\ r.rec.status = "to_cancel"})

\* Mutant: the notice counts what was read before the transition.
NoticeBefore(p, read, puts) == [plan |-> p, at |-> minted + 1, remaining |-> Remaining(read, p)]

\* notify/trigger.ts notificationsForEvents on that snapshot.
NoticeOf(p, read, puts) ==
  [plan |-> p, at |-> minted + 1, remaining |-> Remaining(Snapshot(read, puts), p)]

\* confirm: target is [id, rec], sibs the plan's other reservations.
Confirmed(target, plan, planrec, sibs) ==
  LET existing == Cardinality({r \in sibs : r.rec.status = "confirmed"})
      others   == SetToSeq({r \in sibs : r.rec.status = "candidate"})
      event    == EventOf("confirmed", target.id, plan, Null)
      winner   == WithStatus(target, "confirmed")
      losers   == [k \in DOMAIN others |-> WithStatus(others[k], "to_cancel")]
      settled  == EventOf("settled", Null, plan, "confirmed")
      autos    == [k \in DOMAIN others |-> EventOf("auto", others[k].id, plan, "confirmed")]
  IN CASE target.rec.status # "candidate" -> Idle
       [] target.rec.status = "candidate" /\ plan = Null ->
            Outcome(<<event>>, <<winner>>, Null, Null)
       [] target.rec.status = "candidate" /\ plan # Null /\ QuotaFull(existing, planrec) -> Idle
       [] OTHER ->
            IF existing + 1 >= planrec.confirm_quota
            THEN Outcome(<<event, settled>> \o autos, <<winner>> \o losers,
                         [plan |-> plan, rec |-> [planrec EXCEPT !.status = "settled"]],
                         NoticeOf(plan, sibs \cup {target}, <<winner>> \o losers))
            ELSE Outcome(<<event>>, <<winner>>, Null, Null)

\* Mutants: any reservation can be reported cancelled; a policy set without
\* an event.
ReportCancelledAny(target) ==
  Outcome(<<EventOf("cancelled", target.id, target.rec.plan, Null)>>,
          <<WithStatus(target, "cancelled")>>, Null, Null)
SetPolicySilently(target) ==
  Outcome(<<>>, <<[target EXCEPT !.rec.policy = TRUE]>>, Null, Null)

\* reportCancelled, voidReservation and the tool set_policy.
ReportCancelled(target) ==
  IF target.rec.status # "to_cancel" THEN Idle
  ELSE Outcome(<<EventOf("cancelled", target.id, target.rec.plan, Null)>>,
               <<WithStatus(target, "cancelled")>>, Null, Null)

VoidReservation(target) ==
  IF target.rec.status = "voided" THEN Idle
  ELSE Outcome(<<EventOf("voided", target.id, target.rec.plan, Null)>>,
               <<WithStatus(target, "voided")>>, Null, Null)

SetPolicy(target) ==
  IF target.rec.status \notin {"candidate", "confirmed", "to_cancel"} THEN Idle
  ELSE Outcome(<<EventOf("policy", target.id, Null, Null)>>,
               <<[target EXCEPT !.rec.policy = TRUE]>>, Null, Null)

\* createReservation, whose event carries the whole reservation.
Created(i, r, planput) ==
  Outcome(<<[EventOf("created", i, r.plan, Null) EXCEPT !.rec = r]>>,
          <<[id |-> i, rec |-> r]>>, planput, Null)

-----------------------------------------------------------------------------
(* core/eventlog/fold.ts: the projection the log stands for.               *)

ApplyReservationEvent(state, e) ==
  CASE e.type = "created" -> e.rec
    [] e.type # "created" /\ state = Null -> Null
    [] e.type = "confirmed" /\ state # Null ->
         [state EXCEPT !.status = "confirmed", !.plan = IF e.plan = Null THEN @ ELSE e.plan]
    [] e.type = "auto" /\ state # Null -> [state EXCEPT !.status = "to_cancel", !.plan = e.plan]
    [] e.type \in {"cancelled", "voided"} /\ state # Null -> [state EXCEPT !.status = e.type]
    [] e.type = "policy" /\ state # Null -> [state EXCEPT !.policy = TRUE]

\* The log is listed in the order of the events' ids.
Latest(E) == CHOOSE e \in E : \A f \in E : f.at <= e.at

\* foldReservation of E: its latest event applied to what the others give.
FoldEvents(E) ==
  MapThenFoldSet(LAMBDA e, state : ApplyReservationEvent(state, e), Null, LAMBDA e : e, Latest, E)

FoldReservation(i) == FoldEvents({e \in log : e.res = i})

FoldedSettled(p) == \E e \in log : e.type = "settled" /\ e.plan = p

\* eventlog/verify-projection.ts finds no mismatch.
VerifyProjection ==
  /\ \A i \in Ids : store[i] = FoldReservation(i)
  /\ \A p \in Plans : FoldedSettled(p) <=> plans[p] # Null /\ plans[p].status = "settled"

-----------------------------------------------------------------------------
(* mcp/tools: what a tool reads.                                           *)

Busy == {s \in Sessions : call[s].pc # "idle"}

Mixes(s, k) == mixed' = (mixed \/ Cardinality(Busy \cup {s}) > 1 \/ k.pc = "link")

Start(s, tool) ==
  /\ tool \in Tools /\ call[s].pc = "idle" /\ started < MaxCommands
  /\ started' = started + 1

\* The call goes on as k; a call with nothing left to do returns.
Becomes(s, k) ==
  /\ Mixes(s, k)
  /\ call' = [call EXCEPT ![s] =
                 IF k.pc = "write" /\ k.events = <<>> /\ k.puts = <<>>
                    /\ k.planput = Null /\ k.notice = Null
                 THEN Idle ELSE k]

\* A transition was computed; only an accepted one mints event ids.
Decide(s, outcome) ==
  /\ Becomes(s, outcome)
  /\ minted' = IF outcome.events = <<>> THEN minted ELSE minted + 1

CreatePlan(s) ==
  /\ Start(s, "create_plan")
  /\ \E p \in Plans \ Foreign, q \in Quotas :
       /\ plans[p] = Null
       /\ plans' = [plans EXCEPT ![p] = [status |-> "open", confirm_quota |-> q, members |-> {}]]
  /\ Mixes(s, Idle)
  /\ UNCHANGED <<log, store, outbox, issued, minted, call, torn>>

\* create_reservation takes any plan id, one that no plan has too, and does not
\* read the plan.
CreateReservation(s) ==
  /\ Start(s, "create")
  /\ \E i \in Ids \ issued, known \in BOOLEAN,
        plan \in {p \in Plans : plans[p] # Null} \cup Foreign \cup {Null} :
       /\ issued' = issued \cup {i}
       /\ Decide(s, Created(i, [plan |-> plan, status |-> "candidate", policy |-> known], Null))
  /\ UNCHANGED <<log, store, plans, outbox, torn>>

\* The plan with a new member, to be put when it was not one already.
PlanPut(p, planrec, i) ==
  IF i \in planrec.members THEN Null
  ELSE [plan |-> p, rec |-> [planrec EXCEPT !.members = @ \cup {i}]]

\* add_to_plan with an inline reservation.
AddInline(s) ==
  /\ Start(s, "add")
  /\ \E i \in Ids \ issued, p \in Plans :
       /\ plans[p] # Null
       /\ issued' = issued \cup {i}
       /\ Decide(s, Created(i, [plan |-> p, status |-> "candidate", policy |-> TRUE],
                            PlanPut(p, plans[p], i)))
  /\ UNCHANGED <<log, store, plans, outbox, torn>>

\* add_to_plan with an existing reservation: no transition, no event.
Link(s) ==
  /\ Start(s, "link")
  /\ \E i \in issued, p \in Plans :
       /\ plans[p] # Null
       /\ Becomes(s, [Idle EXCEPT !.pc = "link", !.id = i, !.plan = p, !.planrec = plans[p]])
  /\ UNCHANGED <<log, store, plans, outbox, issued, minted, torn>>

LinkExisting(s) ==
  LET k == call[s] IN
  /\ k.pc = "link"
  /\ IF store[k.id] = Null THEN Becomes(s, Idle)
     ELSE Becomes(s, Outcome(<<>>, <<[id |-> k.id, rec |-> [store[k.id] EXCEPT !.plan = k.plan]]>>,
                             PlanPut(k.plan, k.planrec, k.id), Null))
  /\ UNCHANGED <<log, store, plans, outbox, issued, started, minted, torn>>

Command(s) ==
  /\ \E tool \in {"confirm", "report", "void", "policy"}, i \in issued :
       /\ Start(s, tool)
       /\ Becomes(s, [Idle EXCEPT !.pc = "target", !.tool = tool, !.id = i])
  /\ UNCHANGED <<log, store, plans, outbox, issued, minted, torn>>

\* The tool has loaded its context and runs its transition.
Run(s, k, planrec, sibs) ==
  LET target == [id |-> k.id, rec |-> k.rec] IN
  Decide(s, CASE k.tool = "confirm" ->
                   Confirmed(target, IF planrec = Null THEN Null ELSE k.rec.plan, planrec, sibs)
              [] k.tool = "report"  -> ReportCancelled(target)
              [] k.tool = "void"    -> VoidReservation(target)
              [] k.tool = "policy"  -> SetPolicy(target))

\* loadTransitionContext; set_policy reads the reservation only.
ReadTarget(s) ==
  LET r == store[call[s].id]  k == [call[s] EXCEPT !.rec = r] IN
  /\ call[s].pc = "target"
  /\ \/ r = Null /\ Becomes(s, Idle) /\ UNCHANGED minted
     \/ r # Null /\ (r.plan = Null \/ k.tool = "policy") /\ Run(s, k, Null, {})
     \/ /\ r # Null /\ r.plan # Null /\ k.tool # "policy"
        /\ Becomes(s, [k EXCEPT !.pc = "plan"]) /\ UNCHANGED minted
  /\ UNCHANGED <<log, store, plans, outbox, issued, started, torn>>

ReadPlan(s) ==
  LET planrec == plans[call[s].rec.plan] IN
  /\ call[s].pc = "plan"
  /\ IF planrec = Null THEN Run(s, call[s], Null, {})
     ELSE /\ Becomes(s, [call[s] EXCEPT !.pc = "scan", !.planrec = planrec])
          /\ UNCHANGED minted
  /\ UNCHANGED <<log, store, plans, outbox, issued, started, torn>>

\* listReservationsByPlan: the index first, then each reservation it names.
ScanIndex(s) ==
  LET k == call[s]
      found == {i \in Ids \ {k.id} : store[i] # Null /\ store[i].plan = k.rec.plan} IN
  /\ k.pc = "scan"
  /\ IF found = {} THEN Run(s, k, k.planrec, {})
     ELSE Becomes(s, [k EXCEPT !.pc = "siblings", !.todo = found]) /\ UNCHANGED minted
  /\ UNCHANGED <<log, store, plans, outbox, issued, started, torn>>

ReadSibling(s) ==
  LET k == call[s] IN
  /\ k.pc = "siblings"
  /\ \E i \in k.todo :
       LET sibs == k.sibs \cup {[id |-> i, rec |-> store[i]]} IN
       IF k.todo = {i} THEN Run(s, k, k.planrec, sibs)
       ELSE /\ Becomes(s, [k EXCEPT !.todo = @ \ {i}, !.sibs = sibs])
            /\ UNCHANGED minted
  /\ UNCHANGED <<log, store, plans, outbox, issued, started, torn>>

-----------------------------------------------------------------------------
(* mcp/tools/shared.ts persistTransition: what a tool writes, in order.    *)

\* Mutants: the events are appended last first, or after the reservations.
AppendBackwards(s) ==
  LET k == call[s] IN
  /\ k.pc = "write" /\ k.events # <<>>
  /\ log' = log \cup {Last(k.events)}
  /\ Becomes(s, [k EXCEPT !.events = Front(k.events)])
  /\ UNCHANGED <<store, plans, outbox, issued, started, minted, torn>>
PutFirst(s) ==
  LET k == call[s] IN
  /\ k.pc = "write" /\ k.puts # <<>>
  /\ store' = [store EXCEPT ![Head(k.puts).id] = Head(k.puts).rec]
  /\ Becomes(s, [k EXCEPT !.puts = Tail(k.puts)])
  /\ UNCHANGED <<log, plans, outbox, issued, started, minted, torn>>

AppendEvent(s) ==
  LET k == call[s] IN
  /\ k.pc = "write" /\ k.events # <<>>
  /\ log' = log \cup {Head(k.events)}
  /\ Becomes(s, [k EXCEPT !.events = Tail(k.events)])
  /\ UNCHANGED <<store, plans, outbox, issued, started, minted, torn>>

PutReservation(s) ==
  LET k == call[s] IN
  /\ k.pc = "write" /\ k.events = <<>> /\ k.puts # <<>>
  /\ store' = [store EXCEPT ![Head(k.puts).id] = Head(k.puts).rec]
  /\ Becomes(s, [k EXCEPT !.puts = Tail(k.puts)])
  /\ UNCHANGED <<log, plans, outbox, issued, started, minted, torn>>

PutPlan(s) ==
  LET k == call[s] IN
  /\ k.pc = "write" /\ k.events = <<>> /\ k.puts = <<>> /\ k.planput # Null
  /\ plans' = [plans EXCEPT ![k.planput.plan] = k.planput.rec]
  /\ Becomes(s, [k EXCEPT !.planput = Null])
  /\ UNCHANGED <<log, store, outbox, issued, started, minted, torn>>

\* onEventsAppended.  The key holds the settle event's id, so it is fresh.
Enqueue(s) ==
  LET k == call[s] IN
  /\ k.pc = "write" /\ k.events = <<>> /\ k.puts = <<>> /\ k.planput = Null /\ k.notice # Null
  /\ outbox' = outbox \cup {k.notice}
  /\ Becomes(s, [k EXCEPT !.notice = Null])
  /\ UNCHANGED <<log, store, plans, issued, started, minted, torn>>

-----------------------------------------------------------------------------

\* The process dies between two KV calls; nothing resumes the tool call.
Crash(s) ==
  /\ CanCrash /\ s \in Busy
  /\ Becomes(s, Idle) /\ torn' = (torn \/ call[s].pc = "write")
  /\ UNCHANGED <<log, store, plans, outbox, issued, started, minted>>

Next == \E s \in Sessions :
  \/ CreatePlan(s) \/ CreateReservation(s) \/ AddInline(s) \/ Link(s) \/ LinkExisting(s)
  \/ Command(s) \/ ReadTarget(s) \/ ReadPlan(s) \/ ScanIndex(s) \/ ReadSibling(s)
  \/ AppendEvent(s) \/ PutReservation(s) \/ PutPlan(s) \/ Enqueue(s) \/ Crash(s)

Spec == Init /\ [][Next]_vars

-----------------------------------------------------------------------------
(* Properties.                                                             *)

ConfirmedIn(p) ==
  {i \in Ids : store[i] # Null /\ store[i].plan = p /\ store[i].status = "confirmed"}

Yields(e) == CASE e.type = "created" -> "candidate" [] e.type = "auto" -> "to_cancel"
               [] OTHER -> e.type

\* The log explains the store and itself, whatever is interleaved or cut short: an
\* event in it has its cause in it (debug_causal_chain walks them), and every stored
\* status, known policy and settled plan has the event that says so.
LogExplainsStore ==
  /\ \A e \in log : e.cause # Null => \E f \in log : f.at = e.at /\ f.type = e.cause
  /\ \A i \in Ids : store[i] # Null =>
       /\ \E e \in log : e.res = i /\ Yields(e) = store[i].status
       /\ store[i].policy =>
            \E e \in log : e.res = i /\ (e.type = "policy" \/ (e.type = "created" /\ e.rec.policy))
  /\ \A p \in Plans : plans[p] # Null /\ plans[p].status = "settled" => FoldedSettled(p)

\* The projection rebuilt from the log is what is stored, whenever no tool call is
\* under way, unless one was cut short while it was writing, calls overlapped, or
\* an existing reservation was linked, which leaves no event (fold.ts:3, "current
\* state is reconstructible by folding events").
ProjectionAgrees == ~torn /\ ~mixed /\ Busy = {} => VerifyProjection

\* "A plan already at/over quota must not accept more confirmations"
\* (transitions.ts:204): one call after the other, whatever a crash leaves half
\* done, no plan ever has more confirmed reservations than that.
QuotaHeld ==
  ~mixed => \A p \in Plans : plans[p] # Null => Cardinality(ConfirmedIn(p)) <= plans[p].confirm_quota
=============================================================================
