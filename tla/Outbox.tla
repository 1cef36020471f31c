------------------------------ MODULE Outbox ------------------------------
(***************************************************************************)
(* notify/outbox.ts as cron/tick.ts and notify/subscribe.ts drive it: an   *)
(* entry per idempotency key, written when a notification falls due or a   *)
(* plan settles, delivered by the next pass, tried again when the channel  *)
(* rejects it, given up on after MaxAttempts rejections.                   *)
(*                                                                         *)
(* A process is a cron tick or a tool call that publishes an event; any of *)
(* its KV calls may be its last (an exception nobody catches, or a crash). *)
(***************************************************************************)
EXTENDS Naturals, FiniteSets

CONSTANTS
  Ticks,        \* invocations of runTick that may overlap
  Publishers,   \* tool calls publishing a plan.settled event
  DueKeys,      \* keys of notifications that fall due with time
  EventKeys,    \* keys of plan_settled notifications, one an event
  MaxAttempts,  \* 5 in the code
  MaxAborts,    \* bound: processes cut short
  Null

Procs == Ticks \cup Publishers
Keys == DueKeys \cup EventKeys

VARIABLES
  entry,      \* outbox/<key>: [status, attempts] or Null
  pc,         \* what each process does next
  todo,       \* keys it has still to enqueue
  batch,      \* entries it has listed as pending and not yet taken up
  current,    \* the entry it is working on: [key, attempts] or Null
  published,  \* event keys some publisher has taken
  sent,       \* history: how often the channel accepted a key's message
  aborts      \* history: processes cut short

vars == <<entry, pc, todo, batch, current, published, sent, aborts>>

Item == [key : Keys, attempts : 0 .. MaxAttempts - 1]
Entry == [status : {"pending", "delivered", "failed"}, attempts : 0 .. MaxAttempts]

OutboxAssumption ==
  /\ IsFiniteSet(Keys) /\ Ticks \cap Publishers = {} /\ DueKeys \cap EventKeys = {}
  /\ MaxAttempts \in Nat \ {0} /\ MaxAborts \in Nat
  /\ Null \notin Item \cup Entry

TypeOK ==
  /\ entry \in [Keys -> Entry \cup {Null}]
  /\ pc \in [Procs -> {"idle", "enqueue", "put", "deliver", "mark", "rejected"}]
  /\ todo \in [Procs -> SUBSET Keys]
  /\ batch \in [Procs -> SUBSET Item]
  /\ current \in [Procs -> Item \cup {Null}]
  /\ published \subseteq EventKeys
  /\ sent \in [Keys -> Nat]
  /\ aborts \in 0 .. MaxAborts

Init ==
  /\ entry = [k \in Keys |-> Null]
  /\ pc = [p \in Procs |-> "idle"]
  /\ todo = [p \in Procs |-> {}]
  /\ batch = [p \in Procs |-> {}]
  /\ current = [p \in Procs |-> Null]
  /\ published = {}
  /\ sent = [k \in Keys |-> 0]
  /\ aborts = 0

Goto(p, l) == pc' = [pc EXCEPT ![p] = l]

-----------------------------------------------------------------------------
(* Enqueueing.                                                             *)

\* A tick computes what is due now: any of the keys time can make due.
StartTick(p) ==
  /\ p \in Ticks /\ pc[p] = "idle"
  /\ \E due \in SUBSET DueKeys : todo' = [todo EXCEPT ![p] = due]
  /\ Goto(p, "enqueue")
  /\ UNCHANGED <<entry, batch, current, published, sent, aborts>>

\* onEventsAppended: the key holds the event's own id.
Publish(p) ==
  /\ p \in Publishers /\ pc[p] = "idle"
  /\ \E k \in EventKeys \ published :
       todo' = [todo EXCEPT ![p] = {k}] /\ published' = published \cup {k}
  /\ Goto(p, "enqueue")
  /\ UNCHANGED <<entry, batch, current, sent, aborts>>

\* Mutant: the key is not looked up.
DedupeNever(p) ==
  /\ pc[p] = "enqueue"
  /\ \E k \in todo[p] :
       /\ todo' = [todo EXCEPT ![p] = @ \ {k}]
       /\ Goto(p, "put") /\ current' = [current EXCEPT ![p] = [key |-> k, attempts |-> 0]]
  /\ UNCHANGED <<entry, batch, published, sent, aborts>>

\* getOutboxEntry: a key that is there, whatever its status, is left alone.
Dedupe(p) ==
  /\ pc[p] = "enqueue"
  /\ \E k \in todo[p] :
       /\ todo' = [todo EXCEPT ![p] = @ \ {k}]
       /\ IF entry[k] # Null THEN UNCHANGED <<pc, current>>
          ELSE Goto(p, "put") /\ current' = [current EXCEPT ![p] = [key |-> k, attempts |-> 0]]
  /\ UNCHANGED <<entry, batch, published, sent, aborts>>

PutPending(p) ==
  /\ pc[p] = "put"
  /\ entry' = [entry EXCEPT ![current[p].key] = [status |-> "pending", attempts |-> 0]]
  /\ current' = [current EXCEPT ![p] = Null]
  /\ Goto(p, "enqueue")
  /\ UNCHANGED <<todo, batch, published, sent, aborts>>

PublisherDone(p) ==
  /\ p \in Publishers /\ pc[p] = "enqueue" /\ todo[p] = {}
  /\ Goto(p, "idle")
  /\ UNCHANGED <<entry, todo, batch, current, published, sent, aborts>>

-----------------------------------------------------------------------------
(* A delivery pass.                                                        *)

ListPending(p) ==
  /\ p \in Ticks /\ pc[p] = "enqueue" /\ todo[p] = {}
  /\ batch' = [batch EXCEPT ![p] =
       {[key |-> k, attempts |-> entry[k].attempts] :
          k \in {x \in Keys : entry[x] # Null /\ entry[x].status = "pending"}}]
  /\ Goto(p, "deliver")
  /\ UNCHANGED <<entry, todo, current, published, sent, aborts>>

\* The channel takes the message, or does not answer ok and the notifier throws.
Accepts(key) == sent' = [sent EXCEPT ![key] = @ + 1]

\* notifier.deliver of the next entry listed, as it was listed.
Deliver(p) ==
  /\ pc[p] = "deliver"
  /\ \E i \in batch[p] :
       /\ batch' = [batch EXCEPT ![p] = @ \ {i}]
       /\ current' = [current EXCEPT ![p] = i]
       /\ \/ Accepts(i.key) /\ Goto(p, "mark")
          \/ UNCHANGED sent /\ Goto(p, "rejected")
  /\ UNCHANGED <<entry, todo, published, aborts>>

MarkDelivered(p) ==
  /\ pc[p] = "mark"
  /\ entry' = [entry EXCEPT ![current[p].key] =
                 [status |-> "delivered", attempts |-> current[p].attempts]]
  /\ current' = [current EXCEPT ![p] = Null]
  /\ Goto(p, "deliver")
  /\ UNCHANGED <<todo, batch, published, sent, aborts>>

\* The put is inside the try: when it throws, the message counts as rejected.
MarkThrows(p) ==
  /\ pc[p] = "mark"
  /\ Goto(p, "rejected")
  /\ UNCHANGED <<entry, todo, batch, current, published, sent, aborts>>

\* Mutant: a rejection is not counted.
MarkUncounted(p) ==
  /\ pc[p] = "rejected"
  /\ current' = [current EXCEPT ![p] = Null]
  /\ Goto(p, "deliver")
  /\ UNCHANGED <<entry, todo, batch, published, sent, aborts>>

\* The catch: count the attempt, give up at the limit.
MarkRejected(p) ==
  LET n == current[p].attempts + 1 IN
  /\ pc[p] = "rejected"
  /\ entry' = [entry EXCEPT ![current[p].key] =
                 [status |-> IF n >= MaxAttempts THEN "failed" ELSE "pending", attempts |-> n]]
  /\ current' = [current EXCEPT ![p] = Null]
  /\ Goto(p, "deliver")
  /\ UNCHANGED <<todo, batch, published, sent, aborts>>

EndPass(p) ==
  /\ pc[p] = "deliver" /\ batch[p] = {}
  /\ Goto(p, "idle")
  /\ UNCHANGED <<entry, todo, batch, current, published, sent, aborts>>

\* The process ends where it is; its local state goes with it.
Abort(p) ==
  /\ pc[p] # "idle" /\ aborts < MaxAborts
  /\ aborts' = aborts + 1
  /\ Goto(p, "idle")
  /\ todo' = [todo EXCEPT ![p] = {}]
  /\ batch' = [batch EXCEPT ![p] = {}]
  /\ current' = [current EXCEPT ![p] = Null]
  /\ UNCHANGED <<entry, published, sent>>

Work(p) ==
  \/ StartTick(p) \/ Dedupe(p) \/ PutPending(p) \/ PublisherDone(p)
  \/ ListPending(p) \/ Deliver(p) \/ MarkDelivered(p) \/ MarkThrows(p)
  \/ MarkRejected(p) \/ EndPass(p)

Next == \E p \in Procs : Work(p) \/ Publish(p) \/ Abort(p)

Spec == Init /\ [][Next]_vars

\* Deno.cron runs the tick every 15 minutes and a tick that runs goes on.
Fairness == \A p \in Procs : WF_vars(Work(p))

FairSpec == Spec /\ Fairness

-----------------------------------------------------------------------------
(* Properties.                                                             *)

\* outbox.ts:16: an entry goes to the channel only while it is pending, and once
\* it is delivered or failed nothing ever changes it: no later tick, no publisher
\* and no pass that listed it earlier.
SettledIsFinal ==
  [][\A k \in Keys : entry[k] # Null /\ entry[k].status # "pending" =>
       entry'[k] = entry[k] /\ sent'[k] = sent[k]]_vars

\* Messages in the channel whose record is still to be written.
InFlight(k) == {p \in Procs : current[p] # Null /\ current[p].key = k /\ pc[p] \in {"mark", "rejected"}}

\* Every message the channel accepted is accounted for: by a counted attempt, by
\* the delivery recorded, by a pass about to record it, or by a pass cut short.
SendsAreCounted ==
  \A k \in Keys :
    sent[k] <= (IF entry[k] = Null THEN 0
                ELSE entry[k].attempts + (IF entry[k].status = "delivered" THEN 1 ELSE 0))
               + Cardinality(InFlight(k)) + aborts

\* What is enqueued is delivered or given up on.
EventuallySettled ==
  \A k \in Keys : entry[k] # Null ~> entry[k] # Null /\ entry[k].status # "pending"
=============================================================================
