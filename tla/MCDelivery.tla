----------------------------- MODULE MCDelivery -----------------------------
(***************************************************************************)
(* The two mechanisms that finish what a request began, one in each run of *)
(* the system: the outbox and its deliveries ("outbox"), the calendar      *)
(* passes and their sweep ("gcal").                                        *)
(***************************************************************************)
EXTENDS Outbox

CONSTANTS Requests, Cron, Resvs, FirstCalendar, MaxRevs, MaxTroubles

VARIABLES part, resv, google, mapping, dirty, cals, events, granted, step, job, listed, born,
          spent, missed, overlapped, orphaned

G == INSTANCE GcalSync WITH pc <- step, todo <- listed

ASSUME DeliveryAssumption == OutboxAssumption /\ G!GcalSyncAssumption

gcalVars == <<resv, google, mapping, dirty, cals, events, granted, step, job, listed, born,
              spent, missed, overlapped, orphaned>>
mcVars == <<vars, gcalVars, part>>

MCInit == Init /\ G!Init /\ part \in {"outbox", "gcal"}

InOutbox == part = "outbox" /\ UNCHANGED <<gcalVars, part>>
InGcal == part = "gcal" /\ UNCHANGED <<vars, part>>

OutboxNext == \E p \in Procs :
  \/ InOutbox /\ StartTick(p)
  \/ InOutbox /\ Dedupe(p)
  \/ InOutbox /\ PutPending(p)
  \/ InOutbox /\ PublisherDone(p)
  \/ InOutbox /\ ListPending(p)
  \/ InOutbox /\ Deliver(p)
  \/ InOutbox /\ MarkDelivered(p)
  \/ InOutbox /\ MarkThrows(p)
  \/ InOutbox /\ MarkRejected(p)
  \/ InOutbox /\ EndPass(p)
  \/ InOutbox /\ Publish(p)
  \/ InOutbox /\ Abort(p)

GcalStep(p) ==
  \/ InGcal /\ G!Flag(p)
  \/ InGcal /\ G!ReadUser(p)
  \/ InGcal /\ G!RefreshToken(p)
  \/ InGcal /\ G!ReadResv(p)
  \/ InGcal /\ G!ReadMapping(p)
  \/ InGcal /\ G!CheckCalendar(p)
  \/ InGcal /\ G!NewCalendar(p)
  \/ InGcal /\ G!ReadForUpdate(p)
  \/ InGcal /\ G!KeepCalendar(p)
  \/ InGcal /\ G!MarkReauth(p)
  \/ InGcal /\ G!PatchEvent(p)
  \/ InGcal /\ G!InsertEvent(p)
  \/ InGcal /\ G!SetMapping(p)
  \/ InGcal /\ G!DeleteEvent(p)
  \/ InGcal /\ G!DropMapping(p)
  \/ InGcal /\ G!ClearFlag(p)

Sweep ==
  \/ InGcal /\ G!SweepList
  \/ \E r \in Resvs : InGcal /\ G!SweepNext(r)

GcalNext ==
  \/ \E p \in G!Procs : GcalStep(p) \/ (InGcal /\ G!Crash(p))
  \/ \E p \in Requests, r \in Resvs : InGcal /\ G!Mutate(p, r)
  \/ Sweep
  \/ InGcal /\ G!ChangeLink
  \/ InGcal /\ G!Done

MCNext == OutboxNext \/ GcalNext

\* Outbox!Fairness and GcalSync!Fairness, each in the runs of its own.
MCFairness ==
  /\ \A p \in Procs : WF_mcVars(InOutbox /\ Work(p))
  /\ \A p \in G!Procs : WF_mcVars(GcalStep(p))
  /\ WF_mcVars(Sweep)

MCSpec == MCInit /\ [][MCNext]_mcVars /\ MCFairness

CleanMeansInSync == G!CleanMeansInSync
EventuallyClean == G!EventuallyClean
=============================================================================
