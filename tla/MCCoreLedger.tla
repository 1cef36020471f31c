---------------------------- MODULE MCCoreLedger ----------------------------
(* Instances of CoreLedger for TLC. Calls one after the other may use every   *)
(* tool, plans of either quota and one that create_plan never made; once two  *)
(* overlap, or an existing reservation is linked, the run goes on only where  *)
(* nothing was reported or voided and every plan has quota one.               *)
(* In runs of their own, RemoteTools: calls for one place of two spellings,   *)
(* beside templates of it and of another place; the stage table of a          *)
(* reservation as time passes; and Triggers: its notices, at the ticks.       *)
EXTENDS CoreLedger, TLC

CONSTANTS ab, a_b, cd, Names, Place(_), Times, FeeTables, MaxRows, MaxChanges
CONSTANTS Day, Offsets, Percents, FixedFees, MaxStages, Starts, Amounts,
          Morning, Every, Late, Horizon, Edits
VARIABLES part, rows, templates, asks, changes
VARIABLES tariff, begins, price, clock, unknown, status, enqueued, preview, edits

R == INSTANCE RemoteTools WITH Calls <- Sessions, call <- asks
P == INSTANCE Triggers WITH stages <- tariff, starts_at <- begins, amount <- price, at <- clock

ASSUME RemoteToolsOK == R!RemoteToolsAssumption
ASSUME TariffAssumption == P!PolicyConstants
ASSUME NoticesAssumption == P!TriggersAssumption

MCPlace(n) == IF n = a_b THEN ab ELSE n

remoteVars == <<rows, templates, asks, changes>>

noticeVars == <<unknown, status, enqueued, preview, edits>>
tariffVars == <<tariff, begins, price, clock>>

NoNotice == unknown = FALSE /\ status = "candidate" /\ enqueued = {} /\ preview = Null /\ edits = 0
NoTariff == tariff = <<>> /\ begins = Min(Starts) /\ price = Min(Amounts) /\ clock = 0

\* The notices depend on where the boundaries are, not on the rates.
OneRate == \A i \in 1 .. Len(tariff) : tariff[i].fee_percent = 30 /\ tariff[i].fee_fixed_jpy = Null

MCInit ==
  /\ Init /\ R!Init
  /\ \/ part \in {"local", "remote"} /\ NoTariff /\ NoNotice
     \/ part = "table" /\ P!Init /\ NoNotice
     \/ part = "notice" /\ P!NoticeInit /\ OneRate

InLocal == part = "local" /\ UNCHANGED <<remoteVars, tariffVars, noticeVars, part>>
InRemote == part = "remote" /\ UNCHANGED <<vars, tariffVars, noticeVars, part>>
InTable == part = "table" /\ UNCHANGED <<vars, remoteVars, noticeVars, part>>
InNotice == part = "notice" /\ UNCHANGED <<vars, remoteVars, part>>

MCNext ==
  \/ \E s \in Sessions :
       \/ InLocal /\ CreatePlan(s)
       \/ InLocal /\ CreateReservation(s)
       \/ InLocal /\ AddInline(s)
       \/ InLocal /\ Link(s)
       \/ InLocal /\ LinkExisting(s)
       \/ InLocal /\ Command(s)
       \/ InLocal /\ ReadTarget(s)
       \/ InLocal /\ ReadPlan(s)
       \/ InLocal /\ ScanIndex(s)
       \/ InLocal /\ ReadSibling(s)
       \/ InLocal /\ AppendEvent(s)
       \/ InLocal /\ PutReservation(s)
       \/ InLocal /\ PutPlan(s)
       \/ InLocal /\ Enqueue(s)
       \/ InLocal /\ Crash(s)
  \/ \E c \in Sessions :
       \/ \E n \in {ab, a_b}, t \in Times, given, free \in BOOLEAN :
            InRemote /\ R!Create(c, n, t, given, free)
       \/ InRemote /\ R!List(c)
       \/ InRemote /\ R!Post(c)
       \/ InRemote /\ R!Exact(c)
       \/ InRemote /\ R!Scan(c)
       \/ InRemote /\ R!Write(c)
       \/ InRemote /\ R!Fail(c)
  \/ \E i \in 1 .. MaxRows : InRemote /\ R!ChangeRow(i)
  \/ \E n \in Names, p \in FeeTables : InRemote /\ R!SaveTemplate(n, p)
  \/ \E n \in Names : InRemote /\ R!DeleteTemplate(n)
  \/ InTable /\ P!Pass
  \/ InNotice /\ P!RunTick
  \/ InNotice /\ P!SimulateNotifications
  \/ InNotice /\ P!ChangeStatus

MCSpec == MCInit /\ [][MCNext]_<<vars, remoteVars, tariffVars, noticeVars, part>>

NoSecondRow == R!NoSecondRow
TaughtPolicyApplies == R!TaughtPolicyApplies
BoundaryIsTheNextChange == P!BoundaryIsTheNextChange
FeeNeverDrops == P!FeeNeverDrops
PreviewIsKept == P!PreviewIsKept
RemindedInTime == P!RemindedInTime

Plain ==
  /\ \A e \in log : e.type \notin {"cancelled", "voided"} /\ e.plan \notin Foreign
  /\ \A s \in Busy :
       /\ call[s].tool \notin {"report", "void"}
       /\ \A k \in DOMAIN call[s].puts : call[s].puts[k].rec.plan \notin Foreign
  /\ \A p \in Plans : plans[p] # Null => plans[p].confirm_quota = 1

Here == \A i \in 1 .. MaxRows : rows[i] # Null => rows[i].name # cd

Explored == (mixed => Plain)' /\ Here'

\* Sound for two ids: a settlement then has one loser at most, so the order in
\* which a set of losers is written is no choice.
Symmetry == Permutations(Ids) \cup Permutations(Sessions)
=============================================================================
