----------------------------- MODULE MCNotices -----------------------------
(* DeadlineSweep, KvStore and WebPolicy for TLC, one in each behaviour:       *)
(* sweeps over a user with two reservations, one with LINE, one with a        *)
(* guaranteed address ("sweep"), overlapping puts of one reservation ("kv"),  *)
(* and a table as time passes ("table").                                      *)
EXTENDS KvStore, MCWebPolicy

CONSTANTS u1, u2, u3, r1, r2, r3, r4, Users, Resvs, Guaranteed, Linked, Cap, DaySlots,
          LastSlot, Faults, Edits, LedgerOf

VARIABLES part, now, deadline, active, marked, counted, sweep, swept, faults, edits,
          notices, mails, slips, repeats, excused

MCLedgerOf == [r \in {r1, r2, r3, r4} |-> CASE r \in {r1, r2} -> u1 [] r = r3 -> u2 [] r = r4 -> u3]

D == INSTANCE DeadlineSweep

ASSUME SweepOnConstants == D!SweepAssumption

sweepVars == <<now, deadline, active, marked, counted, sweep, swept, faults, edits,
               notices, mails, slips, repeats, excused>>
tableVars == <<stages, starts_at, amount, at, freeAt>>

MCInit == /\ part \in {"sweep", "kv", "table"}
          /\ active \in {Resvs, Resvs \ {r2}}
          /\ part # "sweep" => deadline = [r \in Resvs |-> 0] /\ active = Resvs
          /\ part # "table" => stages = <<>> /\ freeAt = Absent
          /\ Init /\ D!Init /\ W!WebInit

InKv == part = "kv" /\ UNCHANGED <<sweepVars, tableVars, part>>
InSweep == part = "sweep" /\ UNCHANGED <<vars, tableVars, part>>
InTable == part = "table" /\ UNCHANGED <<vars, sweepVars, part>>

MCNext ==
  \/ \E w \in Writers :
       \/ InKv /\ Begin(w)
       \/ InKv /\ Get(w)
       \/ InKv /\ Commit(w)
       \/ InKv /\ Conflict(w)
  \/ InSweep /\ D!StartSweep
  \/ InSweep /\ D!CollectDue
  \/ InSweep /\ D!Send
  \/ InSweep /\ D!SendFails
  \/ InSweep /\ D!CountMail
  \/ InSweep /\ D!Mark
  \/ InSweep /\ D!ReadFails
  \/ InSweep /\ D!StoreFails
  \/ InSweep /\ D!Cut
  \/ InSweep /\ D!NextSlot
  \/ \E r \in Resvs :
       \/ InSweep /\ D!Cancel(r)
       \/ InSweep /\ D!Restore(r)
       \/ \E t \in 0 .. LastSlot : InSweep /\ D!Move(r, t)
  \/ InTable /\ W!WebPass

MCSpec == MCInit /\ [][MCNext]_<<vars, sweepVars, tableVars, part>>

NoticeOnce == D!NoticeOnce
NoneMissed == D!NoneMissed
RationHeld == D!RationHeld
=============================================================================
