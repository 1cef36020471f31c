----------------------------- MODULE Triggers -----------------------------
(***************************************************************************)
(* notify/trigger.ts as cron/tick.ts drives it: which notifications of a   *)
(* reservation are due at a tick, under which keys the outbox takes each of*)
(* them once, and which ones the preview of the coming days promises.      *)
(*                                                                         *)
(* Time counts parts of a day from a JST midnight.  The cron ticks once    *)
(* every Every parts, a moment after the slot it is meant for: Late parts. *)
(***************************************************************************)
EXTENDS CancellationPolicy

CONSTANTS
  Morning,  \* the part of the day that is 08:00
  Every,    \* parts from one tick to the next
  Late,     \* parts a tick comes after its slot
  Horizon,  \* parts the preview looks ahead
  Edits     \* bound: changes of status in a behaviour

TriggersAssumption ==
  /\ Morning \in 0 .. Day - 1 /\ Every \in Nat \ {0} /\ Late \in 0 .. Every - 1
  /\ Horizon \in Nat /\ Edits \in Nat

VARIABLES
  unknown,   \* cancellation_policy is "unknown"
  status,    \* the reservation's status
  enqueued,  \* the notifications the outbox has taken
  preview,   \* the preview that was asked for: [asOf, until, notes], or Null
  edits      \* changes of status; those after the preview make it void

noticeVars == <<vars, unknown, status, enqueued, preview, edits>>

LiveStatuses == {"candidate", "confirmed", "to_cancel"}

-----------------------------------------------------------------------------
TokyoDate(t) == t \div Day
TokyoMorning(date) == date * Day + Morning
Earlier(s, t) == IF s <= t THEN s ELSE t

\* Mutant: the reminder waits for the start.
ReminderAtStart == starts_at

\* The morning of the day it starts, or the start when that is earlier.
ReminderInstant == Earlier(TokyoMorning(TokyoDate(starts_at)), starts_at)

\* A notification is told from others by its key: the trigger and the instant or
\* day that the key names.
Note(trigger, key, fireAt) == [trigger |-> trigger, key |-> key, fire_at |-> fireAt]
BoundaryNote(b) == Note("fee_boundary_24h", b.at, b.at - Day)
DigestNote(date) == Note("policy_unknown_digest", date, TokyoMorning(date))
ReminderNote == Note("day_of_reminder", TokyoDate(starts_at), ReminderInstant)

\* The one boundary to come, of a live reservation with a known policy.
BoundaryHitAt(t) ==
  {b \in {NextBoundary(stages, starts_at, t)} : b # Null /\ status \in LiveStatuses /\ ~unknown}

Unknowns == unknown /\ status \in LiveStatuses

\* computePendingNotifications: what is due at a tick.
PendingNotifications(now) ==
  {BoundaryNote(b) : b \in {x \in BoundaryHitAt(now) : x.at - Day <= now /\ now < x.at}}
  \cup {DigestNote(d) : d \in {x \in {TokyoDate(now)} : Unknowns /\ TokyoMorning(x) <= now}}
  \cup {ReminderNote : x \in {y \in {now} : /\ status = "confirmed"
                                           /\ TokyoDate(y) = TokyoDate(starts_at)
                                           /\ ReminderInstant <= y /\ y <= starts_at}}

\* Mutant: only the first boundary is looked for.
WalkOnce(asOf, until) == BoundaryHitAt(asOf)

\* The boundaries found by probing on, each time just after the one before.
Walk(asOf, until) == UNION {BoundaryHitAt(probe) : probe \in asOf .. until + Day}

\* previewNotifications: what becomes due from asOf to asOf + Horizon.
PreviewNotifications(asOf) ==
  LET until == asOf + Horizon
      inWindow(n) == n.fire_at \in asOf .. until
  IN {n \in {BoundaryNote(b) : b \in Walk(asOf, until)}
            \cup {DigestNote(d) : d \in {x \in TokyoDate(asOf) .. TokyoDate(until) : Unknowns}}
            \cup {ReminderNote : x \in {y \in {status} : y = "confirmed"}} : inWindow(n)}

-----------------------------------------------------------------------------
NoticeInit ==
  /\ stages \in Policies /\ starts_at \in Starts /\ amount \in Amounts /\ at = 0
  /\ unknown \in BOOLEAN /\ (unknown => stages = <<>>)
  /\ status \in LiveStatuses
  /\ enqueued = {} /\ preview = Null /\ edits = 0

IsTick(t) == t % Every = Late

\* The outbox takes what is due under a key it has not seen.
Enqueue(now) ==
  enqueued \cup {n \in PendingNotifications(now) :
                   \A m \in enqueued : <<m.trigger, m.key>> # <<n.trigger, n.key>>}

\* Time passes, and runTick runs when it is time.
RunTick ==
  /\ Pass
  /\ enqueued' = IF IsTick(at + 1) THEN Enqueue(at + 1) ELSE enqueued
  /\ UNCHANGED <<unknown, status, preview, edits>>

SimulateNotifications ==
  /\ preview = Null
  /\ preview' = [asOf |-> at, until |-> at + Horizon, notes |-> PreviewNotifications(at), edits |-> edits]
  /\ UNCHANGED <<vars, unknown, status, enqueued, edits>>

\* Another call settles, cancels or takes up the reservation again.
ChangeStatus ==
  /\ edits < Edits /\ edits' = edits + 1
  /\ \E s \in {"candidate", "confirmed", "to_cancel", "cancelled"} : s # status /\ status' = s
  /\ UNCHANGED <<vars, unknown, enqueued, preview>>

NoticeNext == RunTick \/ SimulateNotifications \/ ChangeStatus

NoticeSpec == NoticeInit /\ [][NoticeNext]_noticeVars

-----------------------------------------------------------------------------
(* Properties.                                                             *)

Taken(n) == \E m \in enqueued : m.trigger = n.trigger /\ m.key = n.key
TickIn(s, t) == \E x \in s .. t : 0 < x /\ x <= at /\ IsTick(x)

\* The last instant a notification is still due.
Until(n) ==
  CASE n.trigger = "fee_boundary_24h" -> n.key - 1
    [] n.trigger = "policy_unknown_digest" -> EndOfDay(n.fire_at)
    [] n.trigger = "day_of_reminder" -> starts_at

\* The simulation of the coming days is kept as long as nobody changes the
\* reservation: what falls due was announced, or was due when the preview was
\* made, and what was announced is enqueued when the cron came by after the instant
\* announced and before it was over (trigger.ts, previewNotifications).
PreviewIsKept ==
  preview # Null /\ preview.edits = edits =>
    /\ \A n \in PendingNotifications(at) :
         at \in preview.asOf .. preview.until =>
           n \in preview.notes \cup PendingNotifications(preview.asOf)
    /\ \A n \in preview.notes : TickIn(n.fire_at + 1, Until(n)) => Taken(n)

\* A reservation confirmed all along that starts after a tick of the morning of
\* its day has had its reminder when it has begun (trigger.ts, reminderInstant).
RemindedInTime ==
  /\ status = "confirmed" /\ edits = 0 /\ at > starts_at
  /\ TickIn(TokyoMorning(TokyoDate(starts_at)), starts_at)
  => Taken(ReminderNote)

\* trigger.ts:83: "so an early-morning event still reminds before it, never after".
EarlyEventReminds ==
  status = "confirmed" /\ edits = 0 /\ at > starts_at => Taken(ReminderNote)
=============================================================================
