--------------------------- MODULE DeadlineSweep ---------------------------
(* The notices that a free cancellation is about to lapse                     *)
(* (src/web/notify.ts), swept by the cron of src/deploy/main.ts: one message  *)
(* per user and sweep, by LINE to those who linked it and by e-mail to the    *)
(* rest, the e-mails under a cap for the day. A marker for each reservation   *)
(* is written after the message went out.                                     *)
(*                                                                            *)
(* Time is counted in slots of the cron, DaySlots to a day; slot n is on day  *)
(* n \div DaySlots.                                                           *)
EXTENDS Naturals, FiniteSets, Sequences, SequencesExt

CONSTANTS Users, Resvs,
          LedgerOf,     \* whose ledger each reservation is in
          Guaranteed,   \* users with an address on the guaranteed list
          Linked,       \* users with a LINE account linked
          Cap,          \* e-mails of a day
          DaySlots, LastSlot,
          Faults,       \* bound: failures and crashes in a behaviour
          Edits         \* bound: changes of reservations in a behaviour

SweepAssumption ==
    /\ IsFiniteSet(Users) /\ LedgerOf \in [Resvs -> Users]
    /\ Guaranteed \subseteq Users /\ Linked \subseteq Users
    /\ Cap \in Nat /\ DaySlots \in Nat \ {0} /\ LastSlot \in Nat /\ Faults \in Nat /\ Edits \in Nat

VARIABLES now,
          deadline,   \* deadline[r]: the slot its free cancellation lapses at; 0: no such thing
          active,     \* reservations that are not cancelled
          marked,     \* web_notified: reservations with a marker
          counted,    \* email_quota: counted[day]
          sweep,      \* the sweep under way
          swept,      \* the slot has had its sweep
          faults, edits,
          notices,    \* history: notices[r] that reached somebody
          mails,      \* history: mails[day] that were accepted for sending
          slips,      \* history: messages a failure kept from being counted, by day
          repeats,    \* history: reservations whose notice went out without its marker
          excused     \* history: reservations a sweep had a reason to leave out

vars == <<now, deadline, active, marked, counted, sweep, swept, faults, edits, notices,
          mails, slips, repeats, excused>>
history == <<notices, mails, slips, repeats, excused>>

Days == {t \div DaySlots : t \in 0 .. LastSlot}
Idle == [at |-> "idle", now |-> 0, emails |-> 0, queue |-> <<>>, due |-> {}, served |-> {},
         deferred |-> {}]
Running == sweep.at # "idle"

Init ==
    /\ now = 0
    /\ deadline \in [Resvs -> 0 .. LastSlot]
    /\ active \in SUBSET Resvs
    /\ marked = {}
    /\ counted = [d \in Days |-> 0]
    /\ sweep = Idle /\ swept = FALSE /\ faults = 0 /\ edits = 0
    /\ notices = [r \in Resvs |-> 0]
    /\ mails = [d \in Days |-> 0]
    /\ slips = [d \in Days |-> 0]
    /\ repeats = {} /\ excused = {}

Fault == faults < Faults /\ faults' = faults + 1
Edit == edits < Edits /\ edits' = edits + 1
Stored == <<now, deadline, active, marked, counted, swept, edits>>

-----------------------------------------------------------------------------
(* Within the boundary: in the future, and no more than a day away.           *)
WithinBoundary(r, t) == deadline[r] > t /\ deadline[r] <= t + DaySlots
(* Mistake: the marker is not looked at.                                      *)
DueAgain(u, t) == {r \in Resvs : LedgerOf[r] = u /\ r \in active /\ WithinBoundary(r, t)}

Due(u, t) ==
    {r \in Resvs : LedgerOf[r] = u /\ r \in active /\ WithinBoundary(r, t) /\ r \notin marked}

(* Mistake: in the order of the listing.                                      *)
ListedUsers == SetToSeq(Users \ Guaranteed) \o SetToSeq(Guaranteed)

OrderUsers == SetToSeq(Guaranteed) \o SetToSeq(Users \ Guaranteed)

(* Mistake: every sweep has the whole cap.                                    *)
StartSweepAfresh ==
    /\ ~Running /\ ~swept
    /\ sweep' = [Idle EXCEPT !.at = "user", !.now = now, !.queue = OrderUsers]
    /\ swept' = TRUE
    /\ excused' = {r \in excused : deadline[r] <= now}
    /\ UNCHANGED <<now, deadline, active, marked, counted, faults, edits, notices, mails, slips, repeats>>

(* A sweep reads the clock, the day's counter and the users once.             *)
StartSweep ==
    /\ ~Running /\ ~swept
    /\ sweep' = [Idle EXCEPT !.at = IF Users = {} THEN "idle" ELSE "user", !.now = now, !.queue = OrderUsers,
                              !.emails = counted[now \div DaySlots]]
    /\ swept' = TRUE
    /\ excused' = {r \in excused : deadline[r] <= now}
    /\ UNCHANGED <<now, deadline, active, marked, counted, faults, edits, notices, mails, slips, repeats>>

Today == sweep.now \div DaySlots
User == Head(sweep.queue)
ViaLine(u) == u \in Linked
AtCap == ~ViaLine(User) /\ sweep.emails >= Cap
Turn(s) == [s EXCEPT !.at = IF Len(s.queue) = 1 THEN "idle" ELSE "user",
                     !.queue = Tail(@), !.due = {}]

CollectDue ==
    LET due == Due(User, sweep.now) IN
    /\ sweep.at = "user"
    /\ \/ /\ due = {} /\ sweep' = Turn(sweep) /\ UNCHANGED excused
       \/ /\ due # {} /\ AtCap
          /\ sweep' = Turn([sweep EXCEPT !.deferred = @ \cup {User}])
          /\ excused' = excused \cup due
       \/ /\ due # {} /\ ~AtCap
          /\ sweep' = [sweep EXCEPT !.at = "send", !.due = due]
          /\ UNCHANGED excused
    /\ UNCHANGED <<Stored, faults, notices, mails, slips, repeats>>

(* The message goes out, or the call fails, with the message gone out or not. *)
Delivered ==
    /\ notices' = [r \in Resvs |-> IF r \in sweep.due THEN notices[r] + 1 ELSE notices[r]]
    /\ mails' = IF ViaLine(User) THEN mails ELSE [mails EXCEPT ![Today] = @ + 1]

Send ==
    /\ sweep.at = "send"
    /\ Delivered
    /\ sweep' = [sweep EXCEPT !.at = IF ViaLine(User) THEN "mark" ELSE "count",
                              !.served = @ \cup {User}]
    /\ UNCHANGED <<Stored, faults, slips, repeats, excused>>

(* Mistake: a message that failed is marked as sent.                          *)
SendFailsMarked ==
    /\ sweep.at = "send" /\ Fault
    /\ sweep' = Turn(sweep)
    /\ marked' = marked \cup sweep.due
    /\ excused' = excused \cup sweep.due
    /\ UNCHANGED <<now, deadline, active, counted, swept, edits, notices, mails, slips, repeats>>

SendFails ==
    /\ sweep.at = "send" /\ Fault
    /\ sweep' = Turn(sweep)
    /\ excused' = excused \cup sweep.due
    /\ \/ UNCHANGED <<notices, mails, slips, repeats>>
       \/ /\ Delivered
          /\ slips' = IF ViaLine(User) THEN slips ELSE [slips EXCEPT ![Today] = @ + 1]
          /\ repeats' = repeats \cup sweep.due
    /\ UNCHANGED Stored

ReadFails ==
    /\ sweep.at = "user" /\ Fault
    /\ sweep' = Turn(sweep)
    /\ excused' = excused \cup Due(User, sweep.now)
    /\ UNCHANGED <<Stored, notices, mails, slips, repeats>>

CountMail ==
    /\ sweep.at = "count"
    /\ counted' = [counted EXCEPT ![Today] = sweep.emails + 1]
    /\ sweep' = [sweep EXCEPT !.at = "mark", !.emails = @ + 1]
    /\ UNCHANGED <<now, deadline, active, marked, swept, faults, edits, history>>

Mark ==
    /\ sweep.at = "mark"
    /\ \E r \in sweep.due :
          /\ marked' = marked \cup {r}
          /\ sweep' = IF sweep.due = {r} THEN Turn(sweep) ELSE [sweep EXCEPT !.due = @ \ {r}]
    /\ UNCHANGED <<now, deadline, active, counted, swept, faults, edits, history>>

(* A write of the store fails: the user's turn is over. The sum in memory     *)
(* already counts the message, so a later e-mail of the sweep writes it.      *)
StoreFails ==
    /\ sweep.at \in {"count", "mark"} /\ Fault
    /\ sweep' = Turn([sweep EXCEPT !.emails = IF sweep.at = "count" THEN @ + 1 ELSE @])
    /\ repeats' = repeats \cup sweep.due
    /\ slips' = IF sweep.at = "count" THEN [slips EXCEPT ![Today] = @ + 1] ELSE slips
    /\ UNCHANGED <<Stored, notices, mails, excused>>

(* The isolate goes away. What the sweep had not reached waits for the next.  *)
Cut ==
    /\ Running /\ Fault
    /\ sweep' = Idle
    /\ repeats' = IF sweep.at \in {"count", "mark"} THEN repeats \cup sweep.due ELSE repeats
    /\ slips' = IF sweep.at = "count" THEN [slips EXCEPT ![Today] = @ + 1] ELSE slips
    /\ excused' = excused \cup
         {r \in Resvs : \E i \in 1 .. Len(sweep.queue) : r \in Due(sweep.queue[i], sweep.now)}
    /\ UNCHANGED <<Stored, notices, mails>>

-----------------------------------------------------------------------------
(* Meanwhile a reservation is cancelled, restored, or moved to another date;  *)
(* the cron comes round again.                                                *)
Cancel(r) ==
    /\ Edit /\ r \in active
    /\ active' = active \ {r}
    /\ UNCHANGED <<now, deadline, marked, counted, sweep, swept, faults, history>>

LastDay(t) == t <= now + DaySlots

Restore(r) ==
    /\ Edit /\ r \notin active
    /\ active' = active \cup {r}
    /\ excused' = IF LastDay(deadline[r]) THEN excused \cup {r} ELSE excused
    /\ UNCHANGED <<now, deadline, marked, counted, sweep, swept, faults, notices, mails, slips, repeats>>

Move(r, t) ==
    /\ Edit /\ t # deadline[r] /\ t > now
    /\ deadline' = [deadline EXCEPT ![r] = t]
    /\ excused' = IF LastDay(t) THEN excused \cup {r} ELSE excused
    /\ UNCHANGED <<now, active, marked, counted, sweep, swept, faults, notices, mails, slips, repeats>>

NextSlot ==
    /\ now < LastSlot /\ swept /\ ~Running
    /\ now' = now + 1
    /\ sweep' = Idle /\ swept' = FALSE
    /\ UNCHANGED <<deadline, active, marked, counted, faults, edits, history>>

Next ==
    \/ StartSweep \/ CollectDue \/ Send \/ SendFails \/ CountMail \/ Mark \/ ReadFails \/ StoreFails \/ Cut
    \/ NextSlot
    \/ \E r \in Resvs : Cancel(r) \/ Restore(r) \/ \E t \in 0 .. LastSlot : Move(r, t)

Spec == Init /\ [][Next]_vars

-----------------------------------------------------------------------------
(* A reservation is announced once, however often it is moved, cancelled and  *)
(* restored, unless a failure came between a message and its marker.          *)
NoticeOnce == \A r \in Resvs : notices[r] > 1 => r \in repeats

(* No deadline of a reservation in force lapses without a notice unless a     *)
(* sweep left it out for a reason: the cap, a failure, or a change of the     *)
(* reservation when its last day had begun.                                   *)
NoneMissed ==
    \A r \in active : 0 < deadline[r] /\ deadline[r] <= now => notices[r] > 0 \/ r \in excused

(* The e-mails of a day stay under the cap, over all the sweeps of the day,   *)
(* but for those a failure kept from being counted; and whoever is on the     *)
(* guaranteed list is not put off for the cap by a sweep that has mailed      *)
(* somebody who is not.                                                       *)
MailCapHeld == \A d \in Days : mails[d] <= Cap + slips[d]
GuaranteedFirst ==
    sweep.deferred \cap Guaranteed # {} =>
        \A u \in sweep.served : u \in Guaranteed \cup Linked
RationHeld == MailCapHeld /\ GuaranteedFirst
=============================================================================
