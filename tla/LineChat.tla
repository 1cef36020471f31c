------------------------------ MODULE LineChat ------------------------------
(***************************************************************************)
(* The LINE chat over a person's web ledger (line/web-commands.ts): the    *)
(* summary with its chips, a tap on a chip, the policy asked for after a   *)
(* registration.  A chip stays in the chat for as long as the chat does:   *)
(* by the time it is tapped, and between the reads and the write of the    *)
(* tap, the ledger may have changed from the web page, or the day ended.   *)
(***************************************************************************)
EXTENDS Naturals, FiniteSets

CONSTANTS
  Rows,      \* ids of reservations
  Taps,      \* taps that may be under way at once
  MaxChips,  \* chips of one reply (MAX_QUICK_REPLY less the command menu)
  MaxEdits,  \* bound: changes from the web page
  Null

LineChatAssumption ==
  {MaxChips, MaxEdits} \subseteq Nat /\ IsFiniteSet(Rows) /\ Null \notin Rows \cup Taps

VARIABLES
  ledger,  \* each id: Null, or [status, plan, over]; plan: is it in the plan
  chips,   \* chips in the chat: [act, id]
  tap,     \* each tap: Null, or what it read and counted
  edits

vars == <<ledger, chips, tap, edits>>

Reservation == [status : {"candidate", "confirmed", "to_cancel", "cancelled"},
                plan : BOOLEAN, over : BOOLEAN]
Acts == {"confirm", "cancel", "policy"}
\* seen: the record as patchReservation or cancelReservation read it; claimed: siblings
\* counted; flipped: those turned to_cancel; disturbed: a row changed since the count.
TapState == [pc : {"count", "commit", "read", "write", "told"}, act : Acts, id : Rows,
             seen : Reservation \cup {Null}, claimed : Nat, flipped : Nat, disturbed : BOOLEAN]

TypeOK ==
  /\ ledger \in [Rows -> Reservation \cup {Null}]
  /\ chips \subseteq [act : Acts, id : Rows]
  /\ tap \in [Taps -> TapState \cup {Null}]
  /\ edits \in 0 .. MaxEdits

Init ==
  /\ ledger = [r \in Rows |-> Null]
  /\ chips = {} /\ tap = [t \in Taps |-> Null] /\ edits = 0

Known == {r \in Rows : ledger[r] # Null}
Active == {r \in Known : ledger[r].status # "cancelled" /\ ~ledger[r].over}
At(t, l) == tap[t] # Null /\ tap[t].pc = l
End(t) == tap' = [tap EXCEPT ![t] = Null]

\* History: taps that are about to count or commit learn that a row has changed; s is
\* what the tap that changed it becomes (no tap: the web page, the calendar).
Disturb(t, s) == [u \in Taps |-> IF u = t THEN s
                                ELSE IF At(u, "count") \/ At(u, "commit")
                                  THEN [tap[u] EXCEPT !.disturbed = TRUE]
                                ELSE tap[u]]

-----------------------------------------------------------------------------
(* The chat's replies.                                                     *)

\* quickReplyItems: a candidate can be confirmed, one in force or to cancel be ticked off.
ChipOf(r) == [act |-> IF ledger[r].status = "candidate" THEN "confirm" ELSE "cancel", id |-> r]

\* buildCheckReply: chips for the first MaxChips of what is still ahead.
Check ==
  /\ \E shown \in SUBSET Active :
       /\ Cardinality(shown) <= MaxChips
       /\ Cardinality(shown) < MaxChips => shown = Active
       /\ chips' = chips \cup {ChipOf(r) : r \in shown}
  /\ UNCHANGED <<ledger, tap, edits>>

\* registerWebReservation: a candidate of no plan; with no policy the chat asks for one.
Register(r, policyKnown) ==
  /\ ledger[r] = Null
  /\ ledger' = [ledger EXCEPT ![r] = [status |-> "candidate", plan |-> FALSE, over |-> FALSE]]
  /\ chips' = IF policyKnown THEN chips ELSE chips \cup {[act |-> "policy", id |-> r]}
  /\ tap' = Disturb(Null, Null)
  /\ UNCHANGED edits

-----------------------------------------------------------------------------
(* applyWebPostback.                                                       *)

\* The first read: a row that is gone is answered as stale. A policy is a
\* patchReservation at once, whose own read this is.
Tap(t, chip) ==
  /\ tap[t] = Null /\ chip \in chips
  /\ LET r == ledger[chip.id] IN
       /\ r # Null
       /\ tap' = [tap EXCEPT ![t] =
            [pc |-> CASE chip.act = "policy" -> "write"
                      [] chip.act = "cancel" -> "read"
                      [] chip.act = "confirm" -> IF r.plan THEN "count" ELSE "commit",
             act |-> chip.act, id |-> chip.id, seen |-> IF chip.act = "policy" THEN r ELSE Null,
             claimed |-> 0, flipped |-> 0, disturbed |-> FALSE]]
  /\ UNCHANGED <<ledger, chips, edits>>

Siblings(id) == {r \in Known \ {id} : ledger[r].plan /\ ledger[r].status = "candidate"}

\* Mistake: siblings whose day has passed are counted too.
CountAll(t) ==
  /\ At(t, "count")
  /\ tap' = [tap EXCEPT ![t].claimed = Cardinality(Siblings(tap[t].id)), ![t].pc = "commit"]
  /\ UNCHANGED <<ledger, chips, edits>>

\* The other candidates of the plan that are not over.
Count(t) ==
  /\ At(t, "count")
  /\ tap' = [tap EXCEPT ![t].claimed = Cardinality(Siblings(tap[t].id) \cap Active),
                        ![t].pc = "commit"]
  /\ UNCHANGED <<ledger, chips, edits>>

\* confirmReservation: one checked commit, refused unless the row is a candidate and
\* its plan has no winner.
Commit(t) ==
  /\ At(t, "commit")
  /\ LET id   == tap[t].id
         r    == ledger[id]
         won  == r.plan /\ \E s \in Known \ {id} : ledger[s].plan /\ ledger[s].status = "confirmed"
         lost == IF r.plan THEN Siblings(id) \cap Active ELSE {}
     IN IF r = Null THEN End(t) /\ UNCHANGED ledger
        ELSE IF r.status # "candidate" \/ won THEN End(t) /\ UNCHANGED ledger
        ELSE /\ ledger' = [s \in Rows |-> CASE s = id -> [r EXCEPT !.status = "confirmed"]
                                            [] s \in lost -> [ledger[s] EXCEPT !.status = "to_cancel"]
                                            [] OTHER -> ledger[s]]
             /\ tap' = Disturb(t, [tap[t] EXCEPT !.pc = "told", !.flipped = Cardinality(lost)])
  /\ UNCHANGED <<chips, edits>>

\* cancelReservation reads the record again ...
Read(t) ==
  /\ At(t, "read")
  /\ LET r == ledger[tap[t].id] IN
       IF r = Null THEN End(t) ELSE tap' = [tap EXCEPT ![t].pc = "write", ![t].seen = r]
  /\ UNCHANGED <<ledger, chips, edits>>

\* ... and it and patchReservation write it back whole (a policy is not told apart here).
Write(t) ==
  /\ At(t, "write")
  /\ ledger' = [ledger EXCEPT ![tap[t].id] =
       IF tap[t].act = "cancel" THEN [tap[t].seen EXCEPT !.status = "cancelled"] ELSE tap[t].seen]
  /\ tap' = Disturb(t, Null)
  /\ UNCHANGED <<chips, edits>>

\* The reply of a confirmation is sent.
Reply(t) == At(t, "told") /\ End(t) /\ UNCHANGED <<ledger, chips, edits>>

-----------------------------------------------------------------------------
(* Meanwhile, on the web page and on the calendar.                         *)

\* A row is made, edited or restored (new), or deleted (Null).
WebEdit(r, new) ==
  /\ edits < MaxEdits /\ edits' = edits + 1
  /\ ledger[r] # new
  /\ ledger' = [ledger EXCEPT ![r] = new]
  /\ tap' = Disturb(Null, Null)
  /\ UNCHANGED chips

DayEnds(r) ==
  /\ r \in Active
  /\ ledger' = [ledger EXCEPT ![r].over = TRUE]
  /\ tap' = Disturb(Null, Null)
  /\ UNCHANGED <<chips, edits>>

Next ==
  \/ Check
  \/ \E r \in Rows : \/ \E known \in BOOLEAN : Register(r, known)
                     \/ \E new \in {n \in Reservation : n.status = "candidate"} \cup {Null} :
                          WebEdit(r, new)
                     \/ DayEnds(r)
  \/ \E t \in Taps : \/ \E chip \in chips : Tap(t, chip)
                     \/ Count(t) \/ Commit(t) \/ Read(t) \/ Write(t) \/ Reply(t)

Spec == Init /\ [][Next]_vars

-----------------------------------------------------------------------------
(* Properties.                                                             *)

\* The siblings a confirmation says it turned to_cancel are those it did turn: the chat
\* counts them in a read of its own, before the store settles the plan, and the numbers
\* agree unless a row changed or ended in between (web-commands.ts:605-616, 626).
SiblingCountTrue ==
  \A t \in Taps : At(t, "told") /\ ~tap[t].disturbed => tap[t].claimed = tap[t].flipped
=============================================================================
