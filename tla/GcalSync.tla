----------------------------- MODULE GcalSync -----------------------------
(***************************************************************************)
(* web/calendar/sync.ts: after a mutation of a reservation, one pass makes *)
(* the user's Google calendar match it (a confirmed reservation has an     *)
(* event, any other has none).  The request that mutated runs the pass     *)
(* itself, behind a dirty flag; the cron sweeps what stayed dirty.  One    *)
(* user, whose record (google) the passes share, and that user's calendar  *)
(* account at Google (cals, events), whose calls can be refused, applied   *)
(* without an answer, or answer that the thing is gone.                    *)
(***************************************************************************)
EXTENDS Naturals, FiniteSets

CONSTANTS
  Requests,       \* requests that mutate a reservation and then sync it
  Cron,           \* the 15-minute sweep; its invocations do not overlap
  Resvs,
  FirstCalendar,  \* calendarId the account starts with: 1, or Null
  MaxRevs,        \* bound: mutations of reservations
  MaxTroubles,    \* bound: faults (Google calls that fail, or apply without an answer, and
                  \* crashes) and times the user (un)links Google, revokes it or deletes the calendar
  Null

Procs == Requests \cup {Cron}

VARIABLES
  resv,      \* the ledger's reservation: is it confirmed, and which revision of it
  google,    \* user.google: [cal, reauth], or Null
  mapping,   \* gcal/<resv>: id of the reservation's event, or Null
  dirty,     \* gcal_dirty/<resv>: reservations flagged
  cals,      \* calendars that exist at Google
  events,    \* events that exist at Google: [id, cal, resv, rev]
  granted,   \* does Google still honour the refresh token
  pc, job,   \* what each process does next, and the pass it is in
  todo,      \* reservations the sweep has listed and not yet taken up
  born,      \* ids Google has given out
  spent,     \* bounds used up: [revs, faults, links]
  missed,    \* history: mutated by a request that ended before flagging
  overlapped,  \* history: had two passes at once
  orphaned   \* history: has an event whose id plancel never learnt or recorded

remote == <<cals, events, born>>
vars == <<resv, google, mapping, dirty, remote, granted, pc, job, todo, spent, missed, overlapped, orphaned>>

Ids == Nat \cup {Null}
Google == [cal : Ids, reauth : BOOLEAN]
Snapshot == [confirmed : BOOLEAN, rev : 0 .. MaxRevs]
Steps == {"idle", "flag", "user", "grant", "resv", "mapping", "calendar", "newCalendar",
          "keepRead", "keepWrite", "patch", "insert", "setMapping", "delete", "dropMapping",
          "reauthRead", "reauthWrite", "clear"}
\* user: user.google as the pass read it; cal, event: what the Google calls gave;
\* latest: user.google as updateUser read it.
Pass == [resv : Resvs, user : Google \cup {Null}, seen : Snapshot \cup {Null},
         event : Ids, cal : Ids, latest : Google \cup {Null}]

GcalSyncAssumption ==
  /\ IsFiniteSet(Procs) /\ Cron \notin Requests
  /\ FirstCalendar \in {1, Null}
  /\ {MaxRevs, MaxTroubles} \subseteq Nat
  /\ Null \notin Nat \cup Resvs \cup Procs \cup Google \cup Snapshot \cup Pass

TypeOK ==
  /\ resv \in [Resvs -> Snapshot]
  /\ google \in Google \cup {Null}
  /\ mapping \in [Resvs -> Ids]
  /\ dirty \subseteq Resvs /\ todo \subseteq Resvs
  /\ missed \subseteq Resvs /\ overlapped \subseteq Resvs /\ orphaned \subseteq Resvs
  /\ cals \subseteq 1 .. born
  /\ events \subseteq [id : 1 .. born, cal : 1 .. born, resv : Resvs, rev : 0 .. MaxRevs]
  /\ granted \in BOOLEAN
  /\ pc \in [Procs -> Steps]
  /\ job \in [Procs -> Pass \cup {Null}]
  /\ \A p \in Procs : pc[p] = "idle" <=> job[p] = Null
  /\ spent \in [revs : 0 .. MaxRevs, faults : 0 .. MaxTroubles, links : 0 .. MaxTroubles]

Init ==
  /\ resv = [r \in Resvs |-> [confirmed |-> FALSE, rev |-> 0]]
  /\ google = [cal |-> FirstCalendar, reauth |-> FALSE]
  /\ mapping = [r \in Resvs |-> Null]
  /\ dirty = {} /\ missed = {} /\ overlapped = {} /\ orphaned = {} /\ todo = {} /\ events = {}
  /\ cals = {FirstCalendar} \ {Null}
  /\ born = Cardinality(cals)
  /\ granted = TRUE
  /\ pc = [p \in Procs |-> "idle"]
  /\ job = [p \in Procs |-> Null]
  /\ spent = [revs |-> 0, faults |-> 0, links |-> 0]

-----------------------------------------------------------------------------
(* Bookkeeping of a pass.                                                  *)

Go(p, step) == pc' = [pc EXCEPT ![p] = step]
Note(p, field, value) == job' = [job EXCEPT ![p] = [@ EXCEPT ![field] = value]]
End(p) == Go(p, "idle") /\ job' = [job EXCEPT ![p] = Null]
Begin(p, r, step) ==
  /\ Go(p, step)
  /\ overlapped' = IF \E q \in Procs : job[q] # Null /\ job[q].resv = r
                   THEN overlapped \cup {r} ELSE overlapped
  /\ job' = [job EXCEPT ![p] = [resv |-> r, user |-> Null, seen |-> Null,
                                event |-> Null, cal |-> Null, latest |-> Null]]

Spend(what) == spent' = [spent EXCEPT ![what] = @ + 1]
Trouble(what) == spent.faults + spent.links < MaxTroubles /\ Spend(what)

\* A call to Google: answered; refused (the pass throws, nothing happened);
\* applied but unanswered (the pass throws).  A throw leaves the flag.
Answered == UNCHANGED spent
Refused(p) == Trouble("faults") /\ End(p) /\ UNCHANGED remote
Unanswered(p) == Trouble("faults") /\ End(p)

-----------------------------------------------------------------------------
(* What users do.                                                          *)

\* A request changes a reservation (confirms, cancels or edits it); onMutate
\* syncs only when the user record has a Google link.
Mutate(p, r) ==
  /\ p \in Requests /\ pc[p] = "idle" /\ spent.revs < MaxRevs /\ Spend("revs")
  /\ \E c \in BOOLEAN : resv' = [resv EXCEPT ![r] = [confirmed |-> c, rev |-> @.rev + 1]]
  /\ IF google = Null THEN UNCHANGED <<pc, job, overlapped>> /\ missed' = missed \cup {r}
                      ELSE Begin(p, r, "flag") /\ UNCHANGED missed
  /\ UNCHANGED <<google, mapping, dirty, remote, granted, todo, orphaned>>

Flag(p) ==
  /\ pc[p] = "flag"
  /\ dirty' = dirty \cup {job[p].resv} /\ Go(p, "user")
  /\ UNCHANGED <<resv, google, mapping, remote, granted, job, todo, spent, missed, orphaned, overlapped>>

\* /auth/google/unlink, the OAuth callback that links again (it keeps the
\* calendarId), the user revoking access at Google, the user deleting the calendar.
ChangeLink ==
  /\ Trouble("links")
  /\ \/ google' = Null /\ UNCHANGED <<granted, cals, events>>
     \/ /\ google' = [cal |-> IF google = Null THEN Null ELSE google.cal, reauth |-> FALSE]
        /\ granted' = TRUE /\ UNCHANGED <<cals, events>>
     \/ granted /\ granted' = FALSE /\ UNCHANGED <<google, cals, events>>
     \/ \E c \in cals : /\ cals' = cals \ {c} /\ events' = {e \in events : e.cal # c}
                        /\ UNCHANGED <<google, granted>>
  /\ UNCHANGED <<resv, mapping, dirty, born, pc, job, todo, missed, orphaned, overlapped>>

-----------------------------------------------------------------------------
(* The sweep: it lists the dirty entries, then runs a pass for each.       *)

\* Mistake: the sweep takes the flags down before it has done their work.
SweepListClears ==
  /\ pc[Cron] = "idle" /\ todo = {} /\ dirty # {}
  /\ todo' = dirty /\ dirty' = {}
  /\ UNCHANGED <<resv, google, mapping, remote, granted, pc, job, spent, missed, orphaned, overlapped>>

SweepList ==
  /\ pc[Cron] = "idle" /\ todo = {} /\ dirty # {}
  /\ todo' = dirty
  /\ UNCHANGED <<resv, google, mapping, dirty, remote, granted, pc, job, spent, missed, orphaned, overlapped>>

SweepNext(r) ==
  /\ pc[Cron] = "idle" /\ r \in todo
  /\ todo' = todo \ {r} /\ Begin(Cron, r, "user")
  /\ UNCHANGED <<resv, google, mapping, dirty, remote, granted, spent, missed, orphaned>>

-----------------------------------------------------------------------------
(* One pass of processSync, a step for each KV or Google call.             *)

ReadUser(p) ==
  /\ pc[p] = "user"
  /\ Note(p, "user", google)
  /\ Go(p, IF google = Null \/ (google # Null /\ google.reauth) THEN "clear" ELSE "grant")
  /\ UNCHANGED <<resv, google, mapping, dirty, remote, granted, todo, spent, missed, orphaned, overlapped>>

\* Mistake: a dead grant is an error like any other.
RefreshTokenThrows(p) ==
  /\ pc[p] = "grant"
  /\ \/ granted /\ Answered /\ Go(p, "resv") /\ UNCHANGED <<job, remote>>
     \/ ~granted /\ Answered /\ End(p) /\ UNCHANGED remote
     \/ Refused(p)
  /\ UNCHANGED <<resv, google, mapping, dirty, granted, todo, missed, orphaned, overlapped>>

RefreshToken(p) ==
  /\ pc[p] = "grant"
  /\ \/ Answered /\ Go(p, IF granted THEN "resv" ELSE "reauthRead") /\ UNCHANGED <<job, remote>>
     \/ Refused(p)
  /\ UNCHANGED <<resv, google, mapping, dirty, granted, todo, missed, orphaned, overlapped>>

ReadResv(p) ==
  /\ pc[p] = "resv"
  /\ Note(p, "seen", resv[job[p].resv]) /\ Go(p, "mapping")
  /\ UNCHANGED <<resv, google, mapping, dirty, remote, granted, todo, spent, missed, orphaned, overlapped>>

ReadMapping(p) ==
  /\ pc[p] = "mapping"
  /\ LET m == mapping[job[p].resv] IN
       /\ Note(p, "event", m)
       /\ Go(p, CASE job[p].seen.confirmed -> "calendar"
                  [] ~job[p].seen.confirmed /\ m # Null /\ job[p].user.cal # Null -> "delete"
                  [] OTHER -> "clear")
  /\ UNCHANGED <<resv, google, mapping, dirty, remote, granted, todo, spent, missed, orphaned, overlapped>>

\* ensureCalendar: the stored calendar if it still exists, else a new one.
CheckCalendar(p) ==
  /\ pc[p] = "calendar" /\ UNCHANGED remote
  /\ LET c == job[p].user.cal IN
       \/ c = Null /\ Answered /\ Go(p, "newCalendar") /\ UNCHANGED job
       \/ /\ c # Null /\ Answered
          /\ IF c \in cals THEN Note(p, "cal", c) ELSE UNCHANGED job
          /\ Go(p, CASE c \notin cals -> "newCalendar"
                     [] c \in cals /\ job[p].event = Null -> "insert"
                     [] OTHER -> "patch")
       \/ c # Null /\ Refused(p)
  /\ UNCHANGED <<resv, google, mapping, dirty, granted, todo, missed, orphaned, overlapped>>

MakeCalendar == cals' = cals \cup {born + 1} /\ born' = born + 1 /\ UNCHANGED events

NewCalendar(p) ==
  /\ pc[p] = "newCalendar"
  /\ \/ MakeCalendar /\ Answered /\ Note(p, "cal", born + 1) /\ Go(p, "keepRead")
     \/ MakeCalendar /\ Unanswered(p)
     \/ Refused(p)
  /\ UNCHANGED <<resv, google, mapping, dirty, granted, todo, missed, orphaned, overlapped>>

\* updateUser: read the record, write it back changed.
ReadForUpdate(p) ==
  /\ pc[p] \in {"keepRead", "reauthRead"}
  /\ Note(p, "latest", google)
  /\ Go(p, IF pc[p] = "keepRead" THEN "keepWrite" ELSE "reauthWrite")
  /\ UNCHANGED <<resv, google, mapping, dirty, remote, granted, todo, spent, missed, orphaned, overlapped>>

KeepCalendar(p) ==
  /\ pc[p] = "keepWrite"
  /\ google' = IF job[p].latest = Null THEN Null ELSE [job[p].latest EXCEPT !.cal = job[p].cal]
  /\ Go(p, IF job[p].event = Null THEN "insert" ELSE "patch")
  /\ UNCHANGED <<resv, mapping, dirty, remote, granted, job, todo, spent, missed, orphaned, overlapped>>

MarkReauth(p) ==
  /\ pc[p] = "reauthWrite"
  /\ google' = IF job[p].latest = Null THEN Null ELSE [job[p].latest EXCEPT !.reauth = TRUE]
  /\ Go(p, "clear")
  /\ UNCHANGED <<resv, mapping, dirty, remote, granted, job, todo, spent, missed, orphaned, overlapped>>

\* upsertEvent: patch the mapped event; one that is gone is inserted again.
Mapped(p) == {e \in events : e.id = job[p].event /\ e.cal = job[p].cal}
Overwrite(p) ==
  /\ events' = (events \ Mapped(p)) \cup {[e EXCEPT !.rev = job[p].seen.rev] : e \in Mapped(p)}
  /\ UNCHANGED <<cals, born>>

PatchEvent(p) ==
  /\ pc[p] = "patch"
  /\ \/ Mapped(p) # {} /\ Overwrite(p) /\ Answered /\ Go(p, "setMapping") /\ UNCHANGED job
     \/ Mapped(p) # {} /\ Overwrite(p) /\ Unanswered(p)
     \/ Mapped(p) = {} /\ Answered /\ Go(p, "insert") /\ UNCHANGED <<job, remote>>
     \/ Refused(p)
  /\ UNCHANGED <<resv, google, mapping, dirty, granted, todo, missed, orphaned, overlapped>>

MakeEvent(p) ==
  /\ job[p].cal \in cals
  /\ events' = events \cup {[id |-> born + 1, cal |-> job[p].cal,
                             resv |-> job[p].resv, rev |-> job[p].seen.rev]}
  /\ born' = born + 1 /\ UNCHANGED cals

InsertEvent(p) ==
  /\ pc[p] = "insert"
  /\ \/ /\ MakeEvent(p) /\ Answered /\ Note(p, "event", born + 1) /\ Go(p, "setMapping")
        /\ UNCHANGED orphaned
     \/ MakeEvent(p) /\ Unanswered(p) /\ orphaned' = orphaned \cup {job[p].resv}
     \/ job[p].cal \notin cals /\ Answered /\ End(p) /\ UNCHANGED <<remote, orphaned>>
     \/ Refused(p) /\ UNCHANGED orphaned
  /\ UNCHANGED <<resv, google, mapping, dirty, granted, todo, missed, overlapped>>

SetMapping(p) ==
  /\ pc[p] = "setMapping"
  /\ mapping' = [mapping EXCEPT ![job[p].resv] = job[p].event] /\ Go(p, "clear")
  /\ UNCHANGED <<resv, google, dirty, remote, granted, job, todo, spent, missed, orphaned, overlapped>>

\* deleteEvent, in the calendar of the record as it was read; gone is success.
EraseEvent(p) ==
  /\ events' = {e \in events : e.id # job[p].event \/ e.cal # job[p].user.cal}
  /\ UNCHANGED <<cals, born>>

DeleteEvent(p) ==
  /\ pc[p] = "delete"
  /\ \/ EraseEvent(p) /\ Answered /\ Go(p, "dropMapping") /\ UNCHANGED job
     \/ EraseEvent(p) /\ Unanswered(p)
     \/ Refused(p)
  /\ UNCHANGED <<resv, google, mapping, dirty, granted, todo, missed, orphaned, overlapped>>

DropMapping(p) ==
  /\ pc[p] = "dropMapping"
  /\ mapping' = [mapping EXCEPT ![job[p].resv] = Null] /\ Go(p, "clear")
  /\ UNCHANGED <<resv, google, dirty, remote, granted, job, todo, spent, missed, orphaned, overlapped>>

\* The pass returned: requestSync and the sweep delete the flag.
ClearFlag(p) ==
  /\ pc[p] = "clear"
  /\ dirty' = dirty \ {job[p].resv} /\ End(p)
  /\ UNCHANGED <<resv, google, mapping, remote, granted, todo, spent, missed, orphaned, overlapped>>

\* The isolate goes away in the middle of a pass.
Crash(p) ==
  /\ pc[p] # "idle" /\ Trouble("faults") /\ End(p)
  /\ missed' = IF pc[p] = "flag" THEN missed \cup {job[p].resv} ELSE missed
  /\ orphaned' = IF pc[p] = "setMapping" /\ job[p].event # mapping[job[p].resv]
                    THEN orphaned \cup {job[p].resv} ELSE orphaned
  /\ todo' = IF p = Cron THEN {} ELSE todo
  /\ UNCHANGED <<resv, google, mapping, dirty, remote, granted, overlapped>>

Step(p) ==
  \/ Flag(p) \/ ReadUser(p) \/ RefreshToken(p) \/ ReadResv(p) \/ ReadMapping(p)
  \/ CheckCalendar(p) \/ NewCalendar(p) \/ ReadForUpdate(p) \/ KeepCalendar(p) \/ MarkReauth(p)
  \/ PatchEvent(p) \/ InsertEvent(p) \/ SetMapping(p)
  \/ DeleteEvent(p) \/ DropMapping(p) \/ ClearFlag(p)

Sweep == SweepList \/ \E r \in Resvs : SweepNext(r)

Done == (\A p \in Procs : pc[p] = "idle") /\ todo = {} /\ dirty = {} /\ UNCHANGED vars

Next ==
  \/ \E p \in Procs : Step(p) \/ Crash(p)
  \/ \E p \in Requests, r \in Resvs : Mutate(p, r)
  \/ Sweep \/ ChangeLink \/ Done

\* A started pass goes on and the cron fires again: that is all the code relies on.
Fairness == (\A p \in Procs : WF_vars(Step(p))) /\ WF_vars(Sweep)

Spec == Init /\ [][Next]_vars /\ Fairness

-----------------------------------------------------------------------------
(* Properties.                                                             *)

\* What the calendar should hold of r: one up-to-date event, or none.
InSync(r) ==
  LET mine == {e \in events : e.resv = r} IN
    IF resv[r].confirmed
      THEN /\ Cardinality(mine) = 1
           /\ \A e \in mine : e.rev = resv[r].rev /\ google.cal = e.cal
      ELSE mine = {}

AtRest == (\A p \in Procs : pc[p] = "idle") /\ spent.links = 0

\* Once no pass is running, a reservation that carries no dirty flag has what it
\* should have in Google Calendar: an unflagged reservation is never looked at
\* again (sync.ts:72-85), so any difference would stay.  Excused are a request that
\* ended before it wrote the flag, a user who changed the link, an event whose id
\* was lost between Google's insert and setGcalEvent, and a reservation two passes
\* worked on at once.
CleanMeansInSync == AtRest => \A r \in Resvs \ (dirty \cup missed \cup overlapped \cup orphaned) : InSync(r)

\* Every flag is cleared in the end, whatever fails on the way: by the pass that
\* set it, by the sweep, or because the link turned out dead (sync.ts:60-68, 72-85, 105).
EventuallyClean == \A r \in Resvs : r \in dirty ~> r \notin dirty
=============================================================================
