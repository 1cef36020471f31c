------------------------------- MODULE Reports -------------------------------
(* What the developer is told: reports people file, beacons of pages that     *)
(* failed to boot, faults the app finds by itself (src/web/reports.ts), and   *)
(* the daily question to every parser that finds them (src/web/               *)
(* canary-watch.ts, src/parse/canary.ts), run by the cron.                    *)
(*                                                                            *)
(* A fault is put in the list, then the day of its key is claimed in one      *)
(* transaction, then it is pushed. Requests and the check interleave at each  *)
(* access to the store, and may be cut there. Time is counted in hours.       *)
EXTENDS Naturals, FiniteSets, Sequences, SequencesExt

CONSTANTS Clients,    \* requests that may be under way at one time
          Writers,    \* callers who are logged in
          Boots,      \* ways for the page to fail, one digest each
          Parsers,
          None,
          Cap, BeaconCap,  \* reports of a caller, beacons of everybody, a day
          Retry, Day,      \* hours: an unfinished check is taken up, a finished one rests
          LastHour,
          Requests, Cuts   \* bounds: requests in a behaviour, processes cut short

ReportsAssumption ==
    /\ Retry \in Nat \ {0} /\ Day \in Nat /\ Retry < Day
    /\ LastHour \in Nat /\ Requests \in Nat /\ Cuts \in Nat
    /\ Cap \in Nat /\ BeaconCap \in Nat
    /\ Boots \cap Parsers = {} /\ None \notin Boots \cup Parsers \cup Clients \cup Nat
    /\ IsFiniteSet(Clients) /\ "cron" \notin Clients /\ IsFiniteSet(Parsers)

(* A parser's faults share one push key, a way to fail to boot has its own.   *)
Kinds == Boots \cup Parsers
Keys == Boots \cup {"parser_unreachable"}
PushKey(f) == IF f \in Boots THEN f ELSE "parser_unreachable"
Procs == Clients \cup {"cron"}

VARIABLES hour,
          filed,      \* filed[f]: system reports of a fault in the list
          own,        \* own[w]: reports of a caller in the list
          rate,       \* rate[w]: [count, until] of a caller, or None
          beacons,    \* the same for all beacons
          seen,       \* seen[b]: when the digest may be dropped, or None
          pushed,     \* pushed[k]: when the claim may be dropped, or None
          marker,     \* [started, finished] of the check, finished None while it runs
          proc,       \* what each request and the check do next
          toCome, cuts,
          claims,     \* history: the hours at which the day of a key was claimed
          pushes,     \* history: pushes[k] begun
          runs,       \* history: the hours at which checks began, and finished ones began
          found,      \* history: parsers a finished check found structurally broken
          lost        \* history: faults cut off between their claim and the list

vars == <<hour, filed, own, rate, beacons, seen, pushed, marker, proc, toCome, cuts, claims,
          pushes, runs, found, lost>>
lists == <<filed, own, rate, beacons, seen, pushed, marker>>
history == <<claims, pushes, runs, found, lost>>

Idle == [at |-> "idle"]
At(p) == proc[p].at
Goto(p, r) == proc' = [proc EXCEPT ![p] = r]
Begin(c) == At(c) = "idle" /\ toCome > 0 /\ toCome' = toCome - 1

Init ==
    /\ hour = Day
    /\ filed = [f \in Kinds |-> 0] /\ own = [w \in Writers |-> 0]
    /\ rate = [w \in Writers |-> None] /\ beacons = None
    /\ seen = [b \in Boots |-> None] /\ pushed = [k \in Keys |-> None]
    /\ marker = [started |-> 0, finished |-> None]
    /\ proc = [p \in Procs |-> Idle]
    /\ toCome = Requests /\ cuts = 0
    /\ claims = [k \in Keys |-> <<>>] /\ pushes = [k \in Keys |-> 0]
    /\ runs = [started |-> <<>>, finished |-> <<>>]
    /\ found = {} /\ lost = {}

-----------------------------------------------------------------------------
(* A person's report: the counter of the caller, then the list.              *)
Count(r) == IF r = None THEN 0 ELSE r.count
Counted(n) == [count |-> n + 1, until |-> hour + Day]

Submit(c, w) ==
    /\ Begin(c)
    /\ Goto(c, IF Count(rate[w]) >= Cap THEN Idle
               ELSE [at |-> "count", who |-> w, read |-> Count(rate[w])])
    /\ UNCHANGED <<hour, lists, cuts, history>>

CountReport(c) ==
    /\ At(c) = "count"
    /\ rate' = [rate EXCEPT ![proc[c].who] = Counted(proc[c].read)]
    /\ Goto(c, [at |-> "put", who |-> proc[c].who])
    /\ UNCHANGED <<hour, filed, own, beacons, seen, pushed, marker, toCome, cuts, history>>

PutReport(c) ==
    /\ At(c) = "put"
    /\ own' = [own EXCEPT ![proc[c].who] = @ + 1]
    /\ Goto(c, Idle)
    /\ UNCHANGED <<hour, filed, rate, beacons, seen, pushed, marker, toCome, cuts, history>>

-----------------------------------------------------------------------------
(* A beacon: everybody's counter, then the digest claimed for the day.       *)
Beacon(c, b) ==
    /\ Begin(c)
    /\ Goto(c, IF Count(beacons) >= BeaconCap THEN Idle
               ELSE [at |-> "beacon", fault |-> b, read |-> Count(beacons)])
    /\ UNCHANGED <<hour, lists, cuts, history>>

CountBeacon(c) ==
    /\ At(c) = "beacon"
    /\ beacons' = Counted(proc[c].read)
    /\ Goto(c, [at |-> "digest", fault |-> proc[c].fault])
    /\ UNCHANGED <<hour, filed, own, rate, seen, pushed, marker, toCome, cuts, history>>

ClaimDigest(c) ==
    LET b == proc[c].fault IN
    /\ At(c) = "digest"
    /\ IF seen[b] # None THEN Goto(c, Idle) /\ UNCHANGED seen
       ELSE /\ seen' = [seen EXCEPT ![b] = hour + Day]
            /\ Goto(c, [at |-> "file", todo |-> <<b>>])
    /\ UNCHANGED <<hour, filed, own, rate, beacons, pushed, marker, toCome, cuts, history>>

-----------------------------------------------------------------------------
(* recordSystemReport, for each fault in turn: list, claim, push.            *)
Next1(p) == [proc[p] EXCEPT !.todo = Tail(@), !.at = IF Len(proc[p].todo) = 1 THEN "idle" ELSE "file"]
Done(p) == Goto(p, IF Len(proc[p].todo) = 1 THEN Idle ELSE Next1(p))

File(p) ==
    /\ At(p) = "file"
    /\ filed' = [filed EXCEPT ![Head(proc[p].todo)] = @ + 1]
    /\ Goto(p, [proc[p] EXCEPT !.at = "claim"])
    /\ UNCHANGED <<hour, own, rate, beacons, seen, pushed, marker, toCome, cuts, history>>

(* Mistake: the claim of the day is written without looking.                 *)
ClaimDayBlindly(p) ==
    LET k == PushKey(Head(proc[p].todo)) IN
    /\ At(p) = "claim"
    /\ pushed' = [pushed EXCEPT ![k] = hour + Day]
    /\ claims' = [claims EXCEPT ![k] = Append(@, hour)]
    /\ Goto(p, [proc[p] EXCEPT !.at = "push"])
    /\ UNCHANGED <<hour, filed, own, rate, beacons, seen, marker, toCome, cuts, pushes, runs, found, lost>>

ClaimDay(p) ==
    LET k == PushKey(Head(proc[p].todo)) IN
    /\ At(p) = "claim"
    /\ IF pushed[k] # None THEN Done(p) /\ UNCHANGED <<pushed, claims>>
       ELSE /\ pushed' = [pushed EXCEPT ![k] = hour + Day]
            /\ claims' = [claims EXCEPT ![k] = Append(@, hour)]
            /\ Goto(p, [proc[p] EXCEPT !.at = "push"])
    /\ UNCHANGED <<hour, filed, own, rate, beacons, seen, marker, toCome, cuts, pushes, runs, found, lost>>

(* Whether the push reaches anybody, nobody or throws, it is not repeated.   *)
Push(p) ==
    /\ At(p) = "push"
    /\ pushes' = [pushes EXCEPT ![PushKey(Head(proc[p].todo))] = @ + 1]
    /\ Done(p)
    /\ UNCHANGED <<hour, lists, toCome, cuts, claims, runs, found, lost>>

-----------------------------------------------------------------------------
(* The check. A finished one holds the day, an unfinished one only an hour;  *)
(* both are counted from the hour the check began.                           *)
RestsShort == hour - marker.started < Retry

Rests ==
    IF marker.finished # None THEN hour - marker.finished < Day
    ELSE hour - marker.started < Retry

StartCheck ==
    /\ At("cron") = "idle" /\ ~Rests
    /\ marker' = [started |-> hour, finished |-> None]
    /\ runs' = [runs EXCEPT !.started = Append(@, hour)]
    /\ Goto("cron", [at |-> "ask", began |-> hour, left |-> SetToSeq(Parsers), broken |-> <<>>])
    /\ UNCHANGED <<hour, filed, own, rate, beacons, seen, pushed, toCome, cuts, claims, pushes, found, lost>>

(* What comes back from a parser, and what needs a person: a request refused *)
(* (a 4xx, a key that is missing), an answer nothing can be read from, a     *)
(* parser that throws. A 5xx, an abort, a network error heal by themselves.  *)
Findings == {"extracted", "refused", "unavailable", "unreadable", "threw"}
Structural(answer) == answer \in {"refused", "unreadable", "threw"}

(* The parsers are asked one after the other.                                *)
Ask ==
    LET r == proc["cron"] IN
    /\ At("cron") = "ask" /\ r.left # <<>>
    /\ \E answer \in Findings :
         Goto("cron", [r EXCEPT !.left = Tail(@),
                                !.broken = IF Structural(answer) THEN Append(@, Head(r.left)) ELSE @])
    /\ UNCHANGED <<hour, lists, toCome, cuts, history>>

(* Mistake: only the first fault is filed.                                   *)
FirstOf(broken) == SubSeq(broken, 1, 1)

ToFile(broken) == broken

FinishCheck ==
    LET r == proc["cron"] IN
    /\ At("cron") = "ask" /\ r.left = <<>>
    /\ marker' = [started |-> r.began, finished |-> r.began]
    /\ runs' = [runs EXCEPT !.finished = Append(@, r.began)]
    /\ found' = found \cup ToSet(r.broken)
    /\ Goto("cron", IF r.broken = <<>> THEN Idle ELSE [at |-> "file", todo |-> ToFile(r.broken)])
    /\ UNCHANGED <<hour, filed, own, rate, beacons, seen, pushed, toCome, cuts, claims, pushes, lost>>

-----------------------------------------------------------------------------
(* Time passes while processes are under way; the store drops what is past   *)
(* its time; a process is cut, at a restart or by the budget of the cron.    *)
Hour == hour < LastHour /\ hour' = hour + 1 /\ UNCHANGED <<lists, proc, toCome, cuts, history>>

Over(x) == x # None /\ x <= hour
KvDrops ==
    /\ \/ \E b \in Boots : Over(seen[b]) /\ seen' = [seen EXCEPT ![b] = None]
                           /\ UNCHANGED <<rate, beacons, pushed>>
       \/ \E k \in Keys : Over(pushed[k]) /\ pushed' = [pushed EXCEPT ![k] = None]
                          /\ UNCHANGED <<rate, beacons, seen>>
       \/ \E w \in Writers : rate[w] # None /\ Over(rate[w].until)
                             /\ rate' = [rate EXCEPT ![w] = None] /\ UNCHANGED <<beacons, seen, pushed>>
       \/ beacons # None /\ Over(beacons.until) /\ beacons' = None /\ UNCHANGED <<rate, seen, pushed>>
    /\ UNCHANGED <<hour, filed, own, marker, proc, toCome, cuts, history>>

Unfiled(p) ==
    IF At(p) = "file" THEN ToSet(proc[p].todo)
    ELSE IF At(p) \in {"claim", "push"} THEN ToSet(Tail(proc[p].todo)) ELSE {}

Cut(p) ==
    /\ At(p) # "idle" /\ cuts < Cuts
    /\ cuts' = cuts + 1
    /\ lost' = lost \cup Unfiled(p)
    /\ Goto(p, Idle)
    /\ UNCHANGED <<hour, lists, toCome, claims, pushes, runs, found>>

Next ==
    \/ \E c \in Clients :
         \/ \E w \in Writers : Submit(c, w)
         \/ \E b \in Boots : Beacon(c, b)
         \/ CountReport(c) \/ PutReport(c) \/ CountBeacon(c) \/ ClaimDigest(c)
    \/ \E p \in Procs : File(p) \/ ClaimDay(p) \/ Push(p) \/ Cut(p)
    \/ StartCheck \/ Ask \/ FinishCheck \/ Hour \/ KvDrops

Spec == Init /\ [][Next]_vars

-----------------------------------------------------------------------------
Apart(hours, d) == \A i, j \in DOMAIN hours : i < j => hours[i] + d <= hours[j]

(* The day of a key is claimed no more than once in any Day hours, and every *)
(* push has a claim of its own, whoever finds the fault and however claims,  *)
(* lapses and cuts fall (reports.ts, recordSystemReport). It is the claims   *)
(* that are a day apart: a push that hangs until its claim has lapsed can go *)
(* out in the hour of the next one.                                          *)
ClaimsRest == \A k \in Keys : Apart(claims[k], Day) /\ pushes[k] <= Len(claims[k])

(* Checks begin at least Retry hours apart, and those that finish at least a *)
(* day apart, whatever is cut short (canary-watch.ts, sweepCanary).          *)
CheckRests == Apart(runs.started, Retry) /\ Apart(runs.finished, Day)

OncePerDay == ClaimsRest /\ CheckRests

(* A failure to boot whose digest is taken, and a parser a finished check    *)
(* found broken, are in the list or about to be put there; only what was cut *)
(* off in between is silenced until the claim lapses. A passing failure of a *)
(* parser never is in the list (canary-watch.ts, sweepCanary).               *)
OnItsWay(f) == \E p \in Procs : f \in Unfiled(p)
FaultsReachTheList ==
    /\ \A b \in Boots : seen[b] # None => filed[b] > 0 \/ OnItsWay(b) \/ b \in lost
    /\ \A f \in Parsers : f \in found => filed[f] > 0 \/ OnItsWay(f) \/ f \in lost
    /\ \A f \in Parsers : filed[f] > 0 => f \in found
=============================================================================
