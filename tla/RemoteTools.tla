---------------------------- MODULE RemoteTools ----------------------------
(***************************************************************************)
(* A model's create_reservation over the web API, and what the API looks   *)
(* up for it: the tool lists the ledger and asks for a new row only when   *)
(* none is the same booking (mcp/web_api_tools.ts, mcp/web_api_view.ts);   *)
(* a row sent without a policy takes the one the ledger has learnt for the *)
(* place (web/policy-template.ts, web/store.ts).  Other requests of the    *)
(* same person change rows and templates meanwhile, and a call that timed  *)
(* out may be made again while the first still runs.                       *)
(***************************************************************************)
EXTENDS Naturals

CONSTANTS
  Calls,       \* create_reservation calls that may be under way at once
  Names,       \* names of places as people write them
  Place(_),    \* the name without case, width and spaces: foldName, spacelessKey
  Times,       \* instants a reservation may start at
  FeeTables,   \* fee tables
  MaxRows,     \* bound: rows
  MaxChanges,  \* bound: changes by other requests
  Null

VARIABLES
  rows,       \* the ledger: Null, or [name, at, live, free, raced]
  templates,  \* policy_tpl/<facilityKey>: a fee table or Null; a name here is its key
  call,       \* each create_reservation
  changes

vars == <<rows, templates, call, changes>>

\* free: made or changed without the check for a duplicate;
\* raced: its call overlapped another one.
Row == [name : Names, at : Times, live : BOOLEAN, free : BOOLEAN, raced : BOOLEAN]
\* given: with a policy of its own; got: what the lookup found, Null as "unknown".
\* kept, had: history, the templates of the place that the lookup found in place all
\* along, and those there were at any moment of it.
CallState == [pc : {"list", "post", "exact", "scan", "write"}, name : Names, at : Times,
              given : BOOLEAN, got : FeeTables \cup {Null},
              free : BOOLEAN, raced : BOOLEAN,
              kept : SUBSET Names, had : SUBSET (Names \X FeeTables)]

RemoteToolsAssumption ==
  /\ {MaxRows, MaxChanges} \subseteq Nat
  /\ Null \notin Names \cup FeeTables \cup Row \cup CallState

TypeOK ==
  /\ rows \in [1 .. MaxRows -> Row \cup {Null}]
  /\ templates \in [Names -> FeeTables \cup {Null}]
  /\ call \in [Calls -> CallState \cup {Null}]
  /\ changes \in 0 .. MaxChanges

Init ==
  /\ rows = [i \in 1 .. MaxRows |-> Null]
  /\ templates = [n \in Names |-> Null]
  /\ call = [c \in Calls |-> Null]
  /\ changes = 0

Live == {i \in 1 .. MaxRows : rows[i] # Null /\ rows[i].live}
Vacant == {i \in 1 .. MaxRows : rows[i] = Null}
Busy == {c \in Calls : call[c] # Null}
Known(n) == {m \in Names : Place(m) = Place(n) /\ templates[m] # Null}
Change == changes < MaxChanges /\ changes' = changes + 1
Goto(c, l) == call' = [call EXCEPT ![c].pc = l]

-----------------------------------------------------------------------------
(* create_reservation.                                                     *)

\* Calls that are under way together have all raced. allowDuplicate, or the form of the
\* web page, makes the row without the check.
Create(c, n, t, given, free) ==
  /\ call[c] = Null
  /\ IF free THEN Change ELSE UNCHANGED changes
  /\ LET raced == Busy # {} IN
       call' = [d \in Calls |->
         IF d = c THEN [pc |-> IF free THEN "post" ELSE "list", name |-> n, at |-> t,
                        given |-> given, got |-> Null, free |-> free, raced |-> raced,
                        kept |-> {}, had |-> {}]
         ELSE IF call[d] = Null THEN Null ELSE [call[d] EXCEPT !.raced = TRUE]]
  /\ UNCHANGED <<rows, templates>>

\* Mistake: names are compared as they are written.
SameBookingAsWritten(i, n, t) == rows[i].name = n /\ rows[i].at = t

SameBooking(i, n, t) == Place(rows[i].name) = Place(n) /\ rows[i].at = t

\* fetchRows and findDuplicate: a live row of the same place and instant is answered.
List(c) ==
  /\ call[c] # Null /\ call[c].pc = "list"
  /\ IF \E i \in Live : SameBooking(i, call[c].name, call[c].at)
       THEN call' = [call EXCEPT ![c] = Null] ELSE Goto(c, "post")
  /\ UNCHANGED <<rows, templates, changes>>

\* POST /api/reservations arrives: only a row without a policy looks one up.
Post(c) ==
  /\ call[c] # Null /\ call[c].pc = "post"
  /\ IF call[c].given THEN Goto(c, "write")
     ELSE call' = [call EXCEPT ![c].pc = "exact", ![c].kept = Known(call[c].name),
                     ![c].had = {<<m, templates[m]>> : m \in Known(call[c].name)}]
  /\ UNCHANGED <<rows, templates, changes>>

\* Mistake: only the name as it is written is looked up.
ExactOnly(c) ==
  /\ call[c] # Null /\ call[c].pc = "exact"
  /\ call' = [call EXCEPT ![c].got = templates[call[c].name], ![c].pc = "write"]
  /\ UNCHANGED <<rows, templates, changes>>

\* getTemplate: the key itself, and only when it is missing the scan.
Exact(c) ==
  /\ call[c] # Null /\ call[c].pc = "exact"
  /\ LET found == templates[call[c].name] IN
       call' = [call EXCEPT ![c].got = found, ![c].pc = IF found = Null THEN "scan" ELSE "write"]
  /\ UNCHANGED <<rows, templates, changes>>

\* The first template listed whose name differs by spacing alone.
Scan(c) ==
  /\ call[c] # Null /\ call[c].pc = "scan"
  /\ \/ /\ Known(call[c].name) = {} /\ Goto(c, "write")
     \/ \E m \in Known(call[c].name) :
          call' = [call EXCEPT ![c].got = templates[m], ![c].pc = "write"]
  /\ UNCHANGED <<rows, templates, changes>>

Write(c) ==
  /\ call[c] # Null /\ call[c].pc = "write"
  /\ \E i \in Vacant :
       rows' = [rows EXCEPT ![i] = [name |-> call[c].name, at |-> call[c].at, live |-> TRUE,
                                    free |-> call[c].free, raced |-> call[c].raced]]
  /\ call' = [call EXCEPT ![c] = Null]
  /\ UNCHANGED <<templates, changes>>

\* A request is lost or ends between two steps.
Fail(c) ==
  /\ call[c] # Null /\ call' = [call EXCEPT ![c] = Null]
  /\ UNCHANGED <<rows, templates, changes>>

-----------------------------------------------------------------------------
(* Other requests.                                                         *)

\* cancel, restore, edit and delete.
ChangeRow(i) ==
  /\ rows[i] # Null /\ Change
  /\ \/ rows[i].live /\ rows' = [rows EXCEPT ![i].live = FALSE]
     \/ ~rows[i].live /\ rows' = [rows EXCEPT ![i].live = TRUE, ![i].free = TRUE]
     \/ \E n \in Names, t \in Times :
          rows' = [rows EXCEPT ![i].name = n, ![i].at = t, ![i].free = TRUE]
     \/ rows' = [rows EXCEPT ![i] = Null]
  /\ UNCHANGED <<templates, call>>

\* What a lookup under way sees of a template saved (p) or deleted (Null).
Seen(k, n, p) ==
  IF k = Null \/ Place(k.name) # Place(n) \/ k.pc \notin {"exact", "scan"} THEN k
  ELSE IF p = Null THEN [k EXCEPT !.kept = @ \ {n}] ELSE [k EXCEPT !.had = @ \cup {<<n, p>>}]

\* PUT and DELETE /api/policy-templates/<name>; one already so is written as it is.
ChangeTemplate(n, p) ==
  /\ templates[n] # p /\ Change
  /\ templates' = [templates EXCEPT ![n] = p]
  /\ call' = [c \in Calls |-> Seen(call[c], n, p)]
  /\ UNCHANGED rows

\* "unknown" is not a policy to teach.
SaveTemplate(n, p) == p \in FeeTables /\ ChangeTemplate(n, p)
DeleteTemplate(n) == ChangeTemplate(n, Null)

Next ==
  \/ \E c \in Calls :
       \/ \E n \in Names, t \in Times, given, free \in BOOLEAN :
            Create(c, n, t, given, free)
       \/ List(c) \/ Post(c) \/ Exact(c) \/ Scan(c) \/ Write(c) \/ Fail(c)
  \/ \E i \in 1 .. MaxRows : ChangeRow(i)
  \/ \E n \in Names : (\E p \in FeeTables : SaveTemplate(n, p)) \/ DeleteTemplate(n)

Spec == Init /\ [][Next]_vars

-----------------------------------------------------------------------------
(* Properties.                                                             *)

\* "A retried create must not make a second row" (web_api_tools.ts, issue #5): two live
\* rows are never the same booking, however its name is spelled, unless one of them was
\* made with allowDuplicate or changed afterwards, or calls overlapped.
NoSecondRow ==
  \A i, j \in Live :
    i # j /\ Place(rows[i].name) = Place(rows[j].name) /\ rows[i].at = rows[j].at =>
      \E k \in {i, j} : rows[k].free \/ rows[k].raced

\* A row sent without a policy takes one its place had while the row was made (the one
\* of its very spelling, if that was there all along), and is left unknown only when no
\* template of the place was there all along: saving and deleting templates meanwhile
\* never leaves a taught place unwatched (policy-template.ts:111-137, store.ts:229-236).
TaughtPolicyApplies ==
  \A c \in Busy : LET k == call[c] IN
    k.pc = "write" /\ ~k.given =>
      IF k.got = Null THEN k.kept = {}
      ELSE /\ \E m \in Names : <<m, k.got>> \in k.had
           /\ k.name \in k.kept => <<k.name, k.got>> \in k.had
=============================================================================
