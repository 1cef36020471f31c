------------------------------ MODULE Sharing ------------------------------
(* Shared reservations: the member rows of src/web/sharing.ts, kept twice     *)
(* (by reservation for the owner, by member for the invited), the routes of   *)
(* src/web/api.ts that write them or the reservation itself, and the account  *)
(* deletion of src/web/users.ts, which takes rows and reservations away one   *)
(* at a time. Which reservations may be confirmed is WebLedger's subject.     *)
EXTENDS Naturals, FiniteSets

CONSTANTS Users, Resvs, Clients, None,
          Owner,      \* whose ledger each reservation is in
          Requests    \* bound: requests in a behaviour

Roles == {"viewer", "editor"}
Rows == {x \in Resvs \X Users : x[2] # Owner[x[1]]}

ASSUME SharingAssumption ==
    /\ Owner \in [Resvs -> Users]
    /\ None \notin Users \cup Roles
    /\ Requests \in Nat

VARIABLES resv,     \* resv[r]: who wrote the reservation last, or None
          roster,   \* resv_members/<owner>/<r>/<m>: the role, or None
          mirror,   \* shared_in/<m>/<owner>/<r>: the role, or None
          users,    \* user records
          dirty,    \* flags <<user, r>> for the calendar sweep
          ahead,    \* history: reservations changed since their last sync
          req, left,
          leaving,  \* history: users whose deletion has begun
          raced,    \* history: a write rested on rows or records that had changed
          torn      \* history: a request was cut between two of its writes

rows == <<roster, mirror>>
store == <<resv, roster, mirror, users, dirty, ahead, leaving, raced, torn>>
vars == <<store, req, left>>

Idle == [at |-> "idle"]
At(c) == req[c].at
Goto(c, r) == req' = [req EXCEPT ![c] = r]
Begin(c) == At(c) = "idle" /\ left > 0 /\ left' = left - 1 /\ UNCHANGED store

Init ==
    /\ resv = [r \in Resvs |-> Owner[r]]
    /\ roster = [x \in Rows |-> None]
    /\ mirror = [x \in Rows |-> None]
    /\ users = Users
    /\ dirty = {} /\ ahead = {}
    /\ req = [c \in Clients |-> Idle]
    /\ left = Requests
    /\ leaving = {} /\ raced = FALSE /\ torn = FALSE

Shared(x) == mirror[x] # None
(* Mistake: a re-grade leaves the member's own row as it is.                  *)
PutRowsOnce(S, role) ==
    /\ roster' = [x \in Rows |-> IF x \in S THEN role ELSE roster[x]]
    /\ mirror' = [x \in Rows |-> IF x \in S /\ (role = None \/ mirror[x] = None) THEN role ELSE mirror[x]]

PutRows(S, role) ==
    /\ roster' = [x \in Rows |-> IF x \in S THEN role ELSE roster[x]]
    /\ mirror' = [x \in Rows |-> IF x \in S THEN role ELSE mirror[x]]

-----------------------------------------------------------------------------
(* Invite, re-grade, remove, leave. A session is one of a user who exists;    *)
(* the owner's requests need the reservation in the owner's ledger.           *)
Invite(c, r, m, role) ==
    /\ resv[r] # None /\ {Owner[r], m} \subseteq users
    /\ m # Owner[r] /\ roster[<<r, m>>] = None
    /\ Begin(c) /\ Goto(c, [at |-> "add", row |-> <<r, m>>, role |-> role])

AddMember(c) ==
    LET x == req[c].row IN
    /\ At(c) = "add"
    /\ PutRows({x}, req[c].role)
    /\ raced' = (raced \/ resv[x[1]] = None \/ leaving \cap {Owner[x[1]], x[2]} # {})
    /\ Goto(c, Idle)
    /\ UNCHANGED <<resv, users, dirty, ahead, left, leaving, torn>>

Regrade(c, r, m, role) ==
    /\ resv[r] # None /\ Owner[r] \in users
    /\ m # Owner[r] /\ roster[<<r, m>>] # None
    /\ Begin(c) /\ Goto(c, [at |-> "regrade", row |-> <<r, m>>, role |-> role])

SetMemberRole(c) ==
    LET x == req[c].row IN
    /\ At(c) = "regrade"
    /\ PutRows({x}, req[c].role)
    /\ raced' = (raced \/ roster[x] = None \/ leaving \cap {Owner[x[1]], x[2]} # {})
    /\ Goto(c, Idle)
    /\ UNCHANGED <<resv, users, dirty, ahead, left, leaving, torn>>

(* The owner removes a member, or a member leaves: reads, then one commit.    *)
Remove(c, r, m) ==
    /\ m # Owner[r]
    /\ \/ resv[r] # None /\ Owner[r] \in users
       \/ Shared(<<r, m>>) /\ m \in users
    /\ Begin(c) /\ Goto(c, [at |-> "remove", row |-> <<r, m>>])

RemoveMember(c) ==
    /\ At(c) = "remove"
    /\ PutRows({req[c].row}, None)
    /\ Goto(c, Idle)
    /\ UNCHANGED <<resv, users, dirty, ahead, left, leaving, raced, torn>>

-----------------------------------------------------------------------------
(* Changing a reservation. The acting ledger is tried first; another's        *)
(* reservation takes the gate, which reads the member's own row.              *)
Edit(c, r, u) ==
    /\ u \in users
    /\ IF u = Owner[r]
       THEN resv[r] # None /\ Begin(c) /\ Goto(c, [at |-> "write", r |-> r, by |-> u])
       ELSE Begin(c) /\ Goto(c, [at |-> "gate", r |-> r, by |-> u])

Editor(r, u) == mirror[<<r, u>>] = "editor"

MemberGate(c) ==
    LET r == req[c].r IN
    /\ At(c) = "gate"
    /\ IF Editor(r, req[c].by) /\ Owner[r] \in users
       THEN Goto(c, [at |-> "patch", r |-> r, by |-> req[c].by, asked |-> roster[<<r, req[c].by>>]])
       ELSE Goto(c, Idle)
    /\ UNCHANGED <<store, left>>

ReadForPatch(c) ==
    /\ At(c) = "patch"
    /\ Goto(c, IF resv[req[c].r] = None THEN Idle ELSE [req[c] EXCEPT !.at = "write"])
    /\ UNCHANGED <<store, left>>

(* The record is written back as a whole, and its owner's calendar has to     *)
(* follow: the flag is set by a call the handler does not wait for.           *)
(* Mistake: the flag goes to whoever made the change.                         *)
FlagForActor(r, by) == <<by, r>>
FlagFor(r, by) == <<Owner[r], r>>

WriteBack(c) ==
    LET r == req[c].r IN
    /\ At(c) = "write"
    /\ resv' = [resv EXCEPT ![r] = req[c].by]
    /\ ahead' = ahead \cup {r}
    /\ raced' = (raced \/ resv[r] = None \/ Owner[r] \in leaving)
    /\ Goto(c, [at |-> "flag", flag |-> FlagFor(r, req[c].by)])
    /\ UNCHANGED <<rows, users, dirty, left, leaving, torn>>

MarkDirty(c) ==
    /\ At(c) = "flag"
    /\ dirty' = dirty \cup {req[c].flag}
    /\ raced' = (raced \/ req[c].flag[1] \in leaving)
    /\ Goto(c, Idle)
    /\ UNCHANGED <<resv, rows, users, ahead, left, leaving, torn>>

(* The sweep brings the calendar up to date with the record (GcalSync).       *)
Sync(u, r) ==
    /\ <<u, r>> \in dirty
    /\ dirty' = dirty \ {<<u, r>>}
    /\ ahead' = IF u = Owner[r] THEN ahead \ {r} ELSE ahead
    /\ UNCHANGED <<resv, rows, users, req, left, leaving, raced, torn>>

-----------------------------------------------------------------------------
(* Deleting a reservation: the record, then the rows that are listed, then    *)
(* the flag.                                                                  *)
Delete(c, r) ==
    /\ resv[r] # None /\ Owner[r] \in users
    /\ Begin(c) /\ Goto(c, [at |-> "delete", r |-> r])

DeleteRecord(c) ==
    LET r == req[c].r IN
    /\ At(c) = "delete"
    /\ resv' = [resv EXCEPT ![r] = None]
    /\ ahead' = ahead \cup {r}
    /\ Goto(c, [at |-> "list", r |-> r])
    /\ UNCHANGED <<rows, users, dirty, left, leaving, raced, torn>>

ListShares(c) ==
    /\ At(c) = "list"
    /\ Goto(c, [at |-> "sweep", r |-> req[c].r,
                todo |-> {x \in Rows : x[1] = req[c].r /\ roster[x] # None}])
    /\ UNCHANGED <<store, left>>

CleanupShares(c) ==
    /\ At(c) = "sweep"
    /\ PutRows(req[c].todo, None)
    /\ Goto(c, [at |-> "flag", flag |-> FlagFor(req[c].r, Owner[req[c].r])])
    /\ UNCHANGED <<resv, users, dirty, ahead, left, leaving, raced, torn>>

-----------------------------------------------------------------------------
(* Leaving for good. Each phase lists what there is to delete and deletes it  *)
(* one key at a time; the user record goes last.                              *)
Leave(c, u) ==
    /\ At(c) = "idle" /\ left > 0 /\ left' = left - 1
    /\ u \in users
    /\ Goto(c, [at |-> "leave", user |-> u, phase |-> 1, todo |-> {r \in Resvs : Owner[r] = u /\ resv[r] # None}])
    /\ leaving' = leaving \cup {u}
    /\ UNCHANGED <<resv, rows, users, dirty, ahead, raced, torn>>

(* What each phase after the ledger deletes: the owner-side rows where the    *)
(* user is a member, the member-side rows of the user's own reservations,     *)
(* the flags, and then the user's own sides.                                  *)
(* Mistake: only the user's own sides.                                        *)
ListedOwnSides(u, phase) ==
    CASE phase \in {2, 3} -> {}
      [] phase = 5 -> {x \in Rows : x[2] = u /\ mirror[x] # None}
      [] phase = 6 -> {x \in Rows : Owner[x[1]] = u /\ roster[x] # None}
      [] phase = 4 -> {f \in dirty : f[1] = u}

Listed(u, phase) ==
    CASE phase \in {2, 5} -> {x \in Rows : x[2] = u /\ mirror[x] # None}
      [] phase \in {3, 6} -> {x \in Rows : Owner[x[1]] = u /\ roster[x] # None}
      [] phase = 4 -> {f \in dirty : f[1] = u}

LeaveNext(c) ==
    LET r == req[c] IN
    /\ At(c) = "leave" /\ r.todo = {}
    /\ IF r.phase < 6
       THEN /\ Goto(c, [r EXCEPT !.phase = @ + 1, !.todo = Listed(r.user, r.phase + 1)])
            /\ UNCHANGED users
       ELSE /\ users' = users \ {r.user}
            /\ Goto(c, Idle)
    /\ UNCHANGED <<resv, rows, dirty, ahead, left, leaving, raced, torn>>

DropOne(c) ==
    LET r == req[c] IN
    /\ At(c) = "leave"
    /\ \E x \in r.todo :
          /\ Goto(c, [r EXCEPT !.todo = @ \ {x}])
          /\ resv' = IF r.phase = 1 THEN [resv EXCEPT ![x] = None] ELSE resv
          /\ roster' = IF r.phase \in {2, 6} THEN [roster EXCEPT ![x] = None] ELSE roster
          /\ mirror' = IF r.phase \in {3, 5} THEN [mirror EXCEPT ![x] = None] ELSE mirror
          /\ dirty' = IF r.phase = 4 THEN dirty \ {x} ELSE dirty
          /\ ahead' = IF r.phase = 1 THEN ahead \ {x} ELSE ahead
    /\ UNCHANGED <<users, left, leaving, raced, torn>>

Cut(c) ==
    /\ At(c) # "idle"
    /\ Goto(c, Idle)
    /\ torn' = (torn \/ At(c) \in {"list", "sweep", "flag", "leave"})
    /\ UNCHANGED <<resv, rows, users, dirty, ahead, left, leaving, raced>>

-----------------------------------------------------------------------------
Ask(c) ==
    \/ \E r \in Resvs, m \in Users, role \in Roles : Invite(c, r, m, role) \/ Regrade(c, r, m, role)
    \/ \E r \in Resvs, u \in Users : Remove(c, r, u) \/ Edit(c, r, u)
    \/ \E r \in Resvs : Delete(c, r)
    \/ \E u \in Users : Leave(c, u)

Work(c) ==
    \/ AddMember(c) \/ SetMemberRole(c) \/ RemoveMember(c)
    \/ MemberGate(c) \/ ReadForPatch(c) \/ WriteBack(c) \/ MarkDirty(c)
    \/ DeleteRecord(c) \/ ListShares(c) \/ CleanupShares(c)
    \/ LeaveNext(c) \/ DropOne(c)

Next ==
    \/ \E c \in Clients : Ask(c) \/ Work(c) \/ Cut(c)
    \/ \E u \in Users, r \in Resvs : Sync(u, r)

Spec == Init /\ [][Next]_vars

-----------------------------------------------------------------------------
(* Whatever overlaps or is cut, owner and member never read different roles   *)
(* off one share, and an edit never lands on behalf of somebody who was a     *)
(* mere viewer in the owner's eyes when the gate let it through. And unless a *)
(* write rested on what had changed, or a request was cut: a row is there on  *)
(* both sides or on neither, for a reservation that exists, between users who *)
(* do; and of those who left nothing is left. A share or a record may only be *)
(* missing its other half while a clean-up is under way.                      *)
RolesAgree ==
    /\ \A x \in Rows : roster[x] = None \/ mirror[x] = None \/ roster[x] = mirror[x]
    /\ \A c \in Clients : At(c) \in {"patch", "write"} /\ "asked" \in DOMAIN req[c] => req[c].asked # "viewer"

BeingDeleted(r) == \E c \in Clients : At(c) \in {"list", "sweep"} /\ req[c].r = r
BeingErased(u) == \E c \in Clients : At(c) = "leave" /\ req[c].user = u
SharesAgree ==
    ~raced /\ ~torn =>
        /\ \A x \in Rows : leaving \cap {Owner[x[1]], x[2]} = {} =>
              /\ roster[x] = mirror[x]
              /\ roster[x] # None => resv[x[1]] # None \/ BeingDeleted(x[1])
        /\ \A x \in Rows :
              ~({Owner[x[1]], x[2]} \subseteq users) /\ ~BeingErased(Owner[x[1]]) /\ ~BeingErased(x[2]) =>
                  roster[x] = None /\ mirror[x] = None
        /\ \A r \in Resvs : Owner[r] \notin users => resv[r] = None
        /\ \A f \in dirty : f[1] \in users
SidesAgree == RolesAgree /\ SharesAgree

(* Unless a request was cut, a reservation somebody changed is flagged for    *)
(* the calendar of its owner, whoever made the change, until it is synced.    *)
ChangesAreFlagged ==
    ~torn => \A r \in ahead : \/ <<Owner[r], r>> \in dirty
                              \/ Owner[r] \in leaving
                              \/ BeingDeleted(r)
                              \/ \E c \in Clients : At(c) = "flag" /\ req[c].flag = <<Owner[r], r>>
=============================================================================
