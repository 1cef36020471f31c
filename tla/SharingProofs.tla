--------------------------- MODULE SharingProofs ---------------------------
(* Proofs about Sharing: the two sides of a share agree, what its owner or   *)
(* its member leaves behind is cleaned up, and a change is flagged for the   *)
(* owner's calendar, however requests interleave with two people leaving.    *)
EXTENDS Sharing, TLAPS

(* What a deletion may list in a phase: only the user's own business.        *)
Scope(u, phase) ==
  CASE phase = 1 -> {r \in Resvs : Owner[r] = u}
    [] phase \in {2, 5} -> {x \in Rows : x[2] = u}
    [] phase \in {3, 6} -> {x \in Rows : Owner[x[1]] = u}
    [] phase = 4 -> {f \in Users \X Resvs : f[1] = u}

(* The requests, by where they are.                                          *)
Granting == [at : {"add", "regrade"}, row : Rows, role : Roles]
Removing == [at : {"remove"}, row : Rows]
Asked == {q \in [at : {"gate"}, r : Resvs, by : Users] : q.by # Owner[q.r]}
Allowed == [at : {"patch", "write"}, r : Resvs, by : Users, asked : Roles \cup {None}]
Owned == [at : {"write"}, r : Resvs, by : Users]
Flagging == [at : {"flag"}, flag : Users \X Resvs]
Deleting == [at : {"delete", "list"}, r : Resvs]
Sweeping == [at : {"sweep"}, r : Resvs, todo : SUBSET Rows]
Erasing == {q \in [at : {"leave"}, user : Users, phase : 1 .. 6, todo : SUBSET (Resvs \cup Rows \cup (Users \X Resvs))] :
              q.todo \subseteq Scope(q.user, q.phase)}
Request == {Idle} \cup Granting \cup Removing
           \cup Asked \cup Allowed \cup Owned \cup Flagging
           \cup Deleting \cup Sweeping \cup Erasing

TypeOK ==
  /\ resv \in [Resvs -> Users \cup {None}]
  /\ roster \in [Rows -> Roles \cup {None}]
  /\ mirror \in [Rows -> Roles \cup {None}]
  /\ users \subseteq Users /\ leaving \subseteq Users
  /\ dirty \subseteq Users \X Resvs /\ ahead \subseteq Resvs
  /\ req \in [Clients -> Request]
  /\ left \in 0 .. Requests
  /\ raced \in BOOLEAN /\ torn \in BOOLEAN

(* Whoever is erased, or gone, has begun to leave.                           *)
LeaversKnown ==
  /\ \A c \in Clients : At(c) = "leave" => req[c].user \in leaving
  /\ Users \ users \subseteq leaving

(* A record that is being deleted is gone, and the rows of it that are left  *)
(* are on the list of the request that clears them.                          *)
DeletionsKnow ==
  /\ \A c \in Clients : At(c) \in {"list", "sweep"} => resv[req[c].r] = None
  /\ \A c \in Clients : At(c) = "sweep" =>
       \A x \in Rows : x[1] = req[c].r /\ roster[x] # None => x \in req[c].todo
  /\ \A x \in Rows : roster[x] # None =>
       resv[x[1]] # None \/ BeingDeleted(x[1]) \/ Owner[x[1]] \in leaving

(* What a deletion of a user has done in the phases behind it, and has yet   *)
(* to do in the one it is in. Nobody makes anything for who is leaving.      *)
ErasedSoFar(q) ==
  /\ \A r \in Resvs : Owner[r] = q.user /\ resv[r] # None => q.phase = 1 /\ r \in q.todo
  /\ \A x \in Rows : x[2] = q.user /\ roster[x] # None /\ mirror[x] # None /\ q.phase >= 2 =>
       q.phase = 2 /\ x \in q.todo
  /\ \A x \in Rows : Owner[x[1]] = q.user /\ roster[x] # None /\ mirror[x] # None /\ q.phase >= 3 =>
       q.phase = 3 /\ x \in q.todo
  /\ \A f \in dirty : f[1] = q.user /\ q.phase >= 4 => q.phase = 4 /\ f \in q.todo
  /\ \A x \in Rows : x[2] = q.user /\ mirror[x] # None /\ q.phase >= 5 => q.phase = 5 /\ x \in q.todo
  /\ \A x \in Rows : Owner[x[1]] = q.user /\ roster[x] # None /\ q.phase = 6 => x \in q.todo
ErasuresProgress == \A c \in Clients : At(c) = "leave" => ErasedSoFar(req[c])

(* One side alone is what a deletion under way has left of a share: of the   *)
(* owner, who still has the owner's side to drop, or of the member.          *)
Erases(c, u, phase) == At(c) = "leave" /\ req[c].user = u /\ req[c].phase >= phase
HalvesAreOwned ==
  /\ \A x \in Rows : roster[x] # None /\ mirror[x] = None => \E c \in Clients : Erases(c, Owner[x[1]], 3)
  /\ \A x \in Rows : mirror[x] # None /\ roster[x] = None => \E c \in Clients : Erases(c, x[2], 2)

(* Who is gone has left nothing of their own.                                *)
NothingLeft(u) ==
  /\ \A r \in Resvs : Owner[r] = u => resv[r] = None
  /\ \A x \in Rows : (x[2] = u => mirror[x] = None) /\ (Owner[x[1]] = u => roster[x] = None)
  /\ \A f \in dirty : f[1] # u
GoneLeftNothing == \A u \in Users \ users : NothingLeft(u)

Undisturbed == DeletionsKnow /\ ErasuresProgress /\ HalvesAreOwned /\ GoneLeftNothing
SharingInv == TypeOK /\ LeaversKnown /\ RolesAgree /\ (~raced /\ ~torn => Undisturbed)

-----------------------------------------------------------------------------
(* Rows are of a reservation and a person who does not own it.               *)
LEMMA RowParts ==
  /\ \A x \in Rows : x[1] \in Resvs /\ x[2] \in Users /\ Owner[x[1]] \in Users /\ x[2] # Owner[x[1]]
  /\ \A r \in Resvs, m \in Users : m # Owner[r] =>
       <<r, m>> \in Rows /\ <<r, m>>[1] = r /\ <<r, m>>[2] = m
  BY SharingAssumption DEF Rows

(* Where a request is tells what it carries.                                 *)
LEMMA ReqKinds ==
  ASSUME TypeOK, NEW c \in Clients
  PROVE  /\ req[c] \in Request
         /\ At(c) \in {"add", "regrade"} => req[c] \in Granting
         /\ At(c) = "remove" => req[c] \in Removing
         /\ At(c) = "gate" => req[c] \in Asked
         /\ At(c) = "patch" => req[c] \in Allowed
         /\ At(c) = "write" => req[c] \in Allowed \cup Owned
         /\ At(c) = "flag" => req[c] \in Flagging
         /\ At(c) \in {"delete", "list"} => req[c] \in Deleting
         /\ At(c) = "sweep" => req[c] \in Sweeping
         /\ At(c) = "leave" => req[c] \in Erasing
<1>1. req[c] \in Request
  BY DEF TypeOK
<1> QED
  BY <1>1 DEF Request, Granting, Removing, Asked, Allowed, Owned, Flagging, Deleting, Sweeping, Erasing, At, Idle

(* A request that moves on keeps the type of requests, and moves alone.      *)
LEMMA GotoKeeps ==
  ASSUME TypeOK, NEW c \in Clients, NEW q \in Request, Goto(c, q)
  PROVE  /\ req' \in [Clients -> Request] /\ req'[c] = q /\ At(c)' = q.at
         /\ \A d \in Clients \ {c} : req'[d] = req[d] /\ At(d)' = At(d)
  BY DEF TypeOK, Goto, At

(* Every step of one request: the types, what holds whatever goes wrong, and *)
(* while nothing did, what keeps the sides together.                         *)
StepOK ==
  TypeOK' /\ LeaversKnown' /\ RolesAgree' /\ (Undisturbed /\ ~raced' /\ ~torn' => Undisturbed')

(* Deletions under way are not disturbed by a step that brings no record     *)
(* back, and no row to a reservation without one.                            *)
LEMMA DeletionsStay ==
  ASSUME TypeOK, DeletionsKnow,
         \A d \in Clients : At(d) \in {"list", "sweep"} \/ At(d)' \in {"list", "sweep"} => req'[d] = req[d],
         \A r \in Resvs : resv[r] = None => resv'[r] = None,
         \A r \in Resvs : resv[r] # None => resv'[r] # None \/ Owner[r] \in leaving',
         \A x \in Rows : roster'[x] # None => roster[x] # None \/ resv[x[1]] # None,
         leaving \subseteq leaving'
  PROVE  DeletionsKnow'
<1>1. \A d \in Clients : At(d) \in {"list", "sweep"} \/ At(d)' \in {"list", "sweep"} => At(d)' = At(d)
  BY DEF At
<1>2. \A d \in Clients : At(d)' \in {"list", "sweep"} => resv'[req'[d].r] = None
  <2> SUFFICES ASSUME NEW d \in Clients, At(d)' \in {"list", "sweep"} PROVE resv'[req'[d].r] = None
    OBVIOUS
  <2>1. req'[d] = req[d] /\ At(d) \in {"list", "sweep"}
    BY <1>1
  <2>2. req[d].r \in Resvs
    BY <2>1, ReqKinds DEF Deleting, Sweeping
  <2> QED
    BY <2>1, <2>2 DEF DeletionsKnow
<1>3. \A d \in Clients : At(d)' = "sweep" =>
        \A x \in Rows : x[1] = req'[d].r /\ roster'[x] # None => x \in req'[d].todo
  BY <1>1 DEF DeletionsKnow
<1>4. \A x \in Rows : roster'[x] # None =>
        resv'[x[1]] # None \/ BeingDeleted(x[1])' \/ Owner[x[1]] \in leaving'
  <2> SUFFICES ASSUME NEW x \in Rows, roster'[x] # None
               PROVE  resv'[x[1]] # None \/ BeingDeleted(x[1])' \/ Owner[x[1]] \in leaving'
    OBVIOUS
  <2>1. resv[x[1]] # None \/ BeingDeleted(x[1]) \/ Owner[x[1]] \in leaving
    BY DEF DeletionsKnow
  <2>2. BeingDeleted(x[1]) => BeingDeleted(x[1])'
    BY <1>1 DEF BeingDeleted
  <2> QED
    BY <2>1, <2>2, RowParts
<1> QED
  BY <1>2, <1>3, <1>4 DEF DeletionsKnow

(* People who leave are not disturbed by a step of another request that      *)
(* makes nothing for them, and leaves no half of a share behind.             *)
LEMMA ErasuresStay ==
  ASSUME TypeOK, LeaversKnown, Undisturbed,
         UNCHANGED <<users, leaving>>,
         \A d \in Clients : At(d) = "leave" \/ At(d)' = "leave" => req'[d] = req[d],
         \A r \in Resvs : Owner[r] \in leaving /\ resv'[r] # None => resv[r] # None,
         \A x \in Rows : leaving \cap {Owner[x[1]], x[2]} # {} =>
            (roster'[x] # None => roster[x] # None) /\ (mirror'[x] # None => mirror[x] # None),
         \A x \in Rows : roster'[x] = mirror'[x] \/ (roster'[x] = roster[x] /\ mirror'[x] = mirror[x]),
         \A f \in dirty' : f \in dirty \/ f[1] \notin leaving
  PROVE  ErasuresProgress' /\ HalvesAreOwned' /\ GoneLeftNothing'
<1>1. \A d \in Clients : At(d) = "leave" \/ At(d)' = "leave" => At(d)' = At(d)
  BY DEF At
<1>2. ErasuresProgress'
  <2> SUFFICES ASSUME NEW d \in Clients, At(d)' = "leave" PROVE ErasedSoFar(req[d])'
    BY DEF ErasuresProgress
  <2>1. req'[d] = req[d] /\ At(d) = "leave" /\ req[d].user \in leaving /\ ErasedSoFar(req[d])
    BY <1>1 DEF LeaversKnown, Undisturbed, ErasuresProgress
  <2> QED
    BY <2>1 DEF ErasedSoFar
<1>3. HalvesAreOwned'
  <2>1. \A d \in Clients : \A u, p : Erases(d, u, p) => Erases(d, u, p)'
    BY <1>1 DEF Erases
  <2>2. \A x \in Rows : roster'[x] # mirror'[x] => roster'[x] = roster[x] /\ mirror'[x] = mirror[x]
    OBVIOUS
  <2> QED
    BY <2>1, <2>2 DEF HalvesAreOwned, Undisturbed
<1>4. GoneLeftNothing'
  <2> SUFFICES ASSUME NEW u \in Users \ users PROVE NothingLeft(u)'
    BY DEF GoneLeftNothing
  <2>1. u \in leaving /\ NothingLeft(u)
    BY DEF LeaversKnown, Undisturbed, GoneLeftNothing
  <2> QED
    BY <2>1 DEF NothingLeft
<1> QED
  BY <1>2, <1>3, <1>4

(* A step of a request that writes nothing.                                  *)
LEMMA QuietOK ==
  ASSUME TypeOK, LeaversKnown, RolesAgree, NEW c \in Clients, NEW q \in Request, Goto(c, q),
         UNCHANGED <<resv, roster, mirror, users, dirty, ahead, leaving>>,
         left' \in 0 .. Requests, raced' \in BOOLEAN, torn' \in BOOLEAN,
         q.at \notin {"list", "sweep", "leave"},
         "asked" \in DOMAIN q => q.asked # "viewer"
  PROVE  /\ TypeOK' /\ LeaversKnown' /\ RolesAgree'
         /\ At(c) \notin {"list", "sweep", "leave"} => StepOK
<1>1. /\ req' \in [Clients -> Request] /\ req'[c] = q /\ At(c)' = q.at
      /\ \A d \in Clients \ {c} : req'[d] = req[d] /\ At(d)' = At(d)
  BY GotoKeeps
<1>2. TypeOK'
  BY <1>1 DEF TypeOK
<1>3. LeaversKnown'
  BY <1>1 DEF LeaversKnown
<1>4. RolesAgree'
  BY <1>1 DEF RolesAgree
<1>5. ASSUME At(c) \notin {"list", "sweep", "leave"}, Undisturbed PROVE Undisturbed'
  <2>1. \A d \in Clients : At(d) \in {"list", "sweep", "leave"} \/ At(d)' \in {"list", "sweep", "leave"} => req'[d] = req[d]
    BY <1>1, <1>5
  <2>2. DeletionsKnow'
    BY <1>5, <2>1, DeletionsStay DEF Undisturbed
  <2>3. ErasuresProgress' /\ HalvesAreOwned' /\ GoneLeftNothing'
    BY <1>5, <2>1, ErasuresStay
  <2> QED
    BY <2>2, <2>3 DEF Undisturbed
<1> QED
  BY <1>2, <1>3, <1>4, <1>5 DEF StepOK

-----------------------------------------------------------------------------
(* A step of a request that puts rows, both sides alike, and is done, or is  *)
(* left with a flag to set: rows only come for a reservation that is there   *)
(* (or was, when the row was) and for people who stay.                       *)
LEMMA RowsOK ==
  ASSUME TypeOK, LeaversKnown, RolesAgree, NEW c \in Clients, NEW q \in Request, Goto(c, q),
         NEW S \in SUBSET Rows, NEW role \in Roles \cup {None}, PutRows(S, role),
         UNCHANGED <<resv, users, dirty, ahead, left, leaving, torn>>,
         raced' \in BOOLEAN, q.at \notin {"list", "sweep", "leave", "patch", "write"}, At(c) # "leave"
  PROVE  /\ TypeOK' /\ LeaversKnown' /\ RolesAgree'
         /\ Undisturbed /\ (role # None => \A x \in S : leaving \cap {Owner[x[1]], x[2]} = {})
               => ErasuresProgress' /\ HalvesAreOwned' /\ GoneLeftNothing'
         /\ Undisturbed /\ At(c) \notin {"list", "sweep"}
               /\ (role # None => \A x \in S : resv[x[1]] # None \/ roster[x] # None)
               => DeletionsKnow'
<1>1. /\ req' \in [Clients -> Request] /\ req'[c] = q /\ At(c)' = q.at
      /\ \A d \in Clients \ {c} : req'[d] = req[d] /\ At(d)' = At(d)
  BY GotoKeeps
<1>2. /\ roster' \in [Rows -> Roles \cup {None}] /\ mirror' \in [Rows -> Roles \cup {None}]
      /\ \A x \in Rows : /\ roster'[x] = IF x \in S THEN role ELSE roster[x]
                         /\ mirror'[x] = IF x \in S THEN role ELSE mirror[x]
  BY DEF PutRows, TypeOK
<1>3. TypeOK'
  BY <1>1, <1>2 DEF TypeOK
<1>4. LeaversKnown'
  BY <1>1 DEF LeaversKnown
<1>5. RolesAgree'
  BY <1>1, <1>2 DEF RolesAgree
<1>6. ASSUME Undisturbed, role # None => \A x \in S : leaving \cap {Owner[x[1]], x[2]} = {}
      PROVE  ErasuresProgress' /\ HalvesAreOwned' /\ GoneLeftNothing'
  <2>1. \A d \in Clients : At(d) = "leave" \/ At(d)' = "leave" => req'[d] = req[d]
    BY <1>1
  <2>2. \A x \in Rows : leaving \cap {Owner[x[1]], x[2]} # {} =>
            (roster'[x] # None => roster[x] # None) /\ (mirror'[x] # None => mirror[x] # None)
    BY <1>2, <1>6
  <2>3. \A x \in Rows : roster'[x] = mirror'[x] \/ (roster'[x] = roster[x] /\ mirror'[x] = mirror[x])
    BY <1>2
  <2> QED
    BY <1>6, <2>1, <2>2, <2>3, ErasuresStay
<1>7. ASSUME Undisturbed, At(c) \notin {"list", "sweep"},
             role # None => \A x \in S : resv[x[1]] # None \/ roster[x] # None
      PROVE  DeletionsKnow'
  <2>1. \A d \in Clients : At(d) \in {"list", "sweep"} \/ At(d)' \in {"list", "sweep"} => req'[d] = req[d]
    BY <1>1, <1>7
  <2>2. \A x \in Rows : roster'[x] # None => roster[x] # None \/ resv[x[1]] # None
    BY <1>2, <1>7
  <2> QED
    BY <1>7, <2>1, <2>2, DeletionsStay DEF Undisturbed
<1> QED
  BY <1>3, <1>4, <1>5, <1>6, <1>7

LEMMA IdleIsRequest == Idle \in Request /\ Idle.at = "idle"
  BY DEF Request, Idle

LEMMA MemberOK ==
  ASSUME TypeOK, LeaversKnown, RolesAgree, NEW c \in Clients, AddMember(c) \/ SetMemberRole(c)
  PROVE  StepOK
<1> DEFINE x == req[c].row
<1>1. /\ At(c) \in {"add", "regrade"} /\ x \in Rows /\ req[c].role \in Roles
      /\ PutRows({x}, req[c].role) /\ Goto(c, Idle)
      /\ UNCHANGED <<resv, users, dirty, ahead, left, leaving, torn>>
  BY ReqKinds DEF AddMember, SetMemberRole, Granting
<1>2. raced' \in BOOLEAN
  BY DEF AddMember, SetMemberRole, TypeOK
<1>3. ~raced' => leaving \cap {Owner[x[1]], x[2]} = {} /\ (resv[x[1]] # None \/ roster[x] # None)
  BY DEF AddMember, SetMemberRole
<1> HIDE DEF x
<1>4. {x} \in SUBSET Rows /\ req[c].role \in Roles \cup {None}
  BY <1>1
<1>5. TypeOK' /\ LeaversKnown' /\ RolesAgree'
  BY <1>1, <1>2, <1>4, IdleIsRequest, RowsOK
<1>6. ASSUME Undisturbed, ~raced' PROVE Undisturbed'
  <2>1. \A y \in {x} : leaving \cap {Owner[y[1]], y[2]} = {} /\ (resv[y[1]] # None \/ roster[y] # None)
    BY <1>3, <1>6
  <2>2. ErasuresProgress' /\ HalvesAreOwned' /\ GoneLeftNothing'
    BY <1>1, <1>2, <1>4, <1>6, <2>1, IdleIsRequest, RowsOK
  <2>3. DeletionsKnow'
    BY <1>1, <1>2, <1>4, <1>6, <2>1, IdleIsRequest, RowsOK
  <2> QED
    BY <2>2, <2>3 DEF Undisturbed
<1> QED
  BY <1>5, <1>6 DEF StepOK

LEMMA RemoveOK ==
  ASSUME TypeOK, LeaversKnown, RolesAgree, NEW c \in Clients, RemoveMember(c)
  PROVE  StepOK
<1>1. /\ At(c) = "remove" /\ {req[c].row} \in SUBSET Rows
      /\ PutRows({req[c].row}, None) /\ Goto(c, Idle)
      /\ UNCHANGED <<resv, users, dirty, ahead, left, leaving, raced, torn>>
  BY ReqKinds DEF RemoveMember, Removing
<1>2. raced' \in BOOLEAN /\ None \in Roles \cup {None}
  BY <1>1 DEF TypeOK
<1>3. TypeOK' /\ LeaversKnown' /\ RolesAgree'
  BY <1>1, <1>2, IdleIsRequest, RowsOK
<1>4. ASSUME Undisturbed PROVE Undisturbed'
  <2>1. ErasuresProgress' /\ HalvesAreOwned' /\ GoneLeftNothing'
    BY <1>1, <1>2, <1>4, IdleIsRequest, RowsOK
  <2>2. DeletionsKnow'
    BY <1>1, <1>2, <1>4, IdleIsRequest, RowsOK
  <2> QED
    BY <2>1, <2>2 DEF Undisturbed
<1> QED
  BY <1>3, <1>4 DEF StepOK

(* The rows that are listed go: none of the reservation is left.             *)
LEMMA CleanupOK ==
  ASSUME TypeOK, LeaversKnown, RolesAgree, NEW c \in Clients, CleanupShares(c)
  PROVE  StepOK
<1> DEFINE q == [at |-> "flag", flag |-> FlagFor(req[c].r, Owner[req[c].r])]
<1>1. /\ At(c) = "sweep" /\ req[c].r \in Resvs /\ req[c].todo \in SUBSET Rows
      /\ PutRows(req[c].todo, None) /\ Goto(c, q)
      /\ UNCHANGED <<resv, users, dirty, ahead, left, leaving, raced, torn>>
  BY ReqKinds DEF CleanupShares, Sweeping
<1>2. q \in Request /\ q.at = "flag"
  BY <1>1, SharingAssumption DEF Request, Flagging, FlagFor
<1> HIDE DEF q
<1>3. raced' \in BOOLEAN /\ None \in Roles \cup {None}
  BY <1>1 DEF TypeOK
<1>4. TypeOK' /\ LeaversKnown' /\ RolesAgree'
  BY <1>1, <1>2, <1>3, RowsOK
<1>5. /\ At(c)' = "flag" /\ \A d \in Clients \ {c} : req'[d] = req[d] /\ At(d)' = At(d)
  BY <1>1, <1>2, GotoKeeps
<1>6. ASSUME Undisturbed PROVE Undisturbed'
  <2>1. ErasuresProgress' /\ HalvesAreOwned' /\ GoneLeftNothing'
    BY <1>1, <1>2, <1>3, <1>6, RowsOK
  <2>2. \A x \in Rows : roster'[x] = IF x \in req[c].todo THEN None ELSE roster[x]
    BY <1>1 DEF PutRows
  <2>3. \A x \in Rows : roster'[x] # None => roster[x] # None /\ x[1] # req[c].r
    BY <1>1, <1>6, <2>2 DEF Undisturbed, DeletionsKnow
  <2>4. \A d \in Clients : At(d)' \in {"list", "sweep"} => d # c
    BY <1>5
  <2>5. \A d \in Clients : At(d)' \in {"list", "sweep"} => resv'[req'[d].r] = None
    BY <1>1, <1>5, <1>6, <2>4 DEF Undisturbed, DeletionsKnow
  <2>6. \A d \in Clients : At(d)' = "sweep" =>
          \A x \in Rows : x[1] = req'[d].r /\ roster'[x] # None => x \in req'[d].todo
    BY <1>5, <1>6, <2>3, <2>4 DEF Undisturbed, DeletionsKnow
  <2>7. \A x \in Rows : roster'[x] # None =>
          resv'[x[1]] # None \/ BeingDeleted(x[1])' \/ Owner[x[1]] \in leaving'
    <3> SUFFICES ASSUME NEW x \in Rows, roster'[x] # None
                 PROVE  resv[x[1]] # None \/ BeingDeleted(x[1])' \/ Owner[x[1]] \in leaving
      BY <1>1
    <3>1. resv[x[1]] # None \/ BeingDeleted(x[1]) \/ Owner[x[1]] \in leaving
      BY <1>6, <2>3 DEF Undisturbed, DeletionsKnow
    <3>2. ASSUME BeingDeleted(x[1]) PROVE BeingDeleted(x[1])'
      <4>1. PICK d \in Clients : At(d) \in {"list", "sweep"} /\ req[d].r = x[1]
        BY <3>2 DEF BeingDeleted
      <4>2. d # c
        BY <2>3, <4>1
      <4> QED
        BY <1>5, <4>1, <4>2 DEF BeingDeleted
    <3> QED
      BY <3>1, <3>2
  <2>8. DeletionsKnow'
    BY <2>5, <2>6, <2>7 DEF DeletionsKnow
  <2> QED
    BY <2>1, <2>8 DEF Undisturbed
<1> QED
  BY <1>4, <1>6 DEF StepOK

(* A record written back was there still, and its owner stays.               *)
LEMMA WriteBackOK ==
  ASSUME TypeOK, LeaversKnown, RolesAgree, NEW c \in Clients, WriteBack(c)
  PROVE  StepOK
<1> DEFINE r == req[c].r
           q == [at |-> "flag", flag |-> FlagFor(r, req[c].by)]
<1>1. /\ At(c) = "write" /\ r \in Resvs /\ req[c].by \in Users
      /\ resv' = [resv EXCEPT ![r] = req[c].by] /\ ahead' = ahead \cup {r}
      /\ raced' = (raced \/ resv[r] = None \/ Owner[r] \in leaving)
      /\ Goto(c, q)
      /\ UNCHANGED <<roster, mirror, users, dirty, left, leaving, torn>>
  BY ReqKinds DEF WriteBack, Allowed, Owned, rows
<1>2. q \in Request /\ q.at = "flag" /\ "asked" \notin DOMAIN q
  BY <1>1, SharingAssumption DEF Request, Flagging, FlagFor
<1> HIDE DEF q, r
<1>3. /\ req' \in [Clients -> Request] /\ req'[c] = q /\ At(c)' = "flag"
      /\ \A d \in Clients \ {c} : req'[d] = req[d] /\ At(d)' = At(d)
  BY <1>1, <1>2, GotoKeeps
<1>4. /\ resv' \in [Resvs -> Users \cup {None}]
      /\ \A t \in Resvs : resv'[t] = IF t = r THEN req[c].by ELSE resv[t]
  BY <1>1 DEF TypeOK
<1>5. raced' \in BOOLEAN
  BY <1>1 DEF TypeOK
<1>6. TypeOK'
  BY <1>1, <1>3, <1>4, <1>5 DEF TypeOK
<1>7. LeaversKnown' /\ RolesAgree'
  BY <1>1, <1>2, <1>3 DEF LeaversKnown, RolesAgree
<1>8. ASSUME Undisturbed, ~raced' PROVE Undisturbed'
  <2>1. \A d \in Clients : At(d) \in {"list", "sweep", "leave"} \/ At(d)' \in {"list", "sweep", "leave"} => req'[d] = req[d]
    BY <1>1, <1>3
  <2>2. resv[r] # None /\ Owner[r] \notin leaving /\ req[c].by # None
    BY <1>1, <1>8, SharingAssumption
  <2>3. DeletionsKnow'
    BY <1>1, <1>4, <1>8, <2>1, <2>2, DeletionsStay DEF Undisturbed
  <2>4. ErasuresProgress' /\ HalvesAreOwned' /\ GoneLeftNothing'
    BY <1>1, <1>4, <1>8, <2>1, <2>2, ErasuresStay
  <2> QED
    BY <2>3, <2>4 DEF Undisturbed
<1> QED
  BY <1>6, <1>7, <1>8 DEF StepOK

(* A flag that is set is one of somebody who stays; one that is cleared is   *)
(* nobody's loss.                                                            *)
LEMMA MarkDirtyOK ==
  ASSUME TypeOK, LeaversKnown, RolesAgree, NEW c \in Clients, MarkDirty(c)
  PROVE  StepOK
<1>1. /\ At(c) = "flag" /\ req[c].flag \in Users \X Resvs
      /\ dirty' = dirty \cup {req[c].flag}
      /\ raced' = (raced \/ req[c].flag[1] \in leaving)
      /\ Goto(c, Idle)
      /\ UNCHANGED <<resv, roster, mirror, users, ahead, left, leaving, torn>>
  BY ReqKinds DEF MarkDirty, Flagging, rows
<1>2. /\ req' \in [Clients -> Request] /\ req'[c] = Idle /\ At(c)' = "idle"
      /\ \A d \in Clients \ {c} : req'[d] = req[d] /\ At(d)' = At(d)
  BY <1>1, IdleIsRequest, GotoKeeps
<1>3. raced' \in BOOLEAN
  BY <1>1 DEF TypeOK
<1>4. TypeOK'
  BY <1>1, <1>2, <1>3 DEF TypeOK
<1>5. LeaversKnown' /\ RolesAgree'
  BY <1>1, <1>2 DEF LeaversKnown, RolesAgree
<1>6. ASSUME Undisturbed, ~raced' PROVE Undisturbed'
  <2>1. \A d \in Clients : At(d) \in {"list", "sweep", "leave"} \/ At(d)' \in {"list", "sweep", "leave"} => req'[d] = req[d]
    BY <1>1, <1>2
  <2>2. \A f \in dirty' : f \in dirty \/ f[1] \notin leaving
    BY <1>1, <1>6
  <2>3. DeletionsKnow'
    BY <1>1, <1>6, <2>1, DeletionsStay DEF Undisturbed
  <2>4. ErasuresProgress' /\ HalvesAreOwned' /\ GoneLeftNothing'
    BY <1>1, <1>6, <2>1, <2>2, ErasuresStay
  <2> QED
    BY <2>3, <2>4 DEF Undisturbed
<1> QED
  BY <1>4, <1>5, <1>6 DEF StepOK

LEMMA SyncOK ==
  ASSUME TypeOK, LeaversKnown, RolesAgree, NEW u \in Users, NEW r \in Resvs, Sync(u, r)
  PROVE  StepOK
<1>1. /\ dirty' = dirty \ {<<u, r>>} /\ ahead' \subseteq ahead
      /\ UNCHANGED <<resv, roster, mirror, users, req, left, leaving, raced, torn>>
  BY DEF Sync, rows
<1>2. TypeOK'
  BY <1>1 DEF TypeOK
<1>3. LeaversKnown' /\ RolesAgree'
  BY <1>1 DEF LeaversKnown, RolesAgree, At
<1>4. ASSUME Undisturbed PROVE Undisturbed'
  <2>1. DeletionsKnow'
    BY <1>1, <1>4, DeletionsStay DEF Undisturbed
  <2>2. ErasuresProgress' /\ HalvesAreOwned' /\ GoneLeftNothing'
    BY <1>1, <1>4, ErasuresStay
  <2> QED
    BY <2>1, <2>2 DEF Undisturbed
<1> QED
  BY <1>2, <1>3, <1>4 DEF StepOK

(* The record goes: whatever rows it has are the request's to clear.         *)
LEMMA DeleteRecordOK ==
  ASSUME TypeOK, LeaversKnown, RolesAgree, NEW c \in Clients, DeleteRecord(c)
  PROVE  StepOK
<1> DEFINE r == req[c].r
           q == [at |-> "list", r |-> r]
<1>1. /\ At(c) = "delete" /\ r \in Resvs
      /\ resv' = [resv EXCEPT ![r] = None] /\ ahead' = ahead \cup {r}
      /\ Goto(c, q)
      /\ UNCHANGED <<roster, mirror, users, dirty, left, leaving, raced, torn>>
  BY ReqKinds DEF DeleteRecord, Deleting, rows
<1>2. q \in Request /\ q.at = "list" /\ q.r = r /\ "asked" \notin DOMAIN q
  BY <1>1 DEF Request, Deleting
<1> HIDE DEF q, r
<1>3. /\ req' \in [Clients -> Request] /\ req'[c] = q /\ At(c)' = "list"
      /\ \A d \in Clients \ {c} : req'[d] = req[d] /\ At(d)' = At(d)
  BY <1>1, <1>2, GotoKeeps
<1>4. /\ resv' \in [Resvs -> Users \cup {None}]
      /\ \A t \in Resvs : resv'[t] = IF t = r THEN None ELSE resv[t]
  BY <1>1 DEF TypeOK
<1>5. TypeOK'
  BY <1>1, <1>3, <1>4 DEF TypeOK
<1>6. LeaversKnown' /\ RolesAgree'
  BY <1>1, <1>2, <1>3 DEF LeaversKnown, RolesAgree
<1>7. ASSUME Undisturbed PROVE Undisturbed'
  <2>1. \A d \in Clients : At(d) = "leave" \/ At(d)' = "leave" => req'[d] = req[d]
    BY <1>1, <1>3
  <2>2. ErasuresProgress' /\ HalvesAreOwned' /\ GoneLeftNothing'
    BY <1>1, <1>4, <1>7, <2>1, ErasuresStay
  <2>3. \A d \in Clients : At(d)' \in {"list", "sweep"} => resv'[req'[d].r] = None
    <3> SUFFICES ASSUME NEW d \in Clients, At(d)' \in {"list", "sweep"} PROVE resv'[req'[d].r] = None
      OBVIOUS
    <3>1. CASE d = c
      BY <1>1, <1>2, <1>3, <1>4, <3>1
    <3>2. CASE d # c
      <4>1. req'[d] = req[d] /\ At(d) \in {"list", "sweep"}
        BY <1>3, <3>2
      <4>2. req[d].r \in Resvs /\ resv[req[d].r] = None
        BY <1>7, <4>1, ReqKinds DEF Deleting, Sweeping, Undisturbed, DeletionsKnow
      <4> QED
        BY <1>4, <4>1, <4>2
    <3> QED
      BY <3>1, <3>2
  <2>4. \A d \in Clients : At(d)' = "sweep" =>
          \A x \in Rows : x[1] = req'[d].r /\ roster'[x] # None => x \in req'[d].todo
    <3>1. \A d \in Clients : At(d)' = "sweep" => d # c
      BY <1>3
    <3> QED
      BY <1>1, <1>3, <1>7, <3>1 DEF Undisturbed, DeletionsKnow
  <2>5. \A x \in Rows : roster'[x] # None =>
          resv'[x[1]] # None \/ BeingDeleted(x[1])' \/ Owner[x[1]] \in leaving'
    <3> SUFFICES ASSUME NEW x \in Rows, roster[x] # None
                 PROVE  resv'[x[1]] # None \/ BeingDeleted(x[1])' \/ Owner[x[1]] \in leaving
      BY <1>1
    <3>1. resv[x[1]] # None \/ BeingDeleted(x[1]) \/ Owner[x[1]] \in leaving
      BY <1>7 DEF Undisturbed, DeletionsKnow
    <3>2. x[1] = r => BeingDeleted(x[1])'
      BY <1>2, <1>3 DEF BeingDeleted
    <3>3. BeingDeleted(x[1]) => BeingDeleted(x[1])'
      BY <1>1, <1>3 DEF BeingDeleted
    <3> QED
      BY <1>4, <3>1, <3>2, <3>3, RowParts
  <2>6. DeletionsKnow'
    BY <2>3, <2>4, <2>5 DEF DeletionsKnow
  <2> QED
    BY <2>2, <2>6 DEF Undisturbed
<1> QED
  BY <1>5, <1>6, <1>7 DEF StepOK

LEMMA ListSharesOK ==
  ASSUME TypeOK, LeaversKnown, RolesAgree, NEW c \in Clients, ListShares(c)
  PROVE  StepOK
<1> DEFINE r == req[c].r
           q == [at |-> "sweep", r |-> r, todo |-> {x \in Rows : x[1] = r /\ roster[x] # None}]
<1>1. /\ At(c) = "list" /\ r \in Resvs /\ Goto(c, q)
      /\ UNCHANGED <<resv, roster, mirror, users, dirty, ahead, left, leaving, raced, torn>>
  BY ReqKinds DEF ListShares, Deleting, store, rows
<1>2. /\ q \in Request /\ q.at = "sweep" /\ q.r = r /\ "asked" \notin DOMAIN q
      /\ \A x \in Rows : x[1] = r /\ roster[x] # None => x \in q.todo
  BY <1>1 DEF Request, Sweeping
<1> HIDE DEF q, r
<1>3. /\ req' \in [Clients -> Request] /\ req'[c] = q /\ At(c)' = "sweep"
      /\ \A d \in Clients \ {c} : req'[d] = req[d] /\ At(d)' = At(d)
  BY <1>1, <1>2, GotoKeeps
<1>4. TypeOK'
  BY <1>1, <1>3 DEF TypeOK
<1>5. LeaversKnown' /\ RolesAgree'
  BY <1>1, <1>2, <1>3 DEF LeaversKnown, RolesAgree
<1>6. ASSUME Undisturbed PROVE Undisturbed'
  <2>1. \A d \in Clients : At(d) = "leave" \/ At(d)' = "leave" => req'[d] = req[d]
    BY <1>1, <1>3
  <2>2. ErasuresProgress' /\ HalvesAreOwned' /\ GoneLeftNothing'
    BY <1>1, <1>6, <2>1, ErasuresStay
  <2>3. \A d \in Clients : At(d)' \in {"list", "sweep"} => At(d) \in {"list", "sweep"} /\ req'[d].r = req[d].r
    BY <1>1, <1>2, <1>3 DEF r
  <2>4. \A d \in Clients : At(d)' \in {"list", "sweep"} => resv'[req'[d].r] = None
    BY <1>1, <1>6, <2>3 DEF Undisturbed, DeletionsKnow
  <2>5. \A d \in Clients : At(d)' = "sweep" =>
          \A x \in Rows : x[1] = req'[d].r /\ roster'[x] # None => x \in req'[d].todo
    BY <1>1, <1>2, <1>3, <1>6 DEF Undisturbed, DeletionsKnow
  <2>6. \A s : BeingDeleted(s) => BeingDeleted(s)'
    BY <1>1, <1>2, <1>3 DEF BeingDeleted, r
  <2>7. \A x \in Rows : roster'[x] # None =>
          resv'[x[1]] # None \/ BeingDeleted(x[1])' \/ Owner[x[1]] \in leaving'
    BY <1>1, <1>6, <2>6 DEF Undisturbed, DeletionsKnow
  <2>8. DeletionsKnow'
    BY <2>4, <2>5, <2>7 DEF DeletionsKnow
  <2> QED
    BY <2>2, <2>8 DEF Undisturbed
<1> QED
  BY <1>4, <1>5, <1>6 DEF StepOK

-----------------------------------------------------------------------------
(* What a deletion of a user lists in a phase is in its scope, and all that  *)
(* there is of it.                                                           *)
LEMMA ScopeParts ==
  ASSUME NEW u \in Users
  PROVE  /\ Scope(u, 1) = {r \in Resvs : Owner[r] = u}
         /\ Scope(u, 2) = {x \in Rows : x[2] = u} /\ Scope(u, 5) = {x \in Rows : x[2] = u}
         /\ Scope(u, 3) = {x \in Rows : Owner[x[1]] = u} /\ Scope(u, 6) = {x \in Rows : Owner[x[1]] = u}
         /\ Scope(u, 4) = {f \in Users \X Resvs : f[1] = u}
  BY DEF Scope

LEMMA ListedParts ==
  ASSUME NEW u \in Users
  PROVE  /\ Listed(u, 2) = {x \in Rows : x[2] = u /\ mirror[x] # None}
         /\ Listed(u, 5) = {x \in Rows : x[2] = u /\ mirror[x] # None}
         /\ Listed(u, 3) = {x \in Rows : Owner[x[1]] = u /\ roster[x] # None}
         /\ Listed(u, 6) = {x \in Rows : Owner[x[1]] = u /\ roster[x] # None}
         /\ Listed(u, 4) = {f \in dirty : f[1] = u}
  BY DEF Listed

LEMMA LeaveOK ==
  ASSUME TypeOK, LeaversKnown, RolesAgree, NEW c \in Clients, NEW u \in Users, Leave(c, u)
  PROVE  StepOK
<1> DEFINE q == [at |-> "leave", user |-> u, phase |-> 1, todo |-> {r \in Resvs : Owner[r] = u /\ resv[r] # None}]
<1>1. /\ At(c) = "idle" /\ left > 0 /\ left' = left - 1 /\ Goto(c, q)
      /\ leaving' = leaving \cup {u}
      /\ UNCHANGED <<resv, roster, mirror, users, dirty, ahead, raced, torn>>
  BY DEF Leave, rows
<1>2. q \in Request /\ q.at = "leave" /\ q.user = u /\ q.phase = 1 /\ "asked" \notin DOMAIN q
  <2>1. q.todo \subseteq Scope(u, 1)
    BY ScopeParts
  <2>2. q \in Erasing
    BY <2>1 DEF Erasing
  <2> QED
    BY <2>2 DEF Request
<1>3. \A r \in Resvs : Owner[r] = u /\ resv[r] # None => r \in q.todo
  OBVIOUS
<1> HIDE DEF q
<1>4. /\ req' \in [Clients -> Request] /\ req'[c] = q /\ At(c)' = "leave"
      /\ \A d \in Clients \ {c} : req'[d] = req[d] /\ At(d)' = At(d)
  BY <1>1, <1>2, GotoKeeps
<1>5. left' \in 0 .. Requests
  BY <1>1, SharingAssumption DEF TypeOK
<1>6. TypeOK'
  BY <1>1, <1>4, <1>5 DEF TypeOK
<1>7. LeaversKnown' /\ RolesAgree'
  BY <1>1, <1>2, <1>4 DEF LeaversKnown, RolesAgree
<1>8. ASSUME Undisturbed PROVE Undisturbed'
  <2>1. DeletionsKnow'
    <3>1. \A d \in Clients : At(d) \in {"list", "sweep"} \/ At(d)' \in {"list", "sweep"} => req'[d] = req[d]
      BY <1>1, <1>4
    <3> QED
      BY <1>1, <1>8, <3>1, DeletionsStay DEF Undisturbed
  <2>2. ErasuresProgress'
    <3> SUFFICES ASSUME NEW d \in Clients, At(d)' = "leave" PROVE ErasedSoFar(req[d])'
      BY DEF ErasuresProgress
    <3>1. CASE d = c
      BY <1>1, <1>2, <1>3, <1>4, <3>1 DEF ErasedSoFar
    <3>2. CASE d # c
      <4>1. req'[d] = req[d] /\ ErasedSoFar(req[d])
        BY <1>4, <1>8, <3>2 DEF Undisturbed, ErasuresProgress
      <4> QED
        BY <1>1, <4>1 DEF ErasedSoFar
    <3> QED
      BY <3>1, <3>2
  <2>3. HalvesAreOwned'
    <3>1. \A d \in Clients : \A v, p : Erases(d, v, p) => Erases(d, v, p)'
      BY <1>1, <1>4 DEF Erases
    <3> QED
      BY <1>1, <1>8, <3>1 DEF Undisturbed, HalvesAreOwned
  <2>4. GoneLeftNothing'
    BY <1>1, <1>8 DEF Undisturbed, GoneLeftNothing, NothingLeft
  <2> QED
    BY <2>1, <2>2, <2>3, <2>4 DEF Undisturbed
<1> QED
  BY <1>6, <1>7, <1>8 DEF StepOK

LEMMA NextPhase ==
  ASSUME NEW q \in Erasing, NEW p \in 1 .. 6, NEW T \in SUBSET (Resvs \cup Rows \cup (Users \X Resvs)),
         T \subseteq Scope(q.user, p)
  PROVE  [q EXCEPT !.phase = p, !.todo = T] \in Erasing
  BY DEF Erasing

(* The next phase lists what there is; after the last one nothing is left.   *)
LEMMA LeaveNextOK ==
  ASSUME TypeOK, LeaversKnown, RolesAgree, NEW c \in Clients, LeaveNext(c)
  PROVE  StepOK
<1> DEFINE r == req[c]
           u == r.user
<1>1. /\ At(c) = "leave" /\ r \in Erasing /\ u \in Users /\ r.phase \in 1 .. 6 /\ r.todo = {} /\ u \in leaving
      /\ UNCHANGED <<resv, roster, mirror, dirty, ahead, left, leaving, raced, torn>>
  BY ReqKinds DEF LeaveNext, Erasing, LeaversKnown, rows
<1>2. Undisturbed => ErasedSoFar(r)
  BY <1>1 DEF Undisturbed, ErasuresProgress
<1>3. CASE r.phase < 6
  <2> DEFINE q == [r EXCEPT !.phase = @ + 1, !.todo = Listed(u, r.phase + 1)]
  <2>1. Goto(c, q) /\ UNCHANGED users
    BY <1>3 DEF LeaveNext
  <2>2. PICK p \in 2 .. 6 : p = r.phase + 1
    BY <1>1, <1>3
  <2>3. q.at = "leave" /\ q.user = u /\ q.phase = p /\ q.todo = Listed(u, p) /\ "asked" \notin DOMAIN q
    BY <1>1, <2>2 DEF Erasing, At
  <2>4. Listed(u, p) \subseteq Scope(u, p) /\ Scope(u, p) \subseteq Resvs \cup Rows \cup (Users \X Resvs)
    <3>1. p = 2 \/ p = 3 \/ p = 4 \/ p = 5 \/ p = 6
      BY <2>2
    <3> QED
      BY <1>1, <3>1, ScopeParts, ListedParts DEF TypeOK
  <2>5. q \in Request
    <3>1. q = [r EXCEPT !.phase = p, !.todo = Listed(u, p)]
      BY <2>2
    <3>2. p \in 1 .. 6 /\ Listed(u, p) \in SUBSET (Resvs \cup Rows \cup (Users \X Resvs))
      BY <2>2, <2>4
    <3>3. q \in Erasing
      BY <1>1, <2>4, <3>1, <3>2, NextPhase
    <3> QED
      BY <3>3 DEF Request
  <2> HIDE DEF q
  <2>6. /\ req' \in [Clients -> Request] /\ req'[c] = q /\ At(c)' = "leave"
        /\ \A d \in Clients \ {c} : req'[d] = req[d] /\ At(d)' = At(d)
    BY <2>1, <2>3, <2>5, GotoKeeps
  <2>7. TypeOK'
    BY <1>1, <2>1, <2>6 DEF TypeOK
  <2>8. LeaversKnown' /\ RolesAgree'
    BY <1>1, <2>1, <2>3, <2>6 DEF LeaversKnown, RolesAgree
  <2>9. ASSUME Undisturbed PROVE Undisturbed'
    <3>1. DeletionsKnow'
      <4>1. \A d \in Clients : At(d) \in {"list", "sweep"} \/ At(d)' \in {"list", "sweep"} => req'[d] = req[d]
        BY <1>1, <2>6
      <4> QED
        BY <1>1, <2>9, <4>1, DeletionsStay DEF Undisturbed
    <3>2. ErasedSoFar(req[c])'
      <4>1. /\ \A s \in Resvs : Owner[s] = u => resv[s] = None
            /\ \A x \in Rows : x[2] = u /\ r.phase >= 2 => roster[x] = None \/ mirror[x] = None
            /\ \A x \in Rows : Owner[x[1]] = u /\ r.phase >= 3 => roster[x] = None \/ mirror[x] = None
            /\ \A f \in dirty : f[1] = u => ~(r.phase >= 4)
            /\ \A x \in Rows : x[2] = u /\ r.phase >= 5 => mirror[x] = None
        BY <1>1, <1>2, <2>9 DEF ErasedSoFar
      <4>2. /\ r.phase >= 2 \/ p = 2
            /\ p >= 3 => r.phase >= 3 \/ p = 3
            /\ p >= 4 => r.phase >= 4 \/ p = 4
            /\ p >= 5 => r.phase >= 5 \/ p = 5
        BY <1>1, <2>2
      <4>3. ErasedSoFar(q)
        <5>1. CASE p = 2
          BY <1>1, <2>3, <4>1, <5>1, ListedParts DEF ErasedSoFar
        <5>2. CASE p = 3
          BY <1>1, <2>3, <4>1, <4>2, <5>2, ListedParts DEF ErasedSoFar
        <5>3. CASE p = 4
          BY <1>1, <2>3, <4>1, <4>2, <5>3, ListedParts DEF ErasedSoFar
        <5>4. CASE p = 5
          BY <1>1, <2>3, <4>1, <4>2, <5>4, ListedParts DEF ErasedSoFar
        <5>5. CASE p = 6
          BY <1>1, <2>3, <4>1, <4>2, <5>5, ListedParts DEF ErasedSoFar
        <5> QED
          BY <2>2, <5>1, <5>2, <5>3, <5>4, <5>5
      <4> QED
        BY <1>1, <2>6, <4>3 DEF ErasedSoFar
    <3>3. ErasuresProgress'
      <4> SUFFICES ASSUME NEW d \in Clients, At(d)' = "leave", d # c PROVE ErasedSoFar(req[d])'
        BY <3>2 DEF ErasuresProgress
      <4>1. req'[d] = req[d] /\ ErasedSoFar(req[d])
        BY <2>6, <2>9 DEF Undisturbed, ErasuresProgress
      <4> QED
        BY <1>1, <4>1 DEF ErasedSoFar
    <3>4. HalvesAreOwned'
      <4>1. \A d \in Clients : \A v : /\ Erases(d, v, 2) => Erases(d, v, 2)'
                                      /\ Erases(d, v, 3) => Erases(d, v, 3)'
        BY <1>1, <2>2, <2>3, <2>6 DEF Erases
      <4>2. UNCHANGED <<roster, mirror>>
        BY <1>1
      <4> QED
        BY <2>9, <4>1, <4>2 DEF Undisturbed, HalvesAreOwned
    <3>5. GoneLeftNothing'
      BY <1>1, <2>1, <2>9 DEF Undisturbed, GoneLeftNothing, NothingLeft
    <3> QED
      BY <3>1, <3>3, <3>4, <3>5 DEF Undisturbed
  <2> QED
    BY <2>7, <2>8, <2>9 DEF StepOK
<1>4. CASE r.phase = 6
  <2>1. users' = users \ {u} /\ Goto(c, Idle)
    BY <1>4 DEF LeaveNext
  <2>2. /\ req' \in [Clients -> Request] /\ req'[c] = Idle /\ At(c)' = "idle"
        /\ \A d \in Clients \ {c} : req'[d] = req[d] /\ At(d)' = At(d)
    BY <2>1, IdleIsRequest, GotoKeeps
  <2>3. TypeOK'
    BY <1>1, <2>1, <2>2 DEF TypeOK
  <2>4. LeaversKnown' /\ RolesAgree'
    BY <1>1, <2>1, <2>2 DEF LeaversKnown, RolesAgree
  <2>5. ASSUME Undisturbed PROVE Undisturbed'
    <3>1. DeletionsKnow'
      <4>1. \A d \in Clients : At(d) \in {"list", "sweep"} \/ At(d)' \in {"list", "sweep"} => req'[d] = req[d]
        BY <1>1, <2>2
      <4> QED
        BY <1>1, <2>5, <4>1, DeletionsStay DEF Undisturbed
    <3>2. ErasuresProgress'
      <4> SUFFICES ASSUME NEW d \in Clients, At(d)' = "leave" PROVE ErasedSoFar(req[d])'
        BY DEF ErasuresProgress
      <4>1. d # c /\ req'[d] = req[d] /\ At(d) = "leave"
        BY <2>2
      <4>2. ErasedSoFar(req[d])
        BY <2>5, <4>1 DEF Undisturbed, ErasuresProgress
      <4> QED
        BY <1>1, <4>1, <4>2 DEF ErasedSoFar
    <3>3. NothingLeft(u)
      BY <1>1, <1>2, <1>4, <2>5 DEF ErasedSoFar, NothingLeft
    <3>4. HalvesAreOwned'
      <4>1. \A d \in Clients \ {c} : \A v, k : Erases(d, v, k) => Erases(d, v, k)'
        BY <1>1, <2>2 DEF Erases
      <4>2. ASSUME NEW x \in Rows, roster[x] # None, mirror[x] = None
            PROVE  \E d \in Clients : Erases(d, Owner[x[1]], 3)'
        <5>1. PICK d \in Clients : Erases(d, Owner[x[1]], 3)
          BY <2>5, <4>2 DEF Undisturbed, HalvesAreOwned
        <5>2. d # c
          BY <3>3, <4>2, <5>1 DEF Erases, NothingLeft
        <5> QED
          BY <4>1, <5>1, <5>2
      <4>3. ASSUME NEW x \in Rows, mirror[x] # None, roster[x] = None
            PROVE  \E d \in Clients : Erases(d, x[2], 2)'
        <5>1. PICK d \in Clients : Erases(d, x[2], 2)
          BY <2>5, <4>3 DEF Undisturbed, HalvesAreOwned
        <5>2. d # c
          BY <3>3, <4>3, <5>1 DEF Erases, NothingLeft
        <5> QED
          BY <4>1, <5>1, <5>2
      <4> QED
        BY <1>1, <4>2, <4>3 DEF HalvesAreOwned
    <3>5. GoneLeftNothing'
      <4> SUFFICES ASSUME NEW v \in Users \ users' PROVE NothingLeft(v)'
        BY DEF GoneLeftNothing
      <4>1. NothingLeft(v)
        BY <2>1, <2>5, <3>3 DEF Undisturbed, GoneLeftNothing
      <4> QED
        BY <1>1, <4>1 DEF NothingLeft
    <3> QED
      BY <3>1, <3>2, <3>4, <3>5 DEF Undisturbed
  <2> QED
    BY <2>3, <2>4, <2>5 DEF StepOK
<1> QED
  BY <1>1, <1>3, <1>4

(* One key goes: the half of a share it leaves is the deletion's to clear.   *)
LEMMA DropOneOK ==
  ASSUME TypeOK, LeaversKnown, RolesAgree, NEW c \in Clients, DropOne(c)
  PROVE  StepOK
<1> DEFINE r == req[c]
           u == r.user
<1>1. PICK x \in r.todo :
        /\ At(c) = "leave" /\ r \in Erasing /\ u \in Users /\ r.phase \in 1 .. 6 /\ u \in leaving
        /\ Goto(c, [r EXCEPT !.todo = @ \ {x}])
        /\ resv' = IF r.phase = 1 THEN [resv EXCEPT ![x] = None] ELSE resv
        /\ roster' = IF r.phase \in {2, 6} THEN [roster EXCEPT ![x] = None] ELSE roster
        /\ mirror' = IF r.phase \in {3, 5} THEN [mirror EXCEPT ![x] = None] ELSE mirror
        /\ dirty' = IF r.phase = 4 THEN dirty \ {x} ELSE dirty
        /\ ahead' \subseteq ahead
        /\ UNCHANGED <<users, left, leaving, raced, torn>>
  BY ReqKinds DEF DropOne, Erasing, LeaversKnown
<1> DEFINE q == [r EXCEPT !.todo = @ \ {x}]
<1>2. q \in Request /\ q.at = "leave" /\ q.user = u /\ q.phase = r.phase /\ q.todo = r.todo \ {x} /\ "asked" \notin DOMAIN q
  BY <1>1 DEF Erasing, Request, At
<1>3. Goto(c, q)
  BY <1>1
<1> HIDE DEF q
<1>4. /\ req' \in [Clients -> Request] /\ req'[c] = q /\ At(c)' = "leave"
      /\ \A d \in Clients \ {c} : req'[d] = req[d] /\ At(d)' = At(d)
  BY <1>2, <1>3, GotoKeeps
<1>5. /\ r.phase = 1 => x \in Resvs /\ Owner[x] = u
      /\ r.phase \in {2, 5} => x \in Rows /\ x[2] = u
      /\ r.phase \in {3, 6} => x \in Rows /\ Owner[x[1]] = u
  <2>1. x \in Scope(u, r.phase)
    BY <1>1 DEF Erasing
  <2> QED
    BY <1>1, <2>1, ScopeParts
<1>6. /\ resv' \in [Resvs -> Users \cup {None}]
      /\ \A s \in Resvs : resv'[s] = IF r.phase = 1 /\ s = x THEN None ELSE resv[s]
  BY <1>1 DEF TypeOK
<1>7. /\ roster' \in [Rows -> Roles \cup {None}] /\ mirror' \in [Rows -> Roles \cup {None}]
      /\ \A y \in Rows : roster'[y] = IF r.phase \in {2, 6} /\ y = x THEN None ELSE roster[y]
      /\ \A y \in Rows : mirror'[y] = IF r.phase \in {3, 5} /\ y = x THEN None ELSE mirror[y]
  BY <1>1 DEF TypeOK
<1>8. dirty' \subseteq dirty /\ (r.phase = 4 => x \notin dirty')
  BY <1>1
<1>9. TypeOK'
  BY <1>1, <1>4, <1>6, <1>7, <1>8 DEF TypeOK
<1>10. LeaversKnown' /\ RolesAgree'
  BY <1>1, <1>2, <1>4, <1>7 DEF LeaversKnown, RolesAgree
<1>11. UNCHANGED <<users, leaving>>
  BY <1>1
<1>12. ASSUME Undisturbed PROVE Undisturbed'
  <2>0. ErasedSoFar(r)
    BY <1>1, <1>12 DEF Undisturbed, ErasuresProgress
  <2>1. DeletionsKnow'
    <3>1. \A d \in Clients : At(d) \in {"list", "sweep"} \/ At(d)' \in {"list", "sweep"} => req'[d] = req[d]
      BY <1>1, <1>4
    <3>2. \A s \in Resvs : resv[s] # None => resv'[s] # None \/ Owner[s] \in leaving'
      BY <1>1, <1>5, <1>6
    <3>3. \A s \in Resvs : resv[s] = None => resv'[s] = None
      BY <1>6
    <3>4. \A y \in Rows : roster'[y] # None => roster[y] # None \/ resv[y[1]] # None
      BY <1>7
    <3> QED
      BY <1>11, <1>12, <3>1, <3>2, <3>3, <3>4, DeletionsStay DEF Undisturbed
  <2>2. ErasedSoFar(req[c])'
    <3>1. \A s \in Resvs : Owner[s] = u /\ resv'[s] # None => q.phase = 1 /\ s \in q.todo
      BY <1>2, <1>6, <2>0 DEF ErasedSoFar
    <3>2. \A y \in Rows : y[2] = u /\ roster'[y] # None /\ mirror'[y] # None /\ q.phase >= 2 =>
            q.phase = 2 /\ y \in q.todo
      BY <1>2, <1>7, <2>0 DEF ErasedSoFar
    <3>3. \A y \in Rows : Owner[y[1]] = u /\ roster'[y] # None /\ mirror'[y] # None /\ q.phase >= 3 =>
            q.phase = 3 /\ y \in q.todo
      BY <1>2, <1>7, <2>0 DEF ErasedSoFar
    <3>4. \A f \in dirty' : f[1] = u /\ q.phase >= 4 => q.phase = 4 /\ f \in q.todo
      BY <1>2, <1>8, <2>0 DEF ErasedSoFar
    <3>5. \A y \in Rows : y[2] = u /\ mirror'[y] # None /\ q.phase >= 5 => q.phase = 5 /\ y \in q.todo
      BY <1>2, <1>7, <2>0 DEF ErasedSoFar
    <3>6. \A y \in Rows : Owner[y[1]] = u /\ roster'[y] # None /\ q.phase = 6 => y \in q.todo
      BY <1>2, <1>7, <2>0 DEF ErasedSoFar
    <3> QED
      BY <1>2, <1>4, <3>1, <3>2, <3>3, <3>4, <3>5, <3>6 DEF ErasedSoFar
  <2>3. ErasuresProgress'
    <3> SUFFICES ASSUME NEW d \in Clients, At(d)' = "leave", d # c PROVE ErasedSoFar(req[d])'
      BY <2>2 DEF ErasuresProgress
    <3>1. req'[d] = req[d] /\ ErasedSoFar(req[d])
      BY <1>4, <1>12 DEF Undisturbed, ErasuresProgress
    <3>2. \A s \in Resvs : resv'[s] # None => resv[s] # None
      BY <1>6
    <3>3. \A y \in Rows : (roster'[y] # None => roster[y] # None) /\ (mirror'[y] # None => mirror[y] # None)
      BY <1>7
    <3> QED
      BY <1>8, <3>1, <3>2, <3>3 DEF ErasedSoFar
  <2>4. HalvesAreOwned'
    <3>1. \A d \in Clients : \A v, k : Erases(d, v, k) => Erases(d, v, k)'
      BY <1>1, <1>2, <1>4 DEF Erases
    <3>2. ASSUME NEW y \in Rows, roster'[y] # None, mirror'[y] = None
          PROVE  \E d \in Clients : Erases(d, Owner[y[1]], 3)'
      <4>1. roster[y] # None
        BY <1>7, <3>2
      <4>2. CASE mirror[y] = None
        BY <1>12, <3>1, <4>1, <4>2 DEF Undisturbed, HalvesAreOwned
      <4>3. CASE mirror[y] # None
        <5>1. y = x /\ r.phase \in {3, 5}
          BY <1>7, <3>2, <4>3
        <5>2. r.phase # 5
          BY <1>5, <2>0, <4>1, <4>3, <5>1 DEF ErasedSoFar
        <5>3. Erases(c, Owner[y[1]], 3)
          BY <1>1, <1>5, <5>1, <5>2 DEF Erases
        <5> QED
          BY <3>1, <5>3
      <4> QED
        BY <4>2, <4>3
    <3>3. ASSUME NEW y \in Rows, mirror'[y] # None, roster'[y] = None
          PROVE  \E d \in Clients : Erases(d, y[2], 2)'
      <4>1. mirror[y] # None
        BY <1>7, <3>3
      <4>2. CASE roster[y] = None
        BY <1>12, <3>1, <4>1, <4>2 DEF Undisturbed, HalvesAreOwned
      <4>3. CASE roster[y] # None
        <5>1. y = x /\ r.phase \in {2, 6}
          BY <1>7, <3>3, <4>3
        <5>2. r.phase # 6
          BY <1>5, <2>0, <4>1, <4>3, <5>1 DEF ErasedSoFar
        <5>3. Erases(c, y[2], 2)
          BY <1>1, <1>5, <5>1, <5>2 DEF Erases
        <5> QED
          BY <3>1, <5>3
      <4> QED
        BY <4>2, <4>3
    <3> QED
      BY <3>2, <3>3 DEF HalvesAreOwned
  <2>5. GoneLeftNothing'
    <3> SUFFICES ASSUME NEW v \in Users \ users PROVE NothingLeft(v)'
      BY <1>11 DEF GoneLeftNothing
    <3>1. NothingLeft(v)
      BY <1>12 DEF Undisturbed, GoneLeftNothing
    <3> QED
      BY <1>6, <1>7, <1>8, <3>1 DEF NothingLeft
  <2> QED
    BY <2>1, <2>3, <2>4, <2>5 DEF Undisturbed
<1> QED
  BY <1>9, <1>10, <1>12 DEF StepOK

-----------------------------------------------------------------------------
(* The gate lets nobody through who is a viewer in the owner's eyes, since   *)
(* the two sides never name different roles.                                 *)
LEMMA GateOK ==
  ASSUME TypeOK, LeaversKnown, RolesAgree, NEW c \in Clients, MemberGate(c) \/ ReadForPatch(c)
  PROVE  StepOK
<1>1. /\ At(c) \in {"gate", "patch"}
      /\ UNCHANGED <<resv, roster, mirror, users, dirty, ahead, leaving, left, raced, torn>>
  BY DEF MemberGate, ReadForPatch, store, rows
<1>2. left' \in 0 .. Requests /\ raced' \in BOOLEAN /\ torn' \in BOOLEAN
  BY <1>1 DEF TypeOK
<1>3. ASSUME NEW q \in Request, Goto(c, q), q.at \notin {"list", "sweep", "leave"},
             "asked" \in DOMAIN q => q.asked # "viewer"
      PROVE  StepOK
  BY <1>1, <1>2, <1>3, QuietOK
<1>4. CASE Goto(c, Idle)
  <2>1. "asked" \notin DOMAIN Idle
    BY DEF Idle
  <2> QED
    BY <1>3, <1>4, <2>1, IdleIsRequest
<1>5. CASE MemberGate(c) /\ ~Goto(c, Idle)
  <2> DEFINE r == req[c].r
             by == req[c].by
             q == [at |-> "patch", r |-> r, by |-> by, asked |-> roster[<<r, by>>]]
  <2>1. r \in Resvs /\ by \in Users /\ by # Owner[r]
    BY <1>5, ReqKinds DEF MemberGate, Asked
  <2>2. Goto(c, q) /\ mirror[<<r, by>>] = "editor"
    BY <1>5 DEF MemberGate, Editor
  <2>3. <<r, by>> \in Rows /\ roster[<<r, by>>] \in Roles \cup {None}
    BY <2>1, RowParts DEF TypeOK
  <2>4. roster[<<r, by>>] # "viewer"
    BY <2>2, <2>3, SharingAssumption DEF RolesAgree, Roles
  <2>5. q \in Request /\ q.at = "patch" /\ q.asked # "viewer"
    BY <2>1, <2>3, <2>4 DEF Request, Allowed
  <2> HIDE DEF q
  <2> QED
    BY <1>3, <2>2, <2>5
<1>6. CASE ReadForPatch(c) /\ ~Goto(c, Idle)
  <2> DEFINE q == [req[c] EXCEPT !.at = "write"]
  <2>1. Goto(c, q) /\ At(c) = "patch" /\ req[c] \in Allowed
    BY <1>6, ReqKinds DEF ReadForPatch
  <2>2. q \in Request /\ q.at = "write" /\ q.asked = req[c].asked /\ req[c].asked # "viewer"
    BY <2>1 DEF Request, Allowed, RolesAgree
  <2> HIDE DEF q
  <2> QED
    BY <1>3, <2>1, <2>2
<1> QED
  BY <1>4, <1>5, <1>6

LEMMA AskOK ==
  ASSUME TypeOK, LeaversKnown, RolesAgree, NEW c \in Clients, Ask(c)
  PROVE  StepOK
<1>1. ASSUME NEW q \in Request, Begin(c), Goto(c, q), q.at \notin {"list", "sweep", "leave"}, "asked" \notin DOMAIN q
      PROVE  StepOK
  <2>1. /\ UNCHANGED <<resv, roster, mirror, users, dirty, ahead, leaving>> /\ At(c) = "idle"
        /\ left' \in 0 .. Requests /\ raced' \in BOOLEAN /\ torn' \in BOOLEAN
    BY <1>1, SharingAssumption DEF Begin, store, rows, TypeOK
  <2> QED
    BY <1>1, <2>1, QuietOK
<1>2. CASE \E r \in Resvs, m \in Users, role \in Roles : Invite(c, r, m, role) \/ Regrade(c, r, m, role)
  <2>1. PICK r \in Resvs, m \in Users, role \in Roles : Invite(c, r, m, role) \/ Regrade(c, r, m, role)
    BY <1>2
  <2>2. PICK at \in {"add", "regrade"} : Begin(c) /\ Goto(c, [at |-> at, row |-> <<r, m>>, role |-> role])
    BY <2>1 DEF Invite, Regrade
  <2> DEFINE q == [at |-> at, row |-> <<r, m>>, role |-> role]
  <2>3. <<r, m>> \in Rows
    BY <2>1, RowParts DEF Invite, Regrade
  <2>4. q \in Request /\ q.at = at /\ "asked" \notin DOMAIN q /\ Begin(c) /\ Goto(c, q)
    BY <2>2, <2>3 DEF Request, Granting
  <2> HIDE DEF q
  <2> QED
    BY <1>1, <2>4
<1>3. CASE \E r \in Resvs, u \in Users : Remove(c, r, u) \/ Edit(c, r, u)
  <2>1. PICK r \in Resvs, u \in Users : Remove(c, r, u) \/ Edit(c, r, u)
    BY <1>3
  <2>2. CASE Remove(c, r, u)
    <3> DEFINE q == [at |-> "remove", row |-> <<r, u>>]
    <3>1. <<r, u>> \in Rows /\ Begin(c) /\ Goto(c, q)
      BY <2>2, RowParts DEF Remove
    <3>2. q \in Request /\ q.at = "remove" /\ "asked" \notin DOMAIN q
      BY <3>1 DEF Request, Removing
    <3> HIDE DEF q
    <3> QED
      BY <1>1, <3>1, <3>2
  <2>3. CASE Edit(c, r, u) /\ u = Owner[r]
    <3> DEFINE q == [at |-> "write", r |-> r, by |-> u]
    <3>1. Begin(c) /\ Goto(c, q)
      BY <2>3 DEF Edit
    <3>2. q \in Request /\ q.at = "write" /\ "asked" \notin DOMAIN q
      BY DEF Request, Owned
    <3> HIDE DEF q
    <3> QED
      BY <1>1, <3>1, <3>2
  <2>4. CASE Edit(c, r, u) /\ u # Owner[r]
    <3> DEFINE q == [at |-> "gate", r |-> r, by |-> u]
    <3>1. Begin(c) /\ Goto(c, q)
      BY <2>4 DEF Edit
    <3>2. q \in Request /\ q.at = "gate" /\ "asked" \notin DOMAIN q
      BY <2>4 DEF Request, Asked
    <3> HIDE DEF q
    <3> QED
      BY <1>1, <3>1, <3>2
  <2> QED
    BY <2>1, <2>2, <2>3, <2>4
<1>4. CASE \E r \in Resvs : Delete(c, r)
  <2>1. PICK r \in Resvs : Delete(c, r)
    BY <1>4
  <2> DEFINE q == [at |-> "delete", r |-> r]
  <2>2. Begin(c) /\ Goto(c, q)
    BY <2>1 DEF Delete
  <2>3. q \in Request /\ q.at = "delete" /\ "asked" \notin DOMAIN q
    BY DEF Request, Deleting
  <2> HIDE DEF q
  <2> QED
    BY <1>1, <2>2, <2>3
<1> QED
  BY <1>2, <1>3, <1>4, LeaveOK DEF Ask

(* A request that is cut: between two writes, nothing more is promised.      *)
LEMMA CutOK ==
  ASSUME TypeOK, LeaversKnown, RolesAgree, NEW c \in Clients, Cut(c)
  PROVE  StepOK
<1>1. /\ Goto(c, Idle) /\ torn' = (torn \/ At(c) \in {"list", "sweep", "flag", "leave"})
      /\ UNCHANGED <<resv, roster, mirror, users, dirty, ahead, left, leaving, raced>>
  BY DEF Cut, rows
<1>2. left' \in 0 .. Requests /\ raced' \in BOOLEAN /\ torn' \in BOOLEAN /\ "asked" \notin DOMAIN Idle
  BY <1>1 DEF TypeOK, Idle
<1>3. TypeOK' /\ LeaversKnown' /\ RolesAgree'
  BY <1>1, <1>2, IdleIsRequest, QuietOK
<1>4. CASE At(c) \in {"list", "sweep", "leave"}
  <2>1. torn'
    BY <1>1, <1>4
  <2> QED
    BY <1>3, <2>1 DEF StepOK
<1>5. CASE At(c) \notin {"list", "sweep", "leave"}
  BY <1>1, <1>2, <1>5, IdleIsRequest, QuietOK
<1> QED
  BY <1>4, <1>5

(* What went wrong is never forgotten.                                       *)
LEMMA WrongStays == ASSUME Next PROVE (raced => raced') /\ (torn => torn')
<1>1. ASSUME NEW c \in Clients, Ask(c) PROVE UNCHANGED <<raced, torn>>
  BY <1>1 DEF Ask, Invite, Regrade, Remove, Edit, Delete, Leave, Begin, store
<1>2. ASSUME NEW c \in Clients, Work(c) PROVE UNCHANGED torn /\ (raced => raced')
  <2>1. CASE AddMember(c) \/ SetMemberRole(c)
    <3>1. UNCHANGED torn
      BY <2>1 DEF AddMember, SetMemberRole
    <3>2. raced => raced'
      BY <2>1, Zenon DEF AddMember, SetMemberRole
    <3> QED
      BY <3>1, <3>2
  <2>2. CASE WriteBack(c) \/ MarkDirty(c)
    <3>1. UNCHANGED torn
      BY <2>2 DEF WriteBack, MarkDirty
    <3>2. raced => raced'
      BY <2>2, Zenon DEF WriteBack, MarkDirty
    <3> QED
      BY <3>1, <3>2
  <2>6. CASE RemoveMember(c) \/ DeleteRecord(c) \/ CleanupShares(c)
    BY <2>6 DEF RemoveMember, DeleteRecord, CleanupShares
  <2>3. CASE MemberGate(c) \/ ReadForPatch(c) \/ ListShares(c)
    <3>1. UNCHANGED store
      BY <2>3 DEF MemberGate, ReadForPatch, ListShares
    <3> QED
      BY <3>1 DEF store
  <2>4. CASE LeaveNext(c)
    BY <2>4 DEF LeaveNext
  <2>5. CASE DropOne(c)
    BY <2>5 DEF DropOne
  <2> QED
    BY <1>2, <2>1, <2>2, <2>3, <2>4, <2>5, <2>6 DEF Work
<1>3. ASSUME NEW c \in Clients, Cut(c) PROVE UNCHANGED raced /\ (torn => torn')
  BY <1>3 DEF Cut
<1>4. ASSUME NEW u \in Users, NEW r \in Resvs, Sync(u, r) PROVE UNCHANGED <<raced, torn>>
  BY <1>4 DEF Sync
<1> QED
  BY <1>1, <1>2, <1>3, <1>4 DEF Next

LEMMA InitOK == ASSUME Init PROVE SharingInv /\ ChangesAreFlagged
<1>1. \A c \in Clients : At(c) = "idle" /\ req[c] = Idle
  BY DEF Init, At, Idle
<1>2. TypeOK
  <2>1. Idle \in Request /\ Requests \in 0 .. Requests
    BY SharingAssumption, IdleIsRequest
  <2> QED
    BY <2>1, SharingAssumption DEF Init, TypeOK
<1>3. LeaversKnown
  BY <1>1 DEF Init, LeaversKnown
<1>4. RolesAgree
  BY <1>1 DEF Init, RolesAgree
<1>5. Undisturbed
  <2>1. DeletionsKnow /\ ErasuresProgress
    BY <1>1 DEF Init, DeletionsKnow, ErasuresProgress
  <2>2. HalvesAreOwned /\ GoneLeftNothing
    BY DEF Init, HalvesAreOwned, GoneLeftNothing
  <2> QED
    BY <2>1, <2>2 DEF Undisturbed
<1>6. ChangesAreFlagged
  BY DEF Init, ChangesAreFlagged
<1> QED
  BY <1>2, <1>3, <1>4, <1>5, <1>6 DEF SharingInv

LEMMA SharingStep == ASSUME SharingInv, [Next]_vars PROVE SharingInv'
<1>1. TypeOK /\ LeaversKnown /\ RolesAgree
  BY DEF SharingInv
<1>2. CASE UNCHANGED vars
  <2>1. UNCHANGED <<resv, roster, mirror, users, dirty, ahead, leaving, raced, torn, req, left>>
    BY <1>2 DEF vars, store, rows
  <2>2. TypeOK' /\ LeaversKnown' /\ RolesAgree'
    BY <1>1, <2>1 DEF TypeOK, LeaversKnown, RolesAgree, At
  <2>3. Undisturbed => Undisturbed'
    BY <2>1 DEF Undisturbed, DeletionsKnow, BeingDeleted, ErasuresProgress, ErasedSoFar, HalvesAreOwned, Erases,
                GoneLeftNothing, NothingLeft, At
  <2> QED
    BY <2>1, <2>2, <2>3 DEF SharingInv
<1>3. CASE Next
  <2>1. ASSUME NEW c \in Clients, Work(c) PROVE StepOK
    BY <1>1, <2>1, MemberOK, RemoveOK, CleanupOK, WriteBackOK, MarkDirtyOK, DeleteRecordOK, ListSharesOK,
       LeaveNextOK, DropOneOK, GateOK DEF Work
  <2>2. StepOK
    BY <1>1, <1>3, <2>1, AskOK, CutOK, SyncOK DEF Next
  <2> QED
    BY <1>3, <2>2, WrongStays DEF SharingInv, StepOK
<1> QED
  BY <1>2, <1>3

(* SidesAgree: the two sides of a share name no two roles, whatever happens; *)
(* and while no write rested on what had changed and no request was cut they *)
(* are there together or not at all, for a reservation that exists, between  *)
(* people who do, and who is gone has left nothing (sharing.ts, users.ts     *)
(* deleteAccount, api.ts), for any number of people, reservations, requests. *)
THEOREM SharesStayTogether == Spec => []SidesAgree
<1>1. ASSUME SharingInv PROVE SidesAgree
  <2>1. TypeOK /\ LeaversKnown /\ RolesAgree
    BY <1>1 DEF SharingInv
  <2>2. ASSUME Undisturbed
        PROVE  /\ \A x \in Rows : leaving \cap {Owner[x[1]], x[2]} = {} =>
                    /\ roster[x] = mirror[x]
                    /\ roster[x] # None => resv[x[1]] # None \/ BeingDeleted(x[1])
               /\ \A x \in Rows :
                    ~({Owner[x[1]], x[2]} \subseteq users) /\ ~BeingErased(Owner[x[1]]) /\ ~BeingErased(x[2]) =>
                      roster[x] = None /\ mirror[x] = None
               /\ \A r \in Resvs : Owner[r] \notin users => resv[r] = None
               /\ \A f \in dirty : f[1] \in users
    <3>1. \A c \in Clients : \A u, k : Erases(c, u, k) => u \in leaving /\ BeingErased(u)
      BY <2>1 DEF Erases, LeaversKnown, BeingErased
    <3>2. \A x \in Rows : leaving \cap {Owner[x[1]], x[2]} = {} => roster[x] = mirror[x]
      BY <2>1, <2>2, <3>1 DEF Undisturbed, HalvesAreOwned, RolesAgree
    <3>3. \A x \in Rows : leaving \cap {Owner[x[1]], x[2]} = {} /\ roster[x] # None =>
             resv[x[1]] # None \/ BeingDeleted(x[1])
      BY <2>2 DEF Undisturbed, DeletionsKnow
    <3>4. ASSUME NEW x \in Rows, ~({Owner[x[1]], x[2]} \subseteq users), ~BeingErased(Owner[x[1]]), ~BeingErased(x[2])
          PROVE  roster[x] = None /\ mirror[x] = None
      <4>1. roster[x] = None \/ mirror[x] = None
        BY <2>2, <3>4, RowParts DEF Undisturbed, GoneLeftNothing, NothingLeft
      <4>2. roster[x] = None <=> mirror[x] = None
        BY <2>2, <3>1, <3>4 DEF Undisturbed, HalvesAreOwned
      <4> QED
        BY <4>1, <4>2
    <3>5. \A r \in Resvs : Owner[r] \notin users => resv[r] = None
      BY <2>2, SharingAssumption DEF Undisturbed, GoneLeftNothing, NothingLeft
    <3>6. \A f \in dirty : f[1] \in users
      BY <2>1, <2>2 DEF Undisturbed, GoneLeftNothing, NothingLeft, TypeOK
    <3> QED
      BY <3>2, <3>3, <3>4, <3>5, <3>6
  <2>3. SharesAgree
    <3>1. ~raced /\ ~torn => Undisturbed
      BY <1>1 DEF SharingInv
    <3> QED
      BY <2>2, <3>1, Zenon DEF SharesAgree
  <2> QED
    BY <2>1, <2>3, Zenon DEF SidesAgree
<1> QED
  BY <1>1, InitOK, SharingStep, PTL DEF Spec

(* The types of Sharing (sharing.ts, api.ts, users.ts).                      *)
THEOREM SharingTypeCorrect == Spec => []TypeOK
<1>1. SharingInv => TypeOK
  BY DEF SharingInv
<1> QED
  BY <1>1, InitOK, SharingStep, PTL DEF Spec

-----------------------------------------------------------------------------
(* What owes the owner's calendar a change: the request that made it, and has *)
(* not set its flag, the flag itself, or nothing any more, for one who leaves. *)
Owes(q, r) ==
  \/ q.at \in {"list", "sweep"} /\ q.r = r
  \/ q.at = "flag" /\ q.flag = <<Owner[r], r>>

LEMMA FlagsStay ==
  ASSUME TypeOK, ChangesAreFlagged, ~torn, NEW c \in Clients,
         \A d \in Clients \ {c} : req'[d] = req[d],
         \A r \in Resvs : Owes(req[c], r) => <<Owner[r], r>> \in dirty' \/ Owes(req'[c], r),
         \A f \in dirty : f \in dirty' \/ f[1] \in leaving',
         \A r \in ahead' : r \in Resvs /\ (r \in ahead \/ Owes(req'[c], r)),
         leaving \subseteq leaving'
  PROVE  ChangesAreFlagged'
<1>1. \A r \in Resvs, d \in Clients : Owes(req[d], r) => <<Owner[r], r>> \in dirty' \/ Owes(req'[d], r)
  OBVIOUS
<1>2. \A r \in ahead : \/ <<Owner[r], r>> \in dirty
                       \/ Owner[r] \in leaving
                       \/ \E d \in Clients : Owes(req[d], r)
  BY DEF ChangesAreFlagged, BeingDeleted, Owes, At
<1>3. \A r \in ahead' : \/ <<Owner[r], r>> \in dirty'
                        \/ Owner[r] \in leaving'
                        \/ \E d \in Clients : Owes(req'[d], r)
  <2> SUFFICES ASSUME NEW r \in ahead'
               PROVE  \/ <<Owner[r], r>> \in dirty'
                      \/ Owner[r] \in leaving'
                      \/ \E d \in Clients : Owes(req'[d], r)
    OBVIOUS
  <2>1. <<Owner[r], r>>[1] = Owner[r] /\ r \in Resvs
    OBVIOUS
  <2> QED
    BY <1>1, <1>2, <2>1
<1> QED
  BY <1>3 DEF ChangesAreFlagged, BeingDeleted, Owes, At

LEMMA FlagsKept == ASSUME TypeOK, LeaversKnown, ChangesAreFlagged, [Next]_vars, ~torn' PROVE ChangesAreFlagged'
<1>1. CASE UNCHANGED vars
  BY <1>1 DEF vars, store, rows, ChangesAreFlagged, BeingDeleted, At
<1> SUFFICES ASSUME Next PROVE ChangesAreFlagged'
  BY <1>1
<1>2. ~torn
  BY WrongStays
<1>3. ASSUME NEW c \in Clients, NEW q, Goto(c, q), UNCHANGED <<dirty, ahead>>, leaving \subseteq leaving',
             ~(At(c) \in {"list", "sweep", "flag"})
      PROVE  ChangesAreFlagged'
  <2>1. \A d \in Clients \ {c} : req'[d] = req[d]
    BY <1>3 DEF Goto, TypeOK
  <2>2. \A r \in Resvs : ~Owes(req[c], r)
    BY <1>3 DEF Owes, At
  <2> QED
    BY <1>2, <1>3, <2>1, <2>2, FlagsStay DEF TypeOK
<1>4. ASSUME NEW c \in Clients, Ask(c) PROVE ChangesAreFlagged'
  <2>1. PICK q : Goto(c, q) /\ At(c) = "idle" /\ UNCHANGED <<dirty, ahead>> /\ leaving \subseteq leaving'
    BY <1>4 DEF Ask, Invite, Regrade, Remove, Edit, Delete, Leave, Begin, store
  <2> QED
    BY <1>3, <2>1
<1>5. ASSUME NEW c \in Clients, Cut(c) PROVE ChangesAreFlagged'
  BY <1>3, <1>5 DEF Cut
<1>6. ASSUME NEW u \in Users, NEW r \in Resvs, Sync(u, r) PROVE ChangesAreFlagged'
  <2>1. UNCHANGED <<req, leaving>> /\ dirty' = dirty \ {<<u, r>>} /\ ahead' = IF u = Owner[r] THEN ahead \ {r} ELSE ahead
    BY <1>6 DEF Sync
  <2>2. \A t \in ahead' : t \in ahead /\ <<Owner[t], t>> # <<u, r>>
    BY <2>1
  <2> QED
    BY <1>2, <2>1, <2>2 DEF ChangesAreFlagged, BeingDeleted, At
<1>7. ASSUME NEW c \in Clients, Work(c) PROVE ChangesAreFlagged'
  <2>1. CASE AddMember(c) \/ SetMemberRole(c) \/ RemoveMember(c)
    BY <1>3, <2>1 DEF AddMember, SetMemberRole, RemoveMember
  <2>2. CASE MemberGate(c) \/ ReadForPatch(c)
    <3>1. PICK q : Goto(c, q) /\ At(c) \in {"gate", "patch"} /\ UNCHANGED store
      BY <2>2 DEF MemberGate, ReadForPatch
    <3> QED
      BY <1>3, <3>1 DEF store
  <2>3. CASE LeaveNext(c)
    <3>1. PICK q : Goto(c, q)
      BY <2>3 DEF LeaveNext
    <3> QED
      BY <1>3, <2>3, <3>1 DEF LeaveNext
  <2>4. CASE WriteBack(c)
    <3> DEFINE r == req[c].r
               q == [at |-> "flag", flag |-> FlagFor(r, req[c].by)]
    <3>1. r \in Resvs /\ At(c) = "write" /\ Goto(c, q) /\ ahead' = ahead \cup {r} /\ UNCHANGED <<dirty, leaving>>
      BY <2>4, ReqKinds DEF WriteBack, Allowed, Owned
    <3>2. Owes(q, r)
      BY DEF Owes, FlagFor
    <3>3. req'[c] = q /\ \A d \in Clients \ {c} : req'[d] = req[d]
      BY <3>1 DEF Goto, TypeOK
    <3>4. \A t \in Resvs : ~Owes(req[c], t)
      BY <3>1 DEF Owes, At
    <3> HIDE DEF q, r
    <3> QED
      BY <1>2, <3>1, <3>2, <3>3, <3>4, FlagsStay DEF TypeOK
  <2>5. CASE MarkDirty(c)
    <3>1. /\ At(c) = "flag" /\ dirty' = dirty \cup {req[c].flag} /\ Goto(c, Idle) /\ UNCHANGED <<ahead, leaving>>
      BY <2>5 DEF MarkDirty
    <3>2. \A t \in Resvs : Owes(req[c], t) => <<Owner[t], t>> \in dirty'
      BY <3>1 DEF Owes, At
    <3>3. \A d \in Clients \ {c} : req'[d] = req[d]
      BY <3>1 DEF Goto, TypeOK
    <3> QED
      BY <1>2, <3>1, <3>2, <3>3, FlagsStay DEF TypeOK
  <2>6. CASE DeleteRecord(c)
    <3> DEFINE r == req[c].r
               q == [at |-> "list", r |-> r]
    <3>1. r \in Resvs /\ At(c) = "delete" /\ Goto(c, q) /\ ahead' = ahead \cup {r} /\ UNCHANGED <<dirty, leaving>>
      BY <2>6, ReqKinds DEF DeleteRecord, Deleting
    <3>2. Owes(q, r)
      BY DEF Owes
    <3>3. req'[c] = q /\ \A d \in Clients \ {c} : req'[d] = req[d]
      BY <3>1 DEF Goto, TypeOK
    <3>4. \A t \in Resvs : ~Owes(req[c], t)
      BY <3>1 DEF Owes, At
    <3> HIDE DEF q, r
    <3> QED
      BY <1>2, <3>1, <3>2, <3>3, <3>4, FlagsStay DEF TypeOK
  <2>7. CASE ListShares(c)
    <3> DEFINE todo == {x \in Rows : x[1] = req[c].r /\ roster[x] # None}
               q == [at |-> "sweep", r |-> req[c].r, todo |-> todo]
    <3>1. At(c) = "list" /\ Goto(c, q) /\ UNCHANGED <<dirty, ahead, leaving>>
      BY <2>7 DEF ListShares, store
    <3>2. req'[c] = q /\ \A d \in Clients \ {c} : req'[d] = req[d]
      BY <3>1 DEF Goto, TypeOK
    <3>3. q.at = "sweep" /\ q.r = req[c].r
      OBVIOUS
    <3> HIDE DEF q
    <3>4. \A t \in Resvs : Owes(req[c], t) => Owes(req'[c], t)
      BY <3>1, <3>2, <3>3 DEF Owes, At
    <3> QED
      BY <1>2, <3>1, <3>2, <3>4, FlagsStay DEF TypeOK
  <2>8. CASE CleanupShares(c)
    <3> DEFINE q == [at |-> "flag", flag |-> FlagFor(req[c].r, Owner[req[c].r])]
    <3>1. At(c) = "sweep" /\ Goto(c, q) /\ UNCHANGED <<dirty, ahead, leaving>>
      BY <2>8 DEF CleanupShares
    <3>2. req'[c] = q /\ \A d \in Clients \ {c} : req'[d] = req[d]
      BY <3>1 DEF Goto, TypeOK
    <3>3. q.at = "flag" /\ q.flag = <<Owner[req[c].r], req[c].r>>
      BY DEF FlagFor
    <3> HIDE DEF q
    <3>4. \A t \in Resvs : Owes(req[c], t) => Owes(req'[c], t)
      BY <3>1, <3>2, <3>3 DEF Owes, At
    <3> QED
      BY <1>2, <3>1, <3>2, <3>4, FlagsStay DEF TypeOK
  <2>9. CASE DropOne(c)
    <3>1. At(c) = "leave" /\ req[c] \in Erasing /\ req[c].user \in leaving /\ UNCHANGED leaving
      BY <2>9, ReqKinds DEF DropOne, LeaversKnown
    <3>2. PICK x \in req[c].todo :
            /\ Goto(c, [req[c] EXCEPT !.todo = @ \ {x}])
            /\ dirty' = IF req[c].phase = 4 THEN dirty \ {x} ELSE dirty
            /\ ahead' = IF req[c].phase = 1 THEN ahead \ {x} ELSE ahead
      BY <2>9 DEF DropOne
    <3>3. req[c].phase = 4 => x[1] = req[c].user
      BY <3>1 DEF Erasing, Scope
    <3>4. \A d \in Clients \ {c} : req'[d] = req[d]
      BY <3>2 DEF Goto, TypeOK
    <3>5. \A t \in Resvs : ~Owes(req[c], t)
      BY <3>1 DEF Owes, At
    <3>6. \A f \in dirty : f \in dirty' \/ f[1] \in leaving'
      BY <3>1, <3>2, <3>3
    <3>7. ahead' \subseteq ahead
      BY <3>2
    <3> QED
      BY <1>2, <3>1, <3>4, <3>5, <3>6, <3>7, FlagsStay DEF TypeOK
  <2> QED
    BY <1>7, <2>1, <2>2, <2>3, <2>4, <2>5, <2>6, <2>7, <2>8, <2>9 DEF Work
<1> QED
  BY <1>4, <1>5, <1>6, <1>7 DEF Next

(* ChangesAreFlagged: unless a request was cut, a reservation the owner or an *)
(* editor changed or deleted is flagged for its owner's calendar until it is *)
(* synced, whoever else changes it, syncs or leaves meanwhile (api.ts, where *)
(* the flag is set by a call the handler does not wait for).                 *)
THEOREM ChangesReachTheCalendar == Spec => []ChangesAreFlagged
<1>1. SharingInv => TypeOK /\ LeaversKnown
  BY DEF SharingInv
<1>2. SharingInv /\ ChangesAreFlagged /\ [Next]_vars => ChangesAreFlagged'
  <2>1. torn' => ChangesAreFlagged'
    BY DEF ChangesAreFlagged
  <2> QED
    BY <1>1, <2>1, FlagsKept
<1> QED
  BY <1>1, <1>2, InitOK, SharingStep, PTL DEF Spec
=============================================================================
