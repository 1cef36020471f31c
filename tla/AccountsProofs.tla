--------------------------- MODULE AccountsProofs ---------------------------
(* Proofs about the two halves of MCAccounts: that users and the indexes     *)
(* that resolve to them agree in Accounts, however requests interleave, and  *)
(* that Logins lets nothing be used more often than it should.               *)
EXTENDS MCAccounts, TLAPS

(* A user's record: every handle is a handle, and the additional address is  *)
(* not the address itself (the two share an index).                          *)
RecOK(rec) ==
  /\ rec \in Record
  /\ \A f \in Fields : rec[f] \in Handles \cup {None}
  /\ rec.altEmail # None => rec.altEmail # rec.email

(* What a request may want of a field.                                       *)
Changes == (Fields \ {"email"}) \cup {"touch", "verified"}
WantOK(field, want) ==
  /\ field \in {"google", "line", "uid"} => want \in Names \cup {None}
  /\ field = "altEmail" => want \in Addresses
  /\ field = "verified" => want \in Names
  /\ field \in {"ics", "mail", "code", "touch"} => want \in {None, "ensure"}

(* The requests, by where they are.                                          *)
Asking == [at : {"cap", "count", "find", "create"}, email : Addresses, sub : Names \cup {None},
           verified : BOOLEAN, known : BOOLEAN]
Reading == {r \in [at : {"read"}, user : Users, field : Changes, want : Names \cup Addresses \cup {None, "ensure"}] :
              WantOK(r.field, r.want)}
Writing == {r \in [at : {"write"}, user : Users, field : Changes, want : Names \cup Addresses \cup {None, "ensure"},
                   rec : Record] :
              WantOK(r.field, r.want) /\ RecOK(r.rec) /\ (r.field = "altEmail" => r.want # r.rec.email)}
Linking == [at : {"link"}, user : Users, sub : Names]
Burning == [at : {"burn"}, user : Users, code : Secrets, line : Names]
Leaving == {r \in [at : {"leave"}, user : Users, rec : Record] : RecOK(r.rec)}
Dropping == {r \in [at : {"drop"}, user : Users, rec : Record, todo : SUBSET Fields] :
               RecOK(r.rec) /\ \A f \in r.todo : r.rec[f] # None}

Request == {Idle} \cup Asking \cup Reading \cup Writing \cup Linking \cup Burning \cup Leaving \cup Dropping

(* The types. A dropping request still has only entries to drop.             *)
TypeOK ==
  /\ record \in [Users -> Record \cup {None}]
  /\ \A u \in Live : RecOK(record[u])
  /\ index \in [Spaces -> [Handles -> Users \cup {None}]]
  /\ req \in [Clients -> Request]
  /\ left \in 0 .. Requests
  /\ raced \in BOOLEAN /\ torn \in BOOLEAN

(* Every handle of a user resolves to the user; a Google subject may wait    *)
(* for the second write of the request that wrote the first.                 *)
Resolved ==
  \A u \in Live, f \in Fields \ {"code"} :
    record[u][f] # None =>
      \/ index[SpaceOf(f)][record[u][f]] = u
      \/ f = "google" /\ \E c \in Clients : At(c) = "link" /\ req[c].user = u /\ req[c].sub = record[u][f]

(* Every entry is to a user who holds the handle, or is still on the list of *)
(* a request that drops what the user had.                                   *)
Held ==
  \A s \in Spaces \ {"google"}, h \in Handles :
    index[s][h] # None =>
      \/ index[s][h] \in Live /\ \E f \in Fields : SpaceOf(f) = s /\ record[index[s][h]][f] = h
      \/ \E c \in Clients : /\ At(c) = "drop" /\ req[c].user = index[s][h]
                            /\ \E f \in req[c].todo : SpaceOf(f) = s /\ req[c].rec[f] = h

(* A user whose entries are being dropped has left: no drop can take an      *)
(* entry of a live one.                                                      *)
DroppedAreGone == \A c \in Clients : At(c) = "drop" => req[c].user \notin Live

(* The inductive invariant: while no request wrote over what had changed and *)
(* none was cut between two writes.                                          *)
AccountsInv == TypeOK /\ (~raced /\ ~torn => Resolved /\ Held /\ DroppedAreGone)

Settled == Resolved /\ Held /\ DroppedAreGone

-----------------------------------------------------------------------------
(* Where a request is tells what it carries.                               *)
LEMMA ReqKinds ==
  ASSUME TypeOK, NEW c \in Clients
  PROVE  /\ req[c] \in Request
         /\ At(c) \in {"cap", "count", "find", "create"} => req[c] \in Asking
         /\ At(c) = "read" => req[c] \in Reading
         /\ At(c) = "write" => req[c] \in Writing
         /\ At(c) = "link" => req[c] \in Linking
         /\ At(c) = "burn" => req[c] \in Burning
         /\ At(c) = "leave" => req[c] \in Leaving
         /\ At(c) = "drop" => req[c] \in Dropping
         /\ At(c) \in {"link", "drop"} => "user" \in DOMAIN req[c]
<1>1. req[c] \in Request
  BY DEF TypeOK
<1> QED
  BY <1>1 DEF Request, Asking, Reading, Writing, Linking, Burning, Leaving, Dropping, At, Idle

\* A draw from what there is.
LEMMA DrawnIn == ASSUME NEW S, S # {} PROVE Drawn(S) \in S
  BY DEF Drawn

\* A request that moves on keeps the type of requests, and moves alone.
LEMMA GotoKeeps ==
  ASSUME TypeOK, NEW c \in Clients, NEW r \in Request, Goto(c, r)
  PROVE  /\ req' \in [Clients -> Request] /\ req'[c] = r
         /\ \A d \in Clients \ {c} : req'[d] = req[d]
  BY DEF TypeOK, Goto

\* A step of a request that writes nothing, and neither links nor drops.
LEMMA QuietKeeps ==
  ASSUME TypeOK, NEW c \in Clients, NEW r \in Request, Goto(c, r), UNCHANGED <<record, index>>,
         At(c) \notin {"link", "drop"}, r.at \notin {"link", "drop"}
  PROVE  Settled => Settled'
<1>1. \A d \in Clients : (At(d) \in {"link", "drop"} => d # c) /\ (At(d)' \in {"link", "drop"} => d # c)
  BY GotoKeeps DEF At
<1>2. \A d \in Clients \ {c} : req'[d] = req[d] /\ At(d)' = At(d)
  BY GotoKeeps DEF At
<1>3. Live' = Live
  BY DEF Live
<1>4. Resolved => Resolved'
  BY <1>1, <1>2, <1>3 DEF Resolved
<1>5. Held => Held'
  BY <1>1, <1>2, <1>3 DEF Held
<1>6. DroppedAreGone => DroppedAreGone'
  BY <1>1, <1>2, <1>3 DEF DroppedAreGone
<1> QED
  BY <1>4, <1>5, <1>6 DEF Settled

\* A user's record as it is created.
LEMMA NewUserOK ==
  ASSUME NEW address \in Addresses, NEW ics \in Secrets, NEW mail \in Secrets \cup {None}, NEW v \in BOOLEAN
  PROVE  LET n == NewUser(address, ics, mail, v) IN
         /\ RecOK(n) /\ n # None
         /\ n.email = address /\ n.ics = ics /\ n.mail = mail
         /\ \A f \in Fields \ {"email", "ics", "mail"} : n[f] = None
<1> DEFINE n == NewUser(address, ics, mail, v)
<1>1. n.email = address /\ n.ics = ics /\ n.mail = mail /\ n.verified = v
  BY DEF NewUser, Fields
<1>2. \A f \in Fields \ {"email", "ics", "mail"} : n[f] = None
  BY DEF NewUser, Fields
<1>3. \A f \in Fields \cup {"verified"} : n[f] \in Handles \cup {None} \cup BOOLEAN
  BY <1>1, <1>2 DEF Handles, Fields
<1>4. n \in Record
  BY <1>3 DEF NewUser, Record
<1>5. n.altEmail = None
  BY <1>2 DEF Fields
<1>6. RecOK(n)
  BY <1>1, <1>2, <1>4, <1>5 DEF RecOK, Handles
<1>7. n # None
  BY <1>4, RecordAssumption
<1> QED
  BY <1>1, <1>2, <1>6, <1>7

\* The record with one field changed.
LEMMA ChangedOK ==
  ASSUME NEW r, RecOK(r.rec), r.field \in Changes, r.field \in Fields => r.want \in Handles \cup {None},
         r.field = "altEmail" => r.want # r.rec.email
  PROVE  /\ RecOK(Changed(r)) /\ Changed(r) # None
         /\ r.field \in Fields => Changed(r)[r.field] = r.want
         /\ \A f \in Fields \ {r.field} : Changed(r)[f] = r.rec[f]
<1> USE DEF Fields, Changes
<1>1. r.rec \in Record
  BY DEF RecOK
<1>2. /\ Changed(r) \in Record
      /\ r.field \in Fields => Changed(r)[r.field] = r.want
      /\ \A f \in Fields \ {r.field} : Changed(r)[f] = r.rec[f]
  <2>1. CASE r.field = "touch"
    BY <1>1, <2>1 DEF Changed
  <2>2. CASE r.field = "verified"
    BY <1>1, <2>2 DEF Changed, Record
  <2>3. CASE r.field \in Fields
    <3>1. Changed(r) = [r.rec EXCEPT ![r.field] = r.want]
      BY <2>3 DEF Changed
    <3> QED
      BY <1>1, <2>3, <3>1 DEF Record
  <2> QED
    BY <2>1, <2>2, <2>3
<1>3. \A f \in Fields : Changed(r)[f] \in Handles \cup {None}
  BY <1>2 DEF RecOK
<1>4. Changed(r).altEmail # None => Changed(r).altEmail # Changed(r).email
  <2>1. Changed(r).email = r.rec.email
    BY <1>2
  <2>2. CASE r.field = "altEmail"
    BY <1>2, <2>1, <2>2
  <2>3. CASE r.field # "altEmail"
    BY <1>2, <2>1, <2>3 DEF RecOK
  <2> QED
    BY <2>2, <2>3
<1>5. RecOK(Changed(r)) /\ Changed(r) # None
  BY <1>2, <1>3, <1>4, RecordAssumption DEF RecOK
<1> QED
  BY <1>2, <1>5

\* What a write does to the indexes, handle by handle.
LEMMA ReindexedAt ==
  ASSUME TypeOK, NEW r, r.user \in Users, r.field \in Changes, index' = Reindexed(r)
  PROVE  /\ index' \in [Spaces -> [Handles -> Users \cup {None}]]
         /\ \A s \in Spaces, h \in Handles :
              index'[s][h] = IF r.field \in {"touch", "verified", "google"} \/ s # SpaceOf(r.field) THEN index[s][h]
                             ELSE IF h = r.want THEN r.user
                             ELSE IF h = r.rec[r.field] THEN None
                             ELSE index[s][h]
<1>1. CASE r.field \in {"touch", "verified", "google"}
  BY <1>1 DEF Reindexed, TypeOK
<1>2. CASE r.field \notin {"touch", "verified", "google"}
  <2> DEFINE S == SpaceOf(r.field)
             new == [h \in Handles |-> IF h = r.want THEN r.user
                                       ELSE IF h = r.rec[r.field] THEN None ELSE index[S][h]]
  <2>1. S \in Spaces
    BY <1>2 DEF Changes, Fields, Spaces, SpaceOf
  <2>2. index' = [index EXCEPT ![S] = new]
    BY <1>2 DEF Reindexed
  <2>3. index \in [Spaces -> [Handles -> Users \cup {None}]] /\ index[S] \in [Handles -> Users \cup {None}]
    BY <2>1 DEF TypeOK
  <2>4. new \in [Handles -> Users \cup {None}]
    BY <2>3
  <2>5. \A h \in Handles : new[h] = IF h = r.want THEN r.user ELSE IF h = r.rec[r.field] THEN None ELSE index[S][h]
    OBVIOUS
  <2> HIDE DEF new, S
  <2>6. index' \in [Spaces -> [Handles -> Users \cup {None}]]
    BY <2>1, <2>2, <2>3, <2>4
  <2>7. \A s \in Spaces : index'[s] = IF s = S THEN new ELSE index[s]
    BY <2>1, <2>2, <2>3
  <2> QED
    BY <1>2, <2>5, <2>6, <2>7 DEF S
<1> QED
  BY <1>1, <1>2

\* One entry of an index is written.
LEMMA EntryPut ==
  ASSUME TypeOK, NEW s \in Spaces, NEW h \in Handles, NEW u \in Users \cup {None},
         index' = [index EXCEPT ![s][h] = u]
  PROVE  /\ index' \in [Spaces -> [Handles -> Users \cup {None}]]
         /\ \A t \in Spaces, k \in Handles : index'[t][k] = IF t = s /\ k = h THEN u ELSE index[t][k]
<1>1. index \in [Spaces -> [Handles -> Users \cup {None}]] /\ index[s] \in [Handles -> Users \cup {None}]
  BY DEF TypeOK
<1> DEFINE new == [index[s] EXCEPT ![h] = u]
<1>2. new \in [Handles -> Users \cup {None}] /\ \A k \in Handles : new[k] = IF k = h THEN u ELSE index[s][k]
  BY <1>1
<1>3. index' = [index EXCEPT ![s] = new]
  OBVIOUS
<1> HIDE DEF new
<1> QED
  BY <1>1, <1>2, <1>3

\* The user record and the requests of a write, whose record was not stale.
LEMMA PutType ==
  ASSUME TypeOK, NEW c \in Clients, NEW r, r.user \in Users, r.field \in Changes,
         r.field \in Fields => r.want \in Handles \cup {None},
         r.field \in {"google", "verified"} => r.want \in Names \cup {None},
         r.field = "altEmail" => r.want # r.rec.email,
         r.field = "verified" => r.want # None,
         RecOK(r.rec), Put(c, r)
  PROVE  /\ TypeOK'
         /\ record' = [record EXCEPT ![r.user] = Changed(r)] /\ Changed(r) # None
         /\ At(c)' \in {"idle", "read", "link"}
         /\ At(c)' = "link" => r.field = "google" /\ r.want # None /\ req'[c].user = r.user /\ req'[c].sub = r.want
         /\ r.field = "google" /\ r.want # None => At(c)' = "link"
         /\ \A d \in Clients \ {c} : req'[d] = req[d]
<1>1. /\ record' = [record EXCEPT ![r.user] = Changed(r)]
      /\ index' = Reindexed(r)
      /\ raced' = (raced \/ record[r.user] # r.rec)
      /\ UNCHANGED <<left, torn>>
  BY DEF Put
<1>2. RecOK(Changed(r)) /\ Changed(r) # None /\ Changed(r) \in Record
  BY ChangedOK DEF RecOK
<1>3. PICK q \in Request : /\ Goto(c, q) /\ q.at \in {"idle", "read", "link"}
                           /\ q.at = "link" => r.field = "google" /\ r.want # None /\ q.user = r.user /\ q.sub = r.want
                           /\ r.field = "google" /\ r.want # None => q.at = "link"
  <2>1. CASE r.field = "verified"
    <3>1. [at |-> "read", user |-> r.user, field |-> "google", want |-> r.want] \in Reading
      BY <2>1 DEF Reading, WantOK, Changes, Fields
    <3> QED
      BY <2>1, <3>1 DEF Put, Request
  <2>2. CASE r.field = "google" /\ r.want # None
    <3>1. [at |-> "link", user |-> r.user, sub |-> r.want] \in Linking
      BY <2>2 DEF Linking
    <3> QED
      BY <2>2, <3>1 DEF Put, Request
  <2>3. CASE r.field # "verified" /\ ~(r.field = "google" /\ r.want # None)
    BY <2>3 DEF Put, Request, Idle
  <2> QED
    BY <2>1, <2>2, <2>3
<1>4. req' \in [Clients -> Request] /\ req'[c] = q /\ \A d \in Clients \ {c} : req'[d] = req[d]
  BY <1>3, GotoKeeps
<1>5. index' \in [Spaces -> [Handles -> Users \cup {None}]]
  BY <1>1, ReindexedAt
<1>6. record' \in [Users -> Record \cup {None}] /\ \A u \in Users : record'[u] = IF u = r.user THEN Changed(r) ELSE record[u]
  BY <1>1, <1>2 DEF TypeOK
<1>7. \A u \in Live' : RecOK(record'[u])
  BY <1>2, <1>6 DEF TypeOK, Live
<1>8. raced' \in BOOLEAN
  BY <1>1 DEF TypeOK
<1>9. TypeOK'
  BY <1>1, <1>4, <1>5, <1>6, <1>7, <1>8 DEF TypeOK, RecOK
<1> QED
  BY <1>1, <1>2, <1>3, <1>4, <1>9 DEF At

\* A write of a record that was not stale: the new handle was nobody's, the old one
\* was this user's alone, so users and indexes go on agreeing.
LEMMA PutSettles ==
  ASSUME TypeOK, Settled, NEW c \in Clients, At(c) = "write",
         NEW r, r.user \in Users, r.field \in Changes, RecOK(r.rec), record[r.user] = r.rec,
         r.field \in Fields => r.want \in Handles \cup {None},
         r.field \in {"google", "verified"} => r.want \in Names \cup {None},
         r.field = "altEmail" => r.want # r.rec.email,
         r.field = "verified" => r.want # None,
         r.want # None /\ r.field \notin {"touch", "verified", "google"} =>
            /\ index[SpaceOf(r.field)][r.want] = None
            /\ \A v \in Live, g \in Fields : SpaceOf(g) = SpaceOf(r.field) => record[v][g] # r.want,
         Put(c, r)
  PROVE  Settled'
<1> DEFINE u == r.user
           f == r.field
           w == r.want
           old == r.rec[r.field]
           still == f \in {"touch", "verified", "google"}
<1>1. /\ record' = [record EXCEPT ![u] = Changed(r)] /\ index' = Reindexed(r)
      /\ Changed(r) # None /\ At(c)' \in {"idle", "read", "link"}
      /\ At(c)' = "link" => f = "google" /\ w # None /\ req'[c].user = u /\ req'[c].sub = w
      /\ f = "google" /\ w # None => At(c)' = "link"
      /\ \A d \in Clients \ {c} : req'[d] = req[d]
  BY PutType DEF Put
<1>2. \A s \in Spaces, h \in Handles :
        index'[s][h] = IF still \/ s # SpaceOf(f) THEN index[s][h]
                       ELSE IF h = w THEN u ELSE IF h = old THEN None ELSE index[s][h]
  BY <1>1, ReindexedAt
<1>3. /\ record[u] = r.rec /\ u \in Live /\ Live' = Live
      /\ \A v \in Live \ {u} : record'[v] = record[v]
      /\ record'[u] = Changed(r)
      /\ f \in Fields => record'[u][f] = w
      /\ \A g \in Fields \ {f} : record'[u][g] = record[u][g]
  <2>1. r.rec # None
    BY RecordAssumption DEF RecOK
  <2>2. \A v \in Users : record'[v] = IF v = u THEN Changed(r) ELSE record[v]
    BY <1>1 DEF TypeOK
  <2>3. u \in Live /\ Live' = Live
    BY <1>1, <2>1, <2>2 DEF Live
  <2>4. record'[u] = Changed(r)
    BY <2>2
  <2> QED
    BY <2>2, <2>3, <2>4, ChangedOK DEF Live
<1>4. \A d \in Clients : /\ At(d) \in {"link", "drop"} => d # c
                         /\ d # c => req'[d] = req[d] /\ At(d)' = At(d)
                         /\ At(d)' = "drop" => d # c
  BY <1>1 DEF At
<1>5. \A v \in Live, g \in Fields : record[v][g] \in Handles \cup {None}
  BY DEF TypeOK, RecOK
<1>6. None \notin Handles
  BY AccountsAssumption DEF Handles
<1>7. \A g \in Fields : SpaceOf(g) \in Spaces /\ (SpaceOf(g) = "google" <=> g = "google")
                        /\ (SpaceOf(g) = "code" <=> g = "code")
  BY DEF SpaceOf, Spaces, Fields
<1>8. f \in Fields \cup {"touch", "verified"} /\ f # "email"
  BY DEF Changes
<1> USE DEF Settled
<1> HIDE DEF u, f, w, old, still
\* Nobody else holds the old handle, and u holds it as no other field.
<1>9. ASSUME ~still, NEW v \in Live, NEW g \in Fields, SpaceOf(g) = SpaceOf(f), g # "code", v # u \/ g # f,
             record[v][g] # None
      PROVE  record[v][g] # old
  <2>1. f \in Fields /\ f # "google" /\ f # "code" /\ g # "google"
    BY <1>7, <1>8, <1>9 DEF still
  <2>2. old = record[u][f]
    BY <1>3 DEF old, f
  <2>3. CASE v # u
    <3>1. index[SpaceOf(f)][record[v][g]] = v
      BY <1>9, <2>1 DEF Resolved
    <3>2. old # None => index[SpaceOf(f)][old] = u
      BY <1>3, <2>1, <2>2 DEF Resolved
    <3> QED
      BY <1>9, <2>3, <3>1, <3>2
  <2>4. CASE v = u
    <3>1. g = "email" /\ f = "altEmail"
      BY <1>8, <1>9, <2>1, <2>4 DEF SpaceOf, Fields
    <3>2. RecOK(record[u])
      BY <1>3 DEF TypeOK
    <3> QED
      BY <1>9, <2>2, <2>4, <3>1, <3>2 DEF RecOK
  <2> QED
    BY <2>3, <2>4
\* Nobody holds the new one.
<1>10. ASSUME ~still, NEW v \in Live, NEW g \in Fields, SpaceOf(g) = SpaceOf(f), record[v][g] # None
       PROVE  record[v][g] # w
  BY <1>10 DEF still, f, w
<1>11. Resolved'
  <2> SUFFICES ASSUME NEW v \in Live, NEW g \in Fields \ {"code"}, record'[v][g] # None
               PROVE  \/ index'[SpaceOf(g)][record'[v][g]] = v
                      \/ g = "google" /\ \E d \in Clients : At(d)' = "link" /\ req'[d].user = v /\ req'[d].sub = record'[v][g]
    BY <1>3 DEF Resolved
  <2>1. CASE v = u /\ g = f
    <3>1. record'[v][g] = w /\ w # None
      BY <1>3, <2>1
    <3>2. CASE f = "google"
      BY <1>1, <2>1, <3>1, <3>2 DEF f, w, u
    <3>3. CASE f # "google"
      <4>1. ~still /\ w \in Handles
        BY <2>1, <3>1, <3>3 DEF still, f, w, Fields
      <4> QED
        BY <1>2, <1>7, <2>1, <3>1, <4>1
    <3> QED
      BY <3>2, <3>3
  <2>2. CASE v # u \/ g # f
    <3>1. record'[v][g] = record[v][g] /\ record[v][g] \in Handles
      BY <1>3, <1>5, <2>2
    <3>2. index'[SpaceOf(g)][record[v][g]] = index[SpaceOf(g)][record[v][g]]
      BY <1>2, <1>7, <1>9, <1>10, <2>2, <3>1
    <3>3. \/ index[SpaceOf(g)][record[v][g]] = v
          \/ g = "google" /\ \E d \in Clients : At(d) = "link" /\ req[d].user = v /\ req[d].sub = record[v][g]
      BY <3>1 DEF Resolved
    <3> QED
      BY <1>4, <3>1, <3>2, <3>3
  <2> QED
    BY <2>1, <2>2
<1>12. Held'
  <2> SUFFICES ASSUME NEW s \in Spaces \ {"google"}, NEW h \in Handles, index'[s][h] # None
               PROVE  \/ index'[s][h] \in Live /\ \E g \in Fields : SpaceOf(g) = s /\ record'[index'[s][h]][g] = h
                      \/ \E d \in Clients : /\ At(d)' = "drop" /\ req'[d].user = index'[s][h]
                                            /\ \E g \in req'[d].todo : SpaceOf(g) = s /\ req'[d].rec[g] = h
    BY <1>3 DEF Held
  <2>1. CASE ~still /\ s = SpaceOf(f) /\ h = w
    <3>1. index'[s][h] = u /\ f \in Fields
      BY <1>2, <1>8, <2>1 DEF still
    <3> QED
      BY <1>3, <2>1, <3>1
  <2>2. CASE still \/ s # SpaceOf(f) \/ h # w
    <3>1. index'[s][h] = index[s][h] /\ (~still /\ s = SpaceOf(f) => h # old)
      BY <1>2, <2>2
    <3>2. CASE \E d \in Clients : /\ At(d) = "drop" /\ req[d].user = index[s][h]
                                  /\ \E g \in req[d].todo : SpaceOf(g) = s /\ req[d].rec[g] = h
      BY <1>4, <3>1, <3>2
    <3>3. CASE index[s][h] \in Live /\ \E g \in Fields : SpaceOf(g) = s /\ record[index[s][h]][g] = h
      <4>1. PICK g \in Fields : SpaceOf(g) = s /\ record[index[s][h]][g] = h
        BY <3>3
      <4>2. index[s][h] = u => g # f
        <5>1. ASSUME index[s][h] = u, g = f PROVE FALSE
          <6>1. ~still /\ s = SpaceOf(f)
            BY <1>7, <4>1, <5>1 DEF still, Fields
          <6>2. old = record[u][f]
            BY <1>3 DEF old, f
          <6> QED
            BY <3>1, <4>1, <5>1, <6>1, <6>2
        <5> QED
          BY <5>1
      <4>3. record'[index[s][h]][g] = h
        BY <1>3, <3>3, <4>1, <4>2
      <4> QED
        BY <3>1, <3>3, <4>1, <4>3
    <3> QED
      BY <3>1, <3>2, <3>3 DEF Held
  <2> QED
    BY <2>1, <2>2
<1>13. DroppedAreGone'
  BY <1>3, <1>4 DEF DroppedAreGone
<1> QED
  BY <1>11, <1>12, <1>13

\* What every step of one request promises: the types, and while nothing went wrong,
\* that users and indexes agree.
StepOK == TypeOK' /\ (Settled /\ ~raced' /\ ~torn' => Settled')

\* A step of a request that writes nothing.
LEMMA QuietOK ==
  ASSUME TypeOK, NEW c \in Clients, NEW r \in Request, Goto(c, r), UNCHANGED <<record, index>>,
         At(c) \notin {"link", "drop"}, r.at \notin {"link", "drop"},
         raced' \in BOOLEAN, torn' \in BOOLEAN, left' \in 0 .. Requests
  PROVE  StepOK
<1>1. req' \in [Clients -> Request]
  BY GotoKeeps
<1>2. Live' = Live
  BY DEF Live
<1>3. TypeOK'
  BY <1>1, <1>2 DEF TypeOK
<1> QED
  BY <1>3, QuietKeeps DEF StepOK

\* Creating a user: new to every index and every request, and its address resolved
\* to nobody.
LEMMA CreateOK == ASSUME TypeOK, NEW c \in Clients, Create(c) PROVE StepOK
<1> DEFINE r == req[c]
<1>1. PICK u \in FreshId, ics \in Fresh("ics"), mail \in Fresh("mail") :
        /\ At(c) = "create"
        /\ record' = [record EXCEPT ![u] = NewUser(r.email, ics, mail, r.verified)]
        /\ index' = [index EXCEPT !["email"][r.email] = u, !["ics"][ics] = u, !["mail"][mail] = u]
        /\ IF r.sub = None THEN Goto(c, Idle)
           ELSE Goto(c, [at |-> "read", user |-> u, field |-> "google", want |-> r.sub])
        /\ raced' = (raced \/ r.known \/ Find("email", r.email) # None)
        /\ UNCHANGED <<left, torn>>
  BY DrawnIn DEF Create
<1>2. /\ r.email \in Addresses /\ r.sub \in Names \cup {None} /\ r.verified \in BOOLEAN /\ r.known \in BOOLEAN
      /\ u \in Users \ Live /\ ics \in Secrets /\ mail \in Secrets
      /\ index["ics"][ics] = None /\ index["mail"][mail] = None
      /\ \A v \in Live : record[v]["ics"] # ics /\ record[v]["mail"] # mail
      /\ \A s \in Spaces, h \in Handles : index[s][h] # u
      /\ \A d \in Clients : "user" \in DOMAIN req[d] => req[d].user # u
  BY <1>1, ReqKinds DEF FreshId, Fresh, Asking
<1> DEFINE n == NewUser(r.email, ics, mail, r.verified)
<1>3. /\ RecOK(n) /\ n # None /\ n.email = r.email /\ n.ics = ics /\ n.mail = mail
      /\ \A f \in Fields \ {"email", "ics", "mail"} : n[f] = None
  BY <1>2, NewUserOK
<1>4. \A v \in Users : record'[v] = IF v = u THEN n ELSE record[v]
  BY <1>1, <1>2 DEF TypeOK
<1>5. record' \in [Users -> Record \cup {None}]
  BY <1>1, <1>2, <1>3 DEF TypeOK, RecOK
<1>6. "email" \in Spaces /\ "ics" \in Spaces /\ "mail" \in Spaces
      /\ r.email \in Handles /\ ics \in Handles /\ mail \in Handles
  BY <1>2 DEF Spaces, Fields, Handles
<1> HIDE DEF n, r
<1>7. /\ index' \in [Spaces -> [Handles -> Users \cup {None}]]
      /\ \A s \in Spaces, h \in Handles :
           index'[s][h] = IF (s = "email" /\ h = r.email) \/ (s = "ics" /\ h = ics) \/ (s = "mail" /\ h = mail)
                          THEN u ELSE index[s][h]
  <2> DEFINE T == [Handles -> Users \cup {None}]
             e == [index["email"] EXCEPT ![r.email] = u]
             i == [index["ics"] EXCEPT ![ics] = u]
             m == [index["mail"] EXCEPT ![mail] = u]
  <2>1. index \in [Spaces -> T]
    BY DEF TypeOK
  <2>2. e \in T /\ i \in T /\ m \in T
    BY <1>2, <1>6, <2>1
  <2>3. /\ \A h \in Handles : e[h] = IF h = r.email THEN u ELSE index["email"][h]
        /\ \A h \in Handles : i[h] = IF h = ics THEN u ELSE index["ics"][h]
        /\ \A h \in Handles : m[h] = IF h = mail THEN u ELSE index["mail"][h]
    BY <1>6, <2>1
  <2>4. index' = [index EXCEPT !["email"] = e, !["ics"] = i, !["mail"] = m]
    BY <1>1 DEF r
  <2> HIDE DEF T, e, i, m
  <2>5. /\ index' \in [Spaces -> T]
        /\ \A s \in Spaces : index'[s] = IF s = "email" THEN e ELSE IF s = "ics" THEN i
                                         ELSE IF s = "mail" THEN m ELSE index[s]
    BY <1>6, <2>1, <2>2, <2>4
  <2> QED
    BY <2>3, <2>5 DEF T
<1>8. /\ req' \in [Clients -> Request] /\ At(c)' \in {"idle", "read"}
      /\ \A d \in Clients \ {c} : req'[d] = req[d]
  <2>1. CASE r.sub = None
    BY <1>1, <2>1, GotoKeeps DEF r, Request, Idle, At
  <2>2. CASE r.sub # None
    <3> DEFINE q == [at |-> "read", user |-> u, field |-> "google", want |-> r.sub]
    <3>1. q \in Reading
      BY <1>2, <2>2 DEF Reading, WantOK, Changes, Fields, r
    <3>2. Goto(c, q) /\ q \in Request /\ q.at = "read"
      BY <1>1, <2>2, <3>1 DEF r, Request
    <3> HIDE DEF q
    <3> QED
      BY <3>2, GotoKeeps DEF At
  <2> QED
    BY <2>1, <2>2
<1>9. Live' = Live \cup {u}
  BY <1>2, <1>3, <1>4 DEF Live
<1>10. TypeOK'
  <2>1. \A v \in Live' : RecOK(record'[v])
    BY <1>3, <1>4, <1>9 DEF TypeOK, Live
  <2>2. raced' \in BOOLEAN
    BY <1>1 DEF TypeOK
  <2> QED
    BY <1>1, <1>5, <1>7, <1>8, <2>1, <2>2 DEF TypeOK, RecOK
<1>11. ASSUME Settled, ~raced' PROVE Settled'
  <2> USE <1>11 DEF Settled
  <2>1. \A d \in Clients : /\ At(d) \in {"link", "drop"} => d # c
                           /\ d # c => req'[d] = req[d] /\ At(d)' = At(d)
                           /\ At(d)' \in {"link", "drop"} => d # c
    BY <1>1, <1>8 DEF At
  <2>2. index["email"][r.email] \notin Live
    <3>1. Find("email", r.email) = None
      BY <1>1 DEF r
    <3>2. None \notin Live
      BY AccountsAssumption DEF Live
    <3> QED
      BY <3>1, <3>2 DEF Find
  <2>3. \A v \in Live, g \in Fields : record[v][g] \in Handles \cup {None}
    BY DEF TypeOK, RecOK
  <2>4. None \notin Handles
    BY AccountsAssumption DEF Handles
  <2>5. \A g \in Fields : /\ SpaceOf(g) \in Spaces /\ (SpaceOf(g) = "google" => g = "google")
                          /\ SpaceOf("email") = "email" /\ SpaceOf("ics") = "ics" /\ SpaceOf("mail") = "mail"
                          /\ SpaceOf(g) = "ics" => g = "ics"
                          /\ SpaceOf(g) = "mail" => g = "mail"
                          /\ SpaceOf(g) = "email" => g # "google"
    BY DEF SpaceOf, Spaces, Fields
  <2>6. \A v \in Live : v # u /\ record'[v] = record[v]
    BY <1>2, <1>4 DEF Live
  <2>7. record'[u] = n
    BY <1>2, <1>4
  <2>8. Resolved'
    <3> SUFFICES ASSUME NEW v \in Live', NEW g \in Fields \ {"code"}, record'[v][g] # None
                 PROVE  \/ index'[SpaceOf(g)][record'[v][g]] = v
                        \/ g = "google" /\ \E d \in Clients : At(d)' = "link" /\ req'[d].user = v /\ req'[d].sub = record'[v][g]
      BY DEF Resolved
    <3>1. CASE v = u
      <4>1. g \in {"email", "ics", "mail"}
        BY <1>3, <2>7, <3>1
      <4> QED
        BY <1>3, <1>6, <1>7, <2>5, <2>7, <3>1, <4>1
    <3>2. CASE v \in Live
      <4>1. record'[v][g] = record[v][g] /\ record[v][g] \in Handles
        BY <2>3, <2>6, <3>2
      <4>2. \/ index[SpaceOf(g)][record[v][g]] = v
            \/ g = "google" /\ \E d \in Clients : At(d) = "link" /\ req[d].user = v /\ req[d].sub = record[v][g]
        BY <3>2, <4>1 DEF Resolved
      <4>3. ~(SpaceOf(g) = "email" /\ record[v][g] = r.email)
        BY <2>2, <2>5, <3>2, <4>2
      <4>4. ~(SpaceOf(g) = "ics" /\ record[v][g] = ics) /\ ~(SpaceOf(g) = "mail" /\ record[v][g] = mail)
        BY <1>2, <2>5, <3>2
      <4>5. index'[SpaceOf(g)][record[v][g]] = index[SpaceOf(g)][record[v][g]]
        BY <1>7, <2>5, <4>1, <4>3, <4>4
      <4> QED
        BY <2>1, <4>1, <4>2, <4>5
    <3> QED
      BY <1>9, <3>1, <3>2
  <2>9. Held'
    <3> SUFFICES ASSUME NEW s \in Spaces \ {"google"}, NEW h \in Handles, index'[s][h] # None
                 PROVE  \/ index'[s][h] \in Live' /\ \E g \in Fields : SpaceOf(g) = s /\ record'[index'[s][h]][g] = h
                        \/ \E d \in Clients : /\ At(d)' = "drop" /\ req'[d].user = index'[s][h]
                                              /\ \E g \in req'[d].todo : SpaceOf(g) = s /\ req'[d].rec[g] = h
      BY DEF Held
    <3>1. CASE (s = "email" /\ h = r.email) \/ (s = "ics" /\ h = ics) \/ (s = "mail" /\ h = mail)
      <4>1. index'[s][h] = u /\ u \in Live'
        BY <1>7, <1>9, <3>1
      <4>2. s \in Fields /\ SpaceOf(s) = s /\ n[s] = h
        BY <1>3, <2>5, <3>1 DEF Fields
      <4> QED
        BY <2>7, <4>1, <4>2
    <3>2. CASE ~((s = "email" /\ h = r.email) \/ (s = "ics" /\ h = ics) \/ (s = "mail" /\ h = mail))
      <4>1. index'[s][h] = index[s][h]
        BY <1>7, <3>2
      <4> QED
        BY <1>9, <2>1, <2>6, <4>1 DEF Held
    <3> QED
      BY <3>1, <3>2
  <2>10. DroppedAreGone'
    <3> SUFFICES ASSUME NEW d \in Clients, At(d)' = "drop" PROVE req'[d].user \notin Live'
      BY DEF DroppedAreGone
    <3>1. d # c /\ req'[d] = req[d] /\ At(d) = "drop"
      BY <2>1
    <3>2. req[d].user # u
      BY <1>2, <3>1, ReqKinds
    <3> QED
      BY <1>9, <3>1, <3>2 DEF DroppedAreGone
  <2> QED
    BY <2>8, <2>9, <2>10
<1> QED
  BY <1>10, <1>11 DEF StepOK

\* The record of a change written back: refused when the handle is taken.
LEMMA WriteOK == ASSUME TypeOK, NEW c \in Clients, Write(c) PROVE StepOK
<1> DEFINE r == req[c]
<1>1. /\ At(c) = "write" /\ r \in Writing
      /\ r.user \in Users /\ r.field \in Changes /\ WantOK(r.field, r.want) /\ RecOK(r.rec)
      /\ r.field = "altEmail" => r.want # r.rec.email
  BY ReqKinds DEF Write, Writing
<1>2. None \notin Handles /\ None \notin Names
  BY AccountsAssumption DEF Handles
<1>3. CASE Goto(c, Idle) /\ UNCHANGED <<record, index, left, raced, torn>>
  <2>1. Idle \in Request /\ Idle.at \notin {"link", "drop"} /\ At(c) \notin {"link", "drop"}
    BY <1>1 DEF Idle, Request
  <2>2. raced' \in BOOLEAN /\ torn' \in BOOLEAN /\ left' \in 0 .. Requests
    BY <1>3 DEF TypeOK
  <2> QED
    BY <1>3, <2>1, <2>2, QuietOK
<1>4. CASE ~Taken(r) /\ r.field \notin Rotated /\ Put(c, r)
  <2>1. /\ r.field \in Fields => r.want \in Handles \cup {None}
        /\ r.field \in {"google", "verified"} => r.want \in Names \cup {None}
        /\ r.field = "verified" => r.want # None
    BY <1>1, <1>2, <1>4 DEF WantOK, Changes, Fields, Handles, Rotated
  <2>2. TypeOK'
    BY <1>1, <1>4, <2>1, PutType
  <2>3. ASSUME Settled, ~raced' PROVE Settled'
    <3>1. record[r.user] = r.rec
      BY <1>4, <2>3 DEF Put
    <3>2. ASSUME r.want # None, r.field \notin {"touch", "verified", "google"}
          PROVE  /\ index[SpaceOf(r.field)][r.want] = None
                 /\ \A v \in Live, g \in Fields : SpaceOf(g) = SpaceOf(r.field) => record[v][g] # r.want
      <4>1. r.field \in Claimed
        BY <1>1, <1>4, <3>2 DEF Claimed, Rotated, Changes, Fields
      <4>2. index[SpaceOf(r.field)][r.want] = None
        BY <1>4, <3>2, <4>1 DEF Taken
      <4>3. ASSUME NEW v \in Live, NEW g \in Fields, SpaceOf(g) = SpaceOf(r.field), record[v][g] = r.want
            PROVE  FALSE
        <5>1. g # "code" /\ g # "google"
          BY <4>1, <4>3 DEF SpaceOf, Claimed
        <5>2. index[SpaceOf(g)][record[v][g]] = v
          BY <2>3, <3>2, <4>3, <5>1 DEF Settled, Resolved
        <5> QED
          BY <4>2, <4>3, <5>2, AccountsAssumption DEF Live
      <4> QED
        BY <4>2, <4>3
    <3> HIDE DEF r
    <3> QED
      BY <1>1, <1>4, <2>1, <2>3, <3>1, <3>2, PutSettles
  <2> QED
    BY <2>2, <2>3 DEF StepOK
<1>5. CASE r.field \in Rotated /\ Fresh(r.field) # {} /\ Put(c, [r EXCEPT !.want = Drawn(Fresh(r.field))])
  <2>1. PICK h \in Fresh(r.field) : Put(c, [r EXCEPT !.want = h])
    BY <1>5, DrawnIn
  <2> DEFINE q == [r EXCEPT !.want = h]
  <2>2. q.user = r.user /\ q.field = r.field /\ q.rec = r.rec /\ q.want = h
    BY <1>1 DEF Writing
  <2>3. /\ h \in Secrets /\ h \in Handles /\ index[r.field][h] = None
        /\ \A v \in Live : record[v][r.field] # h
    BY DEF Fresh, Handles
  <2>4. Put(c, q)
    BY <2>1
  <2> HIDE DEF q, r
  <2>5. r.field \notin {"google", "verified", "altEmail"}
    BY <1>5 DEF Rotated
  <2>6. TypeOK'
    BY <1>1, <2>2, <2>3, <2>4, <2>5, PutType
  <2>7. ASSUME Settled, ~raced' PROVE Settled'
    <3>1. record[q.user] = q.rec
      BY <2>4, <2>7 DEF Put
    <3>2. SpaceOf(q.field) = r.field /\ \A g \in Fields : SpaceOf(g) = SpaceOf(q.field) => g = r.field
      BY <1>5, <2>2 DEF SpaceOf, Rotated
    <3>3. /\ index[SpaceOf(q.field)][q.want] = None
          /\ \A v \in Live, g \in Fields : SpaceOf(g) = SpaceOf(q.field) => record[v][g] # q.want
      BY <2>2, <2>3, <3>2
    <3> QED
      BY <1>1, <2>2, <2>3, <2>4, <2>5, <2>7, <3>1, <3>3, PutSettles
  <2> QED
    BY <2>6, <2>7 DEF StepOK
<1> QED
  BY <1>1, <1>3, <1>4, <1>5 DEF Write

\* The second write of a Google link takes the entry of nobody else who has the subject.
LEMMA IndexSubOK == ASSUME TypeOK, NEW c \in Clients, IndexSub(c) PROVE StepOK
<1> DEFINE r == req[c]
           holder == Find("google", r.sub)
<1>1. /\ At(c) = "link" /\ r.user \in Users /\ r.sub \in Names
      /\ index' = [index EXCEPT !["google"][r.sub] = r.user]
      /\ raced' = (raced \/ (holder \notin {None, r.user} /\ record[holder].google = r.sub))
      /\ Goto(c, Idle)
      /\ UNCHANGED <<record, left, torn>>
  BY ReqKinds DEF IndexSub, Linking
<1>2. Idle \in Request /\ Idle.at = "idle" /\ "google" \in Spaces /\ r.sub \in Handles
  BY <1>1 DEF Request, Idle, Spaces, Fields, Handles
<1>3. req' \in [Clients -> Request] /\ At(c)' = "idle" /\ \A d \in Clients \ {c} : req'[d] = req[d] /\ At(d)' = At(d)
  BY <1>1, <1>2, GotoKeeps DEF At
<1> HIDE DEF holder, r
<1>4. /\ index' \in [Spaces -> [Handles -> Users \cup {None}]]
      /\ \A t \in Spaces, k \in Handles : index'[t][k] = IF t = "google" /\ k = r.sub THEN r.user ELSE index[t][k]
  <2>1. r.user \in Users \cup {None} /\ index' = [index EXCEPT !["google"][r.sub] = r.user]
    BY <1>1
  <2> QED
    BY <1>2, <2>1, EntryPut
<1>5. Live' = Live
  BY <1>1 DEF Live
<1>6. raced' \in BOOLEAN
  BY <1>1 DEF TypeOK
<1>7. TypeOK'
  BY <1>1, <1>3, <1>4, <1>5, <1>6 DEF TypeOK
<1>8. ASSUME Settled, ~raced' PROVE Settled'
  <2> USE <1>8 DEF Settled
  <2>1. \A v \in Live, g \in Fields : record[v][g] \in Handles \cup {None}
    BY DEF TypeOK, RecOK
  <2>2. None \notin Live
    BY AccountsAssumption DEF Live
  <2>3. Resolved'
    <3> SUFFICES ASSUME NEW v \in Live, NEW g \in Fields \ {"code"}, record[v][g] # None
                 PROVE  \/ index'[SpaceOf(g)][record[v][g]] = v
                        \/ g = "google" /\ \E d \in Clients : At(d)' = "link" /\ req'[d].user = v /\ req'[d].sub = record[v][g]
      BY <1>1, <1>5 DEF Resolved
    <3>1. /\ record[v][g] \in Handles /\ SpaceOf(g) \in Spaces /\ (SpaceOf(g) = "google" <=> g = "google")
      BY <2>1 DEF SpaceOf, Spaces, Fields
    <3>2. \/ index[SpaceOf(g)][record[v][g]] = v
          \/ g = "google" /\ \E d \in Clients : At(d) = "link" /\ req[d].user = v /\ req[d].sub = record[v][g]
      BY <3>1 DEF Resolved
    <3>3. CASE g = "google" /\ record[v][g] = r.sub
      <4>1. CASE v = r.user
        BY <1>4, <3>1, <3>3, <4>1
      <4>2. CASE v # r.user
        <5>1. index["google"][r.sub] # v
          <6>1. ASSUME index["google"][r.sub] = v PROVE FALSE
            <7>1. holder = v
              BY <6>1 DEF Find, holder
            <7> QED
              BY <1>1, <1>8, <2>2, <3>3, <4>2, <7>1 DEF r
          <6> QED
            BY <6>1
        <5>2. PICK d \in Clients : At(d) = "link" /\ req[d].user = v /\ req[d].sub = record[v][g]
          BY <3>1, <3>2, <3>3, <5>1
        <5>3. d # c
          BY <4>2, <5>2 DEF r
        <5> QED
          BY <1>3, <3>3, <5>2, <5>3
      <4> QED
        BY <4>1, <4>2
    <3>4. CASE ~(g = "google" /\ record[v][g] = r.sub)
      <4>1. index'[SpaceOf(g)][record[v][g]] = index[SpaceOf(g)][record[v][g]]
        BY <1>4, <3>1, <3>4
      <4>2. \A d \in Clients : g = "google" /\ req[d].sub = record[v][g] => d # c
        BY <3>4 DEF r
      <4> QED
        BY <1>3, <3>2, <4>1, <4>2
    <3> QED
      BY <3>3, <3>4
  <2>4. Held'
    <3>1. \A s \in Spaces \ {"google"}, h \in Handles : index'[s][h] = index[s][h]
      BY <1>4
    <3>2. \A d \in Clients : At(d) = "drop" => d # c
      BY <1>1
    <3> QED
      BY <1>1, <1>3, <1>5, <3>1, <3>2 DEF Held
  <2>5. DroppedAreGone'
    <3>1. \A d \in Clients : At(d)' = "drop" => d # c
      BY <1>3
    <3> QED
      BY <1>3, <1>5, <3>1 DEF DroppedAreGone
  <2> QED
    BY <2>3, <2>4, <2>5
<1> QED
  BY <1>7, <1>8 DEF StepOK

\* An entry of a LINE code goes: nobody's handle is lost with it.
LEMMA CodeGoes ==
  ASSUME TypeOK, NEW code \in Secrets, index' = [index EXCEPT !["code"][code] = None], UNCHANGED record,
         \A d \in Clients : /\ At(d) \in {"link", "drop"} => req'[d] = req[d]
  PROVE  /\ index' \in [Spaces -> [Handles -> Users \cup {None}]]
         /\ Resolved => Resolved'
         /\ Held => Held'
<1>1. "code" \in Spaces /\ code \in Handles
  BY DEF Spaces, Fields, Handles
<1>2. /\ index' \in [Spaces -> [Handles -> Users \cup {None}]]
      /\ \A t \in Spaces, k \in Handles : index'[t][k] = IF t = "code" /\ k = code THEN None ELSE index[t][k]
  BY <1>1, EntryPut
<1>3. Live' = Live
  BY DEF Live
<1>4. \A d \in Clients : At(d) \in {"link", "drop"} => At(d)' = At(d)
  BY DEF At
<1>5. ASSUME Resolved PROVE Resolved'
  <2>1. \A v \in Live, g \in Fields : record[v][g] \in Handles \cup {None}
    BY DEF TypeOK, RecOK
  <2>2. \A g \in Fields \ {"code"} : SpaceOf(g) \in Spaces /\ SpaceOf(g) # "code"
    BY DEF SpaceOf, Spaces, Fields
  <2>3. \A v \in Live, g \in Fields \ {"code"} : record[v][g] # None =>
           index'[SpaceOf(g)][record[v][g]] = index[SpaceOf(g)][record[v][g]]
    BY <1>2, <2>1, <2>2
  <2> QED
    BY <1>3, <1>4, <1>5, <2>3 DEF Resolved
<1>6. ASSUME Held PROVE Held'
  <2>1. \A s \in Spaces, h \in Handles : index'[s][h] # None => index'[s][h] = index[s][h]
    BY <1>2
  <2> QED
    BY <1>3, <1>4, <1>6, <2>1 DEF Held
<1> QED
  BY <1>2, <1>5, <1>6

LEMMA BurnCodeOK == ASSUME TypeOK, NEW c \in Clients, BurnCode(c) PROVE StepOK
<1>1. PICK q \in Request, code \in Secrets :
        /\ At(c) = "burn" /\ Goto(c, q) /\ q.at = "read"
        /\ index' = [index EXCEPT !["code"][code] = None]
        /\ UNCHANGED <<record, left, raced, torn>>
  <2>1. At(c) = "burn" /\ req[c].code \in Secrets /\ req[c].user \in Users /\ req[c].line \in Names
    BY ReqKinds DEF BurnCode, Burning
  <2>2. [at |-> "read", user |-> req[c].user, field |-> "line", want |-> req[c].line] \in Request
    BY <2>1 DEF Request, Reading, WantOK, Changes, Fields
  <2> QED
    BY <2>1, <2>2 DEF BurnCode
<1>2. /\ req' \in [Clients -> Request] /\ At(c)' = "read"
      /\ \A d \in Clients \ {c} : req'[d] = req[d] /\ At(d)' = At(d)
  BY <1>1, GotoKeeps DEF At
<1>3. Live' = Live
  BY <1>1 DEF Live
<1>4. /\ index' \in [Spaces -> [Handles -> Users \cup {None}]]
      /\ Resolved => Resolved'
      /\ Held => Held'
  <2>1. \A d \in Clients : At(d) \in {"link", "drop"} => req'[d] = req[d]
    BY <1>1, <1>2
  <2> QED
    BY <1>1, <2>1, CodeGoes
<1>5. TypeOK'
  BY <1>1, <1>2, <1>3, <1>4 DEF TypeOK
<1>6. DroppedAreGone => DroppedAreGone'
  <2>1. \A d \in Clients : At(d)' = "drop" => d # c
    BY <1>2
  <2> QED
    BY <1>2, <1>3, <2>1 DEF DroppedAreGone
<1> QED
  BY <1>4, <1>5, <1>6 DEF StepOK, Settled

LEMMA CodeExpiresOK == ASSUME TypeOK, NEW code \in Secrets, CodeExpires(code) PROVE StepOK
<1>1. /\ index' = [index EXCEPT !["code"][code] = None]
      /\ UNCHANGED <<record, req, left, raced, torn>>
  BY DEF CodeExpires
<1>2. Live' = Live
  BY <1>1 DEF Live
<1>3. /\ index' \in [Spaces -> [Handles -> Users \cup {None}]]
      /\ Resolved => Resolved'
      /\ Held => Held'
  BY <1>1, CodeGoes
<1>4. TypeOK'
  BY <1>1, <1>2, <1>3 DEF TypeOK
<1>5. DroppedAreGone => DroppedAreGone'
  BY <1>1, <1>2 DEF DroppedAreGone, At
<1> QED
  BY <1>3, <1>4, <1>5 DEF StepOK, Settled

\* The record goes first: its entries stay, and are all of them still to be dropped.
LEMMA DropUserOK == ASSUME TypeOK, NEW c \in Clients, DropUser(c) PROVE StepOK
<1> DEFINE r == req[c]
           q == [at |-> "drop", user |-> r.user, rec |-> r.rec, todo |-> Entries(r.rec)]
<1>1. /\ At(c) = "leave" /\ r.user \in Users /\ r.rec \in Record /\ RecOK(r.rec)
      /\ record' = [record EXCEPT ![r.user] = None]
      /\ raced' = (raced \/ record[r.user] # r.rec)
      /\ Goto(c, q)
      /\ UNCHANGED <<index, left, torn>>
  BY ReqKinds DEF DropUser, Leaving
<1>2. q \in Request
  BY <1>1 DEF Request, Dropping, Entries
<1>3. q.at = "drop" /\ q.user = r.user /\ q.rec = r.rec /\ q.todo = {f \in Fields : r.rec[f] # None}
  BY DEF Entries
<1> HIDE DEF q
<1>4. /\ req' \in [Clients -> Request] /\ At(c)' = "drop" /\ req'[c] = q
      /\ \A d \in Clients \ {c} : req'[d] = req[d] /\ At(d)' = At(d)
  BY <1>1, <1>2, <1>3, GotoKeeps DEF At
<1> HIDE DEF r
<1>5. \A v \in Users : record'[v] = IF v = r.user THEN None ELSE record[v]
  BY <1>1 DEF TypeOK
<1>6. Live' = Live \ {r.user}
  BY <1>5 DEF Live
<1>7. TypeOK'
  <2>1. record' \in [Users -> Record \cup {None}]
    BY <1>1 DEF TypeOK
  <2>2. \A v \in Live' : RecOK(record'[v])
    BY <1>5, <1>6 DEF TypeOK, Live
  <2>3. raced' \in BOOLEAN
    BY <1>1 DEF TypeOK
  <2> QED
    BY <1>1, <1>4, <2>1, <2>2, <2>3 DEF TypeOK, RecOK
<1>8. ASSUME Settled, ~raced' PROVE Settled'
  <2> USE <1>8 DEF Settled
  <2>1. record[r.user] = r.rec
    BY <1>1
  <2>2. \A v \in Live' : v \in Live /\ record'[v] = record[v]
    BY <1>5, <1>6 DEF Live
  <2>3. \A d \in Clients : At(d) \in {"link", "drop"} => d # c
    BY <1>1
  <2>4. Resolved'
    BY <1>1, <1>4, <2>2, <2>3 DEF Resolved
  <2>5. Held'
    <3> SUFFICES ASSUME NEW s \in Spaces \ {"google"}, NEW h \in Handles, index[s][h] # None
                 PROVE  \/ index[s][h] \in Live' /\ \E g \in Fields : SpaceOf(g) = s /\ record'[index[s][h]][g] = h
                        \/ \E d \in Clients : /\ At(d)' = "drop" /\ req'[d].user = index[s][h]
                                              /\ \E g \in req'[d].todo : SpaceOf(g) = s /\ req'[d].rec[g] = h
      BY <1>1 DEF Held
    <3>1. CASE \E d \in Clients : /\ At(d) = "drop" /\ req[d].user = index[s][h]
                                  /\ \E g \in req[d].todo : SpaceOf(g) = s /\ req[d].rec[g] = h
      BY <1>4, <2>3, <3>1
    <3>2. CASE index[s][h] \in Live /\ \E g \in Fields : SpaceOf(g) = s /\ record[index[s][h]][g] = h
      <4>1. PICK g \in Fields : SpaceOf(g) = s /\ record[index[s][h]][g] = h
        BY <3>2
      <4>2. CASE index[s][h] = r.user
        <5>1. r.rec[g] = h /\ h # None
          BY <2>1, <4>1, <4>2, AccountsAssumption DEF Handles
        <5>2. g \in req'[c].todo /\ req'[c].rec[g] = h /\ req'[c].user = index[s][h]
          BY <1>3, <1>4, <4>2, <5>1
        <5> QED
          BY <1>4, <4>1, <5>2
      <4>3. CASE index[s][h] # r.user
        BY <1>6, <2>2, <3>2, <4>1, <4>3
      <4> QED
        BY <4>2, <4>3
    <3> QED
      BY <3>1, <3>2 DEF Held
  <2>6. DroppedAreGone'
    <3> SUFFICES ASSUME NEW d \in Clients, At(d)' = "drop" PROVE req'[d].user \notin Live'
      BY DEF DroppedAreGone
    <3>1. CASE d = c
      BY <1>3, <1>4, <1>6, <3>1
    <3>2. CASE d # c
      BY <1>4, <1>6, <3>2 DEF DroppedAreGone
    <3> QED
      BY <3>1, <3>2
  <2> QED
    BY <2>4, <2>5, <2>6
<1> QED
  BY <1>7, <1>8 DEF StepOK

\* An entry goes that no live user has: what is left of the user who left is still
\* to be dropped.
LEMMA DropEntryOK == ASSUME TypeOK, NEW c \in Clients, DropEntry(c) PROVE StepOK
<1> DEFINE r == req[c]
<1>1. PICK f \in Fields, s \in Spaces, h \in Handles :
        /\ At(c) = "drop" /\ r \in Dropping /\ f \in r.todo /\ s = SpaceOf(f) /\ h = r.rec[f]
        /\ index' = [index EXCEPT ![s][h] = None]
        /\ raced' = (raced \/ index[s][h] \notin {None, r.user})
        /\ Goto(c, IF r.todo = {f} THEN Idle ELSE [r EXCEPT !.todo = @ \ {f}])
        /\ UNCHANGED <<record, left, torn>>
  <2>1. At(c) = "drop" /\ r \in Dropping
    BY ReqKinds DEF DropEntry
  <2>2. PICK i \in DOMAIN Order :
          LET s == SpaceOf(Order[i])
              h == r.rec[Order[i]]
          IN /\ Order[i] \in r.todo
             /\ index' = [index EXCEPT ![s][h] = None]
             /\ raced' = (raced \/ index[s][h] \notin {None, r.user})
             /\ Goto(c, IF r.todo = {Order[i]} THEN Idle ELSE [r EXCEPT !.todo = @ \ {Order[i]}])
    BY DEF DropEntry
  <2> DEFINE f == Order[i]
  <2>3. f \in r.todo
    BY <2>2
  <2> HIDE DEF f
  <2>4. f \in Fields /\ r.rec[f] \in Handles
    BY <2>1, <2>3 DEF Dropping, RecOK
  <2>5. SpaceOf(f) \in Spaces
    BY <2>4 DEF SpaceOf, Spaces, Fields
  <2> QED
    BY <2>1, <2>2, <2>3, <2>4, <2>5 DEF DropEntry, f
<1>2. PICK q \in Request : /\ Goto(c, q) /\ q.at \in {"idle", "drop"}
                           /\ q.at = "drop" => q.user = r.user
                           /\ r.todo # {f} => q.at = "drop" /\ q.todo = r.todo \ {f} /\ q.rec = r.rec
  <2>1. CASE r.todo = {f}
    BY <1>1, <2>1 DEF Request, Idle
  <2>2. CASE r.todo # {f}
    <3>1. [r EXCEPT !.todo = @ \ {f}] \in Dropping
      BY <1>1 DEF Dropping
    <3> QED
      BY <1>1, <2>2, <3>1 DEF Request, Dropping
  <2> QED
    BY <2>1, <2>2
<1>3. /\ req' \in [Clients -> Request] /\ At(c)' = q.at /\ req'[c] = q
      /\ \A d \in Clients \ {c} : req'[d] = req[d] /\ At(d)' = At(d)
  BY <1>2, GotoKeeps DEF At
<1>4. /\ index' \in [Spaces -> [Handles -> Users \cup {None}]]
      /\ \A t \in Spaces, k \in Handles : index'[t][k] = IF t = s /\ k = h THEN None ELSE index[t][k]
  <2>1. index' = [index EXCEPT ![s][h] = None] /\ None \in Users \cup {None}
    BY <1>1
  <2> QED
    BY <2>1, EntryPut
<1>5. Live' = Live
  BY <1>1 DEF Live
<1>6. raced' \in BOOLEAN
  BY <1>1 DEF TypeOK
<1>7. TypeOK'
  BY <1>1, <1>3, <1>4, <1>5, <1>6 DEF TypeOK
<1>8. ASSUME Settled, ~raced' PROVE Settled'
  <2> USE <1>8 DEF Settled
  <2>1. r.user \notin Live /\ index[s][h] \in {None, r.user}
    BY <1>1 DEF DroppedAreGone
  <2>2. Resolved'
    <3> SUFFICES ASSUME NEW v \in Live, NEW g \in Fields \ {"code"}, record[v][g] # None
                 PROVE  \/ index'[SpaceOf(g)][record[v][g]] = v
                        \/ g = "google" /\ \E d \in Clients : At(d)' = "link" /\ req'[d].user = v /\ req'[d].sub = record[v][g]
      BY <1>1, <1>5 DEF Resolved
    <3>1. record[v][g] \in Handles /\ SpaceOf(g) \in Spaces /\ v # None
      BY AccountsAssumption DEF TypeOK, RecOK, SpaceOf, Spaces, Fields, Live
    <3>2. \/ index[SpaceOf(g)][record[v][g]] = v
          \/ g = "google" /\ \E d \in Clients : At(d) = "link" /\ req[d].user = v /\ req[d].sub = record[v][g]
      BY <3>1 DEF Resolved
    <3>3. index[SpaceOf(g)][record[v][g]] = v => index'[SpaceOf(g)][record[v][g]] = v
      BY <1>4, <2>1, <3>1
    <3>4. \A d \in Clients : At(d) = "link" => d # c
      BY <1>1
    <3> QED
      BY <1>3, <3>2, <3>3, <3>4
  <2>3. Held'
    <3>0. record' = record
      BY <1>1
    <3> SUFFICES ASSUME NEW t \in Spaces \ {"google"}, NEW k \in Handles, index'[t][k] # None
                 PROVE  \/ index'[t][k] \in Live /\ \E g \in Fields : SpaceOf(g) = t /\ record[index'[t][k]][g] = k
                        \/ \E d \in Clients : /\ At(d)' = "drop" /\ req'[d].user = index'[t][k]
                                              /\ \E g \in req'[d].todo : SpaceOf(g) = t /\ req'[d].rec[g] = k
      BY <3>0, <1>5 DEF Held
    <3>1. index'[t][k] = index[t][k] /\ ~(t = s /\ k = h)
      BY <1>4
    <3>2. CASE index[t][k] \in Live /\ \E g \in Fields : SpaceOf(g) = t /\ record[index[t][k]][g] = k
      BY <3>1, <3>2
    <3>3. CASE \E d \in Clients : /\ At(d) = "drop" /\ req[d].user = index[t][k]
                                  /\ \E g \in req[d].todo : SpaceOf(g) = t /\ req[d].rec[g] = k
      <4>0. PICK d \in Clients : /\ At(d) = "drop" /\ req[d].user = index[t][k]
                                 /\ \E g \in req[d].todo : SpaceOf(g) = t /\ req[d].rec[g] = k
        BY <3>3
      <4>1. PICK g \in req[d].todo : SpaceOf(g) = t /\ req[d].rec[g] = k
        BY <4>0
      <4>2. CASE d # c
        BY <1>3, <3>1, <4>0, <4>1, <4>2
      <4>3. CASE d = c
        <5>1. g # f
          BY <1>1, <3>1, <4>1, <4>3
        <5>2. g \in r.todo \ {f} /\ r.todo # {f}
          BY <4>3, <5>1
        <5>3. q.at = "drop" /\ g \in q.todo /\ q.rec[g] = k /\ q.user = index[t][k]
          BY <1>2, <4>0, <4>1, <4>3, <5>2
        <5> QED
          BY <1>3, <3>1, <4>1, <5>3
      <4> QED
        BY <4>2, <4>3
    <3> QED
      BY <3>1, <3>2, <3>3 DEF Held
  <2>4. DroppedAreGone'
    <3> SUFFICES ASSUME NEW d \in Clients, At(d)' = "drop" PROVE req'[d].user \notin Live
      BY <1>5 DEF DroppedAreGone
    <3> QED
      BY <1>2, <1>3, <2>1 DEF DroppedAreGone
  <2> QED
    BY <2>2, <2>3, <2>4
<1> QED
  BY <1>7, <1>8 DEF StepOK

\* A request that asks for something starts with what the step carries.
LEMMA AskOK == ASSUME TypeOK, NEW c \in Clients, Ask(c) PROVE StepOK
<1>1. ASSUME NEW q \in Request, Begin(c), Goto(c, q), q.at \notin {"link", "drop"} PROVE StepOK
  <2>1. /\ UNCHANGED <<record, index>> /\ At(c) \notin {"link", "drop"}
        /\ raced' \in BOOLEAN /\ torn' \in BOOLEAN /\ left' \in 0 .. Requests
    BY <1>1, AccountsAssumption DEF Begin, Stored, TypeOK
  <2> QED
    BY <1>1, <2>1, QuietOK
<1>2. ASSUME NEW address \in Addresses, NEW sub \in Names \cup {None}, NEW v \in BOOLEAN, SignIn(c, address, sub, v)
      PROVE StepOK
  <2> DEFINE q == [at |-> "cap", email |-> address, sub |-> sub, verified |-> v, known |-> FALSE]
  <2>1. q \in Request /\ q.at = "cap"
    BY DEF Request, Asking
  <2>2. Begin(c) /\ Goto(c, q)
    BY <1>2 DEF SignIn
  <2> HIDE DEF q
  <2> QED
    BY <1>1, <2>1, <2>2
<1>3. ASSUME NEW u \in Users, NEW field \in Changes, NEW want \in Names \cup Addresses \cup {None, "ensure"},
             WantOK(field, want), Change(c, u, field, want)
      PROVE StepOK
  <2> DEFINE q == [at |-> "read", user |-> u, field |-> field, want |-> want]
  <2>1. q \in Request /\ q.at = "read"
    BY <1>3 DEF Request, Reading
  <2>2. Begin(c) /\ Goto(c, q)
    BY <1>3 DEF Change
  <2> HIDE DEF q
  <2> QED
    BY <1>1, <2>1, <2>2
<1>4. CASE \E address \in Addresses : Verify(c, address) \/ Register(c, address)
  BY <1>2, <1>4 DEF Verify, Register
<1>5. CASE \E address \in Addresses, sub \in Names : Callback(c, address, sub)
  BY <1>2, <1>5 DEF Callback
<1>6. CASE \E u \in Users, field \in Rotated \cup {"touch", "line", "google"} : Change(c, u, field, None)
  <2>1. \A field \in Rotated \cup {"touch", "line", "google"} : field \in Changes /\ WantOK(field, None)
    BY DEF Rotated, Changes, Fields, WantOK
  <2> QED
    BY <1>3, <1>6, <2>1
<1>7. CASE \E u \in Users, name \in Names : Change(c, u, "uid", name) \/ LinkGoogle(c, u, name)
  <2>1. PICK u \in Users, name \in Names : Change(c, u, "uid", name) \/ LinkGoogle(c, u, name)
    BY <1>7
  <2>2. CASE Change(c, u, "uid", name)
    <3>1. "uid" \in Changes /\ WantOK("uid", name)
      BY DEF Changes, Fields, WantOK
    <3> QED
      BY <1>3, <2>2, <3>1
  <2>3. CASE LinkGoogle(c, u, name)
    <3> DEFINE q == [at |-> "read", user |-> u, field |-> "verified", want |-> name]
    <3>1. q \in Request /\ q.at = "read"
      BY DEF Request, Reading, WantOK, Changes, Fields
    <3>2. Begin(c) /\ Goto(c, q)
      BY <2>3 DEF LinkGoogle
    <3> HIDE DEF q
    <3> QED
      BY <1>1, <3>1, <3>2
  <2> QED
    BY <2>1, <2>2, <2>3
<1>8. CASE \E u \in Users, address \in Addresses : Change(c, u, "altEmail", address)
  <2>1. \A address \in Addresses : "altEmail" \in Changes /\ WantOK("altEmail", address)
    BY DEF Changes, Fields, WantOK
  <2> QED
    BY <1>3, <1>8, <2>1
<1>9. CASE \E u \in Users : Me(c, u) \/ Leave(c, u)
  <2>1. PICK u \in Users : Me(c, u) \/ Leave(c, u)
    BY <1>9
  <2>2. CASE Me(c, u)
    <3>1. "mail" \in Changes /\ WantOK("mail", "ensure")
      BY DEF Changes, Fields, WantOK
    <3> QED
      BY <1>3, <2>2, <3>1 DEF Me
  <2>3. CASE Leave(c, u)
    <3> DEFINE q == [at |-> "leave", user |-> u, rec |-> record[u]]
    <3>1. u \in Live /\ RecOK(record[u])
      BY <2>3 DEF Leave, TypeOK
    <3>2. q \in Request /\ q.at = "leave"
      BY <3>1 DEF Request, Leaving, RecOK
    <3>3. Begin(c) /\ Goto(c, q)
      BY <2>3 DEF Leave
    <3> HIDE DEF q
    <3> QED
      BY <1>1, <3>2, <3>3
  <2> QED
    BY <2>1, <2>2, <2>3
<1>10. CASE \E code \in Secrets, line \in Names : TypeCode(c, code, line)
  <2>1. PICK code \in Secrets, line \in Names : TypeCode(c, code, line)
    BY <1>10
  <2> DEFINE q == [at |-> "burn", user |-> index["code"][code], code |-> code, line |-> line]
  <2>2. index["code"][code] \in Users
    BY <2>1 DEF TypeCode, TypeOK, Spaces, Fields, Handles
  <2>3. q \in Request /\ q.at = "burn"
    BY <2>2 DEF Request, Burning
  <2>4. Begin(c) /\ Goto(c, q)
    BY <2>1 DEF TypeCode
  <2> HIDE DEF q
  <2> QED
    BY <1>1, <2>3, <2>4
<1> QED
  BY <1>4, <1>5, <1>6, <1>7, <1>8, <1>9, <1>10 DEF Ask

\* The steps that only look.
LEMMA LookOK ==
  ASSUME TypeOK, NEW c \in Clients, AtCapacity(c) \/ CountUsers(c) \/ Resolve(c) \/ Read(c)
  PROVE  StepOK
<1>1. ASSUME NEW q \in Request, Goto(c, q), q.at \notin {"link", "drop"}, At(c) \notin {"link", "drop"},
             UNCHANGED <<record, index, left, raced, torn>>
      PROVE StepOK
  <2>1. UNCHANGED <<record, index>> /\ raced' \in BOOLEAN /\ torn' \in BOOLEAN /\ left' \in 0 .. Requests
    BY <1>1 DEF TypeOK
  <2> QED
    BY <1>1, <2>1, QuietOK
<1>2. Idle \in Request /\ Idle.at = "idle"
  BY DEF Request, Idle
<1>3. ASSUME At(c) \in {"cap", "count", "find"}, NEW at \in {"cap", "count", "find", "create"}
      PROVE  [req[c] EXCEPT !.at = at] \in Request /\ [req[c] EXCEPT !.at = at].at = at
  BY <1>3, ReqKinds DEF Asking, Request
<1>4. CASE AtCapacity(c)
  <2>1. At(c) = "cap" /\ UNCHANGED <<record, index, left, raced, torn>>
    BY <1>4 DEF AtCapacity
  <2>2. CASE req[c].email \in Allowed /\ Step(c, "find")
    <3>1. Goto(c, [req[c] EXCEPT !.at = "find"])
      BY <2>2 DEF Step
    <3> QED
      BY <1>1, <1>3, <2>1, <3>1
  <2>3. CASE Goto(c, [req[c] EXCEPT !.at = IF Known(req[c]) THEN "find" ELSE "count", !.known = Known(req[c])])
    <3>1. PICK at \in {"find", "count"}, known \in BOOLEAN : Goto(c, [req[c] EXCEPT !.at = at, !.known = known])
      <4>1. Known(req[c]) \in BOOLEAN
        BY DEF Known
      <4>2. (IF Known(req[c]) THEN "find" ELSE "count") \in {"find", "count"}
        OBVIOUS
      <4> HIDE DEF Known
      <4> QED
        BY <2>3, <4>1, <4>2
    <3> DEFINE q == [req[c] EXCEPT !.at = at, !.known = known]
    <3>2. q \in Request /\ q.at = at
      BY <2>1, ReqKinds DEF Asking, Request
    <3>3. Goto(c, q)
      BY <3>1
    <3> HIDE DEF q
    <3> QED
      BY <1>1, <2>1, <3>2, <3>3
  <2> QED
    BY <1>4, <2>2, <2>3 DEF AtCapacity
<1>5. CASE CountUsers(c)
  <2>1. At(c) = "count" /\ UNCHANGED <<record, index, left, raced, torn>>
    BY <1>5 DEF CountUsers
  <2>2. Goto(c, Idle) \/ Goto(c, [req[c] EXCEPT !.at = "find"])
    BY <1>5 DEF CountUsers, Step
  <2> QED
    BY <1>1, <1>2, <1>3, <2>1, <2>2
<1>6. CASE Resolve(c)
  <2> DEFINE r == req[c]
             u == IF r.sub # None /\ Find("google", r.sub) # None THEN Find("google", r.sub) ELSE Find("email", r.email)
  <2>1. At(c) = "find" /\ UNCHANGED <<record, index, left, raced, torn>> /\ r \in Asking
    BY <1>6, ReqKinds DEF Resolve
  <2>2. \/ Goto(c, [req[c] EXCEPT !.at = "create"])
        \/ Goto(c, Idle)
        \/ u # None /\ r.sub # None /\ Goto(c, [at |-> "read", user |-> u, field |-> "google", want |-> r.sub])
    BY <1>6 DEF Resolve, Step
  <2>3. CASE u # None /\ r.sub # None /\ Goto(c, [at |-> "read", user |-> u, field |-> "google", want |-> r.sub])
    <3>1. u \in Users
      BY <2>3 DEF Find, Live
    <3> HIDE DEF u
    <3>2. [at |-> "read", user |-> u, field |-> "google", want |-> r.sub] \in Reading
      BY <2>1, <2>3, <3>1 DEF Reading, Asking, WantOK, Changes, Fields
    <3> DEFINE q == [at |-> "read", user |-> u, field |-> "google", want |-> r.sub]
    <3>3. q \in Request /\ q.at = "read" /\ Goto(c, q)
      BY <2>3, <3>2 DEF Request
    <3> HIDE DEF q
    <3> QED
      BY <1>1, <2>1, <3>3
  <2> HIDE DEF u
  <2> QED
    BY <1>1, <1>2, <1>3, <2>1, <2>2, <2>3
<1>7. CASE Read(c)
  <2> DEFINE r == req[c]
             q == [at |-> "write", user |-> r.user, field |-> r.field, want |-> r.want, rec |-> record[r.user]]
  <2>1. At(c) = "read" /\ UNCHANGED <<record, index, left, raced, torn>> /\ r \in Reading
    BY <1>7, ReqKinds DEF Read
  <2>2. Goto(c, Idle) \/ (~Unneeded(r, record[r.user]) /\ Goto(c, q))
    BY <1>7 DEF Read
  <2>3. CASE ~Unneeded(r, record[r.user]) /\ Goto(c, q)
    <3>1. r.user \in Live /\ (r.field = "altEmail" => r.want # record[r.user].email)
      BY <2>1, <2>3 DEF Unneeded, Reading, Live
    <3>2. RecOK(record[r.user]) /\ record[r.user] \in Record
      BY <3>1 DEF TypeOK, RecOK
    <3>3. q \in Writing /\ q.at = "write"
      BY <2>1, <3>1, <3>2 DEF Reading, Writing
    <3>4. q \in Request /\ Goto(c, q)
      BY <2>3, <3>3 DEF Request
    <3> HIDE DEF q
    <3> QED
      BY <1>1, <2>1, <3>3, <3>4
  <2> HIDE DEF q
  <2> QED
    BY <1>1, <1>2, <2>1, <2>2, <2>3
<1> QED
  BY <1>4, <1>5, <1>6, <1>7

\* A request that is cut: between two writes, nothing more is promised.
LEMMA CutOK == ASSUME TypeOK, NEW c \in Clients, Cut(c) PROVE StepOK
<1>1. /\ Goto(c, Idle) /\ torn' = (torn \/ At(c) \in {"link", "drop"})
      /\ UNCHANGED <<record, index, left, raced>>
  BY DEF Cut
<1>2. Idle \in Request /\ Idle.at = "idle"
  BY DEF Request, Idle
<1>3. torn' \in BOOLEAN
  BY <1>1 DEF TypeOK
<1>4. CASE At(c) \notin {"link", "drop"}
  <2>1. UNCHANGED <<record, index>> /\ raced' \in BOOLEAN /\ left' \in 0 .. Requests
    BY <1>1 DEF TypeOK
  <2> QED
    BY <1>1, <1>2, <1>3, <1>4, <2>1, QuietOK
<1>5. CASE At(c) \in {"link", "drop"}
  <2>1. torn'
    BY <1>1, <1>5
  <2>2. req' \in [Clients -> Request]
    BY <1>1, <1>2, GotoKeeps
  <2>3. Live' = Live
    BY <1>1 DEF Live
  <2>4. TypeOK'
    BY <1>1, <1>3, <2>2, <2>3 DEF TypeOK
  <2> QED
    BY <2>1, <2>4 DEF StepOK
<1> QED
  BY <1>4, <1>5

\* What went wrong is never forgotten.
LEMMA WrongStays == ASSUME TypeOK, Next PROVE (raced => raced') /\ (torn => torn')
<1>1. ASSUME NEW c \in Clients, Ask(c) PROVE UNCHANGED <<raced, torn>>
  BY <1>1 DEF Ask, Verify, Register, Callback, SignIn, Change, LinkGoogle, Me, Leave, TypeCode, Begin, Stored
<1>2. ASSUME NEW c \in Clients, Work(c) PROVE UNCHANGED torn /\ (raced => raced')
  <2>1. CASE AtCapacity(c) \/ CountUsers(c) \/ Resolve(c) \/ Read(c) \/ BurnCode(c)
    BY <2>1 DEF AtCapacity, CountUsers, Resolve, Read, BurnCode
  <2>2. CASE Create(c)
    BY <2>2 DEF Create
  <2>3. CASE Write(c)
    <3>1. \A r : Put(c, r) => UNCHANGED torn /\ (raced => raced')
      BY DEF Put
    <3> QED
      BY <2>3, <3>1 DEF Write
  <2>4. CASE IndexSub(c) \/ DropUser(c)
    BY <2>4 DEF IndexSub, DropUser
  <2>5. CASE DropEntry(c)
    BY <2>5 DEF DropEntry
  <2> QED
    BY <1>2, <2>1, <2>2, <2>3, <2>4, <2>5 DEF Work
<1>3. ASSUME NEW c \in Clients, Cut(c) PROVE UNCHANGED raced /\ (torn => torn')
  BY <1>3 DEF Cut
<1>4. ASSUME NEW code \in Secrets, CodeExpires(code) PROVE UNCHANGED <<raced, torn>>
  BY <1>4 DEF CodeExpires
<1> QED
  BY <1>1, <1>2, <1>3, <1>4 DEF Next

LEMMA AccountsInit == ASSUME Init PROVE AccountsInv
<1>1. /\ req = [c \in Clients |-> Idle] /\ left = Requests /\ raced = FALSE /\ torn = FALSE
  BY DEF Init
<1>2. req \in [Clients -> Request] /\ left \in 0 .. Requests /\ raced \in BOOLEAN /\ torn \in BOOLEAN
  <2>1. Idle \in Request /\ Requests \in 0 .. Requests
    BY AccountsAssumption DEF Request
  <2> QED
    BY <1>1, <2>1
<1>3. \A c \in Clients : At(c) = "idle"
  BY <1>1 DEF At, Idle
<1>4. DroppedAreGone
  BY <1>3 DEF DroppedAreGone
<1>5. CASE record = [u \in Users |-> None] /\ index = [s \in Spaces |-> [h \in Handles |-> None]]
  <2>1. Live = {}
    BY <1>5 DEF Live
  <2>2. \A s \in Spaces, h \in Handles : index[s][h] = None
    BY <1>5
  <2>3. Resolved /\ Held
    BY <2>1, <2>2 DEF Resolved, Held
  <2>4. TypeOK
    BY <1>2, <1>5, <2>1 DEF TypeOK
  <2> QED
    BY <1>4, <2>3, <2>4 DEF AccountsInv
<1>6. CASE \E old \in Users, address \in Addresses, ics \in Secrets :
             /\ record = [u \in Users |-> IF u = old THEN NewUser(address, ics, None, TRUE) ELSE None]
             /\ index = [s \in Spaces |-> [h \in Handles |->
                           IF <<s, h>> \in {<<"email", address>>, <<"ics", ics>>} THEN old ELSE None]]
  <2>1. PICK old \in Users, address \in Addresses, ics \in Secrets :
             /\ record = [u \in Users |-> IF u = old THEN NewUser(address, ics, None, TRUE) ELSE None]
             /\ index = [s \in Spaces |-> [h \in Handles |->
                           IF <<s, h>> \in {<<"email", address>>, <<"ics", ics>>} THEN old ELSE None]]
    BY <1>6
  <2> DEFINE n == NewUser(address, ics, None, TRUE)
  <2>2. /\ RecOK(n) /\ n # None /\ n.email = address /\ n.ics = ics /\ n.mail = None
        /\ \A f \in Fields \ {"email", "ics", "mail"} : n[f] = None
    <3> DEFINE P(k, m) == /\ RecOK(k) /\ k # None /\ k.email = address /\ k.ics = ics /\ k.mail = m
                          /\ \A f \in Fields \ {"email", "ics", "mail"} : k[f] = None
    <3>1. \A m \in Secrets \cup {None}, v \in BOOLEAN : P(NewUser(address, ics, m, v), m)
      BY NewUserOK
    <3> HIDE DEF P
    <3>2. P(n, None)
      BY <3>1, Zenon
    <3> QED
      BY <3>2 DEF P
  <2>3. record = [u \in Users |-> IF u = old THEN n ELSE None]
    BY <2>1
  <2> HIDE DEF n
  <2>4. Live = {old} /\ record[old] = n /\ record \in [Users -> Record \cup {None}]
    BY <2>2, <2>3 DEF Live, RecOK
  <2>5. /\ index \in [Spaces -> [Handles -> Users \cup {None}]]
        /\ \A s \in Spaces, h \in Handles :
             index[s][h] = IF (s = "email" /\ h = address) \/ (s = "ics" /\ h = ics) THEN old ELSE None
    BY <2>1
  <2>6. TypeOK
    BY <1>2, <2>2, <2>4, <2>5 DEF TypeOK
  <2>7. address \in Handles /\ ics \in Handles /\ old # None
    BY AccountsAssumption DEF Handles
  <2>8. SpaceOf("email") = "email" /\ SpaceOf("ics") = "ics" /\ {"email", "ics"} \subseteq Spaces \cap Fields
    BY DEF SpaceOf, Spaces, Fields
  <2>9. Resolved
    BY <2>2, <2>4, <2>5, <2>7, <2>8 DEF Resolved
  <2>10. Held
    BY <2>2, <2>4, <2>5, <2>7, <2>8 DEF Held
  <2> QED
    BY <1>4, <2>6, <2>9, <2>10 DEF AccountsInv
<1>7. PICK old \in Users, address \in Addresses, ics \in Secrets :
        old = Drawn(Users) /\ address = Drawn(Addresses) /\ ics = Drawn(Secrets)
  BY DrawnIn, AccountsAssumption
<1>8. \/ record = [u \in Users |-> None] /\ index = [s \in Spaces |-> [h \in Handles |-> None]]
      \/ /\ record = [u \in Users |-> IF u = old THEN NewUser(address, ics, None, TRUE) ELSE None]
         /\ index = [s \in Spaces |-> [h \in Handles |->
                       IF <<s, h>> \in {<<"email", address>>, <<"ics", ics>>} THEN old ELSE None]]
  BY <1>7 DEF Init
<1> QED
  BY <1>5, <1>6, <1>8

LEMMA AccountsStep == ASSUME AccountsInv, [Next]_vars PROVE AccountsInv'
<1>1. TypeOK
  BY DEF AccountsInv
<1>2. CASE UNCHANGED vars
  BY <1>2 DEF vars, AccountsInv, TypeOK, Live, Resolved, Held, DroppedAreGone, At
<1>3. CASE Next
  <2>1. ASSUME NEW c \in Clients, Ask(c) \/ Work(c) \/ Cut(c) PROVE StepOK
    BY <1>1, <2>1, AskOK, LookOK, CreateOK, WriteOK, IndexSubOK, BurnCodeOK, DropUserOK, DropEntryOK, CutOK DEF Work
  <2>2. StepOK
    BY <1>1, <1>3, <2>1, CodeExpiresOK DEF Next
  <2> QED
    BY <1>1, <1>3, <2>2, WrongStays DEF AccountsInv, StepOK, Settled
<1> QED
  BY <1>2, <1>3

\* The types of Accounts (users.ts, routes.ts).
THEOREM AccountsTypeCorrect == Spec => []TypeOK
<1>1. AccountsInv => TypeOK
  BY DEF AccountsInv
<1> QED
  BY <1>1, AccountsInit, AccountsStep, PTL DEF Spec

\* IndexesAgree: unless a request wrote back a record that had changed since it read it,
\* or was cut between two writes, every handle of a user resolves to that user and every
\* entry is to a user who holds the handle (users.ts: reindex, deleteUser, claim*), for
\* any number of users, handles and interleaved requests.
THEOREM UsersAndIndexesAgree == Spec => []IndexesAgree
<1>1. AccountsInv => IndexesAgree
  <2>1. Resolved => HandlesResolve
    BY DEF Resolved, HandlesResolve
  <2>2. Held => EntriesAreHeld
    BY DEF Held, EntriesAreHeld
  <2> QED
    BY <2>1, <2>2 DEF AccountsInv, IndexesAgree
<1> QED
  BY <1>1, AccountsInit, AccountsStep, PTL DEF Spec

-----------------------------------------------------------------------------
(* Logins: however many requests overlap and wherever they are cut, a link   *)
(* or state opens one session unless two requests had it in hand together,   *)
(* and a counter holds unless its count was written over.                    *)
(* The request has redeemed t: it has read it and will delete it, or has     *)
(* deleted it and goes on.                                                   *)
Holds(c, t) == L!At(c) \in {"burn", "resolve"} /\ call[c].ticket = t

(* A ticket that is not shared is in one hand at most; once its holder has   *)
(* deleted it the store has it no more, and neither once it has led          *)
(* somewhere, when nobody holds it either.                                   *)
OneHand(t) ==
    /\ \A c, d \in Clients : Holds(c, t) /\ Holds(d, t) => c = d
    /\ \A c \in Clients : Holds(c, t) /\ L!At(c) = "resolve" => ticket[t] = None
    /\ opened[t] # 0 => opened[t] = 1 /\ ticket[t] = None /\ \A c \in Clients : ~Holds(c, t)
TicketsOK == \A t \in Tickets \ shared : OneHand(t)

(* Whoever is about to count read less than the limit, so no count exceeds   *)
(* it; and a count that was not written over is what was let through.        *)
CountersOK ==
    /\ \A c \in Clients : L!At(c) = "count" => call[c].read < Limit
    /\ \A b \in L!Buckets : count[b] <= Limit
    /\ \A b \in L!Buckets \ stale : allowed[b] = count[b]

\* The inductive invariant.
LoginsInv == L!TypeOK /\ TicketsOK /\ CountersOK

Records == [kind : {"link", "state"}, who : People \cup {None}, over : BOOLEAN]
Counting == [at : {"count"}, bucket : L!Buckets, read : Nat]
Naming == [at : {"mail", "password"}, who : People]
Holding == [at : {"burn", "resolve"}, ticket : Tickets, kind : {"link", "state"},
            who : People \cup {None}, over : BOOLEAN]
Calls == {L!Idle} \cup Counting \cup Naming \cup Holding

-----------------------------------------------------------------------------
(* Where a request is tells what it carries.                                 *)
LEMMA CallTypes ==
  ASSUME L!TypeOK, NEW c \in Clients
  PROVE  /\ call[c] \in Calls
         /\ L!At(c) = "count" => call[c] \in Counting
         /\ L!At(c) \in {"mail", "password"} => call[c] \in Naming
         /\ L!At(c) \in {"burn", "resolve"} <=> call[c] \in Holding
         /\ "ticket" \in DOMAIN call[c] <=> L!At(c) \in {"burn", "resolve"}
<1>1. call[c] \in Calls
  BY DEF L!TypeOK, Calls, Counting, Naming, Holding
<1> QED
  BY <1>1 DEF Calls, Counting, Naming, Holding, L!At, L!Idle

(* A new ticket is nobody's and leads nowhere yet.                           *)
LEMMA UnusedIsBlank ==
  ASSUME L!TypeOK, NEW c \in Clients, L!Unused(c) # {}
  PROVE  LET t == L!Drawn(L!Unused(c)) IN
           t \in Tickets /\ ticket[t] = None /\ opened[t] = 0 /\ \A d \in Clients : ~Holds(d, t)
<1>1. L!Drawn(L!Unused(c)) \in L!Unused(c)
  BY DEF L!Drawn
<1>2. ASSUME NEW t \in L!Unused(c), NEW d \in Clients PROVE ~Holds(d, t)
  BY CallTypes DEF L!Unused, Holds
<1> QED
  BY <1>1, <1>2 DEF L!Unused

-----------------------------------------------------------------------------
(* The invariant holds at the start.                                         *)
LEMMA LoginsInit == ASSUME L!LoginsAssumption, L!Init PROVE LoginsInv
<1>1. L!TypeOK
  BY DEF L!Init, L!TypeOK, L!LoginsAssumption
<1>2. TicketsOK
  BY DEF L!Init, TicketsOK, OneHand, Holds, L!At, L!Idle
<1>3. CountersOK
  BY DEF L!Init, CountersOK, L!At, L!Idle, L!LoginsAssumption
<1> QED
  BY <1>1, <1>2, <1>3 DEF LoginsInv

(* A request that moves to a record of its kind keeps the type of calls.     *)
LEMMA CallGoto ==
  ASSUME L!TypeOK, NEW c \in Clients, NEW r \in Calls, L!Goto(c, r)
  PROVE  /\ call' \in [Clients -> Calls]
         /\ call'[c] = r
         /\ \A d \in Clients \ {c} : call'[d] = call[d]
  BY DEF L!TypeOK, L!Goto, Calls, Counting, Naming, Holding

\* A request knows its user, and a session that is met stays one.
LEMMA SessionTypes ==
  ASSUME L!TypeOK, NEW s \in Sessions
  PROVE  /\ L!RequestUser(s) \in People \cup {None}
         /\ L!MeetSession(s) => session' \in [Sessions -> [who : People, over : BOOLEAN] \cup {None}]
  BY DEF L!TypeOK, L!RequestUser, L!SessionUser, L!MeetSession

\* A session that is opened is a session.
LEMMA OpenSessionType ==
  ASSUME L!TypeOK, NEW p \in People, L!Room, L!OpenSession(p)
  PROVE  session' \in [Sessions -> [who : People, over : BOOLEAN] \cup {None}]
<1> DEFINE S == {x \in Sessions : session[x] = None}
<1>1. L!Drawn(S) \in S
  BY DEF L!Room, L!Drawn
<1> QED
  BY <1>1 DEF L!TypeOK, L!OpenSession

(* Every step keeps the types.                                               *)
LEMMA LoginsStepType == ASSUME L!LoginsAssumption, L!TypeOK, [L!Next]_(L!vars) PROVE L!TypeOK'
<1> USE DEF L!store, L!seen
<1>1. CASE UNCHANGED L!vars
  BY <1>1 DEF L!TypeOK, L!vars
<1>2. ASSUME NEW c \in Clients, NEW b \in L!Buckets, L!ReadCount(c, b) PROVE L!TypeOK'
  <2>1. IF count[b] >= Limit THEN L!Goto(c, L!Idle)
        ELSE L!Goto(c, [at |-> "count", bucket |-> b, read |-> count[b]])
    BY <1>2 DEF L!ReadCount
  <2>2. L!Idle \in Calls /\ [at |-> "count", bucket |-> b, read |-> count[b]] \in Calls
    BY <1>2 DEF L!TypeOK, Calls, Counting
  <2>3. call' \in [Clients -> Calls]
    BY <2>1, <2>2, CallGoto
  <2> QED
    BY <1>2, <2>3 DEF L!ReadCount, L!Begin, L!TypeOK, Calls, Counting, Naming, Holding, L!LoginsAssumption
<1>3. ASSUME NEW c \in Clients, L!WriteCount(c) PROVE L!TypeOK'
  <2> DEFINE b == call[c].bucket
  <2>1. call[c] \in Counting
    BY <1>3, CallTypes DEF L!WriteCount
  <2>2. b \in L!Buckets /\ call[c].read \in Nat
    BY <2>1 DEF Counting
  <2>3. [at |-> b[1], who |-> b[2]] \in Calls
    BY <2>2 DEF Calls, Naming, L!Buckets
  <2>4. call' \in [Clients -> Calls]
    BY <1>3, <2>3, CallGoto DEF L!WriteCount
  <2> QED
    BY <1>3, <2>2, <2>4 DEF L!WriteCount, L!TypeOK, Calls, Counting, Naming, Holding
<1>4. ASSUME NEW c \in Clients, NEW s \in Sessions \cup {None}, L!StartGoogle(c, s) PROVE L!TypeOK'
  <2> DEFINE t == L!Drawn(L!Unused(c))
  <2>1. t \in Tickets
    BY <1>4, UnusedIsBlank DEF L!StartGoogle
  <2>2. L!RequestUser(s) \in People \cup {None}
    BY SessionTypes DEF L!RequestUser
  <2>3. session' \in [Sessions -> [who : People, over : BOOLEAN] \cup {None}]
    BY <1>4, SessionTypes DEF L!StartGoogle, L!TypeOK
  <2>4. L!NewState(L!RequestUser(s)) \in Records
    BY <2>2 DEF L!NewState, Records
  <2>5. ticket' \in [Tickets -> Records \cup {None}]
    BY <1>4, <2>1, <2>4 DEF L!StartGoogle, L!TypeOK, Records
  <2> QED
    BY <1>4, <2>3, <2>5 DEF L!StartGoogle, L!Begin, L!TypeOK, Records, L!LoginsAssumption
<1>5. ASSUME NEW c \in Clients, NEW t \in Tickets, L!Redeem(c, t) PROVE L!TypeOK'
  <2> DEFINE r == [at |-> "burn", ticket |-> t, kind |-> ticket[t].kind,
                   who |-> ticket[t].who, over |-> ticket[t].over]
  <2>1. r \in Calls
    BY <1>5 DEF L!Redeem, L!TypeOK, Calls, Holding
  <2>2. call' \in [Clients -> Calls]
    BY <1>5, <2>1, CallGoto DEF L!Redeem
  <2> QED
    BY <1>5, <2>2 DEF L!Redeem, L!Begin, L!TypeOK, Calls, Counting, Naming, Holding, L!LoginsAssumption
<1>6. ASSUME NEW c \in Clients, NEW s \in Sessions, L!LogOut(c, s) \/ L!LeaveAs(c, s) PROVE L!TypeOK'
  <2>1. CASE L!LogOut(c, s)
    BY <2>1 DEF L!LogOut, L!Begin, L!TypeOK, L!LoginsAssumption
  <2>2. CASE L!LeaveAs(c, s)
    BY <2>2, SessionTypes DEF L!LeaveAs, L!Begin, L!TypeOK, L!LoginsAssumption
  <2> QED
    BY <1>6, <2>1, <2>2
<1>7. ASSUME NEW c \in Clients, L!SendLink(c) PROVE L!TypeOK'
  <2>1. L!Drawn(L!Unused(c)) \in Tickets
    BY <1>7, UnusedIsBlank DEF L!SendLink
  <2>2. L!NewLink(call[c].who) \in Records
    BY <1>7, CallTypes DEF L!SendLink, Naming, L!NewLink, Records
  <2>3. ticket' \in [Tickets -> Records \cup {None}]
    BY <1>7, <2>1, <2>2 DEF L!SendLink, L!TypeOK, Records
  <2>4. call' \in [Clients -> Calls]
    BY <1>7, CallGoto DEF L!SendLink, Calls
  <2> QED
    BY <1>7, <2>3, <2>4 DEF L!SendLink, L!TypeOK, Records, Calls, Counting, Naming, Holding
<1>8. ASSUME NEW c \in Clients, L!Burn(c) PROVE L!TypeOK'
  <2>1. call[c] \in Holding
    BY <1>8, CallTypes DEF L!Burn
  <2>2. [call[c] EXCEPT !.at = "resolve"] \in Calls /\ L!Idle \in Calls
    BY <2>1 DEF Holding, Calls
  <2>3. call' \in [Clients -> Calls]
    BY <1>8, <2>2, CallGoto DEF L!Burn
  <2> QED
    BY <1>8, <2>1, <2>3 DEF L!Burn, L!TypeOK, Calls, Counting, Naming, Holding
<1>9. ASSUME NEW c \in Clients, L!Resolve(c) PROVE L!TypeOK'
  <2>1. call[c] \in Holding
    BY <1>9, CallTypes DEF L!Resolve
  <2>2. call' \in [Clients -> Calls]
    BY <1>9, CallGoto DEF L!Resolve, Calls
  <2>3. session' \in [Sessions -> [who : People, over : BOOLEAN] \cup {None}]
    BY <1>9, OpenSessionType DEF L!Resolve, L!TypeOK
  <2>4. call[c].ticket \in Tickets /\ opened[call[c].ticket] + 1 \in Nat
    BY <2>1 DEF Holding, L!TypeOK
  <2>5. \/ \E p \in People : account' = [account EXCEPT ![p] = TRUE]
                            /\ opened' = [opened EXCEPT ![call[c].ticket] = @ + 1]
        \/ UNCHANGED <<account, opened>>
    BY <1>9 DEF L!Resolve
  <2>6. account' \in [People -> BOOLEAN]
    BY <2>5 DEF L!TypeOK
  <2>7. opened' \in [Tickets -> Nat]
    BY <2>4, <2>5 DEF L!TypeOK
  <2> QED
    BY <1>9, <2>2, <2>3, <2>6, <2>7 DEF L!Resolve, L!TypeOK, Calls, Counting, Naming, Holding
<1>10. ASSUME NEW c \in Clients, L!CheckPassword(c) PROVE L!TypeOK'
  <2>1. call[c].who \in People
    BY <1>10, CallTypes DEF L!CheckPassword, Naming
  <2>2. call' \in [Clients -> Calls]
    BY <1>10, CallGoto DEF L!CheckPassword, Calls
  <2>3. session' \in [Sessions -> [who : People, over : BOOLEAN] \cup {None}]
    BY <1>10, <2>1, OpenSessionType DEF L!CheckPassword, L!TypeOK
  <2> QED
    BY <1>10, <2>2, <2>3 DEF L!CheckPassword, L!TypeOK, Calls, Counting, Naming, Holding
<1>11. ASSUME NEW c \in Clients, L!Cut(c) PROVE L!TypeOK'
  <2>1. call' \in [Clients -> Calls]
    BY <1>11, CallGoto DEF L!Cut, Calls
  <2> QED
    BY <1>11, <2>1 DEF L!Cut, L!TypeOK, Calls, Counting, Naming, Holding
<1>12. ASSUME NEW b \in L!Buckets, L!WindowEnds(b) PROVE L!TypeOK'
  BY <1>12 DEF L!WindowEnds, L!TypeOK
<1>13. CASE L!TimeIsOver
  <2>1. ASSUME NEW t \in Tickets, ticket[t] # None, ticket' = [ticket EXCEPT ![t].over = TRUE]
        PROVE  ticket' \in [Tickets -> Records \cup {None}]
    <3>1. ticket[t] \in Records
      BY <2>1 DEF L!TypeOK, Records
    <3>2. [ticket[t] EXCEPT !.over = TRUE] \in Records
      BY <3>1 DEF Records
    <3> QED
      BY <2>1, <3>2 DEF L!TypeOK, Records
  <2>2. ASSUME NEW s \in Sessions, session[s] # None, session' = [session EXCEPT ![s].over = TRUE]
        PROVE  session' \in [Sessions -> [who : People, over : BOOLEAN] \cup {None}]
    BY <2>2 DEF L!TypeOK
  <2>3. /\ ticket' \in [Tickets -> Records \cup {None}]
        /\ session' \in [Sessions -> [who : People, over : BOOLEAN] \cup {None}]
    BY <1>13, <2>1, <2>2 DEF L!TimeIsOver, L!TypeOK, Records
  <2> QED
    BY <1>13, <2>3 DEF L!TimeIsOver, L!TypeOK, Records
<1>14. CASE L!KvDrops
  BY <1>14 DEF L!KvDrops, L!TypeOK
<1> QED
  BY <1>1, <1>2, <1>3, <1>4, <1>5, <1>6, <1>7, <1>8, <1>9, <1>10, <1>11, <1>12, <1>13, <1>14
  DEF L!Next

-----------------------------------------------------------------------------
(* A step that neither takes a ticket up nor makes one, leads nowhere and    *)
(* lets nobody move but one request to a record that holds none.             *)
LEMMA LetGo ==
  ASSUME L!TypeOK, TicketsOK, NEW c \in Clients, NEW r \in Calls, L!Goto(c, r), r \notin Holding,
         UNCHANGED <<ticket, opened, shared>>
  PROVE  TicketsOK'
<1>1. call'[c] = r /\ \A d \in Clients \ {c} : call'[d] = call[d]
  BY CallGoto
<1>2. r.at \notin {"burn", "resolve"}
  BY DEF Calls, Holding, Counting, Naming, L!Idle
<1>3. ASSUME NEW d \in Clients, NEW t \in Tickets, Holds(d, t)' PROVE Holds(d, t) /\ L!At(d)' = L!At(d)
  BY <1>1, <1>2, <1>3 DEF Holds, L!At
<1>4. ASSUME NEW t \in Tickets \ shared PROVE OneHand(t)'
  BY <1>3 DEF TicketsOK, OneHand
<1> QED
  BY <1>4 DEF TicketsOK

(* The store loses tickets, or they grow old.                                *)
LEMMA TicketsGo ==
  ASSUME L!TypeOK, TicketsOK, UNCHANGED <<call, opened, shared>>,
         \A t \in Tickets : ticket[t] = None => ticket'[t] = None
  PROVE  TicketsOK'
  BY DEF TicketsOK, OneHand, Holds, L!At

(* A ticket is made.                                                         *)
LEMMA TicketMade ==
  ASSUME L!TypeOK, TicketsOK, NEW c \in Clients, L!Unused(c) # {}, NEW r,
         ticket' = [ticket EXCEPT ![L!Drawn(L!Unused(c))] = r], UNCHANGED <<opened, shared>>,
         \/ UNCHANGED call
         \/ L!Goto(c, L!Idle)
  PROVE  TicketsOK'
<1> DEFINE n == L!Drawn(L!Unused(c))
<1>1. n \in Tickets /\ ticket[n] = None /\ opened[n] = 0 /\ \A d \in Clients : ~Holds(d, n)
  BY UnusedIsBlank
<1>2. \A t \in Tickets \ {n} : ticket'[t] = ticket[t]
  BY DEF L!TypeOK
<1>3. ASSUME NEW d \in Clients, NEW t \in Tickets, Holds(d, t)' PROVE Holds(d, t) /\ L!At(d)' = L!At(d)
  <2>1. CASE UNCHANGED call
    BY <2>1, <1>3 DEF Holds, L!At
  <2>2. CASE L!Goto(c, L!Idle)
    BY <2>2, <1>3, CallGoto DEF Holds, L!At, L!Idle, Calls
  <2> QED
    BY <2>1, <2>2
<1>4. ASSUME NEW t \in Tickets \ shared PROVE OneHand(t)'
  BY <1>1, <1>2, <1>3 DEF TicketsOK, OneHand
<1> QED
  BY <1>4 DEF TicketsOK

(* Every step keeps what is known of tickets.                                *)
LEMMA StepTickets == ASSUME L!LoginsAssumption, LoginsInv, [L!Next]_(L!vars) PROVE TicketsOK'
<1> USE DEF LoginsInv, L!store, L!seen
<1>0. L!Idle \in Calls /\ L!Idle \notin Holding
  BY DEF Calls, L!Idle, Holding
<1>1. CASE UNCHANGED L!vars
  BY <1>1, TicketsGo DEF L!vars
<1>2. ASSUME NEW c \in Clients, NEW b \in L!Buckets, L!ReadCount(c, b) PROVE TicketsOK'
  <2> DEFINE r == [at |-> "count", bucket |-> b, read |-> count[b]]
  <2>1. r \in Calls /\ r \notin Holding
    BY DEF L!TypeOK, Calls, Counting, Holding
  <2>2. L!Goto(c, L!Idle) \/ L!Goto(c, r)
    BY <1>2 DEF L!ReadCount
  <2> QED
    BY <1>2, <1>0, <2>1, <2>2, LetGo DEF L!ReadCount
<1>3. ASSUME NEW c \in Clients, L!WriteCount(c) PROVE TicketsOK'
  <2> DEFINE b == call[c].bucket
             r == [at |-> b[1], who |-> b[2]]
  <2>1. b \in L!Buckets
    BY <1>3, CallTypes DEF L!WriteCount, Counting
  <2>2. r \in Calls /\ r \notin Holding
    BY <2>1 DEF Calls, Naming, L!Buckets, Holding
  <2> QED
    BY <1>3, <2>2, LetGo DEF L!WriteCount
<1>4. ASSUME NEW c \in Clients, NEW s \in Sessions \cup {None}, L!StartGoogle(c, s) PROVE TicketsOK'
  <2>1. CASE UNCHANGED ticket
    BY <1>4, <2>1, TicketsGo DEF L!StartGoogle
  <2>2. CASE ticket' = [ticket EXCEPT ![L!Drawn(L!Unused(c))] = L!NewState(L!RequestUser(s))]
    BY <1>4, <2>2, TicketMade DEF L!StartGoogle
  <2> QED
    BY <1>4, <2>1, <2>2 DEF L!StartGoogle
<1>5. ASSUME NEW c \in Clients, NEW t \in Tickets, L!Redeem(c, t) PROVE TicketsOK'
  <2> DEFINE r == [at |-> "burn", ticket |-> t, kind |-> ticket[t].kind,
                   who |-> ticket[t].who, over |-> ticket[t].over]
  <2>1. r \in Calls
    BY <1>5 DEF L!Redeem, L!TypeOK, Calls, Holding
  <2>2. call'[c] = r /\ \A d \in Clients \ {c} : call'[d] = call[d]
    BY <1>5, <2>1, CallGoto DEF L!Redeem
  <2>3. \A x \in Tickets : ~Holds(c, x)
    BY <1>5 DEF L!Redeem, L!Begin, Holds
  <2>4. /\ \A x \in Tickets, d \in Clients \ {c} : (Holds(d, x)' <=> Holds(d, x)) /\ L!At(d)' = L!At(d)
        /\ \A x \in Tickets : Holds(c, x)' => x = t
        /\ L!At(c)' = "burn"
    BY <2>2 DEF Holds, L!At
  <2>5. UNCHANGED <<ticket, opened>> /\ ticket[t] # None
    BY <1>5 DEF L!Redeem
  <2>6. ASSUME NEW x \in Tickets \ shared' PROVE OneHand(x)'
    <3>1. x \notin shared
      BY <1>5 DEF L!Redeem
    <3>2. OneHand(x)
      BY <3>1 DEF TicketsOK
    <3>3. CASE x # t
      BY <2>3, <2>4, <2>5, <3>2, <3>3 DEF OneHand
    <3>4. CASE x = t
      <4>1. \A d \in Clients : ~(L!At(d) = "burn" /\ call[d].ticket = t)
        BY <1>5, <3>4 DEF L!Redeem
      <4>2. \A d \in Clients : ~Holds(d, t)
        BY <4>1, <3>2, <3>4, <2>5 DEF OneHand, Holds
      <4> QED
        BY <4>2, <2>4, <2>5, <3>2, <3>4 DEF OneHand
    <3> QED
      BY <3>3, <3>4
  <2> QED
    BY <2>6 DEF TicketsOK
<1>6. ASSUME NEW c \in Clients, NEW s \in Sessions, L!LogOut(c, s) \/ L!LeaveAs(c, s) PROVE TicketsOK'
  BY <1>6, TicketsGo DEF L!LogOut, L!LeaveAs
<1>7. ASSUME NEW c \in Clients, L!SendLink(c) PROVE TicketsOK'
  BY <1>7, TicketMade DEF L!SendLink
<1>8. ASSUME NEW c \in Clients, L!Burn(c) PROVE TicketsOK'
  <2> DEFINE t == call[c].ticket
  <2>1. call[c] \in Holding /\ Holds(c, t) /\ t \in Tickets
    BY <1>8, CallTypes DEF L!Burn, Holds, Holding
  <2>2. L!Goto(c, [call[c] EXCEPT !.at = "resolve"]) \/ L!Goto(c, L!Idle)
    BY <1>8 DEF L!Burn
  <2>3. [call[c] EXCEPT !.at = "resolve"] \in Calls
    BY <2>1 DEF Holding, Calls
  <2>4. /\ \A d \in Clients \ {c} : call'[d] = call[d]
        /\ call'[c] = L!Idle \/ call'[c] = [call[c] EXCEPT !.at = "resolve"]
    BY <1>0, <2>2, <2>3, CallGoto
  <2>5. \A d \in Clients, x \in Tickets : Holds(d, x)' => Holds(d, x)
    BY <2>1, <2>4 DEF Holds, L!At, L!Idle, Holding
  <2>6. \A d \in Clients, x \in Tickets \ {t} : Holds(d, x)' => L!At(d)' = L!At(d)
    BY <2>1, <2>4 DEF Holds, L!At, L!Idle, Holding
  <2>7. UNCHANGED <<opened, shared>> /\ ticket'[t] = None /\ \A x \in Tickets \ {t} : ticket'[x] = ticket[x]
    BY <1>8, <2>1 DEF L!Burn, L!TypeOK
  <2>8. ASSUME NEW x \in Tickets \ shared PROVE OneHand(x)'
    BY <2>1, <2>5, <2>6, <2>7 DEF TicketsOK, OneHand
  <2> QED
    BY <2>7, <2>8 DEF TicketsOK
<1>9. ASSUME NEW c \in Clients, L!Resolve(c) PROVE TicketsOK'
  <2> DEFINE t == call[c].ticket
  <2>1. call[c] \in Holding /\ Holds(c, t) /\ t \in Tickets
    BY <1>9, CallTypes DEF L!Resolve, Holds, Holding
  <2>2. call'[c] = L!Idle /\ \A d \in Clients \ {c} : call'[d] = call[d]
    BY <1>0, <1>9, CallGoto DEF L!Resolve
  <2>3. /\ \A d \in Clients, x \in Tickets : Holds(d, x)' => d # c /\ Holds(d, x)
        /\ \A d \in Clients \ {c} : L!At(d)' = L!At(d)
    BY <2>2 DEF Holds, L!At, L!Idle
  <2>4. UNCHANGED <<ticket, shared>>
    BY <1>9 DEF L!Resolve
  <2>5. opened' = [opened EXCEPT ![t] = @ + 1] \/ UNCHANGED opened
    BY <1>9 DEF L!Resolve
  <2>6. ASSUME NEW x \in Tickets \ shared PROVE OneHand(x)'
    <3>1. OneHand(x)
      BY DEF TicketsOK, OneHand
    <3>2. CASE x # t \/ UNCHANGED opened
      <4>1. opened'[x] = opened[x]
        BY <2>5, <3>2 DEF L!TypeOK
      <4> QED
        BY <2>3, <2>4, <3>1, <4>1 DEF OneHand
    <3>3. CASE x = t /\ opened' = [opened EXCEPT ![t] = @ + 1]
      <4>1. opened[t] = 0 /\ ticket[t] = None /\ \A d \in Clients \ {c} : ~Holds(d, t)
        BY <1>9, <2>1, <3>1, <3>3 DEF OneHand, L!Resolve
      <4>2. opened'[t] = 1
        BY <2>1, <3>3, <4>1 DEF L!TypeOK
      <4> QED
        BY <2>3, <2>4, <3>3, <4>1, <4>2 DEF OneHand
    <3> QED
      BY <2>5, <3>2, <3>3
  <2> QED
    BY <2>4, <2>6 DEF TicketsOK
<1>10. ASSUME NEW c \in Clients, L!CheckPassword(c) PROVE TicketsOK'
  BY <1>0, <1>10, LetGo DEF L!CheckPassword
<1>11. ASSUME NEW c \in Clients, L!Cut(c) PROVE TicketsOK'
  BY <1>0, <1>11, LetGo DEF L!Cut
<1>12. ASSUME NEW b \in L!Buckets, L!WindowEnds(b) PROVE TicketsOK'
  BY <1>12, TicketsGo DEF L!WindowEnds
<1>13. CASE L!TimeIsOver
  <2>1. \A t \in Tickets : ticket[t] = None => ticket'[t] = None
    BY <1>13 DEF L!TimeIsOver, L!TypeOK
  <2> QED
    BY <1>13, <2>1, TicketsGo DEF L!TimeIsOver
<1>14. CASE L!KvDrops
  <2>1. \A t \in Tickets : ticket[t] = None => ticket'[t] = None
    BY <1>14 DEF L!KvDrops, L!TypeOK
  <2> QED
    BY <1>14, <2>1, TicketsGo DEF L!KvDrops
<1> QED
  BY <1>1, <1>2, <1>3, <1>4, <1>5, <1>6, <1>7, <1>8, <1>9, <1>10, <1>11, <1>12, <1>13, <1>14
  DEF L!Next

-----------------------------------------------------------------------------
(* Every step keeps what is known of counters.                               *)
LEMMA StepCounters == ASSUME L!LoginsAssumption, LoginsInv, [L!Next]_(L!vars) PROVE CountersOK'
<1> USE DEF LoginsInv, L!store, L!seen
<1>0. L!Idle \in Calls /\ L!Idle.at # "count"
  BY DEF Calls, L!Idle
<1>1. ASSUME UNCHANGED <<count, allowed, stale>>,
             \A c \in Clients : L!At(c)' = "count" => call'[c] = call[c]
      PROVE  CountersOK'
  BY <1>1 DEF CountersOK, L!At
<1>2. ASSUME NEW c \in Clients, NEW r \in Calls, L!Goto(c, r), r.at # "count",
             UNCHANGED <<count, allowed, stale>>
      PROVE  CountersOK'
  <2>1. call'[c] = r /\ \A d \in Clients \ {c} : call'[d] = call[d]
    BY <1>2, CallGoto
  <2>2. \A d \in Clients : L!At(d)' = "count" => call'[d] = call[d]
    BY <1>2, <2>1 DEF L!At
  <2> QED
    BY <1>1, <1>2, <2>2
<1>3. ASSUME NEW c \in Clients, NEW b \in L!Buckets, L!ReadCount(c, b) PROVE CountersOK'
  <2> DEFINE r == [at |-> "count", bucket |-> b, read |-> count[b]]
  <2>1. CASE count[b] >= Limit
    BY <1>0, <1>2, <1>3, <2>1 DEF L!ReadCount
  <2>2. CASE ~(count[b] >= Limit)
    <3>1. r \in Calls /\ count[b] < Limit
      BY <2>2 DEF L!TypeOK, Calls, Counting, L!LoginsAssumption
    <3>2. L!Goto(c, r)
      BY <1>3, <2>2 DEF L!ReadCount
    <3>3. call'[c] = r /\ \A d \in Clients \ {c} : call'[d] = call[d]
      BY <3>1, <3>2, CallGoto
    <3> QED
      BY <1>3, <3>1, <3>3 DEF L!ReadCount, CountersOK, L!At
  <2> QED
    BY <2>1, <2>2
<1>4. ASSUME NEW c \in Clients, L!WriteCount(c) PROVE CountersOK'
  <2> DEFINE b == call[c].bucket
             n == call[c].read
             r == [at |-> b[1], who |-> b[2]]
  <2>1. b \in L!Buckets /\ n \in Nat /\ n < Limit
    BY <1>4, CallTypes DEF L!WriteCount, Counting, CountersOK
  <2>2. r \in Calls /\ r.at # "count"
    BY <2>1 DEF Calls, Naming, L!Buckets
  <2>3. call'[c] = r /\ \A d \in Clients \ {c} : call'[d] = call[d]
    BY <1>4, <2>2, CallGoto DEF L!WriteCount
  <2>4. /\ count' = [count EXCEPT ![b] = n + 1]
        /\ allowed' = [allowed EXCEPT ![b] = @ + 1]
        /\ stale' = IF count[b] = n THEN stale ELSE stale \cup {b}
    BY <1>4 DEF L!WriteCount
  <2>5. \A d \in Clients : L!At(d)' = "count" => call'[d].read < Limit
    BY <2>2, <2>3 DEF L!At, CountersOK
  <2>6. \A x \in L!Buckets : count'[x] <= Limit
    BY <2>1, <2>4 DEF CountersOK, L!TypeOK, L!LoginsAssumption
  <2>7. \A x \in L!Buckets \ stale' : allowed'[x] = count'[x]
    BY <2>1, <2>4 DEF CountersOK, L!TypeOK
  <2> QED
    BY <2>5, <2>6, <2>7 DEF CountersOK, L!At
<1>5. ASSUME NEW c \in Clients, NEW t \in Tickets, L!Redeem(c, t) PROVE CountersOK'
  <2> DEFINE r == [at |-> "burn", ticket |-> t, kind |-> ticket[t].kind,
                   who |-> ticket[t].who, over |-> ticket[t].over]
  <2>1. r \in Calls /\ r.at # "count"
    BY <1>5 DEF L!Redeem, L!TypeOK, Calls, Holding
  <2> QED
    BY <1>2, <1>5, <2>1 DEF L!Redeem
<1>6. ASSUME NEW c \in Clients, L!Burn(c) PROVE CountersOK'
  <2>1. call[c] \in Holding
    BY <1>6, CallTypes DEF L!Burn
  <2>2. [call[c] EXCEPT !.at = "resolve"] \in Calls /\ [call[c] EXCEPT !.at = "resolve"].at # "count"
    BY <2>1 DEF Holding, Calls
  <2> QED
    BY <1>0, <1>2, <1>6, <2>2 DEF L!Burn
<1>7. ASSUME NEW c \in Clients, L!SendLink(c) \/ L!Resolve(c) \/ L!CheckPassword(c) \/ L!Cut(c) PROVE CountersOK'
  BY <1>0, <1>2, <1>7 DEF L!SendLink, L!Resolve, L!CheckPassword, L!Cut
<1>8. ASSUME NEW b \in L!Buckets, L!WindowEnds(b) PROVE CountersOK'
  BY <1>8 DEF L!WindowEnds, CountersOK, L!TypeOK, L!At, L!LoginsAssumption
<1>9. CASE UNCHANGED L!vars \/ L!TimeIsOver \/ L!KvDrops
  BY <1>1, <1>9 DEF L!vars, L!TimeIsOver, L!KvDrops
<1>10. ASSUME NEW c \in Clients, NEW s \in Sessions \cup {None}, L!StartGoogle(c, s) PROVE CountersOK'
  BY <1>1, <1>10 DEF L!StartGoogle
<1>11. ASSUME NEW c \in Clients, NEW s \in Sessions, L!LogOut(c, s) \/ L!LeaveAs(c, s) PROVE CountersOK'
  BY <1>1, <1>11 DEF L!LogOut, L!LeaveAs
<1> QED
  BY <1>3, <1>4, <1>5, <1>6, <1>7, <1>8, <1>9, <1>10, <1>11 DEF L!Next

-----------------------------------------------------------------------------
(* The inductive invariant of Logins, for any number of requests, people,    *)
(* tickets and sessions and any limit.                                       *)
THEOREM LoginsInvariance == L!Spec => []LoginsInv
<1>1. L!Init => LoginsInv
  BY LoginsInit, LoginsOK
<1>2. LoginsInv /\ [L!Next]_(L!vars) => LoginsInv'
  BY LoginsStepType, StepTickets, StepCounters, LoginsOK DEF LoginsInv
<1> QED
  BY <1>1, <1>2, PTL DEF L!Spec

(* users.ts, consumeMagicLink and takeOauthState; routes.ts, attemptAllowed; *)
(* users.ts, allowMagicSend: a link or state opens one session, and no more  *)
(* attempts pass than the counter allows, but where requests overlapped.     *)
THEOREM UsesLimited == L!Spec => []UsesAreLimited
<1>1. LoginsInv => L!SingleUse
  BY DEF LoginsInv, L!TypeOK, TicketsOK, OneHand, L!SingleUse
<1>2. LoginsInv => L!AttemptsLimited
  BY LoginsOK DEF LoginsInv, L!TypeOK, CountersOK, L!AttemptsLimited, L!LoginsAssumption
<1>3. LoginsInv => UsesAreLimited
  BY <1>1, <1>2 DEF UsesAreLimited, L!UsesAreLimited
<1> QED
  BY <1>3, LoginsInvariance, PTL

(* Every variable of Logins keeps its type.                                  *)
THEOREM LoginsTypeCorrect == L!Spec => []L!TypeOK
<1>1. LoginsInv => L!TypeOK
  BY DEF LoginsInv
<1> QED
  BY <1>1, LoginsInvariance, PTL
=============================================================================
