------------------------------ MODULE Accounts ------------------------------
(* The identity layer of the web app: user records and the unique indexes    *)
(* that resolve to them (src/web/users.ts), under the routes that sign       *)
(* people up and change their profile (src/web/auth/routes.ts).              *)
(*                                                                           *)
(* Every change of a user is a read of the whole record followed by a write  *)
(* of the whole record; only the claims of a uid, an additional address and  *)
(* a LINE account are checked, and only on the index. Requests interleave at *)
(* every read and write of the store, and may be cut anywhere.               *)
EXTENDS Naturals, FiniteSets

CONSTANTS Users,      \* user ids, drawn at random by the code
          Addresses,
          Names,      \* uids, LINE ids, Google subjects
          Secrets,    \* feed and mail secrets, LINE link codes: drawn at random
          Clients,    \* requests that may be under way at one time
          None,
          MaxUsers,   \* the sign-up cap
          Allowed,    \* addresses that may always create an account
          Requests    \* bound: requests in a behaviour

ASSUME AccountsAssumption ==
    /\ MaxUsers \in Nat \ {0}
    /\ Requests \in Nat
    /\ Allowed \subseteq Addresses
    /\ None \notin Users \cup Addresses \cup Names \cup Secrets
    /\ IsFiniteSet(Users) /\ Users # {} /\ Addresses # {} /\ Secrets # {}
    /\ IsFiniteSet(Clients) /\ Clients # {}

(* The fields of a user that an index resolves; both addresses share one.    *)
Fields == {"email", "altEmail", "ics", "mail", "uid", "line", "google", "code"}
SpaceOf(field) == IF field = "altEmail" THEN "email" ELSE field
Spaces == Fields \ {"altEmail"}
Handles == Addresses \cup Names \cup Secrets
Record == [Fields \cup {"verified"} -> Handles \cup {None} \cup BOOLEAN]
ASSUME RecordAssumption == None \notin Record

VARIABLES record,   \* record[u]: the user, or None
          index,    \* index[s][h]: the user a handle resolves to, or None
          req,      \* req[c]: the request of a client
          left,     \* requests still to come
          raced,    \* history: a request acted on what had changed since it read it
          torn      \* history: a request was cut between two of its writes

vars == <<record, index, req, left, raced, torn>>

Idle == [at |-> "idle"]
At(c) == req[c].at
Live == {u \in Users : record[u] # None}

(* Ids and secrets are random: new to everybody, and one as good as another. *)
Drawn(S) == CHOOSE x \in S : TRUE
Fresh(s) ==
    {h \in Secrets : /\ index[s][h] = None
                     /\ \A u \in Live : record[u][s] # h
                     /\ \A c \in Clients : "rec" \in DOMAIN req[c] => req[c].rec[s] # h
                     /\ \A c \in Clients : "code" \in DOMAIN req[c] => req[c].code # h}
FreshId ==
    {u \in Users \ Live : /\ \A s \in Spaces, h \in Handles : index[s][h] # u
                          /\ \A c \in Clients : "user" \in DOMAIN req[c] => req[c].user # u}

Find(s, h) == IF index[s][h] \in Live THEN index[s][h] ELSE None

(* A new user's record. A user from before mail forwarding has no secret.    *)
NewUser(address, ics, mail, verified) ==
    [f \in Fields \cup {"verified"} |->
        CASE f = "email" -> address
          [] f = "ics" -> ics
          [] f = "mail" -> mail
          [] f = "verified" -> verified
          [] OTHER -> None]

Init ==
    /\ \/ record = [u \in Users |-> None] /\ index = [s \in Spaces |-> [h \in Handles |-> None]]
       \/ LET old == Drawn(Users)
              address == Drawn(Addresses)
              ics == Drawn(Secrets)
          IN /\ record = [u \in Users |-> IF u = old THEN NewUser(address, ics, None, TRUE) ELSE None]
             /\ index = [s \in Spaces |-> [h \in Handles |->
                           IF <<s, h>> \in {<<"email", address>>, <<"ics", ics>>} THEN old ELSE None]]
    /\ req = [c \in Clients |-> Idle]
    /\ left = Requests
    /\ raced = FALSE
    /\ torn = FALSE

Goto(c, r) == req' = [req EXCEPT ![c] = r]
Step(c, at) == Goto(c, [req[c] EXCEPT !.at = at])
Stored == <<record, index, raced, torn>>
Begin(c) == At(c) = "idle" /\ left > 0 /\ left' = left - 1 /\ UNCHANGED Stored

-----------------------------------------------------------------------------
(* Signing up and signing in: by address (the e-mailed link and the          *)
(* password), or by Google with its subject.                                 *)
SignIn(c, address, sub, verified) ==
    /\ Begin(c)
    /\ Goto(c, [at |-> "cap", email |-> address, sub |-> sub, verified |-> verified,
                 known |-> FALSE])

(* A link clicked (the address is proven), a password chosen (it is not),     *)
(* the browser back from Google.                                             *)
Verify(c, address) == SignIn(c, address, None, TRUE)
Register(c, address) == SignIn(c, address, None, FALSE)
Callback(c, address, sub) == SignIn(c, address, sub, TRUE)

Known(r) ==
    (r.sub # None /\ Find("google", r.sub) # None) \/ Find("email", r.email) # None

AtCapacity(c) ==
    /\ At(c) = "cap"
    /\ \/ req[c].email \in Allowed /\ Step(c, "find")
       \/ /\ req[c].email \notin Allowed
          /\ Goto(c, [req[c] EXCEPT !.at = IF Known(req[c]) THEN "find" ELSE "count",
                                    !.known = Known(req[c])])
    /\ UNCHANGED <<record, index, left, raced, torn>>

(* Mistake: the cap counts as free when it is just reached.                  *)
CountUsersLate(c) ==
    /\ At(c) = "count"
    /\ IF Cardinality(Live) > MaxUsers THEN Goto(c, Idle) ELSE Step(c, "find")
    /\ UNCHANGED <<record, index, left, raced, torn>>

CountUsers(c) ==
    /\ At(c) = "count"
    /\ IF Cardinality(Live) >= MaxUsers THEN Goto(c, Idle) ELSE Step(c, "find")
    /\ UNCHANGED <<record, index, left, raced, torn>>

(* The look-ups that follow each other are one: the sub first, then the      *)
(* address; a password account whose address was never proven is not merged  *)
(* into a Google login.                                                      *)
Resolve(c) ==
    LET r == req[c]
        bySub == IF r.sub = None THEN None ELSE Find("google", r.sub)
        u == IF bySub # None THEN bySub ELSE Find("email", r.email)
    IN /\ At(c) = "find"
       /\ \/ u = None /\ Step(c, "create")
          \/ u # None /\ r.sub = None /\ Goto(c, Idle)
          \/ /\ u # None /\ r.sub # None
             /\ IF bySub = None /\ ~record[u].verified
                THEN Goto(c, Idle)
                ELSE Goto(c, [at |-> "read", user |-> u, field |-> "google", want |-> r.sub])
       /\ UNCHANGED <<record, index, left, raced, torn>>

Create(c) ==
    LET r == req[c]
        u == Drawn(FreshId)
        ics == Drawn(Fresh("ics"))
        mail == Drawn(Fresh("mail"))
    IN
    /\ At(c) = "create" /\ FreshId # {} /\ Fresh("ics") # {} /\ Fresh("mail") # {}
    /\ record' = [record EXCEPT ![u] = NewUser(r.email, ics, mail, r.verified)]
    /\ index' = [index EXCEPT !["email"][r.email] = u, !["ics"][ics] = u, !["mail"][mail] = u]
    /\ IF r.sub = None THEN Goto(c, Idle)
       ELSE Goto(c, [at |-> "read", user |-> u, field |-> "google", want |-> r.sub])
    /\ raced' = (raced \/ r.known \/ Find("email", r.email) # None)
    /\ UNCHANGED <<left, torn>>

-----------------------------------------------------------------------------
(* Changing a user: read the record, write it back with one field changed.   *)
(* "touch" stands for the fields no index is about (password, name, ledger). *)
Change(c, u, field, want) ==
    /\ u \in Live
    /\ Begin(c) /\ Goto(c, [at |-> "read", user |-> u, field |-> field, want |-> want])

(* Asking who one is gives a user from before mail forwarding a secret.      *)
Me(c, u) == Change(c, u, "mail", "ensure")

(* Linking Google from the profile: not a subject another user has; then the *)
(* user counts as verified, then the link is written.                        *)
LinkGoogle(c, u, sub) ==
    /\ u \in Live /\ Find("google", sub) \in {None, u}
    /\ Begin(c) /\ Goto(c, [at |-> "read", user |-> u, field |-> "verified", want |-> sub])

Claimed == {"uid", "altEmail", "line"}
Rotated == {"ics", "mail", "code"}

Unneeded(r, rec) ==
    \/ rec = None
    \/ r.field \in Claimed /\ r.want = rec[r.field]
    \/ r.field = "altEmail" /\ r.want = rec.email
    \/ r.field = "mail" /\ r.want = "ensure" /\ rec.mail # None

Read(c) ==
    LET r == req[c] IN
    /\ At(c) = "read"
    /\ IF Unneeded(r, record[r.user]) THEN Goto(c, Idle)
       ELSE Goto(c, [at |-> "write", user |-> r.user, field |-> r.field, want |-> r.want,
                     rec |-> record[r.user]])
    /\ UNCHANGED <<record, index, left, raced, torn>>

(* The record written back, and the index: the old handle out, the new in.   *)
Changed(r) ==
    CASE r.field = "touch" -> r.rec
      [] r.field = "verified" -> [r.rec EXCEPT !.verified = TRUE]
      [] OTHER -> [r.rec EXCEPT ![r.field] = r.want]
(* Mistake: the old handle stays in the index.                               *)
ReindexedKeeping(r) ==
    IF r.field \in {"touch", "verified", "google"} THEN index
    ELSE [index EXCEPT ![SpaceOf(r.field)] = [h \in Handles |-> IF h = r.want THEN r.user ELSE @[h]]]

Reindexed(r) ==
    IF r.field \in {"touch", "verified", "google"} THEN index
    ELSE [index EXCEPT ![SpaceOf(r.field)] =
            [h \in Handles |-> IF h = r.want THEN r.user
                               ELSE IF h = r.rec[r.field] THEN None ELSE @[h]]]

Put(c, r) ==
    /\ record' = [record EXCEPT ![r.user] = Changed(r)]
    /\ index' = Reindexed(r)
    /\ raced' = (raced \/ record[r.user] # r.rec)
    /\ Goto(c, CASE r.field = "verified" ->
                        [at |-> "read", user |-> r.user, field |-> "google", want |-> r.want]
                 [] r.field = "google" /\ r.want # None ->
                        [at |-> "link", user |-> r.user, sub |-> r.want]
                 [] OTHER -> Idle)
    /\ UNCHANGED <<left, torn>>

Taken(r) == r.field \in Claimed /\ r.want # None /\ index[SpaceOf(r.field)][r.want] # None

Write(c) ==
    LET r == req[c] IN
    /\ At(c) = "write"
    /\ \/ Taken(r) /\ Goto(c, Idle) /\ UNCHANGED <<record, index, left, raced, torn>>
       \/ ~Taken(r) /\ r.field \notin Rotated /\ Put(c, r)
       \/ /\ r.field \in Rotated /\ Fresh(r.field) # {}
          /\ Put(c, [r EXCEPT !.want = Drawn(Fresh(r.field))])

(* The second write of a Google link: its index.                             *)
IndexSub(c) ==
    LET r == req[c]
        holder == Find("google", r.sub)
    IN /\ At(c) = "link"
       /\ index' = [index EXCEPT !["google"][r.sub] = r.user]
       /\ raced' = (raced \/ (holder \notin {None, r.user} /\ record[holder].google = r.sub))
       /\ Goto(c, Idle)
       /\ UNCHANGED <<record, left, torn>>

-----------------------------------------------------------------------------
(* A LINE link code, typed into the chat: read, deleted, then the link.      *)
TypeCode(c, code, line) ==
    /\ index["code"][code] # None
    /\ Begin(c) /\ Goto(c, [at |-> "burn", user |-> index["code"][code], code |-> code, line |-> line])

BurnCode(c) ==
    LET r == req[c] IN
    /\ At(c) = "burn"
    /\ index' = [index EXCEPT !["code"][r.code] = None]
    /\ Goto(c, [at |-> "read", user |-> r.user, field |-> "line", want |-> r.line])
    /\ UNCHANGED <<record, left, raced, torn>>

CodeExpires(code) ==
    /\ index["code"][code] # None
    /\ index' = [index EXCEPT !["code"][code] = None]
    /\ UNCHANGED <<record, req, left, raced, torn>>

-----------------------------------------------------------------------------
(* Leaving: the record first, then each index entry it named, one by one.    *)
Leave(c, u) ==
    /\ u \in Live
    /\ Begin(c) /\ Goto(c, [at |-> "leave", user |-> u, rec |-> record[u]])

Order == <<"email", "altEmail", "google", "uid", "ics", "mail", "line", "code">>
Entries(rec) == {f \in Fields : rec[f] # None}

DropUser(c) ==
    LET r == req[c] IN
    /\ At(c) = "leave"
    /\ record' = [record EXCEPT ![r.user] = None]
    /\ raced' = (raced \/ record[r.user] # r.rec)
    /\ Goto(c, [at |-> "drop", user |-> r.user, rec |-> r.rec, todo |-> Entries(r.rec)])
    /\ UNCHANGED <<index, left, torn>>

DropEntry(c) ==
    LET r == req[c] IN
    /\ At(c) = "drop"
    /\ \E i \in DOMAIN Order :
        LET s == SpaceOf(Order[i])
            h == r.rec[Order[i]]
        IN /\ Order[i] \in r.todo /\ \A j \in 1 .. i - 1 : Order[j] \notin r.todo
           /\ index' = [index EXCEPT ![s][h] = None]
           /\ raced' = (raced \/ index[s][h] \notin {None, r.user})
           /\ Goto(c, IF r.todo = {Order[i]} THEN Idle ELSE [r EXCEPT !.todo = @ \ {Order[i]}])
    /\ UNCHANGED <<record, left, torn>>

(* A request is cut: what it wrote stays, the rest never happens.            *)
Cut(c) ==
    /\ At(c) # "idle"
    /\ Goto(c, Idle)
    /\ torn' = (torn \/ At(c) \in {"link", "drop"})
    /\ UNCHANGED <<record, index, left, raced>>

-----------------------------------------------------------------------------
Ask(c) ==
    \/ \E address \in Addresses : Verify(c, address) \/ Register(c, address)
    \/ \E address \in Addresses, sub \in Names : Callback(c, address, sub)
    \/ \E u \in Users, field \in Rotated \cup {"touch", "line", "google"} : Change(c, u, field, None)
    \/ \E u \in Users, name \in Names : Change(c, u, "uid", name) \/ LinkGoogle(c, u, name)
    \/ \E u \in Users, address \in Addresses : Change(c, u, "altEmail", address)
    \/ \E u \in Users : Me(c, u) \/ Leave(c, u)
    \/ \E code \in Secrets, line \in Names : TypeCode(c, code, line)

Work(c) ==
    \/ AtCapacity(c) \/ CountUsers(c) \/ Resolve(c) \/ Create(c)
    \/ Read(c) \/ Write(c) \/ IndexSub(c) \/ BurnCode(c)
    \/ DropUser(c) \/ DropEntry(c)

Next ==
    \/ \E c \in Clients : Ask(c) \/ Work(c) \/ Cut(c)
    \/ \E code \in Secrets : CodeExpires(code)

Spec == Init /\ [][Next]_vars

-----------------------------------------------------------------------------
(* Unless a request wrote back a record that had changed since it read it,   *)
(* or was cut between two writes, users and indexes agree: every handle of a *)
(* user resolves to that user, and every entry (but a Google subject, which  *)
(* unlinking leaves behind) is to a user who holds the handle: nobody who    *)
(* has left is ever resolved to, and nobody loses a handle to another.       *)
HandlesResolve ==
    \A u \in Live, f \in Fields \ {"code"} :
        record[u][f] # None =>
            \/ index[SpaceOf(f)][record[u][f]] = u
            \/ f = "google" /\ \E c \in Clients : At(c) = "link" /\ req[c].user = u
EntriesAreHeld ==
    \A s \in Spaces \ {"google"}, h \in Handles :
        index[s][h] # None =>
            LET u == index[s][h] IN
            \/ u \in Live /\ \E f \in Fields : SpaceOf(f) = s /\ record[u][f] = h
            \/ \E c \in Clients : At(c) = "drop" /\ req[c].user = u
IndexesAgree == ~raced /\ ~torn => HandlesResolve /\ EntriesAreHeld
=============================================================================
