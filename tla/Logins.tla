------------------------------- MODULE Logins -------------------------------
(* How a request comes to act as a user: sessions, the e-mailed links and    *)
(* Google states that open one, the counters that slow guessing down         *)
(* (src/web/users.ts, src/web/auth/routes.ts).                               *)
(*                                                                           *)
(* A ticket - a link or a state - is good for one use: it is read, then      *)
(* deleted, and nothing ties the two together. A counter is read, then       *)
(* written. Requests interleave at each of these steps and may be cut.       *)
EXTENDS Naturals, FiniteSets

CONSTANTS Clients,   \* requests that may be under way at one time
          People,    \* accounts, each with one address
          Tickets,   \* random: links and Google states
          Sessions,  \* random: session ids
          None,
          Limit,     \* attempts a counter allows in its window
          Requests   \* bound: requests in a behaviour

LoginsAssumption ==
    /\ Limit \in Nat \ {0}
    /\ Requests \in Nat
    /\ None \notin People \cup Tickets \cup Sessions
    /\ IsFiniteSet(Clients)

VARIABLES account,   \* account[p]: the person has one
          session,   \* session[s]: whose it is and whether its time is over, or None
          ticket,    \* ticket[t]: what it opens and whether its time is over, or None
          count,     \* count[b]: attempts counted in a bucket
          call,      \* call[c]: the request of a client
          toCome,    \* requests still to come
          opened,    \* history: sessions and links to Google a ticket led to
          shared,    \* history: tickets two requests had in hand at one time
          allowed,   \* history: attempts let through in the window of a bucket
          stale      \* history: counters written back after they had changed

vars == <<account, session, ticket, count, call, toCome, opened, shared, allowed, stale>>
store == <<account, session, ticket, count>>
seen == <<opened, shared, allowed, stale>>

(* A bucket for the links sent to each address, one for the password tries.  *)
Buckets == {"mail", "password"} \X People

Idle == [at |-> "idle"]
At(c) == call[c].at
Drawn(S) == CHOOSE x \in S : TRUE
Unused(c) == {t \in Tickets : ticket[t] = None /\ opened[t] = 0
                              /\ \A d \in Clients : "ticket" \in DOMAIN call[d] => call[d].ticket # t}

TypeOK ==
    /\ account \in [People -> BOOLEAN]
    /\ session \in [Sessions -> [who : People, over : BOOLEAN] \cup {None}]
    /\ ticket \in [Tickets -> [kind : {"link", "state"}, who : People \cup {None}, over : BOOLEAN]
                             \cup {None}]
    /\ count \in [Buckets -> Nat]
    /\ call \in [Clients ->
            {Idle} \cup [at : {"count"}, bucket : Buckets, read : Nat]
                  \cup [at : {"mail", "password"}, who : People]
                  \cup [at : {"burn", "resolve"}, ticket : Tickets, kind : {"link", "state"},
                        who : People \cup {None}, over : BOOLEAN]]
    /\ toCome \in 0 .. Requests
    /\ opened \in [Tickets -> Nat] /\ shared \subseteq Tickets
    /\ allowed \in [Buckets -> Nat] /\ stale \subseteq Buckets

Init ==
    /\ account \in [People -> BOOLEAN]
    /\ session = [s \in Sessions |-> None]
    /\ ticket = [t \in Tickets |-> None]
    /\ count = [b \in Buckets |-> 0]
    /\ call = [c \in Clients |-> Idle]
    /\ toCome = Requests
    /\ opened = [t \in Tickets |-> 0]
    /\ shared = {}
    /\ allowed = [b \in Buckets |-> 0]
    /\ stale = {}

Goto(c, r) == call' = [call EXCEPT ![c] = r]
Begin(c) == At(c) = "idle" /\ toCome > 0 /\ toCome' = toCome - 1

-----------------------------------------------------------------------------
(* Whose request it is. A session past its time is deleted when it is met;   *)
(* one of an account that is gone is nobody's.                               *)
SessionUser(s) ==
    IF session[s] # None /\ ~session[s].over /\ account[session[s].who]
    THEN session[s].who ELSE None

RequestUser(s) == IF s = None THEN None ELSE SessionUser(s)
MeetSession(s) ==
    session' = [session EXCEPT ![s] = IF @ # None /\ @.over THEN None ELSE @]

(* A session of the account, under an id never seen before.                  *)
OpenSession(p) ==
    LET s == Drawn({x \in Sessions : session[x] = None})
    IN session' = [session EXCEPT ![s] = [who |-> p, over |-> FALSE]]
Room == \E s \in Sessions : session[s] = None

-----------------------------------------------------------------------------
(* Mistake: the attempt that reaches the limit is let through.               *)
ReadCountLate(c, b) ==
    /\ Begin(c)
    /\ Goto(c, IF count[b] > Limit THEN Idle ELSE [at |-> "count", bucket |-> b, read |-> count[b]])
    /\ UNCHANGED <<store, seen>>

(* Both counters read, compare with the limit, write one more.               *)
ReadCount(c, b) ==
    /\ Begin(c)
    /\ Goto(c, IF count[b] >= Limit THEN Idle ELSE [at |-> "count", bucket |-> b, read |-> count[b]])
    /\ UNCHANGED <<store, seen>>
WriteCount(c) ==
    LET r == call[c]
        b == r.bucket
    IN /\ At(c) = "count"
       /\ count' = [count EXCEPT ![b] = r.read + 1]
       /\ allowed' = [allowed EXCEPT ![b] = @ + 1]
       /\ stale' = IF count[b] = r.read THEN stale ELSE stale \cup {b}
       /\ Goto(c, [at |-> b[1], who |-> b[2]])
       /\ UNCHANGED <<account, session, ticket, toCome, opened, shared>>

(* The window of a counter ends: the store drops it.                         *)
WindowEnds(b) ==
    /\ count[b] > 0
    /\ count' = [count EXCEPT ![b] = 0]
    /\ allowed' = [allowed EXCEPT ![b] = 0]
    /\ stale' = stale \ {b}
    /\ UNCHANGED <<account, session, ticket, call, toCome, opened, shared>>

-----------------------------------------------------------------------------
NewLink(p) == [kind |-> "link", who |-> p, over |-> FALSE]
NewState(p) == [kind |-> "state", who |-> p, over |-> FALSE]

(* The link: stored, then mailed; the mail may fail and the link remains.    *)
SendLink(c) ==
    /\ At(c) = "mail" /\ Unused(c) # {}
    /\ ticket' = [ticket EXCEPT ![Drawn(Unused(c))] = NewLink(call[c].who)]
    /\ Goto(c, Idle)
    /\ UNCHANGED <<account, session, count, toCome, seen>>

(* Google: the state that comes back, bound to the account when the person   *)
(* who asked is logged in and asked to link.                                 *)
StartGoogle(c, s) ==
    LET p == RequestUser(s) IN
    /\ Begin(c) /\ Unused(c) # {}
    /\ IF s = None THEN UNCHANGED session ELSE MeetSession(s)
    /\ ticket' = IF s # None /\ p = None THEN ticket   \* not logged in
                 ELSE [ticket EXCEPT ![Drawn(Unused(c))] = NewState(p)]
    /\ UNCHANGED <<account, count, call, seen>>

(* The link clicked, the browser back from Google: the ticket is read...     *)
Redeem(c, t) ==
    /\ Begin(c)
    /\ ticket[t] # None
    /\ Goto(c, [at |-> "burn", ticket |-> t, kind |-> ticket[t].kind,
                who |-> ticket[t].who, over |-> ticket[t].over])
    /\ shared' = IF \E d \in Clients : At(d) = "burn" /\ call[d].ticket = t
                 THEN shared \cup {t} ELSE shared
    /\ UNCHANGED <<store, opened, allowed, stale>>

(* Mistake: only a link whose time is over is deleted.                       *)
BurnOverOnly(c) ==
    LET r == call[c] IN
    /\ At(c) = "burn"
    /\ ticket' = IF r.over THEN [ticket EXCEPT ![r.ticket] = None] ELSE ticket
    /\ \/ ~(r.kind = "link" /\ r.over) /\ Goto(c, [r EXCEPT !.at = "resolve"])
       \/ (r.kind = "link" => r.over) /\ Goto(c, Idle)
    /\ UNCHANGED <<account, session, count, toCome, seen>>

(* ... deleted; a link whose time is over opens nothing, a code Google       *)
(* refuses to exchange neither.                                              *)
Burn(c) ==
    LET r == call[c] IN
    /\ At(c) = "burn"
    /\ ticket' = [ticket EXCEPT ![r.ticket] = None]
    /\ \/ ~(r.kind = "link" /\ r.over) /\ Goto(c, [r EXCEPT !.at = "resolve"])
       \/ (r.kind = "link" => r.over) /\ Goto(c, Idle)
    /\ UNCHANGED <<account, session, count, toCome, seen>>
(* ... and its account found or created, unless the cap (Accounts) or the    *)
(* rules about unproven addresses refuse; a session opened. A state bound to *)
(* an account needs that account to be there still.                          *)
Resolve(c) ==
    LET r == call[c] IN
    /\ At(c) = "resolve" /\ Room
    /\ \/ \E p \in People :
            /\ r.who # None => p = r.who
            /\ r.kind = "state" /\ r.who # None => account[p]
            /\ account' = [account EXCEPT ![p] = TRUE]
            /\ OpenSession(p)
            /\ opened' = [opened EXCEPT ![r.ticket] = @ + 1]
       \/ UNCHANGED <<account, session, opened>>
    /\ Goto(c, Idle)
    /\ UNCHANGED <<ticket, count, toCome, shared, allowed, stale>>

(* The password compared, after the attempt was counted.                     *)
CheckPassword(c) ==
    /\ At(c) = "password"
    /\ \/ account[call[c].who] /\ Room /\ OpenSession(call[c].who)
       \/ UNCHANGED session
    /\ Goto(c, Idle)
    /\ UNCHANGED <<account, ticket, count, toCome, seen>>

LogOut(c, s) ==
    /\ Begin(c)
    /\ session' = [session EXCEPT ![s] = None]
    /\ UNCHANGED <<account, ticket, count, call, seen>>

(* The account leaves; its sessions stay in the store.                       *)
LeaveAs(c, s) ==
    /\ Begin(c)
    /\ RequestUser(s) # None
    /\ account' = [account EXCEPT ![RequestUser(s)] = FALSE]
    /\ UNCHANGED <<session, ticket, count, call, seen>>

-----------------------------------------------------------------------------
(* Time runs out, and the store drops what it should no longer hold some     *)
(* time after that; a request is cut.                                        *)
TimeIsOver ==
    /\ \/ \E t \in Tickets : /\ ticket[t] # None /\ ~ticket[t].over
                             /\ ticket' = [ticket EXCEPT ![t].over = TRUE]
                             /\ UNCHANGED session
       \/ \E s \in Sessions : /\ session[s] # None /\ ~session[s].over
                              /\ session' = [session EXCEPT ![s].over = TRUE]
                              /\ UNCHANGED ticket
    /\ UNCHANGED <<account, count, call, toCome, seen>>

KvDrops ==
    /\ \/ \E t \in Tickets : /\ ticket[t] # None /\ ticket[t].over
                             /\ ticket' = [ticket EXCEPT ![t] = None]
                             /\ UNCHANGED session
       \/ \E s \in Sessions : /\ session[s] # None /\ session[s].over
                              /\ session' = [session EXCEPT ![s] = None]
                              /\ UNCHANGED ticket
    /\ UNCHANGED <<account, count, call, toCome, seen>>

Cut(c) ==
    /\ At(c) # "idle"
    /\ Goto(c, Idle)
    /\ UNCHANGED <<store, toCome, seen>>

Next ==
    \/ \E c \in Clients :
         \/ \E b \in Buckets : ReadCount(c, b)
         \/ \E s \in Sessions \cup {None} : StartGoogle(c, s)
         \/ \E t \in Tickets : Redeem(c, t)
         \/ \E s \in Sessions : LogOut(c, s) \/ LeaveAs(c, s)
         \/ WriteCount(c) \/ SendLink(c) \/ Burn(c) \/ Resolve(c) \/ CheckPassword(c) \/ Cut(c)
    \/ \E b \in Buckets : WindowEnds(b)
    \/ TimeIsOver \/ KvDrops

Spec == Init /\ [][Next]_vars

-----------------------------------------------------------------------------
(* A link or a Google state opens one session; only requests that had it in  *)
(* hand together, read by both before either deleted it, share it            *)
(* (users.ts, consumeMagicLink and takeOauthState, "single-use"). And no     *)
(* more attempts pass than the counter allows in its window, unless          *)
(* overlapping attempts wrote over each other's count (routes.ts,            *)
(* attemptAllowed; users.ts, allowMagicSend).                                *)
SingleUse == \A t \in Tickets : opened[t] > 1 => t \in shared
AttemptsLimited == \A b \in Buckets : allowed[b] > Limit => b \in stale
UsesAreLimited == SingleUse /\ AttemptsLimited
=============================================================================
