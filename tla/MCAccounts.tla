---------------------------- MODULE MCAccounts ----------------------------
(* Instances of Accounts and Logins for TLC. A behaviour is of one of the two *)
(* throughout: what they share, the users who come into being, Logins keeps  *)
(* as one Boolean a person.                                                  *)
EXTENDS Accounts, TLC

CONSTANTS People, Tickets, Sessions, Limit, LoginRequests

VARIABLES account, session, ticket, count, call, toCome, opened, shared, allowed, stale

L == INSTANCE Logins WITH Requests <- LoginRequests
ASSUME LoginsOK == L!LoginsAssumption

VARIABLE part

door == <<account, session, ticket, count, call, toCome, opened, shared, allowed, stale>>

Symmetry == Permutations(Clients)

\* Once a request has acted on what changed, nothing more is claimed.
Undisturbed == ~raced

MCInit ==
    /\ Init /\ L!Init
    /\ part \in {"accounts", "logins"}
    /\ part = "accounts" => \A p \in People : ~account[p]
    /\ part = "logins" => Live = {}

InAccounts == part = "accounts" /\ UNCHANGED <<door, part>>
InLogins == part = "logins" /\ UNCHANGED <<vars, part>>

MCNext ==
  \/ \E c \in Clients :
       \/ InAccounts /\ Ask(c)
       \/ InAccounts /\ AtCapacity(c)
       \/ InAccounts /\ CountUsers(c)
       \/ InAccounts /\ Resolve(c)
       \/ InAccounts /\ Create(c)
       \/ InAccounts /\ Read(c)
       \/ InAccounts /\ Write(c)
       \/ InAccounts /\ IndexSub(c)
       \/ InAccounts /\ BurnCode(c)
       \/ InAccounts /\ DropUser(c)
       \/ InAccounts /\ DropEntry(c)
       \/ InAccounts /\ Cut(c)
  \/ \E code \in Secrets : InAccounts /\ CodeExpires(code)
  \/ \E c \in Clients :
       \/ \E b \in L!Buckets : InLogins /\ L!ReadCount(c, b)
       \/ \E s \in Sessions \cup {None} : InLogins /\ L!StartGoogle(c, s)
       \/ \E t \in Tickets : InLogins /\ L!Redeem(c, t)
       \/ \E s \in Sessions : InLogins /\ L!LogOut(c, s)
       \/ \E s \in Sessions : InLogins /\ L!LeaveAs(c, s)
       \/ InLogins /\ L!WriteCount(c)
       \/ InLogins /\ L!SendLink(c)
       \/ InLogins /\ L!Burn(c)
       \/ InLogins /\ L!Resolve(c)
       \/ InLogins /\ L!CheckPassword(c)
       \/ InLogins /\ L!Cut(c)
  \/ \E b \in L!Buckets : InLogins /\ L!WindowEnds(b)
  \/ InLogins /\ L!TimeIsOver
  \/ InLogins /\ L!KvDrops

MCSpec == MCInit /\ [][MCNext]_<<vars, door, part>>

\* The property of Logins in this instance.
UsesAreLimited == L!UsesAreLimited
=============================================================================
