--------------------------- MODULE DevicePairing ---------------------------
(***************************************************************************)
(* web/auth/device.ts: a PC without a browser asks for a code, a person    *)
(* types it on a phone and approves or denies, the PC polls until it gets  *)
(* the token.  One pairing: its record in KV, the polls and the decisions  *)
(* that read it and write it back, and the token store of ApiTokens.       *)
(***************************************************************************)
EXTENDS ApiTokens

CONSTANTS
  Polls,      \* polls of the PC that may be under way at once
  Phones,     \* requests of people who typed the code
  Life,       \* DEVICE_CODE_TTL_MS, in units of the clock
  Interval,   \* DEVICE_POLL_INTERVAL_SEC; 0 for a PC that never polls too soon
  MaxPolls,   \* DEVICE_MAX_POLLS, 200 in the code
  MaxWrites   \* bound: writes of the record

ASSUME DevicePairingAssumption ==
  /\ {Life, Interval, MaxPolls, MaxWrites} \subseteq Nat /\ MaxWrites > 0
  /\ Polls \cap Phones = {}

VARIABLES
  rec,      \* device_code/<code>, or Null
  typable,  \* does device_user_code/<user code> still lead to the record
  writes,   \* versionstamps given to the record so far
  now,      \* the clock, stopped at Life
  poll,     \* each poll: Null, or the record it read and when
  phone,    \* each phone's request: [at, seen, user, token]
  handed,   \* history: how often each token went out to the PC
  undead    \* history: tokens on a record written back after they were handed out

record == <<rec, typable, writes>>
vars == <<tokenStore, record, now, poll, phone, handed, undead>>

Record == [status : {"pending", "approved", "denied"}, user : Users \cup {Null},
           token : Tokens \cup {Null}, lastPoll : 0 .. Life \cup {Null},
           polls : 0 .. MaxPolls, interval : Nat, version : 1 .. MaxWrites]
PollState == [seen : Record, at : 0 .. Life]
ASSUME RecordAssumption == Null \notin Record \cup PollState

Idle == [at |-> "idle", seen |-> Null, user |-> Null, token |-> Null]

TypeOK ==
  /\ TokenTypeOK
  /\ rec \in Record \cup {Null}
  /\ typable \in BOOLEAN /\ (typable /\ now < Life => rec # Null)
  /\ writes \in 0 .. MaxWrites /\ now \in 0 .. Life
  /\ poll \in [Polls -> PollState \cup {Null}]
  /\ phone \in [Phones -> [at : {"idle", "found", "list", "mint", "park", "deny"},
                           seen : Record \cup {Null}, user : Users \cup {Null},
                           token : Tokens \cup {Null}]]
  /\ handed \in [Tokens -> Nat] /\ undead \subseteq Tokens

Fresh == [status |-> "pending", user |-> Null, token |-> Null, lastPoll |-> Null,
          polls |-> 0, interval |-> Interval, version |-> 1]

\* createDeviceCode has just answered.
Init ==
  /\ TokenInit
  /\ rec = Fresh /\ typable = TRUE /\ writes = 1 /\ now = 0
  /\ poll = [p \in Polls |-> Null]
  /\ phone = [c \in Phones |-> Idle]
  /\ handed = [t \in Tokens |-> 0] /\ undead = {}

-----------------------------------------------------------------------------
(* The record in KV: set is blind, delete takes the user code with it.     *)

Set(r) ==
  /\ writes < MaxWrites /\ writes' = writes + 1
  /\ rec' = [r EXCEPT !.version = writes + 1]
  /\ undead' = undead \cup {t \in Tokens : t = r.token /\ handed[t] > 0}
  /\ UNCHANGED typable

Delete == rec' = Null /\ typable' = FALSE /\ UNCHANGED <<writes, undead>>

\* Both keys carry expireIn; KV drops them some time after.
KvExpires ==
  /\ now = Life /\ Delete
  /\ UNCHANGED <<tokenStore, now, poll, phone, handed>>

Tick ==
  /\ now < Life /\ now' = now + 1
  /\ UNCHANGED <<tokenStore, record, poll, phone, handed, undead>>

-----------------------------------------------------------------------------
(* pollDeviceToken: one read, then one write that the read decides.        *)

StartPoll(p) ==
  /\ poll[p] = Null /\ rec # Null
  /\ poll' = [poll EXCEPT ![p] = [seen |-> rec, at |-> now]]
  /\ UNCHANGED <<tokenStore, record, now, phone, handed, undead>>

Seen(p) == poll[p].seen
Expired(p) == poll[p].at >= Life \/ Seen(p).polls >= MaxPolls
TooSoon(p) == Seen(p).lastPoll # Null /\ poll[p].at - Seen(p).lastPoll < Seen(p).interval
Counted(p) == [Seen(p) EXCEPT !.lastPoll = poll[p].at, !.polls = @ + 1,
                              !.interval = IF TooSoon(p) THEN @ + Interval ELSE @]

\* A poll is denied when the record says so, or is over its time or its count.
Refuse(p) ==
  /\ Expired(p) \/ (~TooSoon(p) /\ Seen(p).status = "denied")
  /\ Delete /\ UNCHANGED handed

\* slow_down and authorization_pending write the record back, counted.
Wait(p) ==
  /\ ~Expired(p) /\ (TooSoon(p) \/ Seen(p).status = "pending")
  /\ Set(Counted(p)) /\ UNCHANGED handed

\* Mistake: no check of the versionstamp.
TakeUnchecked(p) ==
  /\ ~Expired(p) /\ ~TooSoon(p) /\ Seen(p).status = "approved"
  /\ Delete /\ handed' = [handed EXCEPT ![Seen(p).token] = @ + 1]

\* The token goes out if the record is still the one that was read.
Take(p) ==
  /\ ~Expired(p) /\ ~TooSoon(p) /\ Seen(p).status = "approved"
  /\ IF rec # Null /\ rec.version = Seen(p).version
       THEN Delete /\ handed' = [handed EXCEPT ![Seen(p).token] = @ + 1]
       ELSE UNCHANGED <<record, handed, undead>>

AnswerPoll(p) ==
  /\ poll[p] # Null /\ poll' = [poll EXCEPT ![p] = Null]
  /\ Refuse(p) \/ Wait(p) \/ Take(p)
  /\ UNCHANGED <<tokenStore, now, phone>>

-----------------------------------------------------------------------------
(* approveDevice and denyDevice.                                           *)

Goto(c, at) == phone' = [phone EXCEPT ![c].at = at]
Leave(c) == phone' = [phone EXCEPT ![c] = Idle]

\* readByUserCode and the checks on what it found.
Decide(c, u, at) ==
  /\ phone[c] = Idle /\ at \in {"list", "deny"}
  /\ typable /\ rec # Null /\ now < Life /\ rec.status = "pending"
  /\ phone' = [phone EXCEPT ![c] = [at |-> at, seen |-> rec, user |-> u, token |-> Null]]
  /\ UNCHANGED <<tokenStore, record, now, poll, handed, undead>>

ListTokens(c) ==
  /\ phone[c].at = "list"
  /\ IF HasRoom(phone[c].user) THEN Goto(c, "mint") ELSE Leave(c)
  /\ UNCHANGED <<tokenStore, record, now, poll, handed, undead>>

IssueToken(c) ==
  /\ phone[c].at = "mint" /\ Mint(phone[c].user)
  /\ phone' = [phone EXCEPT ![c].at = "park", ![c].token = minted + 1]
  /\ UNCHANGED <<step, revoked, record, now, poll, handed, undead>>

Park(c) ==
  /\ phone[c].at = "park"
  /\ Set([phone[c].seen EXCEPT !.status = "approved", !.user = phone[c].user, !.token = phone[c].token])
  /\ Leave(c)
  /\ UNCHANGED <<tokenStore, now, poll, handed>>

Deny(c) ==
  /\ phone[c].at = "deny"
  /\ Set([phone[c].seen EXCEPT !.status = "denied"])
  /\ Leave(c)
  /\ UNCHANGED <<tokenStore, now, poll, handed>>

\* A request that ends between two of its KV calls.
Crash ==
  /\ \/ \E p \in Polls : poll[p] # Null /\ poll' = [poll EXCEPT ![p] = Null] /\ UNCHANGED phone
     \/ \E c \in Phones : phone[c] # Idle /\ Leave(c) /\ UNCHANGED poll
  /\ UNCHANGED <<tokenStore, record, now, handed, undead>>

Next ==
  \/ \E p \in Polls : StartPoll(p) \/ AnswerPoll(p)
  \/ \E c \in Phones : \/ \E u \in Users, at \in {"list", "deny"} : Decide(c, u, at)
                       \/ ListTokens(c) \/ IssueToken(c) \/ Park(c) \/ Deny(c)
  \/ Tick \/ KvExpires \/ Crash
  \/ TokenNext /\ UNCHANGED <<record, now, poll, phone, handed, undead>>

Spec == Init /\ [][Next]_vars

-----------------------------------------------------------------------------
(* Properties.                                                             *)

\* "the token is handed out exactly once" (device.ts:176): polls that overlap and a
\* second approval of the same code never give one token to two polls, unless a
\* poll that came too soon wrote back a record that another one had consumed. And the
\* token parked on the record works for the person who approved, unless its owner has
\* revoked it meanwhile: the PC is never promised a token that was not issued
\* (device.ts:282-305, users.ts:503-526).
HandedOutOnce == \A t \in Tokens : handed[t] > 1 => t \in undead
ParkedTokenIsReal ==
  rec # Null /\ rec.status = "approved" =>
    /\ rec.token \in 1 .. minted
    /\ works[rec.token] = rec.user \/ rec.token \in revoked
TokenHandOver == HandedOutOnce /\ ParkedTokenIsReal
=============================================================================
