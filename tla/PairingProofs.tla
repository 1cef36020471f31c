--------------------------- MODULE PairingProofs ---------------------------
(***************************************************************************)
(* Proofs about the two sides of device pairing, for any number of users,  *)
(* requests, polls, tokens and codes.                                      *)
(*                                                                         *)
(* ApiTokens: whatever requests are under way and wherever they end, a     *)
(* working token is listed to the user it works for, and a token that a    *)
(* revocation stopped never works again.                                   *)
(* DevicePairing: the token of an approval goes out once, and is real.     *)
(* PcPairing: the code on the screen is one that a loop polls for.         *)
(***************************************************************************)
EXTENDS MCPairing, TLAPS

-----------------------------------------------------------------------------
(* ApiTokens.                                                              *)

(***************************************************************************)
(* The inductive invariant.  Tokens not yet issued are neither working nor *)
(* listed (so minting one disturbs no other), only issued tokens are       *)
(* revoked, a use that may still write a token's row holds the user the    *)
(* token stands for, and a revocation unlists only what it has stopped.    *)
(***************************************************************************)
UnissuedIsBlank ==
  /\ \A t \in Tokens : t > minted => works[t] = Null /\ listed[t] = Null
  /\ \A t \in revoked : t <= minted

UsesKnowTheUser ==
  \A c \in Clients : step[c].at \in {"row", "touch"} =>
    /\ step[c].token <= minted
    /\ works[step[c].token] \in {step[c].user, Null}

RevokersStopFirst ==
  \A c \in Clients :
    /\ step[c].at \in {"unkey", "unlist"} => step[c].token <= minted
    /\ step[c].at = "unlist" => works[step[c].token] = Null

MintersHaveUsers == \A c \in Clients : step[c].at = "mint" => step[c].user \in Users

TokenInv ==
  /\ TokenTypeOK
  /\ UnissuedIsBlank
  /\ UsesKnowTheUser
  /\ RevokersStopFirst
  /\ MintersHaveUsers
  /\ WorkingIsListed
  /\ RevokedStaysDead

USE DEF Tokens

\* The inductive invariant holds at the start.
LEMMA TokenInvInit == TokenInit => TokenInv
  BY ApiTokensAssumption DEF TokenInit, TokenInv, TokenTypeOK, UnissuedIsBlank, UsesKnowTheUser, RevokersStopFirst,
     MintersHaveUsers, WorkingIsListed, RevokedStaysDead, NoStep, Step

\* Every step keeps the inductive invariant.
LEMMA TokenInvStep == TokenInv /\ [TokenNext]_tokenStore => TokenInv'
<1> SUFFICES ASSUME TokenInv, [TokenNext]_tokenStore PROVE TokenInv'
  OBVIOUS
<1> USE ApiTokensAssumption DEF TokenInv
<1>1. CASE UNCHANGED tokenStore
  BY <1>1 DEF tokenStore, tokenVars, TokenTypeOK, UnissuedIsBlank, UsesKnowTheUser, RevokersStopFirst,
     MintersHaveUsers, WorkingIsListed, RevokedStaysDead
<1>2. ASSUME NEW c \in Clients, NEW u \in Users, StartIssue(c, u) PROVE TokenInv'
  BY <1>2 DEF StartIssue, Become, tokenVars, TokenTypeOK, UnissuedIsBlank, UsesKnowTheUser,
     RevokersStopFirst, MintersHaveUsers, WorkingIsListed, RevokedStaysDead, NoStep, Step
<1>3. ASSUME NEW c \in Clients, FinishIssue(c) PROVE TokenInv'
  <2> DEFINE n == minted + 1
  <2>1. /\ step[c].at = "mint" /\ minted < MaxTokens /\ minted' = n /\ UNCHANGED revoked
        /\ works' = [works EXCEPT ![n] = step[c].user]
        /\ listed' = [listed EXCEPT ![n] = step[c].user]
        /\ step' = [step EXCEPT ![c] = NoStep]
    BY <1>3 DEF FinishIssue, Mint
  <2>2. n \in Tokens /\ step[c].user \in Users /\ minted \in Nat
    BY <2>1 DEF TokenTypeOK, MintersHaveUsers
  <2>3. TokenTypeOK'
    BY <2>1, <2>2 DEF TokenTypeOK, NoStep, Step
  <2>4. UnissuedIsBlank'
    BY <2>1, <2>2 DEF TokenTypeOK, UnissuedIsBlank
  <2>5. UsesKnowTheUser'
    BY <2>1, <2>2 DEF TokenTypeOK, UsesKnowTheUser, NoStep
  <2>6. RevokersStopFirst'
    BY <2>1, <2>2 DEF TokenTypeOK, RevokersStopFirst, NoStep
  <2>7. MintersHaveUsers'
    BY <2>1 DEF TokenTypeOK, MintersHaveUsers, NoStep
  <2>8. WorkingIsListed'
    BY <2>1, <2>2 DEF TokenTypeOK, WorkingIsListed
  <2>9. ASSUME NEW t \in revoked PROVE works'[t] = Null
    <3>1. t \in Tokens /\ t <= minted
      BY DEF TokenTypeOK, UnissuedIsBlank
    <3>2. works'[t] = works[t]
      BY <2>1, <2>2, <3>1 DEF TokenTypeOK
    <3> QED
      BY <3>2 DEF RevokedStaysDead
  <2>10. RevokedStaysDead'
    BY <2>1, <2>9 DEF RevokedStaysDead
  <2> QED
    BY <2>3, <2>4, <2>5, <2>6, <2>7, <2>8, <2>10
<1>4. ASSUME NEW c \in Clients, NEW u \in Users, NEW t \in Tokens, StartRevoke(c, u, t) PROVE TokenInv'
  <2>1. t <= minted
    BY <1>4 DEF StartRevoke, UnissuedIsBlank, TokenTypeOK
  <2> QED
    BY <1>4, <2>1 DEF StartRevoke, Become, tokenVars, TokenTypeOK, UnissuedIsBlank, UsesKnowTheUser,
       RevokersStopFirst, MintersHaveUsers, WorkingIsListed, RevokedStaysDead, NoStep, Step
<1>5. ASSUME NEW c \in Clients, StopWorking(c) PROVE TokenInv'
  BY <1>5 DEF StopWorking, Become, TokenTypeOK, UnissuedIsBlank, UsesKnowTheUser, RevokersStopFirst,
     MintersHaveUsers, WorkingIsListed, RevokedStaysDead, Step
<1>6. ASSUME NEW c \in Clients, FinishRevoke(c) PROVE TokenInv'
  BY <1>6 DEF FinishRevoke, TokenTypeOK, UnissuedIsBlank, UsesKnowTheUser, RevokersStopFirst,
     MintersHaveUsers, WorkingIsListed, RevokedStaysDead, NoStep, Step
<1>7. ASSUME NEW c \in Clients, NEW t \in Tokens, StartUse(c, t) PROVE TokenInv'
  <2>1. t <= minted /\ works[t] \in Users
    BY <1>7 DEF StartUse, UnissuedIsBlank, TokenTypeOK
  <2> QED
    BY <1>7, <2>1 DEF StartUse, Become, tokenVars, TokenTypeOK, UnissuedIsBlank, UsesKnowTheUser,
       RevokersStopFirst, MintersHaveUsers, WorkingIsListed, RevokedStaysDead, NoStep, Step
<1>8. ASSUME NEW c \in Clients, ReadRow(c) PROVE TokenInv'
  <2>1. step[c].at = "row" /\ UNCHANGED <<works, listed, minted, revoked>>
    BY <1>8 DEF ReadRow, tokenVars
  <2>2. \/ step' = [step EXCEPT ![c] = NoStep]
        \/ step' = [step EXCEPT ![c] = [at |-> "touch", user |-> step[c].user, token |-> step[c].token]]
    BY <1>8 DEF ReadRow, Become
  <2>3. TokenTypeOK'
    <3>1. CASE step' = [step EXCEPT ![c] = NoStep]
      BY <2>1, <3>1, SMTT(30) DEF TokenTypeOK, NoStep, Step
    <3>2. CASE step' = [step EXCEPT ![c] = [at |-> "touch", user |-> step[c].user,
                                            token |-> step[c].token]]
      BY <2>1, <3>2, SMTT(30) DEF TokenTypeOK, Step
    <3> QED
      BY <2>2, <3>1, <3>2
  <2>4. /\ \A d \in Clients \ {c} : step'[d] = step[d]
        /\ step'[c].at \in {"idle", "touch"}
        /\ step'[c].at = "touch" => step'[c].user = step[c].user /\ step'[c].token = step[c].token
    BY <2>2 DEF TokenTypeOK, NoStep
  <2>7. UsesKnowTheUser'
    BY <2>1, <2>4 DEF UsesKnowTheUser
  <2>8. RevokersStopFirst'
    BY <2>1, <2>4 DEF RevokersStopFirst
  <2>9. MintersHaveUsers'
    BY <2>1, <2>4 DEF MintersHaveUsers
  <2>5. UnissuedIsBlank'
    BY <2>1 DEF UnissuedIsBlank
  <2>6. WorkingIsListed' /\ RevokedStaysDead'
    BY <2>1 DEF WorkingIsListed, RevokedStaysDead
  <2> QED
    BY <2>3, <2>5, <2>6, <2>7, <2>8, <2>9
<1>9. ASSUME NEW c \in Clients, WriteLastUsed(c) PROVE TokenInv'
  BY <1>9 DEF WriteLastUsed, TokenTypeOK, UnissuedIsBlank, UsesKnowTheUser, RevokersStopFirst,
     MintersHaveUsers, WorkingIsListed, RevokedStaysDead, NoStep, Step
<1>10. ASSUME NEW c \in Clients, TokenCrash(c) PROVE TokenInv'
  BY <1>10 DEF TokenCrash, tokenVars, TokenTypeOK, UnissuedIsBlank, UsesKnowTheUser, RevokersStopFirst,
     MintersHaveUsers, WorkingIsListed, RevokedStaysDead, NoStep, Step
<1> QED
  BY <1>1, <1>2, <1>3, <1>4, <1>5, <1>6, <1>7, <1>8, <1>9, <1>10 DEF TokenNext

\* The inductive invariant is an invariant of the specification.
LEMMA TokenInvariance == TokenSpec => []TokenInv
<1>1. TokenInit => TokenInv
  BY TokenInvInit
<1>2. TokenInv /\ [TokenNext]_tokenStore => TokenInv'
  BY TokenInvStep
<1> QED
  BY <1>1, <1>2, PTL DEF TokenSpec

\* For any number of users, clients and tokens: a working token is in the list of
\* the user it works for, where it can be found and revoked (users.ts:429-431).
THEOREM WorkingTokensAreListed == TokenSpec => []WorkingIsListed
<1>1. TokenInv => WorkingIsListed
  BY DEF TokenInv
<1> QED
  BY <1>1, TokenInvariance, PTL

\* For any number of users, clients and tokens: a token a revocation has stopped
\* never works again (users.ts:530-577).
THEOREM RevocationIsFinal == TokenSpec => []RevokedStaysDead
<1>1. TokenInv => RevokedStaysDead
  BY DEF TokenInv
<1> QED
  BY <1>1, TokenInvariance, PTL

\* Every variable keeps its type.
THEOREM TypeCorrect == TokenSpec => []TokenTypeOK
<1>1. TokenInv => TokenTypeOK
  BY DEF TokenInv
<1> QED
  BY <1>1, TokenInvariance, PTL

\* Issuing a token to a user, as a request or as an approval, keeps the invariant.
LEMMA MintKeeps ==
  ASSUME TokenInv, NEW u \in Users, Mint(u), UNCHANGED <<revoked, step>>
  PROVE  TokenInv' /\ minted' = minted + 1 /\ minted + 1 \in Tokens /\ works'[minted + 1] = u
         /\ \A t \in 1 .. minted : works'[t] = works[t]
<1> DEFINE n == minted + 1
<1> USE DEF TokenInv
<1>1. /\ minted < MaxTokens /\ minted' = n /\ UNCHANGED <<revoked, step>>
      /\ works' = [works EXCEPT ![n] = u]
      /\ listed' = [listed EXCEPT ![n] = u]
  BY DEF Mint
<1>2. n \in Tokens /\ minted \in Nat /\ MaxTokens \in Nat
  BY <1>1, ApiTokensAssumption DEF TokenTypeOK
<1>3. TokenTypeOK'
  BY <1>1, <1>2 DEF TokenTypeOK
<1>4. UnissuedIsBlank'
  BY <1>1, <1>2 DEF TokenTypeOK, UnissuedIsBlank
<1>5. UsesKnowTheUser'
  BY <1>1, <1>2 DEF TokenTypeOK, UsesKnowTheUser
<1>6. RevokersStopFirst'
  BY <1>1, <1>2 DEF TokenTypeOK, RevokersStopFirst
<1>7. MintersHaveUsers'
  BY <1>1 DEF MintersHaveUsers
<1>8. WorkingIsListed'
  BY <1>1, <1>2 DEF TokenTypeOK, WorkingIsListed
<1>9. \A t \in 1 .. minted : works'[t] = works[t]
  BY <1>1, <1>2 DEF TokenTypeOK
<1>10. RevokedStaysDead'
  BY <1>1, <1>2, <1>9 DEF TokenTypeOK, UnissuedIsBlank, RevokedStaysDead
<1> QED
  BY <1>1, <1>2, <1>3, <1>4, <1>5, <1>6, <1>7, <1>8, <1>9, <1>10 DEF TokenTypeOK

\* Tokens are only ever added, and an issued token changes by a revocation only.
LEMMA TokensOnlyDie ==
  ASSUME TokenInv, TokenNext
  PROVE  /\ minted <= minted' /\ revoked \subseteq revoked'
         /\ \A t \in 1 .. minted : works'[t] = works[t] \/ t \in revoked'
<1> USE ApiTokensAssumption DEF TokenInv
<1>1. minted \in Nat /\ MaxTokens \in Nat /\ works \in [Tokens -> Users \cup {Null}] /\ 1 .. minted \subseteq Tokens
  BY DEF TokenTypeOK
<1>2. PICK c \in Clients :
        \/ \E u \in Users : StartIssue(c, u) \/ \E t \in Tokens : StartRevoke(c, u, t)
        \/ FinishIssue(c) \/ StopWorking(c) \/ FinishRevoke(c)
        \/ \E t \in Tokens : StartUse(c, t)
        \/ ReadRow(c) \/ WriteLastUsed(c) \/ TokenCrash(c)
  BY DEF TokenNext
<1>3. CASE FinishIssue(c)
  BY <1>1, <1>3 DEF FinishIssue, Mint
<1>4. CASE StopWorking(c)
  BY <1>1, <1>4 DEF StopWorking
<1>5. CASE UNCHANGED <<works, minted, revoked>>
  BY <1>1, <1>5
<1> QED
  BY <1>2, <1>3, <1>4, <1>5
  DEF StartIssue, StartRevoke, FinishRevoke, StartUse, ReadRow, WriteLastUsed, TokenCrash, tokenVars

-----------------------------------------------------------------------------
(* DevicePairing.                                                          *)

(***************************************************************************)
(* The inductive invariant.  An approved record, in KV or in the hands of  *)
(* a poll, carries a token that was issued to the user it names (RecOK).   *)
(* Versions tell records apart, so a poll whose version is the stored one  *)
(* holds the stored record.  A phone that parks a token is the only place  *)
(* where that token is.  A token that has gone out is on the stored record *)
(* only as an undead one.                                                  *)
(***************************************************************************)
Promised(t, u) == t \in 1 .. minted /\ (works[t] = u \/ t \in revoked)
Carries(r, t) == r.status = "approved" /\ r.token = t

RecOK(r) ==
  /\ r \in Record /\ r.version <= writes
  /\ r.status = "approved" => r.user \in Users /\ Promised(r.token, r.user)

RecordSound == rec # Null => RecOK(rec)

PollsSound ==
  \A p \in Polls : poll[p] # Null =>
    /\ RecOK(poll[p].seen)
    /\ rec # Null /\ rec.version = poll[p].seen.version => rec = poll[p].seen

PhonesSound ==
  \A c \in Phones : phone[c].at \in {"list", "mint", "park", "deny"} =>
    phone[c].seen \in Record /\ phone[c].user \in Users

ParkedIsAlone ==
  \A c \in Phones : phone[c].at = "park" =>
    /\ Promised(phone[c].token, phone[c].user) /\ handed[phone[c].token] = 0
    /\ rec # Null => ~Carries(rec, phone[c].token)
    /\ \A p \in Polls : poll[p] # Null => ~Carries(poll[p].seen, phone[c].token)
    /\ \A d \in Phones \ {c} : phone[d].at = "park" => phone[d].token # phone[c].token

HandedSound ==
  /\ \A t \in Tokens : handed[t] > 0 => t <= minted
  /\ \A t \in Tokens \ undead :
       handed[t] <= 1 /\ (handed[t] = 1 /\ rec # Null => ~Carries(rec, t))

DeviceInv ==
  /\ TypeOK /\ TokenInv
  /\ RecordSound /\ PollsSound /\ PhonesSound /\ ParkedIsAlone /\ HandedSound

\* The inductive invariant holds when a code has just been given out.
LEMMA DeviceInvInit == Init => DeviceInv
<1> SUFFICES ASSUME Init PROVE DeviceInv
  OBVIOUS
<1>1. TokenInv
  BY TokenInvInit DEF Init
<1>2. Fresh \in Record /\ Fresh.status = "pending" /\ Fresh.version = 1
  BY DevicePairingAssumption DEF Fresh, Record
<1>3. TypeOK
  BY <1>1, <1>2, DevicePairingAssumption, RecordAssumption DEF Init, TypeOK, TokenInv, Idle
<1> QED
  BY <1>1, <1>2, <1>3, RecordAssumption
  DEF Init, DeviceInv, RecordSound, RecOK, PollsSound, PhonesSound, ParkedIsAlone, HandedSound, Idle

\* What a step of the token store leaves of the pairing's part of the invariant: all.
LEMMA TokensMove ==
  ASSUME DeviceInv, TokenInv', minted <= minted', revoked \subseteq revoked',
         \A t \in 1 .. minted : works'[t] = works[t] \/ t \in revoked',
         UNCHANGED <<record, now, poll, phone, handed, undead>>
  PROVE  DeviceInv'
<1> USE DEF DeviceInv
<1>0. minted \in Nat /\ minted' \in Nat
  BY DEF TokenInv, TokenTypeOK
<1>1. ASSUME NEW t, NEW u, Promised(t, u) PROVE Promised(t, u)'
  BY <1>0, <1>1 DEF Promised
<1>2. ASSUME NEW r, RecOK(r) PROVE RecOK(r)'
  BY <1>1, <1>2 DEF RecOK, record
<1>3. TypeOK'
  BY DEF TypeOK, TokenInv, record
<1>4. RecordSound' /\ PollsSound'
  BY <1>2 DEF RecordSound, PollsSound, record
<1>5. PhonesSound'
  BY DEF PhonesSound
<1>6. ParkedIsAlone'
  BY <1>1 DEF ParkedIsAlone, Carries, record
<1>7. HandedSound'
  BY <1>0 DEF HandedSound, Carries, record, TypeOK
<1> QED
  BY <1>3, <1>4, <1>5, <1>6, <1>7

\* Requests that end.
RequestsEnd ==
  /\ poll' \in [Polls -> PollState \cup {Null}]
  /\ \A p \in Polls : poll'[p] \in {poll[p], Null}
  /\ phone' = [c \in Phones |-> phone'[c]]
  /\ \A c \in Phones : phone'[c] \in {phone[c], Idle}

\* Writing a record back keeps the invariant if its token was promised to its user
\* and no phone still has to park it.
LEMMA SetKeeps ==
  ASSUME DeviceInv, RequestsEnd, UNCHANGED <<tokenStore, now, handed>>,
         NEW r \in Record, Set(r),
         r.status = "approved" => r.user \in Users /\ Promised(r.token, r.user),
         \A c \in Phones : phone'[c].at = "park" => ~Carries(r, phone'[c].token)
  PROVE  DeviceInv'
<1> USE DEF DeviceInv
<1>1. /\ writes \in Nat /\ writes' = writes + 1 /\ writes' \in 1 .. MaxWrites
      /\ undead' = undead \cup {t \in Tokens : t = r.token /\ handed[t] > 0}
      /\ UNCHANGED typable
  BY DevicePairingAssumption DEF Set, TypeOK
<1>2. /\ rec' \in Record /\ rec' # Null /\ rec'.version = writes'
      /\ rec'.status = r.status /\ rec'.user = r.user /\ rec'.token = r.token
  BY <1>1, RecordAssumption DEF Set, Record
<1>3. UNCHANGED <<works, listed, minted, step, revoked>>
  BY DEF tokenStore, tokenVars
<1>4. Idle.at = "idle" /\ Idle.seen = Null /\ Idle.user = Null /\ Idle.token = Null
  BY DEF Idle
<1>5. TokenInv'
  BY <1>3 DEF TokenInv, TokenTypeOK, UnissuedIsBlank, UsesKnowTheUser, RevokersStopFirst,
     MintersHaveUsers, WorkingIsListed, RevokedStaysDead
<1>6. TypeOK'
  <2>1. phone' \in [Phones -> [at : {"idle", "found", "list", "mint", "park", "deny"},
                               seen : Record \cup {Null}, user : Users \cup {Null},
                               token : Tokens \cup {Null}]]
    BY DEF RequestsEnd, TypeOK, Idle
  <2>2. TokenTypeOK' /\ poll' \in [Polls -> PollState \cup {Null}]
    BY <1>5 DEF RequestsEnd, TokenInv
  <2>3. handed' \in [Tokens -> Nat] /\ undead' \subseteq Tokens /\ now' \in 0 .. Life
    BY <1>1 DEF TypeOK
  <2>4. writes' \in 0 .. MaxWrites /\ typable' \in BOOLEAN
    BY <1>1, DevicePairingAssumption DEF TypeOK
  <2> QED
    BY <1>2, <2>1, <2>2, <2>3, <2>4 DEF TypeOK
<1>7. ASSUME NEW s, RecOK(s) PROVE RecOK(s)'
  BY <1>1, <1>3, <1>7 DEF RecOK, Promised, Record
<1>8. RecordSound'
  BY <1>1, <1>2, <1>3 DEF RecordSound, RecOK, Promised
<1>9. PollsSound'
  <2> SUFFICES ASSUME NEW p \in Polls, poll'[p] # Null
               PROVE  RecOK(poll[p].seen)' /\ rec'.version # poll'[p].seen.version
    BY <1>2 DEF PollsSound
  <2>1. poll'[p] = poll[p]
    BY DEF RequestsEnd
  <2>2. RecOK(poll[p].seen)
    BY <2>1 DEF PollsSound
  <2>3. poll[p].seen.version \in Nat /\ poll[p].seen.version <= writes
    BY <2>2 DEF RecOK, Record
  <2> QED
    BY <1>1, <1>2, <1>7, <2>1, <2>2, <2>3
<1>10. PhonesSound'
  BY <1>4 DEF RequestsEnd, PhonesSound
<1>11. ParkedIsAlone'
  <2> SUFFICES ASSUME NEW c \in Phones, phone'[c].at = "park"
               PROVE  /\ Promised(phone[c].token, phone[c].user)' /\ handed'[phone'[c].token] = 0
                      /\ ~Carries(rec', phone'[c].token)
                      /\ \A p \in Polls : poll'[p] # Null => ~Carries(poll'[p].seen, phone'[c].token)
                      /\ \A d \in Phones \ {c} : phone'[d].at = "park" => phone'[d].token # phone'[c].token
    BY DEF ParkedIsAlone, Carries
  <2>1. phone'[c] = phone[c] /\ phone[c].at = "park"
    BY <1>4 DEF RequestsEnd
  <2>2. Promised(phone[c].token, phone[c].user)' /\ handed'[phone'[c].token] = 0
    BY <1>3, <2>1 DEF ParkedIsAlone, Promised
  <2>3. ~Carries(rec', phone'[c].token)
    BY <1>2 DEF Carries
  <2>4. ASSUME NEW p \in Polls, poll'[p] # Null PROVE ~Carries(poll'[p].seen, phone'[c].token)
    BY <2>1, <2>4 DEF RequestsEnd, ParkedIsAlone
  <2>5. ASSUME NEW d \in Phones \ {c}, phone'[d].at = "park" PROVE phone'[d].token # phone'[c].token
    BY <1>4, <2>1, <2>5 DEF RequestsEnd, ParkedIsAlone
  <2> QED
    BY <2>2, <2>3, <2>4, <2>5
<1>12. HandedSound'
  <2>1. ASSUME NEW t \in Tokens \ undead' PROVE handed'[t] <= 1 /\ (handed'[t] = 1 => ~Carries(rec', t))
    BY <1>1, <1>2, <2>1 DEF HandedSound, Carries, TypeOK
  <2> QED
    BY <1>3, <2>1 DEF HandedSound, Carries
<1> QED
  BY <1>5, <1>6, <1>8, <1>9, <1>10, <1>11, <1>12

\* Requests that end, with the record as it was or gone, keep the invariant.
LEMMA DropKeeps ==
  ASSUME DeviceInv, RequestsEnd, UNCHANGED <<tokenStore, now, handed, undead, writes>>,
         \/ Delete
         \/ UNCHANGED record
  PROVE  DeviceInv'
<1> USE DEF DeviceInv
<1>1. (rec' = Null /\ typable' = FALSE) \/ (rec' = rec /\ typable' = typable)
  BY DEF Delete, record
<1>3. UNCHANGED <<works, listed, minted, step, revoked>>
  BY DEF tokenStore, tokenVars
<1>4. Idle.at = "idle" /\ Idle.seen = Null /\ Idle.user = Null /\ Idle.token = Null
  BY DEF Idle
<1>5. TokenInv'
  BY <1>3 DEF TokenInv, TokenTypeOK, UnissuedIsBlank, UsesKnowTheUser, RevokersStopFirst,
     MintersHaveUsers, WorkingIsListed, RevokedStaysDead
<1>6. TypeOK'
  <2>1. phone' \in [Phones -> [at : {"idle", "found", "list", "mint", "park", "deny"},
                               seen : Record \cup {Null}, user : Users \cup {Null},
                               token : Tokens \cup {Null}]]
    BY DEF RequestsEnd, TypeOK, Idle
  <2>2. TokenTypeOK' /\ poll' \in [Polls -> PollState \cup {Null}]
    BY <1>5 DEF RequestsEnd, TokenInv
  <2>3. /\ rec' \in Record \cup {Null} /\ typable' \in BOOLEAN
        /\ typable' /\ now' < Life => rec' # Null
    <3>1. typable \in BOOLEAN /\ (typable /\ now < Life => rec # Null) /\ rec \in Record \cup {Null}
      BY DEF TypeOK
    <3>2. now' = now
      OBVIOUS
    <3> HIDE DEF DeviceInv
    <3>3. (now' < Life) = (now < Life)
      BY <3>2
    <3>4. CASE rec' = Null /\ typable' = FALSE
      BY <3>4
    <3>5. CASE rec' = rec /\ typable' = typable
      BY <3>1, <3>3, <3>5, Zenon
    <3> QED
      BY <1>1, <3>4, <3>5
  <2> QED
    BY <2>1, <2>2, <2>3 DEF TypeOK
<1>7. ASSUME NEW s, RecOK(s) PROVE RecOK(s)'
  BY <1>3, <1>7 DEF RecOK, Promised
<1>8. RecordSound'
  BY <1>1, <1>7 DEF RecordSound
<1>9. PollsSound'
  BY <1>1, <1>7 DEF PollsSound, RequestsEnd
<1>10. PhonesSound'
  BY <1>4 DEF RequestsEnd, PhonesSound
<1>11. ParkedIsAlone'
  <2> SUFFICES ASSUME NEW c \in Phones, phone'[c].at = "park"
               PROVE  /\ Promised(phone[c].token, phone[c].user)' /\ handed'[phone'[c].token] = 0
                      /\ rec' # Null => ~Carries(rec', phone'[c].token)
                      /\ \A p \in Polls : poll'[p] # Null => ~Carries(poll'[p].seen, phone'[c].token)
                      /\ \A d \in Phones \ {c} : phone'[d].at = "park" => phone'[d].token # phone'[c].token
    BY DEF ParkedIsAlone, Carries
  <2>1. phone'[c] = phone[c] /\ phone[c].at = "park"
    BY <1>4 DEF RequestsEnd
  <2>2. Promised(phone[c].token, phone[c].user)' /\ handed'[phone'[c].token] = 0
    BY <1>3, <2>1 DEF ParkedIsAlone, Promised
  <2>3. rec' # Null => ~Carries(rec', phone'[c].token)
    BY <1>1, <2>1 DEF ParkedIsAlone
  <2>4. ASSUME NEW p \in Polls, poll'[p] # Null PROVE ~Carries(poll'[p].seen, phone'[c].token)
    BY <2>1, <2>4 DEF RequestsEnd, ParkedIsAlone
  <2>5. ASSUME NEW d \in Phones \ {c}, phone'[d].at = "park" PROVE phone'[d].token # phone'[c].token
    BY <1>4, <2>1, <2>5 DEF RequestsEnd, ParkedIsAlone
  <2> QED
    BY <2>2, <2>3, <2>4, <2>5
<1>12. HandedSound'
  BY <1>1, <1>3 DEF HandedSound, Carries
<1> QED
  BY <1>5, <1>6, <1>8, <1>9, <1>10, <1>11, <1>12

\* A poll keeps the invariant: it waits, is refused, or takes the token.
LEMMA PollKeeps ==
  ASSUME DeviceInv, NEW p \in Polls, AnswerPoll(p) PROVE DeviceInv'
<1> USE DEF DeviceInv
<1>1. /\ poll[p] # Null /\ poll' = [poll EXCEPT ![p] = Null]
      /\ Refuse(p) \/ Wait(p) \/ Take(p)
      /\ UNCHANGED <<tokenStore, now, phone>>
  BY DEF AnswerPoll
<1>2. /\ poll[p] \in PollState /\ RecOK(Seen(p)) /\ poll[p].at \in 0 .. Life
      /\ rec # Null /\ rec.version = Seen(p).version => rec = Seen(p)
  BY <1>1 DEF TypeOK, PollsSound, Seen, PollState
<1>3. Seen(p) \in Record
  BY <1>2 DEF RecOK
<1>4. RequestsEnd
  BY <1>1 DEF RequestsEnd, TypeOK
<1>5. CASE Refuse(p)
  BY <1>1, <1>4, <1>5, DropKeeps DEF Refuse, Delete
<1>6. CASE Wait(p)
  <2> DEFINE r == Counted(p)
  <2>1. /\ r \in Record /\ r.status = Seen(p).status /\ r.user = Seen(p).user /\ r.token = Seen(p).token
    <3>1. Seen(p).polls + 1 \in 0 .. MaxPolls
      BY <1>3, <1>6, DevicePairingAssumption DEF Wait, Expired, Record
    <3>2. (IF TooSoon(p) THEN Seen(p).interval + Interval ELSE Seen(p).interval) \in Nat
      BY <1>3, DevicePairingAssumption DEF Record
    <3> QED
      BY <1>2, <1>3, <3>1, <3>2 DEF Counted, Record
  <2>2. \A c \in Phones : phone'[c].at = "park" => ~Carries(r, phone'[c].token)
    BY <1>1, <2>1 DEF ParkedIsAlone, Carries, Seen
  <2>3. Set(r) /\ UNCHANGED handed
    BY <1>6 DEF Wait
  <2>4. r.status = "approved" => r.user \in Users /\ Promised(r.token, r.user)
    BY <1>2, <2>1 DEF RecOK
  <2> HIDE DEF r
  <2> QED
    BY <1>1, <1>4, <2>1, <2>2, <2>3, <2>4, SetKeeps
<1>7. CASE Take(p)
  <2>1. CASE UNCHANGED <<record, handed, undead>>
    BY <1>1, <1>4, <2>1, DropKeeps DEF record
  <2>2. CASE rec # Null /\ rec.version = Seen(p).version /\ Delete /\ handed' = [handed EXCEPT ![Seen(p).token] = @ + 1]
    <3> DEFINE k == Seen(p).token
    <3>1. /\ rec = Seen(p) /\ Seen(p).status = "approved" /\ k \in 1 .. minted /\ k \in Tokens
      BY <1>2, <1>7, <2>2, ApiTokensAssumption DEF Take, RecOK, Promised, TypeOK, TokenTypeOK
    <3>2. /\ rec' = Null /\ typable' = FALSE /\ UNCHANGED <<writes, undead>>
      BY <2>2 DEF Delete
    <3>3. UNCHANGED <<works, listed, minted, step, revoked>>
      BY <1>1 DEF tokenStore, tokenVars
    <3>4. TokenInv'
      BY <3>3 DEF TokenInv, TokenTypeOK, UnissuedIsBlank, UsesKnowTheUser, RevokersStopFirst,
         MintersHaveUsers, WorkingIsListed, RevokedStaysDead
    <3>5. /\ handed \in [Tokens -> Nat] /\ handed' \in [Tokens -> Nat] /\ handed'[k] = handed[k] + 1
          /\ \A t \in Tokens \ {k} : handed'[t] = handed[t]
      BY <2>2, <3>1 DEF TypeOK
    <3> HIDE DEF k
    <3>6. TypeOK'
      BY <1>1, <1>4, <3>2, <3>4, <3>5 DEF TypeOK, RequestsEnd, TokenInv
    <3>7. RecordSound' /\ PhonesSound'
      BY <1>1, <3>2 DEF RecordSound, PhonesSound
    <3>8. ASSUME NEW s, RecOK(s) PROVE RecOK(s)'
      BY <3>2, <3>3, <3>8 DEF RecOK, Promised
    <3>9. PollsSound'
      BY <1>1, <3>2, <3>8 DEF PollsSound, TypeOK
    <3>10. ParkedIsAlone'
      <4>1. ASSUME NEW c \in Phones, phone[c].at = "park"
            PROVE  /\ Promised(phone[c].token, phone[c].user) /\ phone[c].token \in Tokens /\ phone[c].token # k
                   /\ Promised(phone[c].token, phone[c].user)'
        <5>1. Promised(phone[c].token, phone[c].user) /\ ~Carries(Seen(p), phone[c].token)
          BY <2>2, <3>1, <4>1 DEF ParkedIsAlone, Carries
        <5>2. 1 .. minted \subseteq Tokens
          BY ApiTokensAssumption DEF TypeOK, TokenTypeOK
        <5> QED
          BY <1>1, <3>1, <3>3, <5>1, <5>2 DEF Promised, Carries, k
      <4> QED
        BY <1>1, <3>2, <3>5, <4>1 DEF ParkedIsAlone, TypeOK
    <3>11. HandedSound'
      <4>1. \A t \in Tokens : handed'[t] > 0 => t <= minted'
        <5>1. minted' = minted /\ minted \in Nat
          BY <3>3 DEF TypeOK, TokenTypeOK
        <5> QED
          BY <3>1, <3>5, <5>1 DEF HandedSound, k
      <4>2. \A t \in Tokens \ undead : handed'[t] <= 1
        BY <2>2, <3>1, <3>5 DEF HandedSound, Carries, k, TypeOK
      <4> QED
        BY <3>2, <4>1, <4>2 DEF HandedSound
    <3> QED
      BY <3>4, <3>6, <3>7, <3>9, <3>10, <3>11
  <2> QED
    BY <1>7, <2>1, <2>2 DEF Take
<1> QED
  BY <1>1, <1>5, <1>6, <1>7

\* A poll that starts holds the stored record.
LEMMA StartPollKeeps ==
  ASSUME DeviceInv, NEW p \in Polls, StartPoll(p) PROVE DeviceInv'
<1> USE DEF DeviceInv
<1>1. /\ poll[p] = Null /\ rec # Null
      /\ poll' = [poll EXCEPT ![p] = [seen |-> rec, at |-> now]]
      /\ UNCHANGED <<tokenStore, record, now, phone, handed, undead>>
  BY DEF StartPoll
<1>2. UNCHANGED <<works, listed, minted, step, revoked, rec, typable, writes>>
  BY <1>1 DEF tokenStore, tokenVars, record
<1>3. TokenInv'
  BY <1>2 DEF TokenInv, TokenTypeOK, UnissuedIsBlank, UsesKnowTheUser, RevokersStopFirst,
     MintersHaveUsers, WorkingIsListed, RevokedStaysDead
<1>4. poll' \in [Polls -> PollState \cup {Null}] /\ poll'[p] = [seen |-> rec, at |-> now]
      /\ [seen |-> rec, at |-> now] # Null
      /\ \A q \in Polls \ {p} : poll'[q] = poll[q]
  BY <1>1, RecordAssumption DEF TypeOK, PollState
<1>5. TypeOK'
  BY <1>1, <1>2, <1>3, <1>4 DEF TypeOK, TokenInv
<1>6. ASSUME NEW s, RecOK(s) PROVE RecOK(s)'
  BY <1>2, <1>6 DEF RecOK, Promised
<1>7. RecordSound' /\ PhonesSound'
  BY <1>1, <1>2, <1>6 DEF RecordSound, PhonesSound
<1>8. PollsSound'
  BY <1>1, <1>2, <1>4, <1>6 DEF PollsSound, RecordSound
<1>9. ParkedIsAlone'
  <2>1. ASSUME NEW c \in Phones, phone[c].at = "park", NEW q \in Polls, poll'[q] # Null
        PROVE  ~Carries(poll'[q].seen, phone[c].token)
    BY <1>1, <1>4, <2>1 DEF ParkedIsAlone
  <2> QED
    BY <1>1, <1>2, <2>1 DEF ParkedIsAlone, Promised, Carries
<1>10. HandedSound'
  BY <1>1, <1>2 DEF HandedSound, Carries
<1> QED
  BY <1>3, <1>5, <1>7, <1>8, <1>9, <1>10

\* A phone that goes on without parking a token keeps the invariant: it holds a
\* record and a user where the rest of the request needs them.
LEMMA PhoneKeeps ==
  ASSUME DeviceInv, UNCHANGED <<tokenStore, record, now, poll, handed, undead>>,
         NEW c \in Phones, NEW s, phone' = [phone EXCEPT ![c] = s],
         s \in [at : {"idle", "found", "list", "mint", "deny"}, seen : Record \cup {Null},
                user : Users \cup {Null}, token : Tokens \cup {Null}],
         s.at \in {"list", "mint", "deny"} => s.seen \in Record /\ s.user \in Users
  PROVE  DeviceInv'
<1> USE DEF DeviceInv
<1>1. UNCHANGED <<works, listed, minted, step, revoked, rec, typable, writes>>
  BY DEF tokenStore, tokenVars, record
<1>2. TokenInv'
  BY <1>1 DEF TokenInv, TokenTypeOK, UnissuedIsBlank, UsesKnowTheUser, RevokersStopFirst,
     MintersHaveUsers, WorkingIsListed, RevokedStaysDead
<1>3. /\ phone'[c] = s /\ s.at # "park"
      /\ \A d \in Phones \ {c} : phone'[d] = phone[d]
  BY DEF TypeOK
<1>4. TypeOK'
  <2>1. phone' \in [Phones -> [at : {"idle", "found", "list", "mint", "park", "deny"},
                               seen : Record \cup {Null}, user : Users \cup {Null},
                               token : Tokens \cup {Null}]]
    BY DEF TypeOK
  <2> QED
    BY <1>1, <1>2, <2>1 DEF TypeOK, TokenInv
<1>5. RecordSound' /\ PollsSound'
  BY <1>1 DEF RecordSound, PollsSound, RecOK, Promised
<1>6. PhonesSound'
  BY <1>3 DEF PhonesSound
<1>7. ParkedIsAlone'
  <2>1. ASSUME NEW d \in Phones, phone'[d].at = "park" PROVE d # c /\ phone'[d] = phone[d]
    BY <1>3, <2>1
  <2> QED
    BY <1>1, <2>1 DEF ParkedIsAlone, Promised, Carries
<1>8. HandedSound'
  BY <1>1 DEF HandedSound, Carries
<1> QED
  BY <1>2, <1>4, <1>5, <1>6, <1>7, <1>8

\* The token of an approval is a new one, and nowhere else.
LEMMA IssueKeeps ==
  ASSUME DeviceInv, NEW c \in Phones, IssueToken(c) PROVE DeviceInv'
<1> USE DEF DeviceInv
<1> DEFINE n == minted + 1
<1>1. /\ phone[c].at = "mint" /\ Mint(phone[c].user)
      /\ phone' = [phone EXCEPT ![c].at = "park", ![c].token = n]
      /\ UNCHANGED <<step, revoked, record, now, poll, handed, undead>>
  BY DEF IssueToken
<1>2. phone[c].seen \in Record /\ phone[c].user \in Users
  BY <1>1 DEF PhonesSound
<1>3. /\ TokenInv' /\ minted' = n /\ n \in Tokens /\ works'[n] = phone[c].user
      /\ \A t \in 1 .. minted : works'[t] = works[t]
  BY <1>1, <1>2, MintKeeps
<1>4. minted \in Nat /\ UNCHANGED <<rec, typable, writes>>
  BY <1>1 DEF TokenInv, TokenTypeOK, record
<1>5. /\ phone'[c].at = "park" /\ phone'[c].token = n /\ phone'[c].user = phone[c].user /\ phone'[c].seen = phone[c].seen
      /\ \A d \in Phones \ {c} : phone'[d] = phone[d]
  BY <1>1 DEF TypeOK
<1>6. TypeOK'
  <2>1. phone' \in [Phones -> [at : {"idle", "found", "list", "mint", "park", "deny"},
                               seen : Record \cup {Null}, user : Users \cup {Null},
                               token : Tokens \cup {Null}]]
    <3> DEFINE P == [at : {"idle", "found", "list", "mint", "park", "deny"},
                     seen : Record \cup {Null}, user : Users \cup {Null}, token : Tokens \cup {Null}]
               s == [phone[c] EXCEPT !.at = "park", !.token = n]
    <3>1. phone \in [Phones -> P] /\ phone[c] \in P
      BY DEF TypeOK
    <3>2. s \in P
      BY <1>3, <3>1
    <3>3. phone' = [phone EXCEPT ![c] = s]
      BY <1>1
    <3> HIDE DEF P, s
    <3>4. phone' \in [Phones -> P]
      BY <3>1, <3>2, <3>3
    <3> QED
      BY <3>4 DEF P
  <2>2. TokenTypeOK' /\ now' = now /\ poll' = poll /\ handed' = handed /\ undead' = undead
    BY <1>1, <1>3 DEF TokenInv
  <2> QED
    BY <1>4, <2>1, <2>2 DEF TypeOK
<1>7. ASSUME NEW t, NEW u, Promised(t, u) PROVE Promised(t, u)' /\ t # n
  BY <1>1, <1>3, <1>4, <1>7 DEF Promised
<1>8. ASSUME NEW s, RecOK(s) PROVE RecOK(s)' /\ ~Carries(s, n)
  BY <1>4, <1>7, <1>8 DEF RecOK, Carries
<1>9. RecordSound' /\ PollsSound'
  BY <1>1, <1>4, <1>8 DEF RecordSound, PollsSound
<1>10. PhonesSound'
  BY <1>2, <1>5 DEF PhonesSound
<1>11. ParkedIsAlone'
  <2> SUFFICES ASSUME NEW d \in Phones, phone'[d].at = "park"
               PROVE  /\ Promised(phone[d].token, phone[d].user)' /\ handed[phone'[d].token] = 0
                      /\ rec # Null => ~Carries(rec, phone'[d].token)
                      /\ \A p \in Polls : poll[p] # Null => ~Carries(poll[p].seen, phone'[d].token)
                      /\ \A e \in Phones \ {d} : phone'[e].at = "park" => phone'[e].token # phone'[d].token
    BY <1>1, <1>4 DEF ParkedIsAlone, Carries
  <2>1. CASE d = c
    <3>1. handed[n] = 0
      BY <1>3, <1>4 DEF HandedSound, TypeOK
    <3>2. Promised(phone[d].token, phone[d].user)'
      BY <1>3, <1>4, <1>5, <2>1 DEF Promised
    <3>3. ASSUME NEW e \in Phones \ {d}, phone'[e].at = "park" PROVE phone'[e].token # n
      <4>1. phone'[e] = phone[e]
        BY <1>5, <2>1
      <4>2. Promised(phone[e].token, phone[e].user)
        BY <3>3, <4>1 DEF ParkedIsAlone
      <4> QED
        BY <1>7, <4>1, <4>2
    <3> QED
      BY <1>5, <1>8, <2>1, <3>1, <3>2, <3>3 DEF RecordSound, PollsSound
  <2>2. CASE d # c
    <3>1. phone'[d] = phone[d] /\ Promised(phone[d].token, phone[d].user)
      BY <1>5, <2>2 DEF ParkedIsAlone
    <3>2. Promised(phone[d].token, phone[d].user)' /\ phone[d].token # n
      BY <1>7, <3>1 DEF Promised
    <3>3. ASSUME NEW e \in Phones \ {d}, phone'[e].at = "park" PROVE phone'[e].token # phone[d].token
      BY <1>5, <3>1, <3>2, <3>3 DEF ParkedIsAlone
    <3> QED
      BY <3>1, <3>2, <3>3 DEF ParkedIsAlone
  <2> QED
    BY <2>1, <2>2
<1>12. HandedSound'
  BY <1>1, <1>3, <1>4 DEF HandedSound, Carries, TypeOK
<1> QED
  BY <1>3, <1>6, <1>9, <1>10, <1>11, <1>12

\* Every step keeps the inductive invariant.
LEMMA DeviceInvStep == DeviceInv /\ [Next]_vars => DeviceInv'
<1> SUFFICES ASSUME DeviceInv, [Next]_vars PROVE DeviceInv'
  OBVIOUS
<1>0. TypeOK /\ TokenInv
  BY DEF DeviceInv
<1>1. ASSUME UNCHANGED <<poll, phone>> PROVE RequestsEnd
  BY <1>0, <1>1 DEF RequestsEnd, TypeOK
<1>2. CASE UNCHANGED vars
  BY <1>1, <1>2, DropKeeps DEF vars, record
<1>3. ASSUME NEW p \in Polls, StartPoll(p) PROVE DeviceInv'
  BY <1>3, StartPollKeeps
<1>4. ASSUME NEW p \in Polls, AnswerPoll(p) PROVE DeviceInv'
  BY <1>4, PollKeeps
<1>5. ASSUME NEW c \in Phones, NEW u \in Users, NEW at \in {"list", "deny"}, Decide(c, u, at) PROVE DeviceInv'
  <2> DEFINE s == [at |-> at, seen |-> rec, user |-> u, token |-> Null]
  <2>1. /\ rec # Null /\ phone' = [phone EXCEPT ![c] = s]
        /\ UNCHANGED <<tokenStore, record, now, poll, handed, undead>>
    BY <1>5 DEF Decide
  <2>2. rec \in Record
    BY <1>0, <2>1 DEF TypeOK
  <2>3. /\ s \in [at : {"idle", "found", "list", "mint", "deny"}, seen : Record \cup {Null},
                  user : Users \cup {Null}, token : Tokens \cup {Null}]
        /\ s.seen \in Record /\ s.user \in Users
    BY <2>2
  <2> HIDE DEF s
  <2> QED
    BY <2>1, <2>3, PhoneKeeps
<1>6. ASSUME NEW c \in Phones, ListTokens(c) PROVE DeviceInv'
  <2> DEFINE P == [at : {"idle", "found", "list", "mint", "deny"}, seen : Record \cup {Null},
                   user : Users \cup {Null}, token : Tokens \cup {Null}]
             s == IF HasRoom(phone[c].user) THEN [phone[c] EXCEPT !.at = "mint"] ELSE Idle
  <2>1. /\ phone[c].at = "list" /\ phone' = [phone EXCEPT ![c] = s]
        /\ UNCHANGED <<tokenStore, record, now, poll, handed, undead>>
    BY <1>6 DEF ListTokens, Goto, Leave
  <2>2. phone[c] \in P /\ phone[c].seen \in Record /\ phone[c].user \in Users
    BY <1>0, <2>1 DEF TypeOK, DeviceInv, PhonesSound
  <2>3. [phone[c] EXCEPT !.at = "mint"] \in P /\ Idle \in P /\ Idle.at = "idle"
    BY <2>2 DEF Idle
  <2>4. s \in P /\ (s.at = "idle" \/ (s.seen \in Record /\ s.user \in Users))
    BY <2>2, <2>3
  <2> HIDE DEF s
  <2> QED
    BY <2>1, <2>4, PhoneKeeps
<1>7. ASSUME NEW c \in Phones, IssueToken(c) PROVE DeviceInv'
  BY <1>7, IssueKeeps
<1>8. ASSUME NEW c \in Phones, Leave(c) PROVE phone'[c] = Idle /\ \A d \in Phones \ {c} : phone'[d] = phone[d]
  BY <1>0, <1>8 DEF Leave, TypeOK
<1>9. ASSUME NEW c \in Phones, Leave(c), UNCHANGED poll PROVE RequestsEnd
  BY <1>0, <1>9 DEF RequestsEnd, Leave, TypeOK
<1>10. ASSUME NEW c \in Phones, Park(c) PROVE DeviceInv'
  <2> DEFINE r == [phone[c].seen EXCEPT !.status = "approved", !.user = phone[c].user, !.token = phone[c].token]
  <2>1. /\ phone[c].at = "park" /\ Set(r) /\ Leave(c)
        /\ UNCHANGED <<tokenStore, now, poll, handed>>
    BY <1>10 DEF Park
  <2>2. /\ phone[c].seen \in Record /\ phone[c].user \in Users /\ Promised(phone[c].token, phone[c].user)
        /\ phone[c].token \in Tokens
    BY <1>0, <2>1, ApiTokensAssumption
    DEF DeviceInv, PhonesSound, ParkedIsAlone, Promised, TokenInv, TokenTypeOK
  <2>3. r \in Record /\ r.user = phone[c].user /\ r.token = phone[c].token
    BY <2>2 DEF Record
  <2>4. ASSUME NEW d \in Phones, phone'[d].at = "park" PROVE phone'[d].token # phone[c].token
    <3>1. d # c /\ phone'[d] = phone[d]
      BY <1>8, <2>1, <2>4 DEF Idle
    <3> QED
      BY <2>1, <2>4, <3>1 DEF DeviceInv, ParkedIsAlone
  <2>5. RequestsEnd
    BY <1>9, <2>1
  <2> HIDE DEF r
  <2> QED
    BY <2>1, <2>2, <2>3, <2>4, <2>5, SetKeeps DEF Carries
<1>11. ASSUME NEW c \in Phones, Deny(c) PROVE DeviceInv'
  <2> DEFINE r == [phone[c].seen EXCEPT !.status = "denied"]
  <2>1. /\ phone[c].at = "deny" /\ Set(r) /\ Leave(c)
        /\ UNCHANGED <<tokenStore, now, poll, handed>>
    BY <1>11 DEF Deny
  <2>2. phone[c].seen \in Record
    BY <2>1 DEF DeviceInv, PhonesSound
  <2>3. r \in Record /\ r.status = "denied"
    BY <2>2 DEF Record
  <2>4. RequestsEnd
    BY <1>9, <2>1
  <2> HIDE DEF r
  <2> QED
    BY <2>1, <2>3, <2>4, SetKeeps DEF Carries
<1>12. CASE Tick
  <2>1. /\ now' \in 0 .. Life /\ now < now'
        /\ UNCHANGED <<works, listed, minted, step, revoked, rec, typable, writes, poll, phone, handed, undead>>
    BY <1>0, <1>12, DevicePairingAssumption DEF Tick, TypeOK, tokenStore, tokenVars, record
  <2>2. TokenInv'
    BY <1>0, <2>1 DEF TokenInv, TokenTypeOK, UnissuedIsBlank, UsesKnowTheUser, RevokersStopFirst,
       MintersHaveUsers, WorkingIsListed, RevokedStaysDead
  <2>3. TypeOK'
    BY <1>0, <2>1, <2>2, DevicePairingAssumption DEF TypeOK, TokenInv
  <2>4. RecordSound' /\ PollsSound' /\ PhonesSound' /\ ParkedIsAlone' /\ HandedSound'
    BY <2>1 DEF DeviceInv, RecordSound, PollsSound, PhonesSound, ParkedIsAlone, HandedSound, RecOK, Promised, Carries
  <2> QED
    BY <2>2, <2>3, <2>4 DEF DeviceInv
<1>13. CASE KvExpires
  BY <1>1, <1>13, DropKeeps DEF KvExpires, Delete
<1>14. CASE Crash
  <2>1. RequestsEnd
    BY <1>0, <1>9, <1>14 DEF Crash, RequestsEnd, TypeOK
  <2> QED
    BY <1>14, <2>1, DropKeeps DEF Crash, record
<1>15. CASE TokenNext /\ UNCHANGED <<record, now, poll, phone, handed, undead>>
  BY <1>0, <1>15, TokenInvStep, TokensOnlyDie, TokensMove
<1> QED
  BY <1>2, <1>3, <1>4, <1>5, <1>6, <1>7, <1>10, <1>11, <1>12, <1>13, <1>14, <1>15 DEF Next

\* The inductive invariant is an invariant of the specification.
LEMMA DeviceInvariance == Spec => []DeviceInv
<1> QED
  BY DeviceInvInit, DeviceInvStep, PTL DEF Spec

\* For any number of polls, phones, users and sessions: the token of an approval goes
\* out to one poll, unless a record was written back after it went, and it is a token
\* issued to the person who approved (device.ts:176-305).
THEOREM TokenGoesOutOnce == Spec => []TokenHandOver
<1>1. DeviceInv => TokenHandOver
  <2> SUFFICES ASSUME DeviceInv PROVE TokenHandOver
    OBVIOUS
  <2>1. HandedOutOnce
    BY DEF DeviceInv, HandedSound, HandedOutOnce, TypeOK
  <2>2. ParkedTokenIsReal
    BY DEF DeviceInv, RecordSound, RecOK, Promised, ParkedTokenIsReal
  <2> QED
    BY <2>1, <2>2 DEF TokenHandOver
<1> QED
  BY <1>1, DeviceInvariance, PTL

\* The pairing issues and revokes the way sessions do: beside it, too, every working
\* token is listed and every revoked one stays dead, and the variables keep their types.
THEOREM PairingKeepsTokens == Spec => [](TypeOK /\ WorkingIsListed /\ RevokedStaysDead)
<1>1. DeviceInv => TypeOK /\ WorkingIsListed /\ RevokedStaysDead
  BY DEF DeviceInv, TokenInv
<1> QED
  BY <1>1, DeviceInvariance, PTL

-----------------------------------------------------------------------------
(* PcPairing.                                                              *)

(***************************************************************************)
(* That what is pending is polled is inductive beside the types: a loop    *)
(* that goes on takes its request from the state object, and a new object  *)
(* comes with a loop that knows it, or stands for no request.  That a code *)
(* shown stays what is pending rests on what it leaves nobody to do:       *)
(* while it lives undisturbed, no call and no loop is at a step that would *)
(* put another object in its place (Quiet).                                *)
(***************************************************************************)
PcState == [kind : {"pending", "paired"}, n : Pc!Codes] \cup {Pc!Plain(k) : k \in {"idle", "denied", "expired"}}
PcLoops == [Clients -> Pc!LoopState \cup {Null}]
PcCalls == [Polls -> [at : {"idle", "file", "start", "code", "request", "forget", "erase", "drop"},
                      tool : Tools, n : Pc!Codes \cup {Null}]]
ServerOK ==
  /\ file \in Pc!Codes \cup {Null}
  /\ asked \in 0 .. MaxCodes /\ over \subseteq 1 .. asked /\ honoured \subseteq 1 .. asked
  /\ code \in [Pc!Codes -> {"pending", "approved", "denied", "gone"}]
  /\ faults \in 0 .. MaxFaults

PcTyped == state \in PcState /\ loop \in PcLoops /\ call \in PcCalls /\ ServerOK
PcInv == PcTyped /\ Pc!PendingIsPolled

\* The type invariant, variable by variable.
LEMMA PcTypes == Pc!TypeOK <=> PcTyped /\ excused \subseteq Pc!Codes
  BY DEF Pc!TypeOK, PcTyped, PcState, PcLoops, PcCalls, ServerOK

\* A call that moves on or returns is still a call.
LEMMA CallMoves ==
  ASSUME call \in PcCalls, NEW c \in Polls
  PROVE  /\ \A l \in {"start", "code", "forget", "erase", "drop"} : Pc!At(c, l) => call' \in PcCalls
         /\ Pc!Return(c) => call' \in PcCalls
<1>1. Pc!NoCall \in [at : {"idle", "file", "start", "code", "request", "forget", "erase", "drop"},
                     tool : Tools, n : Pc!Codes \cup {Null}]
  BY PcAssumption DEF Pc!NoCall, Pc!PcPairingAssumption
<1>2. Pc!Return(c) => call' \in PcCalls
  BY <1>1 DEF Pc!Return, PcCalls
<1>3. ASSUME NEW l \in {"start", "code", "forget", "erase", "drop"}, Pc!At(c, l) PROVE call' \in PcCalls
  <2> DEFINE S == [at : {"idle", "file", "start", "code", "request", "forget", "erase", "drop"},
                   tool : Tools, n : Pc!Codes \cup {Null}]
             s == [call[c] EXCEPT !.at = l]
  <2>1. call \in [Polls -> S] /\ call[c] \in S
    BY DEF PcCalls
  <2>2. s \in S
    BY <2>1
  <2>3. call' = [call EXCEPT ![c] = s]
    BY <1>3 DEF Pc!At
  <2> HIDE DEF S, s
  <2>4. call' \in [Polls -> S]
    BY <2>1, <2>2, <2>3
  <2> QED
    BY <2>4 DEF S, PcCalls
<1> QED
  BY <1>2, <1>3

\* A new state object leaves every loop but i's own where it was, knowing it no more.
LEMMA OthersKeep ==
  ASSUME loop \in PcLoops, NEW i
  PROVE  /\ Pc!Others(i) \in PcLoops
         /\ \A j \in Clients : (j = i \/ loop[j] = Null) => Pc!Others(i)[j] = loop[j]
<1> DEFINE E(j) == [loop[j] EXCEPT !.same = FALSE]
<1>1. ASSUME NEW j \in Clients, loop[j] # Null PROVE E(j) \in Pc!LoopState
  BY <1>1 DEF PcLoops, Pc!LoopState
<1>2. Pc!Others(i) = [j \in Clients |-> IF loop[j] = Null \/ j = i THEN loop[j] ELSE E(j)]
  BY DEF Pc!Others
<1>3. \A j \in Clients : loop[j] \in Pc!LoopState \cup {Null}
  BY DEF PcLoops
<1> HIDE DEF E
<1> QED
  BY <1>1, <1>2, <1>3 DEF PcLoops

LEMMA OthersUnknown ==
  ASSUME loop \in PcLoops, NEW i, NEW j \in Clients
  PROVE  \/ loop[j] = Null /\ Pc!Others(i)[j] = Null
         \/ j = i /\ Pc!Others(i)[j] = loop[j]
         \/ /\ Pc!Others(i)[j].at = loop[j].at /\ Pc!Others(i)[j].n = loop[j].n /\ ~Pc!Others(i)[j].same
            /\ loop[j] # Null
<1> DEFINE E == [loop[j] EXCEPT !.same = FALSE]
<1>1. ASSUME loop[j] # Null PROVE E.at = loop[j].at /\ E.n = loop[j].n /\ ~E.same
  BY <1>1 DEF PcLoops, Pc!LoopState
<1>2. Pc!Others(i)[j] = IF loop[j] = Null \/ j = i THEN loop[j] ELSE E
  BY DEF Pc!Others
<1> HIDE DEF E
<1> QED
  BY <1>1, <1>2

\* At the start nothing is pending.
LEMMA PcInvInit == Pc!Init => PcInv
<1> SUFFICES ASSUME Pc!Init PROVE PcInv
  OBVIOUS
<1>1. state = Pc!Plain("idle") /\ state.kind # "pending"
  BY DEF Pc!Init, Pc!Plain
<1>2. state \in PcState /\ loop \in PcLoops
  BY <1>1 DEF Pc!Init, PcState, PcLoops
<1>3. call \in PcCalls
  BY PcAssumption DEF Pc!Init, PcCalls, Pc!NoCall, Pc!PcPairingAssumption
<1>4. ServerOK
  BY PcAssumption DEF Pc!Init, ServerOK, Pc!Codes, Pc!PcPairingAssumption
<1> QED
  BY <1>1, <1>2, <1>3, <1>4 DEF PcInv, PcTyped, Pc!PendingIsPolled

\* Every step of the PC keeps the invariant.
LEMMA PcInvStep == PcInv /\ [Pc!Next]_(Pc!vars) => PcInv'
<1> SUFFICES ASSUME PcInv, [Pc!Next]_(Pc!vars) PROVE PcInv'
  OBVIOUS
<1>0. /\ state \in PcState /\ loop \in PcLoops /\ call \in PcCalls /\ ServerOK /\ Pc!PendingIsPolled
      /\ asked \in Nat /\ MaxCodes \in Nat
      /\ \A s \in Pc!LoopState : s # Null
  BY PcAssumption DEF PcInv, PcTyped, ServerOK, Pc!PcPairingAssumption
<1> DEFINE Polled == state.kind = "pending" =>
                       \E i \in Clients : loop[i] # Null /\ loop[i].same /\ loop[i].n = state.n
<1>1. Polled
  BY <1>0 DEF Pc!PendingIsPolled
<1>2. ASSUME state' \in PcState, loop' \in PcLoops, call' \in PcCalls, ServerOK', Polled' PROVE PcInv'
  BY <1>2 DEF PcInv, PcTyped, Pc!PendingIsPolled
<1>3. ASSUME UNCHANGED <<file, asked, code, over, honoured, faults>> PROVE ServerOK'
  BY <1>0, <1>3 DEF ServerOK
<1>4. ASSUME UNCHANGED <<asked, code, over, honoured, faults>>, file' \in Pc!Codes \cup {Null} PROVE ServerOK'
  BY <1>0, <1>4 DEF ServerOK
<1>5. ASSUME UNCHANGED <<file, asked, code, over, honoured>>, faults' \in 0 .. MaxFaults PROVE ServerOK'
  BY <1>0, <1>5 DEF ServerOK
<1>6. Pc!Fault => faults' \in 0 .. MaxFaults
  BY <1>0, PcAssumption DEF Pc!Fault, ServerOK, Pc!PcPairingAssumption
<1> HIDE DEF Polled
\* Steps that touch neither the state nor a loop.
<1>7. ASSUME UNCHANGED <<state, loop>>, call' \in PcCalls, ServerOK' PROVE PcInv'
  <2>1. Polled'
    BY <1>1, <1>7 DEF Polled
  <2> QED
    BY <1>0, <1>2, <1>7, <2>1
\* Steps that leave no request pending.
<1>8. ASSUME state' \in PcState, state'.kind # "pending", loop' \in PcLoops, call' \in PcCalls, ServerOK' PROVE PcInv'
  BY <1>2, <1>8 DEF Polled
\* Steps after which loop i polls for what is pending.
<1>9. ASSUME state' \in PcState, loop' \in PcLoops, call' \in PcCalls, ServerOK', NEW i \in Clients,
             loop'[i] # Null /\ loop'[i].same /\ loop'[i].n = state'.n
      PROVE  PcInv'
  BY <1>2, <1>9 DEF Polled
\* Steps of loop i that leave the state alone: i goes on as it was, or was unknown to it.
<1>10. ASSUME UNCHANGED <<state, call>>, ServerOK', NEW i \in Clients, NEW s \in Pc!LoopState \cup {Null},
              loop' = [loop EXCEPT ![i] = s],
              loop[i] # Null => ~loop[i].same \/ (s # Null /\ s.same = loop[i].same /\ s.n = loop[i].n)
       PROVE  PcInv'
  <2>1. loop' \in PcLoops /\ loop'[i] = s /\ \A j \in Clients \ {i} : loop'[j] = loop[j]
    BY <1>0, <1>10 DEF PcLoops
  <2>2. Polled'
    BY <1>1, <1>10, <2>1 DEF Polled
  <2> QED
    BY <1>0, <1>2, <1>10, <2>1, <2>2
<1>11. \A k \in {"idle", "denied", "expired"} : Pc!Plain(k) \in PcState /\ Pc!Plain(k).kind # "pending"
  BY DEF PcState, Pc!Plain
<1>12. \A n \in Pc!Codes : /\ Pc!Paired(n) \in PcState /\ Pc!Paired(n).kind # "pending"
                           /\ Pc!Pending(n) \in PcState /\ Pc!Pending(n).n = n
  BY DEF PcState, Pc!Paired, Pc!Pending
\* Every answer leaves the codes codes; a loop that goes on polls for what is pending;
\* a loop that only moves keeps its request.
<1>33. \A n : Pc!Served(n) => code' \in [Pc!Codes -> {"pending", "approved", "denied", "gone"}]
  BY <1>0 DEF Pc!Served, ServerOK
<1>34. ASSUME NEW i \in Clients, loop[i] # Null, Pc!Continue(i), UNCHANGED call, ServerOK' PROVE PcInv'
  <2> DEFINE s == [at |-> "sleep", n |-> state.n, same |-> TRUE]
  <2>1. UNCHANGED state /\ loop' = [loop EXCEPT ![i] = IF state.kind = "pending" THEN s ELSE Null]
    BY <1>34 DEF Pc!Continue
  <2>2. CASE state.kind = "pending"
    <3>1. state.n \in Pc!Codes
      BY <1>0, <2>2 DEF PcState, Pc!Plain
    <3>2. s \in Pc!LoopState /\ s.same /\ s.n = state.n
      BY <3>1 DEF Pc!LoopState
    <3> HIDE DEF s
    <3>3. loop' \in PcLoops /\ loop'[i] = s
      BY <1>0, <2>1, <2>2, <3>2 DEF PcLoops
    <3> QED
      BY <1>0, <1>9, <1>34, <2>1, <3>2, <3>3
  <2>3. CASE state.kind # "pending"
    <3>1. loop' \in PcLoops
      BY <1>0, <2>1, <2>3 DEF PcLoops
    <3> QED
      BY <1>0, <1>8, <1>34, <2>1, <2>3, <3>1
  <2> QED
    BY <2>2, <2>3
<1>35. ASSUME NEW i \in Clients, loop[i] # Null, NEW l \in {"fetch", "save", "saved"},
              loop' = [loop EXCEPT ![i].at = l], UNCHANGED <<state, call>>, ServerOK'
       PROVE  PcInv'
  <2> DEFINE s == [loop[i] EXCEPT !.at = l]
  <2>1. loop[i] \in Pc!LoopState
    BY <1>0, <1>35 DEF PcLoops
  <2>2. s \in Pc!LoopState /\ s.same = loop[i].same /\ s.n = loop[i].n
    BY <2>1 DEF Pc!LoopState
  <2>3. loop' = [loop EXCEPT ![i] = s]
    BY <1>35
  <2> HIDE DEF s
  <2> QED
    BY <1>0, <1>10, <1>35, <2>2, <2>3
<1>13. CASE UNCHANGED Pc!vars
  BY <1>0, <1>3, <1>7, <1>13 DEF Pc!vars, Pc!client, Pc!server
<1>14. ASSUME NEW c \in Polls, NEW tool \in Tools, Pc!ToolCall(c, tool) PROVE PcInv'
  <2>1. call' \in PcCalls
    BY <1>0, <1>14 DEF Pc!ToolCall, PcCalls, PcState, Pc!Plain
  <2> QED
    BY <1>3, <1>7, <1>14, <2>1 DEF Pc!ToolCall, Pc!server
<1>15. ASSUME NEW c \in Polls, Pc!ReadFile(c) PROVE PcInv'
  <2>1. CASE file = Null
    BY <1>0, <1>3, <1>7, <1>15, <2>1, CallMoves DEF Pc!ReadFile, Pc!server
  <2>2. CASE file # Null
    <3> DEFINE S == [at : {"idle", "file", "start", "code", "request", "forget", "erase", "drop"},
                     tool : Tools, n : Pc!Codes \cup {Null}]
               s == [call[c] EXCEPT !.at = IF call[c].tool = "force" THEN "start" ELSE "request", !.n = file]
    <3>1. file \in Pc!Codes
      BY <1>0, <2>2 DEF ServerOK
    <3>2. call' = [call EXCEPT ![c] = s] /\ state' = Pc!Paired(file) /\ loop' = Pc!Others(Null)
          /\ UNCHANGED <<file, asked, code, over, honoured, faults>>
      BY <1>15, <2>2 DEF Pc!ReadFile, Pc!Become, Pc!server
    <3>3. call \in [Polls -> S] /\ call[c] \in S
      BY <1>0 DEF PcCalls
    <3>4. s \in S
      BY <3>1, <3>3
    <3> HIDE DEF S, s
    <3>5. call' \in [Polls -> S]
      BY <3>2, <3>3, <3>4
    <3>6. call' \in PcCalls
      BY <3>5 DEF PcCalls, S
    <3> QED
      BY <1>0, <1>3, <1>8, <1>12, <3>1, <3>2, <3>6, OthersKeep
  <2> QED
    BY <2>1, <2>2
<1>16. ASSUME NEW c \in Polls, Pc!Start(c) PROVE PcInv'
  BY <1>0, <1>3, <1>7, <1>16, CallMoves DEF Pc!Start, Pc!server
<1>17. ASSUME NEW c \in Polls, Pc!NewCode(c) PROVE PcInv'
  <2> DEFINE s == [at |-> "sleep", n |-> asked + 1, same |-> TRUE]
             o == Pc!Others(Null)
  <2>1. PICK i \in Clients : loop[i] = Null /\ loop' = [o EXCEPT ![i] = s]
    BY <1>17 DEF Pc!NewCode
  <2>2. /\ asked' = asked + 1 /\ state' = Pc!Pending(asked + 1) /\ Pc!Return(c)
        /\ UNCHANGED <<file, code, over, honoured, faults>>
    BY <1>17 DEF Pc!NewCode
  <2>3. asked + 1 \in Pc!Codes /\ asked + 1 \in 0 .. MaxCodes
    BY <1>0, <1>17 DEF Pc!NewCode, Pc!Codes
  <2>4. s \in Pc!LoopState /\ s.same /\ s.n = asked + 1
    BY <2>3 DEF Pc!LoopState
  <2>5. o \in PcLoops
    BY <1>0, OthersKeep
  <2>6. s # Null
    BY <1>0, <2>4
  <2> HIDE DEF s, o
  <2>7. loop' \in PcLoops /\ loop'[i] = s
    BY <2>1, <2>4, <2>5 DEF PcLoops
  <2>8. ServerOK'
    <3>1. over \subseteq 1 .. asked' /\ honoured \subseteq 1 .. asked'
      BY <1>0, <2>2 DEF ServerOK
    <3> QED
      BY <1>0, <2>2, <2>3, <3>1 DEF ServerOK
  <2> QED
    BY <1>0, <1>9, <1>12, <2>2, <2>3, <2>4, <2>6, <2>7, <2>8, CallMoves
<1>18. ASSUME NEW c \in Polls, Pc!NoCode(c) PROVE PcInv'
  BY <1>0, <1>5, <1>6, <1>7, <1>18, CallMoves DEF Pc!NoCode, Pc!server
<1>19. ASSUME NEW c \in Polls, Pc!Request(c) PROVE PcInv'
  BY <1>0, <1>3, <1>7, <1>19, CallMoves DEF Pc!Request, Pc!server
<1>20. ASSUME NEW c \in Polls, Pc!Forget(c) PROVE PcInv'
  BY <1>0, <1>3, <1>7, <1>20, CallMoves DEF Pc!Forget, Pc!server
<1>21. ASSUME NEW c \in Polls, Pc!Erase(c) PROVE PcInv'
  BY <1>0, <1>4, <1>7, <1>21, CallMoves DEF Pc!Erase, Pc!server
<1>22. ASSUME NEW c \in Polls, Pc!Drop(c) PROVE PcInv'
  BY <1>0, <1>3, <1>8, <1>11, <1>22, CallMoves, OthersKeep DEF Pc!Drop, Pc!Become, Pc!server
<1>23. ASSUME NEW i \in Clients, Pc!Wake(i) PROVE PcInv'
  <2>1. /\ loop[i] # Null /\ UNCHANGED <<state, call, file, asked, code, over, honoured, faults>>
        /\ IF loop[i].same THEN loop' = [loop EXCEPT ![i].at = "fetch"] ELSE loop' = [loop EXCEPT ![i] = Null]
    BY <1>23 DEF Pc!Wake, Pc!Stop, Pc!server
  <2>2. ServerOK'
    BY <1>3, <2>1
  <2>3. CASE ~loop[i].same
    BY <1>10, <2>1, <2>2, <2>3
  <2>4. CASE loop[i].same
    BY <1>10, <1>35, <2>1, <2>2, <2>4
  <2> QED
    BY <2>3, <2>4
<1>24. ASSUME NEW i \in Clients, Pc!Poll(i) PROVE PcInv'
  <2>1. /\ loop[i] # Null /\ UNCHANGED <<call, file, asked, over, honoured, faults>>
        /\ Pc!Served(loop[i].n)
        /\ \/ Pc!Continue(i)
           \/ loop' = [loop EXCEPT ![i].at = "save"] /\ UNCHANGED state
           \/ \E k \in {"denied", "expired"} :
                state' = Pc!Plain(k) /\ loop' = [Pc!Others(Null) EXCEPT ![i] = Null]
    BY <1>24 DEF Pc!Poll
  <2>2. ServerOK'
    BY <1>0, <1>33, <2>1 DEF ServerOK
  <2>3. CASE Pc!Continue(i)
    BY <1>0, <1>34, <2>1, <2>2, <2>3
  <2>4. CASE loop' = [loop EXCEPT ![i].at = "save"] /\ UNCHANGED state
    BY <1>10, <1>35, <2>1, <2>2, <2>4
  <2>5. CASE \E k \in {"denied", "expired"} :
                state' = Pc!Plain(k) /\ loop' = [Pc!Others(Null) EXCEPT ![i] = Null]
    <3>1. loop' \in PcLoops
      BY <1>0, <2>5, OthersKeep DEF PcLoops
    <3> QED
      BY <1>0, <1>8, <1>11, <2>1, <2>2, <2>5, <3>1
  <2> QED
    BY <2>1, <2>3, <2>4, <2>5
<1>25. ASSUME NEW i \in Clients, Pc!SlowDown(i) PROVE PcInv'
  <2> DEFINE o == Pc!Others(i)
             s == [loop[i] EXCEPT !.at = "sleep", !.same = TRUE]
  <2>1. /\ loop[i] # Null /\ UNCHANGED <<call, file, asked, code, over, honoured>> /\ faults' \in 0 .. MaxFaults
        /\ state' = Pc!Pending(loop[i].n)
    BY <1>6, <1>25 DEF Pc!SlowDown, Pc!server
  <2>2. loop' = [o EXCEPT ![i].at = "sleep", ![i].same = TRUE]
    BY <1>25 DEF Pc!SlowDown
  <2>3. o \in PcLoops /\ o[i] = loop[i]
    BY <1>0, OthersKeep
  <2>4. loop[i] \in Pc!LoopState
    BY <1>0, <2>1 DEF PcLoops
  <2>5. s \in Pc!LoopState /\ s.same /\ s.n = loop[i].n /\ loop[i].n \in Pc!Codes
    BY <2>4 DEF Pc!LoopState
  <2>6. loop' = [o EXCEPT ![i] = s]
    <3> HIDE DEF o
    <3> QED
      BY <2>2, <2>3
  <2> HIDE DEF o, s
  <2>7. loop' \in PcLoops /\ loop'[i] = s
    BY <2>3, <2>5, <2>6 DEF PcLoops
  <2> QED
    BY <1>0, <1>5, <1>9, <1>12, <2>1, <2>5, <2>7
<1>26. ASSUME NEW i \in Clients, Pc!Blip(i) PROVE PcInv'
  <2>1. /\ loop[i] # Null /\ UNCHANGED <<call, file, asked, over, honoured>> /\ faults' \in 0 .. MaxFaults
        /\ code' = code \/ Pc!Served(loop[i].n)
        /\ Pc!Continue(i)
    BY <1>6, <1>26 DEF Pc!Blip
  <2>2. ServerOK'
    BY <1>0, <1>33, <2>1 DEF ServerOK
  <2> QED
    BY <1>0, <1>34, <2>1, <2>2
<1>36. ASSUME NEW i \in Clients, Pc!Refused(i) PROVE PcInv'
  <2>1. /\ loop[i] # Null /\ UNCHANGED <<call, file, asked, over, honoured>> /\ faults' \in 0 .. MaxFaults
        /\ code' = code \/ Pc!Served(loop[i].n)
        /\ state' = Pc!Plain("expired") /\ loop' = [Pc!Others(Null) EXCEPT ![i] = Null]
    BY <1>6, <1>36 DEF Pc!Refused
  <2>2. ServerOK'
    BY <1>0, <1>33, <2>1 DEF ServerOK
  <2>3. loop' \in PcLoops
    BY <1>0, <2>1, OthersKeep DEF PcLoops
  <2> QED
    BY <1>0, <1>8, <1>11, <2>1, <2>2, <2>3
<1>27. ASSUME NEW i \in Clients, Pc!Save(i) PROVE PcInv'
  <2>1. /\ loop[i] # Null /\ UNCHANGED <<state, call, asked, code, over, honoured, faults>>
        /\ file' = loop[i].n /\ loop' = [loop EXCEPT ![i].at = "saved"]
    BY <1>27 DEF Pc!Save, Pc!server
  <2>2. loop[i].n \in Pc!Codes
    BY <1>0, <2>1 DEF PcLoops, Pc!LoopState
  <2>3. ServerOK'
    BY <1>4, <2>1, <2>2
  <2> QED
    BY <1>10, <1>35, <2>1, <2>3
<1>28. ASSUME NEW i \in Clients, Pc!Saved(i) PROVE PcInv'
  <2>1. /\ loop[i] # Null /\ UNCHANGED <<call, file, asked, code, over, honoured, faults>>
        /\ state' = Pc!Paired(loop[i].n) /\ loop' = [Pc!Others(Null) EXCEPT ![i] = Null]
    BY <1>28 DEF Pc!Saved, Pc!server
  <2>2. loop[i].n \in Pc!Codes
    BY <1>0, <2>1 DEF PcLoops, Pc!LoopState
  <2>3. loop' \in PcLoops
    BY <1>0, <2>1, OthersKeep DEF PcLoops
  <2> QED
    BY <1>0, <1>3, <1>8, <1>12, <2>1, <2>2, <2>3
<1>29. CASE Pc!Restart
  <2>1. call' \in PcCalls
    BY <1>29, PcAssumption DEF Pc!Restart, Pc!NoCall, PcCalls, Pc!PcPairingAssumption
  <2>2. loop' \in PcLoops
    BY <1>29 DEF Pc!Restart, PcLoops
  <2> QED
    BY <1>5, <1>6, <1>8, <1>11, <1>29, <2>1, <2>2 DEF Pc!Restart, Pc!server
<1>30. ASSUME NEW n \in Pc!Codes, Pc!Answer(n) PROVE PcInv'
  <2>1. ServerOK' /\ UNCHANGED <<state, loop, call>>
    BY <1>0, <1>30 DEF Pc!Answer, Pc!client, ServerOK
  <2> QED
    BY <1>0, <1>7, <2>1
<1>31. ASSUME NEW n \in Pc!Codes, Pc!LifeEnds(n) PROVE PcInv'
  <2>1. ServerOK' /\ UNCHANGED <<state, loop, call>>
    BY <1>0, <1>31 DEF Pc!LifeEnds, Pc!client, ServerOK
  <2> QED
    BY <1>0, <1>7, <2>1
<1>32. ASSUME NEW n \in Pc!Codes, Pc!Revoke(n) PROVE PcInv'
  <2>1. ServerOK' /\ UNCHANGED <<state, loop, call>>
    BY <1>0, <1>32 DEF Pc!Revoke, Pc!client, ServerOK
  <2> QED
    BY <1>0, <1>7, <2>1
<1> QED
  BY <1>13, <1>14, <1>15, <1>16, <1>17, <1>18, <1>19, <1>20, <1>21, <1>22, <1>23, <1>24, <1>25, <1>26,
     <1>27, <1>28, <1>29, <1>30, <1>31, <1>32, <1>36 DEF Pc!Next

-----------------------------------------------------------------------------
(* What is shown is what is pending.                                       *)

Undisturbed(n) == n \in 1 .. asked /\ n \notin over \cup excused /\ code[n] # "gone"

\* Neither a call nor a loop is about to put another object in the place of request n.
HarmlessCall(c) == call[c].at \in {"idle", "file", "start"} \/ (call[c].at = "request" /\ call[c].tool # "api")
HarmlessLoop(i, n) ==
  \/ loop[i] = Null
  \/ loop[i].at = "sleep" /\ ~loop[i].same
  \/ loop[i].at \in {"sleep", "fetch"} /\ loop[i].n = n
Quiet(n) ==
  /\ state = Pc!Pending(n) /\ file = Null
  /\ \A c \in Polls : HarmlessCall(c)
  /\ \A i \in Clients : HarmlessLoop(i, n)
PcQuiet == \A n \in Pc!Codes : Undisturbed(n) => Quiet(n)
Excused == excused \subseteq Pc!Codes

\* A step that leaves the request in the state, and of which only call c or loop i is not
\* where it was.
LEMMA StaysQuiet ==
  ASSUME NEW n, Quiet(n), state' = Pc!Pending(n), UNCHANGED file,
         \A c \in Polls : call'[c] = call[c] \/ HarmlessCall(c)',
         \A i \in Clients : loop'[i] = loop[i] \/ HarmlessLoop(i, n)'
  PROVE  Quiet(n)'
<1>1. \A c \in Polls : HarmlessCall(c)'
  BY DEF Quiet, HarmlessCall
<1>2. \A i \in Clients : HarmlessLoop(i, n)'
  BY DEF Quiet, HarmlessLoop
<1> QED
  BY <1>1, <1>2 DEF Quiet, Pc!Pending

\* A call of a quiet request only goes on to where it will show it.
LEMMA QuietCalls ==
  ASSUME PcTyped, NEW n \in Pc!Codes, Undisturbed(n)', Undisturbed(n), Quiet(n), NEW c \in Polls,
         \/ \E tool \in Tools : Pc!ToolCall(c, tool)
         \/ Pc!ReadFile(c) \/ Pc!Start(c) \/ Pc!NewCode(c) \/ Pc!NoCode(c) \/ Pc!Request(c)
         \/ Pc!Forget(c) \/ Pc!Erase(c) \/ Pc!Drop(c)
  PROVE  Quiet(n)'
<1>1. /\ call \in PcCalls /\ file = Null /\ state = Pc!Pending(n) /\ HarmlessCall(c)
      /\ n \notin over /\ n \in 1 .. asked
  BY DEF PcTyped, Quiet, Undisturbed
<1>2. state.kind = "pending" /\ state.n = n
  BY <1>1 DEF Pc!Pending
<1>3. ASSUME UNCHANGED <<state, loop, file>>, NEW s, call' = [call EXCEPT ![c] = s],
             s.at \in {"idle", "file", "start"}
      PROVE  Quiet(n)'
  <2>1. call'[c] = s /\ \A d \in Polls \ {c} : call'[d] = call[d]
    BY <1>1, <1>3 DEF PcCalls
  <2>2. \A d \in Polls : call'[d] = call[d] \/ HarmlessCall(d)'
    BY <1>3, <2>1 DEF HarmlessCall
  <2> QED
    BY <1>1, <1>3, <2>2, StaysQuiet
<1>4. ASSUME UNCHANGED <<state, loop, file>>, Pc!Return(c) PROVE Quiet(n)'
  BY <1>3, <1>4 DEF Pc!Return, Pc!NoCall
<1>5. CASE \E tool \in Tools : Pc!ToolCall(c, tool)
  <2>1. PICK tool \in Tools : Pc!ToolCall(c, tool)
    BY <1>5
  <2>2. UNCHANGED <<state, loop, file, asked>> /\ excused' = IF tool = "unpair" THEN excused \cup (1 .. asked) ELSE excused
    BY <2>1 DEF Pc!ToolCall, Pc!server
  <2>3. tool # "unpair"
    BY <1>1, <2>2 DEF Undisturbed
  <2>4. call' = [call EXCEPT ![c] = [at |-> "file", tool |-> tool, n |-> Null]]
    BY <1>2, <2>1, <2>3 DEF Pc!ToolCall
  <2> QED
    BY <1>3, <2>2, <2>4
<1>6. CASE Pc!ReadFile(c)
  <2>1. UNCHANGED <<state, loop, file>> /\ (Pc!Return(c) \/ Pc!At(c, "start"))
    BY <1>1, <1>6 DEF Pc!ReadFile
  <2> DEFINE s == [call[c] EXCEPT !.at = "start"]
  <2>2. s.at = "start"
    BY <1>1 DEF PcCalls
  <2>3. Pc!At(c, "start") => call' = [call EXCEPT ![c] = s]
    BY DEF Pc!At
  <2> HIDE DEF s
  <2> QED
    BY <1>3, <1>4, <2>1, <2>2, <2>3
<1>7. CASE Pc!Start(c)
  BY <1>1, <1>2, <1>4, <1>7 DEF Pc!Start
<1>8. CASE Pc!Request(c)
  BY <1>1, <1>4, <1>8 DEF Pc!Request, HarmlessCall
<1>9. CASE Pc!NewCode(c) \/ Pc!NoCode(c) \/ Pc!Forget(c) \/ Pc!Erase(c) \/ Pc!Drop(c)
  BY <1>1, <1>9 DEF Pc!NewCode, Pc!NoCode, Pc!Forget, Pc!Erase, Pc!Drop, HarmlessCall
<1> QED
  BY <1>5, <1>6, <1>7, <1>8, <1>9

\* A code that comes while nothing is about to replace it is quiet.
LEMMA QuietNew ==
  ASSUME PcTyped, NEW n \in Pc!Codes, Undisturbed(n)', ~Undisturbed(n), NEW c \in Polls, Pc!NewCode(c)
  PROVE  Quiet(n)'
<1>1. /\ call \in PcCalls /\ loop \in PcLoops /\ ServerOK /\ asked \in Nat
  BY DEF PcTyped, ServerOK
<1>2. /\ asked' = asked + 1 /\ state' = Pc!Pending(asked + 1)
      /\ excused' = IF Pc!Crossed(c) THEN excused \cup {asked + 1} ELSE excused
      /\ UNCHANGED <<file, code, over>> /\ Pc!Return(c)
  BY DEF Pc!NewCode
<1>3. n = asked + 1 /\ ~Pc!Crossed(c)
  BY <1>1, <1>2 DEF Undisturbed
<1>4. /\ file = Null
      /\ \A d \in Polls \ {c} : /\ call[d].at = "request" => call[d].tool # "api"
                                /\ call[d].at \notin {"code", "forget", "erase", "drop"}
      /\ \A i \in Clients : loop[i] = Null \/ loop[i].at = "sleep"
  BY <1>3 DEF Pc!Crossed
<1>5. \A d \in Polls : HarmlessCall(d)'
  <2>1. call'[c] = Pc!NoCall /\ \A d \in Polls \ {c} : call'[d] = call[d]
    BY <1>1, <1>2 DEF Pc!Return, PcCalls
  <2>2. \A d \in Polls : call[d].at \in {"idle", "file", "start", "code", "request", "forget", "erase", "drop"}
    BY <1>1 DEF PcCalls
  <2> QED
    BY <1>4, <2>1, <2>2 DEF HarmlessCall, Pc!NoCall
<1>6. \A i \in Clients : HarmlessLoop(i, n)'
  <2> DEFINE s == [at |-> "sleep", n |-> asked + 1, same |-> TRUE]
             o == Pc!Others(Null)
  <2>1. PICK i \in Clients : loop[i] = Null /\ loop' = [o EXCEPT ![i] = s]
    BY DEF Pc!NewCode
  <2>2. o \in PcLoops
    BY <1>1, OthersKeep
  <2>3. \A j \in Clients : o[j] = Null \/ (o[j].at = "sleep" /\ ~o[j].same)
    <3> SUFFICES ASSUME NEW j \in Clients PROVE o[j] = Null \/ (o[j].at = "sleep" /\ ~o[j].same)
      OBVIOUS
    <3>1. j # Null
      BY PcAssumption DEF Pc!PcPairingAssumption
    <3> QED
      BY <1>1, <1>4, <3>1, OthersUnknown
  <2>4. s.at = "sleep" /\ s.n = n
    BY <1>3
  <2> HIDE DEF s, o
  <2>5. loop'[i] = s /\ \A j \in Clients \ {i} : loop'[j] = o[j]
    BY <2>1, <2>2 DEF PcLoops
  <2> QED
    BY <2>3, <2>4, <2>5 DEF HarmlessLoop
<1> QED
  BY <1>2, <1>3, <1>4, <1>5, <1>6 DEF Quiet, Pc!Pending

\* The one loop that polls for a quiet request goes on with it, or its answer ends it.
LEMMA QuietLoops ==
  ASSUME PcTyped, NEW n \in Pc!Codes, Undisturbed(n)', Undisturbed(n), Quiet(n), NEW i \in Clients,
         Pc!Wake(i) \/ Pc!Poll(i) \/ Pc!SlowDown(i) \/ Pc!Blip(i) \/ Pc!Refused(i) \/ Pc!Save(i) \/ Pc!Saved(i)
  PROVE  Quiet(n)'
<1>1. /\ loop \in PcLoops /\ code \in [Pc!Codes -> {"pending", "approved", "denied", "gone"}]
      /\ state = Pc!Pending(n) /\ HarmlessLoop(i, n) /\ code'[n] # "gone" /\ n \notin excused'
  BY DEF PcTyped, ServerOK, Quiet, Undisturbed
<1>2. state.kind = "pending" /\ state.n = n
  BY <1>1 DEF Pc!Pending
<1>3. ASSUME UNCHANGED <<state, file, call>>, NEW s, loop' = [loop EXCEPT ![i] = s],
             s = Null \/ (s.at \in {"sleep", "fetch"} /\ s.n = n)
      PROVE  Quiet(n)'
  <2>1. loop'[i] = s /\ \A j \in Clients \ {i} : loop'[j] = loop[j]
    BY <1>1, <1>3 DEF PcLoops
  <2>2. \A j \in Clients : loop'[j] = loop[j] \/ HarmlessLoop(j, n)'
    BY <1>3, <2>1 DEF HarmlessLoop
  <2> QED
    BY <1>1, <1>3, <2>2, StaysQuiet
<1>4. ASSUME UNCHANGED <<file, call>>, Pc!Continue(i) PROVE Quiet(n)'
  <2> DEFINE s == [at |-> "sleep", n |-> n, same |-> TRUE]
  <2>1. UNCHANGED state /\ loop' = [loop EXCEPT ![i] = s]
    BY <1>2, <1>4 DEF Pc!Continue
  <2>2. s.at = "sleep" /\ s.n = n
    OBVIOUS
  <2> HIDE DEF s
  <2> QED
    BY <1>3, <1>4, <2>1, <2>2
<1>5. loop[i] # Null /\ loop[i].at = "fetch" => loop[i].n = n
  BY <1>1 DEF HarmlessLoop
<1>6. CASE Pc!Wake(i)
  <2>1. /\ loop[i] # Null /\ loop[i].at = "sleep" /\ UNCHANGED <<state, call, file>>
        /\ IF loop[i].same THEN loop' = [loop EXCEPT ![i].at = "fetch"] ELSE loop' = [loop EXCEPT ![i] = Null]
    BY <1>6 DEF Pc!Wake, Pc!Stop
  <2>2. CASE ~loop[i].same
    BY <1>3, <2>1, <2>2
  <2>3. CASE loop[i].same
    <3> DEFINE s == [loop[i] EXCEPT !.at = "fetch"]
    <3>1. loop[i].n = n
      BY <1>1, <2>1, <2>3 DEF HarmlessLoop
    <3>2. loop[i] \in Pc!LoopState
      BY <1>1, <2>1 DEF PcLoops
    <3>3. s.at = "fetch" /\ s.n = n
      BY <3>1, <3>2 DEF Pc!LoopState
    <3>4. loop' = [loop EXCEPT ![i] = s]
      BY <2>1, <2>3
    <3> HIDE DEF s
    <3> QED
      BY <1>3, <2>1, <3>3, <3>4
  <2> QED
    BY <2>2, <2>3
<1>7. CASE Pc!Poll(i)
  <2>1. loop[i].n = n /\ UNCHANGED <<file, call>> /\ Pc!Served(n)
    BY <1>5, <1>7 DEF Pc!Poll
  <2>2. Pc!Says(n) = "authorization_pending"
    BY <1>1, <2>1 DEF Pc!Served
  <2>3. Pc!Continue(i)
    BY <1>5, <1>7, <2>2 DEF Pc!Poll
  <2> QED
    BY <1>4, <2>1, <2>3
<1>8. CASE Pc!SlowDown(i)
  <2> DEFINE o == Pc!Others(i)
             s == [loop[i] EXCEPT !.at = "sleep", !.same = TRUE]
  <2>1. loop[i] # Null /\ loop[i].n = n /\ UNCHANGED <<file, call>> /\ state' = Pc!Pending(n)
    BY <1>5, <1>8 DEF Pc!SlowDown
  <2>2. loop' = [o EXCEPT ![i].at = "sleep", ![i].same = TRUE]
    BY <1>8 DEF Pc!SlowDown
  <2>3. o \in PcLoops /\ o[i] = loop[i]
    BY <1>1, OthersKeep
  <2>4. loop[i] \in Pc!LoopState
    BY <1>1, <2>1 DEF PcLoops
  <2>5. s.at = "sleep" /\ s.n = n
    BY <2>1, <2>4 DEF Pc!LoopState
  <2>6. loop' = [o EXCEPT ![i] = s]
    <3> HIDE DEF o
    <3> QED
      BY <2>2, <2>3
  <2>7. \A j \in Clients \ {i} : o[j] = loop[j] \/ (loop[j] # Null /\ o[j].at = loop[j].at /\ o[j].n = loop[j].n /\ ~o[j].same)
    BY <1>1, OthersUnknown
  <2>10. HarmlessLoop(i, n)'
    <3>1. loop'[i] = s
      BY <2>3, <2>6 DEF PcLoops
    <3> HIDE DEF s
    <3> QED
      BY <2>5, <3>1 DEF HarmlessLoop
  <2> HIDE DEF o, s
  <2>8. loop'[i] = s /\ \A j \in Clients \ {i} : loop'[j] = o[j]
    BY <2>3, <2>6 DEF PcLoops
  <2>9. \A j \in Clients : loop'[j] = loop[j] \/ HarmlessLoop(j, n)'
    <3>1. \A j \in Clients : HarmlessLoop(j, n)
      BY DEF Quiet
    <3>2. ASSUME NEW j \in Clients \ {i} PROVE loop'[j] = loop[j] \/ HarmlessLoop(j, n)'
      <4>1. HarmlessLoop(j, n) /\ loop'[j] = o[j]
        BY <2>8, <3>1
      <4>2. CASE o[j] = loop[j]
        BY <4>1, <4>2
      <4>3. CASE loop[j] # Null /\ o[j].at = loop[j].at /\ o[j].n = loop[j].n /\ ~o[j].same
        BY <4>1, <4>3 DEF HarmlessLoop
      <4> QED
        BY <2>7, <4>2, <4>3
    <3> QED
      BY <2>10, <3>2
  <2> QED
    BY <2>1, <2>9, StaysQuiet
<1>9. CASE Pc!Blip(i)
  BY <1>4, <1>9 DEF Pc!Blip
<1>10. CASE Pc!Refused(i)
  BY <1>1, <1>5, <1>10 DEF Pc!Refused
<1>11. CASE Pc!Save(i) \/ Pc!Saved(i)
  BY <1>1, <1>11 DEF Pc!Save, Pc!Saved, HarmlessLoop
<1> QED
  BY <1>6, <1>7, <1>8, <1>9, <1>10, <1>11

LEMMA PcQuietInit == Pc!Init => PcQuiet /\ Excused
  BY DEF Pc!Init, PcQuiet, Undisturbed, Excused

\* Codes end, are excused and run out for good.
LEMMA StaysUndisturbed ==
  ASSUME NEW n, Undisturbed(n)', UNCHANGED <<asked, over>>, excused \subseteq excused',
         code'[n] = code[n] \/ code[n] # "gone"
  PROVE  Undisturbed(n)
  BY DEF Undisturbed

LEMMA PcQuietStep == PcTyped /\ PcQuiet /\ Excused /\ [Pc!Next]_(Pc!vars) => PcQuiet' /\ Excused'
<1> SUFFICES ASSUME PcTyped, PcQuiet, Excused, [Pc!Next]_(Pc!vars) PROVE PcQuiet' /\ Excused'
  OBVIOUS
<1>1. /\ asked \in Nat /\ MaxCodes \in Nat /\ over \subseteq 1 .. asked
      /\ code \in [Pc!Codes -> {"pending", "approved", "denied", "gone"}]
      /\ loop \in PcLoops /\ excused \subseteq Pc!Codes /\ 1 .. asked \subseteq Pc!Codes
  BY PcAssumption DEF PcTyped, ServerOK, Pc!PcPairingAssumption, Pc!Codes, Excused
<1>2. ASSUME NEW c \in Polls,
             \/ \E tool \in Tools : Pc!ToolCall(c, tool)
             \/ Pc!ReadFile(c) \/ Pc!Start(c) \/ Pc!NoCode(c) \/ Pc!Request(c)
             \/ Pc!Forget(c) \/ Pc!Erase(c) \/ Pc!Drop(c)
      PROVE  PcQuiet' /\ Excused'
  <2>1. UNCHANGED <<asked, code, over>> /\ excused \subseteq excused' /\ excused' \subseteq Pc!Codes
    BY <1>1, <1>2 DEF Pc!ToolCall, Pc!ReadFile, Pc!Start, Pc!NoCode, Pc!Request, Pc!Forget, Pc!Erase, Pc!Drop, Pc!server
  <2>2. ASSUME NEW n \in Pc!Codes, Undisturbed(n)' PROVE Quiet(n)'
    <3>1. Undisturbed(n)
      BY <2>1, <2>2, StaysUndisturbed
    <3>2. Quiet(n)
      BY <3>1 DEF PcQuiet
    <3> QED
      BY <1>2, <2>2, <3>1, <3>2, QuietCalls
  <2> QED
    BY <2>1, <2>2 DEF PcQuiet, Excused, Pc!Codes
<1>3. ASSUME NEW c \in Polls, Pc!NewCode(c) PROVE PcQuiet' /\ Excused'
  <2>1. /\ asked' = asked + 1 /\ UNCHANGED <<code, over>>
        /\ excused \subseteq excused' /\ excused' \subseteq Pc!Codes
    BY <1>1, <1>3 DEF Pc!NewCode, Pc!Codes
  <2>2. ASSUME NEW n \in Pc!Codes, Undisturbed(n)' PROVE Quiet(n)'
    <3>1. CASE Undisturbed(n)
      <4>1. Quiet(n)
        BY <3>1 DEF PcQuiet
      <4> QED
        BY <1>3, <2>2, <3>1, <4>1, QuietCalls
    <3>2. CASE ~Undisturbed(n)
      BY <1>3, <2>2, <3>2, QuietNew
    <3> QED
      BY <3>1, <3>2
  <2> QED
    BY <2>1, <2>2 DEF PcQuiet, Excused, Pc!Codes
<1>4. ASSUME NEW i \in Clients,
             Pc!Wake(i) \/ Pc!Poll(i) \/ Pc!SlowDown(i) \/ Pc!Blip(i) \/ Pc!Refused(i) \/ Pc!Save(i) \/ Pc!Saved(i)
      PROVE  PcQuiet' /\ Excused'
  <2>1. /\ UNCHANGED <<asked, over>>
        /\ UNCHANGED excused \/ (loop[i] # Null /\ loop[i].at = "fetch" /\ excused' = excused \cup {loop[i].n})
        /\ code' = code \/ (loop[i] # Null /\ Pc!Served(loop[i].n))
    BY <1>4 DEF Pc!Wake, Pc!Poll, Pc!SlowDown, Pc!Blip, Pc!Refused, Pc!Save, Pc!Saved, Pc!server
  <2>2. ASSUME NEW n \in Pc!Codes, Undisturbed(n)' PROVE Quiet(n)'
    <3>1. code'[n] = code[n]
      <4>1. code'[n] # "gone"
        BY <2>2 DEF Undisturbed
      <4>2. ASSUME NEW m, Pc!Served(m) PROVE code'[n] = code[n]
        BY <1>1, <4>1, <4>2 DEF Pc!Served
      <4> QED
        BY <2>1, <4>2
    <3>2. Undisturbed(n)
      BY <2>1, <2>2, <3>1, StaysUndisturbed
    <3>3. Quiet(n)
      BY <3>2 DEF PcQuiet
    <3> QED
      BY <1>4, <2>2, <3>2, <3>3, QuietLoops
  <2>3. excused' \subseteq Pc!Codes
    <3>1. \A s \in Pc!LoopState : s.n \in Pc!Codes
      BY DEF Pc!LoopState
    <3> QED
      BY <1>1, <2>1, <3>1 DEF PcLoops
  <2> QED
    BY <2>2, <2>3 DEF PcQuiet, Excused, Pc!Codes
<1>5. CASE Pc!Restart
  <2>1. UNCHANGED asked /\ excused' = excused \cup (1 .. asked)
    BY <1>5 DEF Pc!Restart, Pc!server
  <2> QED
    BY <1>1, <2>1 DEF PcQuiet, Undisturbed, Excused, Pc!Codes
<1>6. ASSUME NEW m \in Pc!Codes, Pc!Answer(m) \/ Pc!LifeEnds(m) \/ Pc!Revoke(m) PROVE PcQuiet' /\ Excused'
  <2>1. /\ UNCHANGED <<state, loop, call, file, asked, excused>> /\ over \subseteq over'
        /\ code' = code \/ (code[m] = "pending" /\ \E a \in {"approved", "denied"} : code' = [code EXCEPT ![m] = a])
    BY <1>6 DEF Pc!Answer, Pc!LifeEnds, Pc!Revoke, Pc!client
  <2>2. ASSUME NEW n \in Pc!Codes, Undisturbed(n)' PROVE Quiet(n)'
    <3>1. code'[n] = code[n] \/ code[n] # "gone"
      BY <1>1, <2>1
    <3>2. Undisturbed(n)
      BY <2>1, <2>2, <3>1 DEF Undisturbed
    <3>3. Quiet(n)
      BY <3>2 DEF PcQuiet
    <3> QED
      BY <2>1, <3>3 DEF Quiet, HarmlessCall, HarmlessLoop, Pc!Pending
  <2> QED
    BY <1>1, <2>1, <2>2 DEF PcQuiet, Excused, Pc!Codes
<1>7. CASE UNCHANGED Pc!vars
  BY <1>7 DEF Pc!vars, Pc!client, Pc!server, PcQuiet, Excused, Undisturbed, Quiet, HarmlessCall, HarmlessLoop, Pc!Pending, Pc!Codes
<1> QED
  BY <1>2, <1>3, <1>4, <1>5, <1>6, <1>7 DEF Pc!Next

LEMMA QuietIsPending == PcTyped /\ PcQuiet => Pc!ShownIsPending
<1> SUFFICES ASSUME PcTyped, PcQuiet, NEW n \in (1 .. asked) \ (over \cup excused), code[n] # "gone"
             PROVE  state = Pc!Pending(n)
  BY DEF Pc!ShownIsPending
<1>1. Undisturbed(n) /\ n \in Pc!Codes
  BY PcAssumption DEF Undisturbed, PcTyped, ServerOK, Pc!Codes, Pc!PcPairingAssumption
<1> QED
  BY <1>1 DEF PcQuiet, Quiet

\* A code on the screen that nothing under way can replace stays the pending one until its
\* life or its answer ends it, and whatever overlaps, what is pending is polled by a loop that
\* knows it: for any number of calls, loops, codes and faults (pairing.ts:78-80, 120-165).
THEOREM ShownCodeIsPolled == Pc!Spec => []ShownIsPolled
<1>1. PcInv => PcTyped /\ Pc!PendingIsPolled
  BY DEF PcInv
<1>2. PcTyped /\ PcQuiet /\ Pc!PendingIsPolled => ShownIsPolled
  BY QuietIsPending DEF ShownIsPolled, Pc!ShownIsPolled
<1> QED
  BY <1>1, <1>2, PcInvInit, PcInvStep, PcQuietInit, PcQuietStep, PTL DEF Pc!Spec

\* The variables of PcPairing keep their types.
THEOREM PcTypesKept == Pc!Spec => []Pc!TypeOK
<1>1. PcInv /\ Excused => Pc!TypeOK
  BY PcTypes DEF PcInv, Excused
<1> QED
  BY <1>1, PcInvInit, PcInvStep, PcQuietInit, PcQuietStep, ShownCodeIsPolled, PTL DEF Pc!Spec, PcInv
=============================================================================
