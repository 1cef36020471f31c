----------------------------- MODULE ApiTokens -----------------------------
(***************************************************************************)
(* The API tokens of web/users.ts:  apitoken/<token> makes a token work,   *)
(* apitoken_by_user/<user>/<id> lists it to its owner, who can revoke it.  *)
(* A token and its listing are written together; everything after that     *)
(* touches them one at a time.                                             *)
(***************************************************************************)
EXTENDS Naturals, FiniteSets

CONSTANTS
  Users,
  Clients,     \* requests: issuing, revoking, or made with a token
  Limit,       \* API_TOKEN_LIMIT, 5 in the code
  MaxTokens,   \* bound: tokens ever issued
  Null

ASSUME ApiTokensAssumption ==
  /\ IsFiniteSet(Users) /\ Limit \in Nat \ {0} /\ MaxTokens \in Nat
  /\ Null \notin Users

VARIABLES
  works,    \* apitoken/<token>: the user it stands for, or Null
  listed,   \* apitoken_by_user rows: the user a token is listed to, or Null
  minted,   \* tokens issued so far
  step,     \* what each client does next: [at, user, token]
  revoked   \* history: tokens a revocation has stopped

tokenVars == <<works, listed, minted>>
tokenStore == <<tokenVars, step, revoked>>

Tokens == 1 .. MaxTokens
NoStep == [at |-> "idle", user |-> Null, token |-> Null]
Step == [at : {"idle", "mint", "unkey", "unlist", "row", "touch"},
         user : Users \cup {Null}, token : Tokens \cup {Null}]

TokenTypeOK ==
  /\ works \in [Tokens -> Users \cup {Null}]
  /\ listed \in [Tokens -> Users \cup {Null}]
  /\ minted \in 0 .. MaxTokens
  /\ step \in [Clients -> Step]
  /\ \A c \in Clients : step[c].at \in {"unkey", "unlist", "row", "touch"} =>
                          step[c].user \in Users /\ step[c].token \in Tokens
  /\ revoked \subseteq Tokens

TokenInit ==
  /\ works = [t \in Tokens |-> Null]
  /\ listed = [t \in Tokens |-> Null]
  /\ minted = 0
  /\ step = [c \in Clients |-> NoStep]
  /\ revoked = {}

TokensOf(u) == {t \in Tokens : listed[t] = u}

-----------------------------------------------------------------------------
(* issueApiToken.  What it lists and what it writes are two KV calls.      *)

HasRoom(u) == Cardinality(TokensOf(u)) < Limit

\* Mistake: the token is listed before it is made to work.
MintListedOnly(u) ==
  /\ minted < MaxTokens
  /\ minted' = minted + 1
  /\ listed' = [listed EXCEPT ![minted + 1] = u]
  /\ UNCHANGED works

Mint(u) ==
  /\ minted < MaxTokens
  /\ minted' = minted + 1
  /\ works' = [works EXCEPT ![minted + 1] = u]
  /\ listed' = [listed EXCEPT ![minted + 1] = u]

Become(c, at, u, t) == step' = [step EXCEPT ![c] = [at |-> at, user |-> u, token |-> t]]

StartIssue(c, u) ==
  /\ step[c] = NoStep /\ HasRoom(u)
  /\ Become(c, "mint", u, Null)
  /\ UNCHANGED <<tokenVars, revoked>>

FinishIssue(c) ==
  /\ step[c].at = "mint" /\ Mint(step[c].user)
  /\ step' = [step EXCEPT ![c] = NoStep]
  /\ UNCHANGED revoked

-----------------------------------------------------------------------------
(* revokeApiTokenById.                                                     *)

\* Mistake: the listing goes first.
StartRevokeUnlisting(c, u, t) ==
  /\ step[c] = NoStep /\ listed[t] = u
  /\ listed' = [listed EXCEPT ![t] = Null]
  /\ Become(c, "unkey", u, t)
  /\ UNCHANGED <<works, minted, revoked>>

StartRevoke(c, u, t) ==
  /\ step[c] = NoStep /\ listed[t] = u
  /\ Become(c, "unkey", u, t)
  /\ UNCHANGED <<tokenVars, revoked>>

StopWorking(c) ==
  /\ step[c].at = "unkey"
  /\ works' = [works EXCEPT ![step[c].token] = Null]
  /\ revoked' = revoked \cup {step[c].token}
  /\ Become(c, "unlist", step[c].user, step[c].token)
  /\ UNCHANGED <<listed, minted>>

FinishRevoke(c) ==
  /\ step[c].at = "unlist"
  /\ listed' = [listed EXCEPT ![step[c].token] = Null]
  /\ step' = [step EXCEPT ![c] = NoStep]
  /\ UNCHANGED <<works, minted, revoked>>

-----------------------------------------------------------------------------
(* findUserByApiToken: a use, at most once an hour, notes last_used_at.    *)

StartUse(c, t) ==
  /\ step[c] = NoStep /\ works[t] # Null
  /\ Become(c, "row", works[t], t)
  /\ UNCHANGED <<tokenVars, revoked>>

ReadRow(c) ==
  /\ step[c].at = "row"
  /\ \/ listed[step[c].token] # Null /\ Become(c, "touch", step[c].user, step[c].token)
     \/ step' = [step EXCEPT ![c] = NoStep]
  /\ UNCHANGED <<tokenVars, revoked>>

\* Mistake: the use writes back all it knows of the token.
WriteLastUsedWhole(c) ==
  /\ step[c].at = "touch"
  /\ listed' = [listed EXCEPT ![step[c].token] = step[c].user]
  /\ works' = [works EXCEPT ![step[c].token] = step[c].user]
  /\ step' = [step EXCEPT ![c] = NoStep]
  /\ UNCHANGED <<minted, revoked>>

WriteLastUsed(c) ==
  /\ step[c].at = "touch"
  /\ listed' = [listed EXCEPT ![step[c].token] = step[c].user]
  /\ step' = [step EXCEPT ![c] = NoStep]
  /\ UNCHANGED <<works, minted, revoked>>

\* A request that ends between two of its KV calls.
TokenCrash(c) ==
  /\ step[c] # NoStep /\ step' = [step EXCEPT ![c] = NoStep]
  /\ UNCHANGED <<tokenVars, revoked>>

TokenNext ==
  \E c \in Clients :
    \/ \E u \in Users : StartIssue(c, u) \/ \E t \in Tokens : StartRevoke(c, u, t)
    \/ FinishIssue(c) \/ StopWorking(c) \/ FinishRevoke(c)
    \/ \E t \in Tokens : StartUse(c, t)
    \/ ReadRow(c) \/ WriteLastUsed(c) \/ TokenCrash(c)

TokenSpec == TokenInit /\ [][TokenNext]_tokenStore

-----------------------------------------------------------------------------
(* Properties.                                                             *)

\* A token that works is in its owner's list, where it can be found and revoked
\* (users.ts:429-431): no crash of a revocation and no use racing one takes a
\* working token out of the list.
WorkingIsListed == \A t \in Tokens : works[t] # Null => listed[t] = works[t]

\* Once a revocation has stopped a token, it never works again, whatever uses of
\* it were under way and wherever the revocation ends (users.ts:530-577).
RevokedStaysDead == \A t \in revoked : works[t] = Null
=============================================================================
