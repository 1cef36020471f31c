----------------------------- MODULE MCPairing -----------------------------
(* Instances of DevicePairing and PcPairing for TLC, one in each run of the   *)
(* system: the server's record of a code ("server"), the PC's own state       *)
(* ("pc").  The record alone is run to the end of its life; beside sessions   *)
(* that issue, use and revoke tokens, only to the third write before the      *)
(* clock moves.  The PC meets one fault, expiry or revocation.                *)
EXTENDS DevicePairing, TLC

CONSTANTS Tools, MaxCodes, MaxFaults

VARIABLES part, state, loop, call, file, asked, code, over, honoured, faults, excused

Pc == INSTANCE PcPairing WITH Calls <- Polls, Loops <- Clients, None <- Null, works <- honoured

ASSUME PcAssumption == Pc!PcPairingAssumption

pcVars == <<state, loop, call, file, asked, code, over, honoured, faults, excused>>

MCInit == Init /\ Pc!Init /\ part \in {"server", "pc"}

InServer == part = "server" /\ UNCHANGED <<pcVars, part>>
InTokens == InServer /\ UNCHANGED <<record, now, poll, phone, handed, undead>>
InPc == part = "pc" /\ UNCHANGED <<vars, part>>

MCNext ==
  \/ \E p \in Polls :
       \/ InServer /\ StartPoll(p)
       \/ InServer /\ AnswerPoll(p)
  \/ \E c \in Phones :
       \/ \E u \in Users, at \in {"list", "deny"} : InServer /\ Decide(c, u, at)
       \/ InServer /\ ListTokens(c)
       \/ InServer /\ IssueToken(c)
       \/ InServer /\ Park(c)
       \/ InServer /\ Deny(c)
  \/ InServer /\ Tick
  \/ InServer /\ KvExpires
  \/ InServer /\ Crash
  \/ \E c \in Clients :
       \/ \E u \in Users : InTokens /\ StartIssue(c, u)
       \/ \E u \in Users, t \in Tokens : InTokens /\ StartRevoke(c, u, t)
       \/ InTokens /\ FinishIssue(c)
       \/ InTokens /\ StopWorking(c)
       \/ InTokens /\ FinishRevoke(c)
       \/ \E t \in Tokens : InTokens /\ StartUse(c, t)
       \/ InTokens /\ ReadRow(c)
       \/ InTokens /\ WriteLastUsed(c)
       \/ InTokens /\ TokenCrash(c)
  \/ \E c \in Polls :
       \/ \E tool \in Tools : InPc /\ Pc!ToolCall(c, tool)
       \/ InPc /\ Pc!ReadFile(c)
       \/ InPc /\ Pc!Start(c)
       \/ InPc /\ Pc!NewCode(c)
       \/ InPc /\ Pc!NoCode(c)
       \/ InPc /\ Pc!Request(c)
       \/ InPc /\ Pc!Forget(c)
       \/ InPc /\ Pc!Erase(c)
       \/ InPc /\ Pc!Drop(c)
  \/ \E i \in Clients :
       \/ InPc /\ Pc!Wake(i)
       \/ InPc /\ Pc!Poll(i)
       \/ InPc /\ Pc!SlowDown(i)
       \/ InPc /\ Pc!Blip(i)
       \/ InPc /\ Pc!Refused(i)
       \/ InPc /\ Pc!Save(i)
       \/ InPc /\ Pc!Saved(i)
  \/ InPc /\ Pc!Restart
  \/ \E n \in Pc!Codes :
       \/ InPc /\ Pc!Answer(n)
       \/ InPc /\ Pc!LifeEnds(n)
       \/ InPc /\ Pc!Revoke(n)

MCSpec == MCInit /\ [][MCNext]_<<vars, pcVars, part>>

ShownIsPolled == Pc!ShownIsPolled

Sessions == revoked # {} \/ \E c \in Clients : step[c] # NoStep
Ended == {n \in 1 .. asked : code[n] \in {"approved", "gone"} /\ n \notin honoured}
Explored ==
  /\ (Sessions => writes <= 3 /\ now = 0)'
  /\ (faults + Cardinality(over) + Cardinality(Ended) <= 1)'

Symmetry == Permutations(Polls) \cup Permutations(Phones) \cup Permutations(Users) \cup Permutations(Clients)
=============================================================================
