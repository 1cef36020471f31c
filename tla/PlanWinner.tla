---------------------------- MODULE PlanWinner ----------------------------
(***************************************************************************)
(* What the web ledger promises of a plan's confirmed reservation, with no *)
(* storage, no versions and no intermediate steps: a plan has one winner   *)
(* or none; a client's confirm makes its reservation the winner of a plan  *)
(* that has none; only a confirm that asked to replace takes the place of  *)
(* another winner; a winner may step down at any time.                     *)
(***************************************************************************)
CONSTANTS Clients, Ids, Plans, Null

VARIABLES
  winner,   \* per plan: the settled reservation, or Null
  asked     \* per client: the confirm it has under way

vars == <<winner, asked>>

Requests == {"none", "confirm", "replace"}

TypeOK ==
  /\ winner \in [Plans -> Ids \cup {Null}]
  /\ asked \in [Clients -> Requests]

Init ==
  /\ winner = [p \in Plans |-> Null]
  /\ asked = [c \in Clients |-> "none"]

Ask(c, request) ==
  /\ asked[c] = "none"
  /\ asked' = [asked EXCEPT ![c] = request]
  /\ UNCHANGED winner

\* The request is answered without effect: refused, out of attempts, crashed,
\* or for a reservation in no plan.
GiveUp(c) ==
  /\ asked[c] # "none"
  /\ asked' = [asked EXCEPT ![c] = "none"]
  /\ UNCHANGED winner

Settle(c, p, i) ==
  /\ asked[c] # "none"
  /\ winner[p] = Null \/ asked[c] = "replace"
  /\ winner' = [winner EXCEPT ![p] = i]
  /\ asked' = [asked EXCEPT ![c] = "none"]

\* Cancelled, edited or deleted.
StepDown(p) ==
  /\ winner[p] # Null
  /\ winner' = [winner EXCEPT ![p] = Null]
  /\ UNCHANGED asked

Next ==
  \/ \E c \in Clients : \/ \E r \in Requests \ {"none"} : Ask(c, r)
                        \/ GiveUp(c)
                        \/ \E p \in Plans, i \in Ids : Settle(c, p, i)
  \/ \E p \in Plans : StepDown(p)

Spec == Init /\ [][Next]_vars
=============================================================================
