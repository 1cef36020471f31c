---------------------------- MODULE MCWebLedger ----------------------------
(* Instances of WebLedger for TLC. Clients, ids and plans are model values    *)
(* that the specification only compares, so they may be permuted. In the run  *)
(* over every operation the clients of a behaviour keep to one menu of them,  *)
(* and only confirms see midnight pass while they are under way.             *)
EXTENDS WebLedger, TLC

Symmetry == Permutations(Clients) \cup Permutations(Ids) \cup Permutations(Plans)

VARIABLE menu

On(m) == menu = m /\ UNCHANGED menu
Plain(c) == UNCHANGED menu /\ (call'[c].replace => menu \in {"settle", "patch"})

MCInit == Init /\ menu \in {"settle", "patch", "cancel", "delete"}

MCNext ==
  \/ Midnight /\ UNCHANGED menu /\ (menu = "settle" \/ (menu = "patch" /\ issued = {}))
  \/ \E c \in Clients :
       \/ Create(c) /\ UNCHANGED menu
       \/ Confirm(c) /\ Plain(c)
       \/ Patch(c) /\ On("patch")
       \/ Cancel(c) /\ On("cancel")
       \/ Restore(c) /\ On("cancel")
       \/ Delete(c) /\ On("delete")
       \/ UndoCreate(c) /\ UNCHANGED menu
       \/ ReadTarget(c) /\ UNCHANGED menu
       \/ ReadGuard(c) /\ UNCHANGED menu
       \/ ReadGuarded(c) /\ UNCHANGED menu
       \/ ListBatch(c) /\ UNCHANGED menu
       \/ Commit(c) /\ UNCHANGED menu
       \/ Retry(c) /\ UNCHANGED menu
       \/ Put(c) /\ UNCHANGED menu
       \/ Remove(c) /\ UNCHANGED menu
       \/ Crash(c) /\ UNCHANGED menu

MCSpec == MCInit /\ [][MCNext]_<<vars, menu>>
=============================================================================
