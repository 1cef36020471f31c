------------------------ MODULE CancellationPolicy ------------------------
(***************************************************************************)
(* core/domain/policy.ts: which fee stage is in effect at an instant, when *)
(* the fee next changes, what cancelling costs and until when it is free.  *)
(*                                                                         *)
(* Time is a count of hours from a JST midnight; a day has Day of them, and*)
(* the last instant of a day is its last hour.  A state is a reservation's *)
(* policy, start and amount at an instant; the only step is time passing.  *)
(***************************************************************************)
EXTENDS Integers, Sequences

CONSTANTS
  Day,        \* hours of a day
  Offsets,    \* values of until_offset_hours
  Percents,   \* values of fee_percent
  FixedFees,  \* values of fee_fixed_jpy, Null among them or not
  MaxStages,  \* longest stage table
  Starts,     \* values of starts_at
  Amounts,    \* values of amount_jpy, multiples of 100
  Null        \* JavaScript null

PolicyConstants ==
  /\ Day \in Nat \ {0} /\ MaxStages \in Nat
  /\ Offsets \subseteq Int /\ Starts \subseteq Int
  /\ Percents \subseteq 0 .. 100 /\ Amounts \subseteq Nat
  /\ FixedFees \subseteq Nat \cup {Null} /\ Null \notin Int /\ Null \notin [at : Int, to : Int]

Stage == [until_offset_hours : Offsets, fee_percent : Percents, fee_fixed_jpy : FixedFees]

\* cancellationPolicySchema: offsets fall, percentages and fixed fees do not.
ValidStages(s) ==
  \A i \in 1 .. Len(s) - 1 :
    /\ s[i+1].until_offset_hours < s[i].until_offset_hours
    /\ s[i+1].fee_percent >= s[i].fee_percent
    /\ s[i].fee_fixed_jpy # Null /\ s[i+1].fee_fixed_jpy # Null =>
         s[i+1].fee_fixed_jpy >= s[i].fee_fixed_jpy

Policies == {s \in UNION {[1 .. n -> Stage] : n \in 0 .. MaxStages} : ValidStages(s)}

VARIABLES
  stages,     \* the reservation's cancellation_policy.stages
  starts_at,  \* its start
  amount,     \* its amount_jpy
  at          \* the present instant

vars == <<stages, starts_at, amount, at>>

-----------------------------------------------------------------------------
EndOfDay(t) == (t \div Day) * Day + Day - 1

\* A deadline is a date: an offset picks the day, the boundary is its end.
BoundaryInstant(start, offset) ==
  IF offset <= 0 THEN start ELSE EndOfDay(start - offset)

Reached(s, start, t) ==
  {i \in 1 .. Len(s) : t <= BoundaryInstant(start, s[i].until_offset_hours)}

First(S) == CHOOSE i \in S : \A j \in S : i <= j

\* Mutant: the outermost stage once every boundary is passed.
StageIndexOutermost(s, start, t) ==
  IF Reached(s, start, t) = {} THEN 1 ELSE First(Reached(s, start, t))

\* The stage in effect: the first whose boundary is not passed, or the innermost.
StageIndex(s, start, t) ==
  IF Reached(s, start, t) = {} THEN Len(s) ELSE First(Reached(s, start, t))

FeeOf(stage, yen) ==
  LET percentDerived == (yen * stage.fee_percent) \div 100
  IN IF stage.fee_fixed_jpy = Null \/ percentDerived >= stage.fee_fixed_jpy
     THEN percentDerived ELSE stage.fee_fixed_jpy

FeeAt(s, start, yen, t) == IF s = <<>> THEN 0 ELSE FeeOf(s[StageIndex(s, start, t)], yen)

\* Mutant: the boundary of the stage to come, not of the one being left.
NextBoundaryLate(s, start, t) ==
  LET R == Reached(s, start, t)
  IN IF R = {} \/ First(R) = Len(s) THEN Null
     ELSE [at |-> BoundaryInstant(start, s[First(R) + 1].until_offset_hours), to |-> First(R) + 1]

\* The next fee change: the boundary of the stage in effect, and the next stage.
NextBoundary(s, start, t) ==
  LET R == Reached(s, start, t)
  IN IF R = {} \/ First(R) = Len(s) THEN Null
     ELSE [at |-> BoundaryInstant(start, s[First(R)].until_offset_hours), to |-> First(R) + 1]

Charged(stage) == stage.fee_percent > 0 \/ (stage.fee_fixed_jpy # Null /\ stage.fee_fixed_jpy > 0)

\* freeCancellationDeadline: the boundary of the last free stage.
FreeDeadline(s, start) ==
  LET free == {i \in 1 .. Len(s) : ~Charged(s[i])}
  IN IF free = {} \/ free = 1 .. Len(s) THEN Null
     ELSE BoundaryInstant(start, s[CHOOSE i \in free : \A j \in free : j <= i].until_offset_hours)

-----------------------------------------------------------------------------
\* The instants of interest: from the earliest boundary to a day past the start.
Instants == LET latest == CHOOSE x \in Starts : \A y \in Starts : y <= x
            IN 0 .. latest + Day

Init == stages \in Policies /\ starts_at \in Starts /\ amount \in Amounts /\ at = 0

\* Time passes.
Pass ==
  /\ at + 1 \in Instants /\ at' = at + 1
  /\ UNCHANGED <<stages, starts_at, amount>>

Next == Pass

Spec == Init /\ [][Next]_vars

-----------------------------------------------------------------------------
(* Properties.                                                             *)

\* Every stage has a fixed fee or none has.  The schema compares the fixed fees of
\* neighbours only when both are there, so a table that mixes them may get cheaper.
Uniform(s) == \A i, j \in 1 .. Len(s) : s[i].fee_fixed_jpy = Null <=> s[j].fee_fixed_jpy = Null

\* policy.ts:24: waiting never makes cancelling by a valid table cheaper, whatever
\* days its boundaries fall on.
FeeNeverDrops ==
  [][ValidStages(stages) /\ Uniform(stages) =>
       FeeAt(stages, starts_at, amount, at') >= FeeAt(stages, starts_at, amount, at)]_vars

\* nextBoundary names the last instant of the rate in effect: nothing changes up
\* to it, the stage changes right after it, and null means it never changes again.
BoundaryIsTheNextChange ==
  LET b == NextBoundary(stages, starts_at, at)
      same(t) == StageIndex(stages, starts_at, t) = StageIndex(stages, starts_at, at)
  IN IF b = Null THEN \A t \in Instants : t >= at => same(t)
     ELSE b.at >= at /\ (\A t \in at .. b.at : same(t)) /\ ~same(b.at + 1)
=============================================================================
