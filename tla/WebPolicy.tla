---------------------------- MODULE WebPolicy ----------------------------
(***************************************************************************)
(* web/policy.ts: the web ledger's stage tables.  A parsed core table, or a*)
(* table a client submits in any order and with repeated boundaries, is    *)
(* brought to a canonical form; the free window the source text implies    *)
(* (freeAt) is forced onto it; rates and deadlines are read from the result*)
(*                                                                         *)
(* Preset names stand for their tables and are not told apart from them.   *)
(***************************************************************************)
EXTENDS CancellationPolicy, SequencesExt

CONSTANTS
  WebMaxStages,  \* MAX_STAGES
  MaxHours,      \* MAX_HOURS
  FreeHours,     \* values of the text's free boundary
  Unknown        \* the policy "unknown"

WebPolicyAssumption ==
  /\ PolicyConstants
  /\ WebMaxStages \in Nat /\ MaxHours \in Nat /\ FreeHours \subseteq Nat /\ Null \notin FreeHours

VARIABLE freeAt  \* hours before the start at which the text says charging begins, or Null

\* A valid core table, or rows without fixed fees in any order.
WebInputs == Policies \cup UNION {[1 .. n -> {row \in Stage : row.fee_fixed_jpy = Null}] : n \in 0 .. MaxStages}

-----------------------------------------------------------------------------
Hours(t) == {t[i].h : i \in DOMAIN t}

\* Map.set over the sorted table: a later row replaces an earlier one.
RateOf(t, h) == t[Max({i \in DOMAIN t : t[i].h = h})].pct

\* A set of hours, the farthest first.
Descending(hours) ==
  [i \in 1 .. Cardinality(hours) |-> CHOOSE h \in hours : Cardinality({g \in hours : g >= h}) = i]

\* Mutant: a boundary is dropped when the next one OUT charges the same.
NormalizeOutward(t) ==
  LET outer(h) == {g \in Hours(t) : g > h}
      kept == {h \in Hours(t) : outer(h) = {} \/ RateOf(t, Min(outer(h))) # RateOf(t, h)}
      hs == Descending(kept)
  IN [i \in DOMAIN hs |-> [h |-> hs[i], pct |-> RateOf(t, hs[i])]]

\* Descending, one stage a boundary, none that charges what the next one in does.
NormalizeStages(t) ==
  LET inner(h) == {g \in Hours(t) : g < h}
      kept == {h \in Hours(t) : inner(h) = {} \/ RateOf(t, Max(inner(h))) # RateOf(t, h)}
      hs == Descending(kept)
  IN [i \in DOMAIN hs |-> [h |-> hs[i], pct |-> RateOf(t, hs[i])]]

\* Mutant: the new free boundary is added to the table as it is.
WithFreeWindowAdded(t, free) == NormalizeStages(<<[h |-> free, pct |-> 0]>> \o t)

\* The text's free boundary replaces whatever the table says outside it.
WithFreeWindowFrom(t, free) ==
  LET paid == {i \in DOMAIN t : t[i].pct > 0 /\ t[i].h < free}
  IN IF free > MaxHours \/ paid = {} THEN t
     ELSE NormalizeStages([i \in {0} \cup paid |-> IF i = 0 THEN [h |-> free, pct |-> 0] ELSE t[i]])

\* Mutant: the rate down to the start is invented as 100%.
FromCoreInvented(s, free) ==
  LET web == [i \in DOMAIN s |-> [h |-> Max({0, s[i].until_offset_hours}), pct |-> s[i].fee_percent]]
      restated == NormalizeStages(Append(web, [h |-> 0, pct |-> 100]))
  IN IF s = <<>> \/ \E i \in DOMAIN s : s[i].fee_fixed_jpy \notin {Null, 0} THEN Unknown
     ELSE IF free = Null THEN restated ELSE WithFreeWindowFrom(restated, free)

FromCoreStages(s, free) ==
  LET web == [i \in DOMAIN s |-> [h |-> Max({0, s[i].until_offset_hours}), pct |-> s[i].fee_percent]]
      restated == NormalizeStages(Append(web, [h |-> 0, pct |-> Last(NormalizeStages(web)).pct]))
      normalized == IF free = Null THEN restated ELSE WithFreeWindowFrom(restated, free)
  IN IF \/ s = <<>>
        \/ \E i \in DOMAIN s : s[i].fee_fixed_jpy \notin {Null, 0} \/ web[i].h > MaxHours
        \/ Len(normalized) > WebMaxStages
     THEN Unknown ELSE normalized

PctAt(t, start, when) ==
  LET n == NormalizeStages(t)
      reached == {i \in DOMAIN n : when <= BoundaryInstant(start, n[i].h)}
  IN n[IF reached = {} THEN Len(n) ELSE First(reached)].pct

FreeDeadlineMs(t, start) ==
  LET n == NormalizeStages(t)
      free == {i \in DOMAIN n : n[i].pct = 0}
  IN IF free = {} \/ free = DOMAIN n THEN Null ELSE BoundaryInstant(start, n[Max(free)].h)

\* web_api_view.ts nextCharge: what the model is told of the first fee.
NextCharge(t, start) ==
  LET free == {i \in DOMAIN t : t[i].pct = 0}
  IN IF free = {} \/ Max(free) = Len(t) THEN Null
     ELSE [at |-> BoundaryInstant(start, t[Max(free)].h), pct |-> t[Max(free) + 1].pct]

-----------------------------------------------------------------------------
webVars == <<vars, freeAt>>

WebInit ==
  /\ stages \in WebInputs /\ starts_at \in Starts /\ amount \in Amounts /\ at = 0
  /\ freeAt \in FreeHours \cup {Null}
  /\ freeAt # Null => \A i \in 1 .. Len(stages) : stages[i].fee_fixed_jpy = Null

WebPass == Pass /\ UNCHANGED freeAt

WebSpec == WebInit /\ [][WebPass]_webVars

-----------------------------------------------------------------------------
(* Properties.                                                             *)

Table == FromCoreStages(stages, freeAt)

Rising(t) == \A i \in 1 .. Len(t) - 1 : t[i].pct <= t[i+1].pct

\* policy.ts:36 of core/domain: a valid core table charges the same percentage at
\* every instant read there as in the ledger it is imported into, and is free until
\* the same one.
SameRateAsCore ==
  LET t == FromCoreStages(stages, Null)
  IN ValidStages(stages) /\ t # Unknown =>
       /\ PctAt(t, starts_at, at) = stages[StageIndex(stages, starts_at, at)].fee_percent
       /\ FreeDeadlineMs(t, starts_at) = FreeDeadline(stages, starts_at)

\* The stored form of a table loses nothing and is final: at each instant it charges
\* what the submitted row with the farthest boundary still ahead says, the last of
\* its rows; "re-saving an untouched form re-saves the same value", and the forced
\* free window is "idempotent by construction".
CanonicalForm ==
  LET raw == [i \in DOMAIN stages |-> [h |-> stages[i].until_offset_hours, pct |-> stages[i].fee_percent]]
      ahead == {h \in Hours(raw) : at <= BoundaryInstant(starts_at, h)}
  IN /\ stages # <<>> =>
          PctAt(raw, starts_at, at) =
            RateOf(raw, IF ahead = {} THEN Min(Hours(raw)) ELSE Max(ahead))
     /\ Table # Unknown =>
          /\ NormalizeStages(Table) = Table
          /\ freeAt # Null => WithFreeWindowFrom(Table, freeAt) = Table

\* Forcing the text's free boundary moves the deadline to exactly that boundary
\* and, past it, never makes a rising table cheaper than the parser read it.
FreeWindowNeverUnderWarns ==
  LET before == FromCoreStages(stages, Null)
  IN freeAt # Null /\ Table # Unknown /\ before # Unknown /\ Table # before =>
       /\ FreeDeadlineMs(Table, starts_at) = BoundaryInstant(starts_at, freeAt)
       /\ Rising(before) /\ at > BoundaryInstant(starts_at, freeAt) =>
            PctAt(Table, starts_at, at) >= PctAt(before, starts_at, at)

\* web_api_view.ts:54: "When the first cancellation fee starts, and at what rate."
NextChargeIsTheRate ==
  LET c == NextCharge(Table, starts_at)
  IN Table # Unknown /\ c # Null => PctAt(Table, starts_at, c.at + 1) = c.pct
=============================================================================
