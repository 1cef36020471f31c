----------------------------- MODULE ParseChain -----------------------------
(* The parse chain (src/parse/chain.ts): the parsers asked in order, the      *)
(* attempts they leave, the fields they disagree on, and the output that is   *)
(* merged from the attempts (src/parse/output.ts). An output gives every      *)
(* field a value, 0 when the parser left it out.                              *)
EXTENDS Naturals, Sequences, FiniteSets, SequencesExt

CONSTANT Failed     \* an attempt without output

Fields == {"service", "start", "place"}

ASSUME FailedAssumption == Failed \notin [Fields -> Nat]

Given(o) == o # Failed

(* A name and a start are what the rules ask for.                             *)
Valid(o) == Given(o) /\ o["service"] # 0 /\ o["start"] # 0

(* The attempts that gave a field a value; the k-th of them; the values, in   *)
(* the order of the attempts.                                                 *)
Said(attempts, f) == {i \in DOMAIN attempts : Given(attempts[i]) /\ attempts[i][f] # 0}
Nth(said, k) == CHOOSE i \in said : Cardinality({j \in said : j <= i}) = k
Options(attempts, f) ==
    LET said == Said(attempts, f)
    IN [k \in 1 .. Cardinality(said) |-> attempts[Nth(said, k)][f]]

Disagree(attempts, f) == Cardinality(ToSet(Options(attempts, f))) > 1

-----------------------------------------------------------------------------
(* Asking. A text that states its fee from a boundary goes to Gemini first,   *)
(* an image to Gemini alone.                                                  *)
Inputs == {"text", "fee text", "image"}
ChainForInput(input) ==
    CASE input = "text" -> <<"groq-llama", "gemini-flash">>
      [] input = "fee text" -> <<"gemini-flash", "groq-llama">>
      [] input = "image" -> <<"gemini-flash">>

(* A valid answer ends the chain, but for one of Groq's that gives a reason   *)
(* for a second opinion while Gemini is still to come.                        *)
Stops(chain, i, answer, doubtful) ==
    /\ Valid(answer[chain[i]])
    /\ ~ (/\ chain[i] = "groq-llama" /\ doubtful
          /\ \E k \in i + 1 .. Len(chain) : chain[k] = "gemini-flash")

Asked(chain, answer, doubtful) ==
    LET last == {i \in 1 .. Len(chain) : Stops(chain, i, answer, doubtful)}
        n == IF last = {} THEN Len(chain) ELSE CHOOSE i \in last : \A k \in last : i <= k
    IN [i \in 1 .. n |-> answer[chain[i]]]

(* The floor: when no parser gave anything, the dates a text states.          *)
Floor(stated) == [f \in Fields |-> IF f = "start" THEN stated ELSE 0]

Attempts(input, answer, doubtful, stated) ==
    LET asked == Asked(ChainForInput(input), answer, doubtful) IN
    IF input # "image" /\ stated # 0 /\ ~ \E i \in DOMAIN asked : Given(asked[i])
    THEN Append(asked, Floor(stated)) ELSE asked

-----------------------------------------------------------------------------
(* The job a chain leaves. A field in conflict keeps its options until one of *)
(* them is chosen; <<>> is no conflict.                                       *)
DetectFieldConflicts(attempts) ==
    [f \in Fields |-> IF Disagree(attempts, f) THEN Options(attempts, f) ELSE <<>>]

Unresolved(conflicts) == {f \in Fields : Len(conflicts[f]) > 1}

Status(attempts) ==
    LET winner == \E i \in DOMAIN attempts : Valid(attempts[i])
        any == \E i \in DOMAIN attempts : Given(attempts[i])
    IN IF winner /\ Unresolved(DetectFieldConflicts(attempts)) = {} THEN "parsed"
       ELSE IF any THEN "needs_review" ELSE "failed"

RunParseChain(attempts) ==
    [attempts |-> attempts, conflicts |-> DetectFieldConflicts(attempts), status |-> Status(attempts)]

-----------------------------------------------------------------------------
(* Mistake: every output is merged, the ones that failed the rules too.       *)
SourcesAll(attempts) == {i \in DOMAIN attempts : Given(attempts[i])}

(* The valid outputs; all of them only when none is valid.                    *)
Sources(attempts) ==
    LET usable == {i \in DOMAIN attempts : Valid(attempts[i])}
    IN IF usable # {} THEN usable ELSE {i \in DOMAIN attempts : Given(attempts[i])}

(* A later output overwrites what an earlier one gave.                        *)
MergedParsedOutput(attempts) ==
    [f \in Fields |-> LET saying == Sources(attempts) \cap Said(attempts, f)
                      IN IF saying = {} THEN 0 ELSE attempts[Max(saying)][f]]

(* A conflict with one option left has been decided.                          *)
ResolvedOutput(job) ==
    [f \in Fields |-> IF Len(job.conflicts[f]) = 1 THEN job.conflicts[f][1]
                      ELSE MergedParsedOutput(job.attempts)[f]]
=============================================================================
