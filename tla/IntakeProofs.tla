--------------------------- MODULE IntakeProofs ---------------------------
(***************************************************************************)
(* Proofs about what comes in from outside and what goes out to the        *)
(* developer, for any number of mails, calls, answers of the parsers, taps *)
(* and reports: Intake, LineChat (L!) and Reports (R!).                    *)
(*                                                                         *)
(* Intake: a mail is worked on by the one call that holds its claim, and a *)
(* claim that nobody works on stands for a mail that was dealt with.       *)
(* A job keeps what the parsers said, and its conflicts the options they   *)
(* left or the one that was tapped; so does every copy a call has read.    *)
(***************************************************************************)
EXTENDS MCIntake, FiniteSetTheorems, SequenceTheorems, WellFoundedInduction, TLAPS

AtMail == {"rate", "counted", "claim", "fetch", "create"}
AtJob == {"put", "register", "resolve"}

\* Where a call stands tells what it carries.
CallOK(c) ==
  /\ At(c) \in {"new", "done"} \cup AtMail \cup AtJob
  /\ At(c) \in AtMail => call[c].mail \in Mails
  /\ At(c) \in AtJob =>
       /\ call[c] = [at |-> At(c), job |-> call[c].job, read |-> call[c].read]
       /\ call[c].job \in Calls /\ At(call[c].job) # "new"
       /\ "status" \in DOMAIN call[c].read

Shapes ==
  /\ DOMAIN call = Calls /\ DOMAIN jobs = Calls
  /\ entered \in [Mails \cup Calls -> Nat] /\ acked \subseteq Mails
  /\ \A c \in Calls : CallOK(c)
  /\ \A j \in Calls : "status" \in DOMAIN jobs[j]

\* A mail no failure left half done: who works on it holds the claim alone, and has
\* not entered it yet.
ClaimHeld(m) ==
  /\ \A c, d \in WorkingOn(m) : c = d
  /\ WorkingOn(m) # {} => m \in seen
  /\ WorkingOn(m) # {} \/ m \notin seen => entered[m] = 0
  /\ entered[m] <= 1

\* A claim nobody works on stands for a mail that is entered, or closed, or cut; and
\* nobody is told that all is done who is not told so of such a mail, or too early.
MailOK(m) ==
  /\ m \notin cut => ClaimHeld(m)
  /\ m \in seen /\ WorkingOn(m) = {} => entered[m] > 0 \/ m \in closed \cup cut
  /\ m \in acked => entered[m] > 0 \/ m \in closed \cup cut \cup overlapped

\* What a call at work on a job has read is open, and is entered when it is about to be
\* noted as resolved.
ReadOK(c) ==
  /\ At(c) \in {"put", "register"} =>
       call[c].read.status = IF call[c].job = c THEN "parsed" ELSE "needs_review"
  /\ At(c) \in {"put", "resolve"} => call[c].job # c
  /\ At(c) = "resolve" => call[c].read.status = "resolved" /\ entered[call[c].job] > 0

\* A job that no two taps and no failure met: it is entered after the last call at work
\* on it has registered it, and is then no longer open.
JobSettles(j) ==
  /\ \A c, d \in TapsOn(j) : c = d
  /\ \A c \in TapsOn(j) : At(c) # "resolve" => entered[j] = 0
  /\ j \in TapsOn(j) \/ (TapsOn(j) = {} /\ entered[j] > 0) => ~Open(jobs[j])
  /\ entered[j] <= 1

JobOK(j) ==
  /\ At(j) = "new" => jobs[j].status = "none" /\ entered[j] = 0
  /\ jobs[j].status = "resolved" => entered[j] > 0
  /\ j \notin overlapped \cup cut => JobSettles(j)

OfferedOK == \A x \in offered : x[1] \in Calls /\ At(x[1]) # "new"

IntakeInv ==
  /\ Shapes /\ OfferedOK
  /\ \A m \in Mails : MailOK(m)
  /\ \A c \in Calls : ReadOK(c)
  /\ \A j \in Calls : JobOK(j)

-----------------------------------------------------------------------------
\* The statuses a chain leaves: no job comes in as resolved.
LEMMA JobsComeIn ==
  ASSUME NEW job \in AllJobs
  PROVE  "status" \in DOMAIN job /\ job.status \in {"parsed", "needs_review", "failed"}
<1> DEFINE Answered(a, b) == [p \in {"groq-llama", "gemini-flash"} |-> IF p = "groq-llama" THEN a ELSE b]
<1>1. PICK input \in Inputs, a \in Answers, b \in Answers, doubtful \in BOOLEAN, stated \in {0, 1} :
        job = RunParseChain(Attempts(input, Answered(a, b), doubtful, stated))
  BY DEF AllJobs, Answered
<1> HIDE DEF Answered
<1> QED
  BY <1>1 DEF RunParseChain, Status

\* A narrowed job keeps its status.
LEMMA NarrowedKeeps ==
  ASSUME NEW job, "status" \in DOMAIN job, NEW f, NEW i
  PROVE  "status" \in DOMAIN Narrowed(job, f, i) /\ Narrowed(job, f, i).status = job.status
  BY DEF Narrowed

\* What is offered of a job names it.
LEMMA OffersName ==
  ASSUME NEW j, NEW job, NEW x \in Offer(j, job)
  PROVE  x[1] = j
  BY DEF Offer

\* Mails are not calls, so a registration counts one or the other.
LEMMA EnteredOne ==
  ASSUME Shapes, NEW x \in Mails \cup Calls, entered' = [entered EXCEPT ![x] = @ + 1]
  PROVE  /\ entered' \in [Mails \cup Calls -> Nat]
         /\ entered'[x] = entered[x] + 1 /\ entered[x] \in Nat
         /\ \A y \in (Mails \cup Calls) \ {x} : entered'[y] = entered[y]
  BY DEF Shapes

-----------------------------------------------------------------------------
(* Where the calls stand.                                                  *)

\* One call moves, to a place its new record fits.
LEMMA MoveKeepsShapes ==
  ASSUME Shapes, NEW c \in Calls, NEW s, Goto(c, s), At(c) # "new" \/ s.at # "new", s.at # "new",
         s.at \in {"done"} \cup AtMail \cup AtJob,
         s.at \in AtMail => s.mail \in Mails,
         s.at \in AtJob => /\ s = [at |-> s.at, job |-> s.job, read |-> s.read]
                           /\ s.job \in Calls /\ (s.job = c \/ At(s.job) # "new")
                           /\ "status" \in DOMAIN s.read
  PROVE  DOMAIN call' = Calls /\ \A d \in Calls : CallOK(d)'
<1>1. call'[c] = s /\ DOMAIN call' = Calls /\ \A d \in Calls \ {c} : call'[d] = call[d]
  BY DEF Goto, Shapes
<1>2. \A d \in Calls : At(d) # "new" => call'[d].at # "new"
  BY <1>1 DEF At
<1>3. CallOK(c)'
  BY <1>1, <1>2 DEF CallOK, At, AtMail, AtJob
<1>4. \A d \in Calls \ {c} : CallOK(d)'
  BY <1>1, <1>2 DEF CallOK, At, Shapes
<1> QED
  BY <1>1, <1>3, <1>4

\* What is about the calls, in one go.
LEMMA MailMoves ==
  ASSUME Shapes, NEW c \in Calls, NEW m \in Mails, HandleEmailWebhook(c, m)
  PROVE  Shapes'
<1>1. DOMAIN call' = Calls /\ \A d \in Calls : CallOK(d)'
  <2>1. CASE Goto(c, [at |-> "rate", mail |-> m])
    BY <2>1, MoveKeepsShapes DEF AtMail, AtJob
  <2>2. CASE Goto(c, Done)
    BY <2>2, MoveKeepsShapes DEF AtMail, AtJob, Done
  <2> QED
    BY <2>1, <2>2 DEF HandleEmailWebhook, Ack
<1>2. UNCHANGED <<jobs, entered>> /\ acked' \subseteq acked \cup {m}
  BY DEF HandleEmailWebhook, Ack, stored
<1> QED
  BY <1>1, <1>2 DEF Shapes

LEMMA MailWorkMoves ==
  ASSUME Shapes, NEW c \in Calls,
         AllowForward(c) \/ CountForward(c) \/ Claim(c) \/ IntakeFails(c) \/ ReadMail(c)
           \/ CreateCandidate(c)
  PROVE  Shapes'
<1>1. call[c].mail \in Mails
  BY DEF AllowForward, CountForward, Claim, IntakeFails, ReadMail, CreateCandidate, Shapes, CallOK, AtMail
<1>2. DOMAIN call' = Calls /\ \A d \in Calls : CallOK(d)'
  <2> DEFINE m == call[c].mail
  <2>1. \/ Goto(c, Done) \/ Goto(c, [at |-> "counted", mail |-> m, count |-> forwards])
        \/ \E a \in {"claim", "fetch", "create"} : Goto(c, [at |-> a, mail |-> m])
    BY DEF AllowForward, CountForward, Claim, IntakeFails, ReadMail, CreateCandidate, Ack
  <2>2. CASE Goto(c, Done)
    BY <2>2, MoveKeepsShapes DEF AtMail, AtJob, Done
  <2>3. CASE Goto(c, [at |-> "counted", mail |-> m, count |-> forwards])
    BY <1>1, <2>3, MoveKeepsShapes DEF AtMail, AtJob
  <2>4. ASSUME NEW a \in {"claim", "fetch", "create"}, Goto(c, [at |-> a, mail |-> m])
        PROVE  DOMAIN call' = Calls /\ \A d \in Calls : CallOK(d)'
    BY <1>1, <2>4, MoveKeepsShapes DEF AtMail, AtJob
  <2> QED
    BY <2>1, <2>2, <2>3, <2>4
<1>3. jobs' = jobs /\ acked' \subseteq acked \cup {call[c].mail}
  BY DEF AllowForward, CountForward, Claim, IntakeFails, ReadMail, CreateCandidate, Ack, stored, history
<1>4. entered' \in [Mails \cup Calls -> Nat]
  <2>1. entered' = entered \/ entered' = [entered EXCEPT ![call[c].mail] = @ + 1]
    BY DEF AllowForward, CountForward, Claim, IntakeFails, ReadMail, CreateCandidate, history
  <2> QED
    BY <1>1, <2>1, EnteredOne DEF Shapes
<1> QED
  BY <1>1, <1>2, <1>3, <1>4 DEF Shapes

LEMMA MessageMoves ==
  ASSUME Shapes, NEW c \in Calls, NEW job \in AllJobs, HandleMessage(c, job)
  PROVE  Shapes'
<1>1. "status" \in DOMAIN job
  BY JobsComeIn
<1>2. DOMAIN call' = Calls /\ \A d \in Calls : CallOK(d)'
  <2>1. CASE Goto(c, [at |-> "register", job |-> c, read |-> job])
    BY <1>1, <2>1, MoveKeepsShapes DEF AtMail, AtJob
  <2>2. CASE Goto(c, Done)
    BY <2>2, MoveKeepsShapes DEF AtMail, AtJob, Done
  <2> QED
    BY <2>1, <2>2 DEF HandleMessage
<1>3. UNCHANGED <<entered, acked>> /\ jobs' = [jobs EXCEPT ![c] = job]
  BY DEF HandleMessage
<1> QED
  BY <1>1, <1>2, <1>3 DEF Shapes

LEMMA ParseMoves ==
  ASSUME Shapes, NEW c \in Calls, ParseApi(c)
  PROVE  Shapes'
<1>1. DOMAIN call' = Calls /\ \A d \in Calls : CallOK(d)'
  BY MoveKeepsShapes DEF AtMail, AtJob, Done, ParseApi
<1>2. UNCHANGED <<entered, acked>> /\ (jobs' = jobs \/ \E job \in AllJobs : jobs' = [jobs EXCEPT ![c] = job])
  BY DEF ParseApi, history
<1> QED
  BY <1>1, <1>2, JobsComeIn DEF Shapes

LEMMA TapMoves ==
  ASSUME Shapes, OfferedOK, NEW c \in Calls, NEW x \in offered, HandlePostback(c, x)
  PROVE  Shapes'
<1>1. x[1] \in Calls /\ At(x[1]) # "new" /\ "status" \in DOMAIN jobs[x[1]]
  BY DEF OfferedOK, Shapes
<1> DEFINE read == Narrowed(jobs[x[1]], x[2], Place(x[1], x[2], x[3]))
<1>2. "status" \in DOMAIN read
  BY <1>1, NarrowedKeeps
<1> HIDE DEF read
<1>3. DOMAIN call' = Calls /\ \A d \in Calls : CallOK(d)'
  <2>1. Goto(c, Done) \/ \E a \in {"put", "register"} : Goto(c, [at |-> a, job |-> x[1], read |-> read])
    BY DEF HandlePostback, read
  <2>2. CASE Goto(c, Done)
    BY <2>2, MoveKeepsShapes DEF AtMail, AtJob, Done
  <2>3. ASSUME NEW a \in {"put", "register"}, Goto(c, [at |-> a, job |-> x[1], read |-> read])
        PROVE  DOMAIN call' = Calls /\ \A d \in Calls : CallOK(d)'
    BY <1>1, <1>2, <2>3, MoveKeepsShapes DEF AtMail, AtJob
  <2> QED
    BY <2>1, <2>2, <2>3
<1>4. UNCHANGED <<entered, jobs, acked>>
  BY DEF HandlePostback, stored
<1> QED
  BY <1>3, <1>4 DEF Shapes

LEMMA PutMoves ==
  ASSUME Shapes, NEW c \in Calls, PutParseJob(c)
  PROVE  Shapes'
<1>1. call[c].job \in Calls /\ "status" \in DOMAIN call[c].read
  BY DEF PutParseJob, Shapes, CallOK, AtJob
<1>2. DOMAIN call' = Calls /\ \A d \in Calls : CallOK(d)'
  BY MoveKeepsShapes DEF AtMail, AtJob, Done, PutParseJob
<1>3. UNCHANGED <<entered, acked>> /\ jobs' = [jobs EXCEPT ![call[c].job] = call[c].read]
  BY DEF PutParseJob
<1> QED
  BY <1>1, <1>2, <1>3 DEF Shapes

LEMMA RegisterMoves ==
  ASSUME Shapes, NEW c \in Calls, RegisterOutput(c)
  PROVE  Shapes'
<1> DEFINE j == call[c].job
           noted == [call[c].read EXCEPT !.status = "resolved"]
<1>1. /\ j \in Calls /\ At(j) # "new" /\ "status" \in DOMAIN call[c].read
      /\ call[c] = [at |-> "register", job |-> j, read |-> call[c].read]
  BY DEF RegisterOutput, Shapes, CallOK, AtJob
<1>2. "status" \in DOMAIN noted
  BY <1>1
<1>3. Refused(c) = [at |-> "put", job |-> j, read |-> call[c].read]
  BY <1>1 DEF Refused
<1> HIDE DEF noted
<1>4. DOMAIN call' = Calls /\ \A d \in Calls : CallOK(d)'
  <2>1. \/ Goto(c, Done) \/ Goto(c, [at |-> "resolve", job |-> j, read |-> noted])
        \/ Goto(c, [at |-> "put", job |-> j, read |-> call[c].read])
    BY <1>3 DEF RegisterOutput, noted
  <2>2. CASE Goto(c, Done)
    BY <2>2, MoveKeepsShapes DEF AtMail, AtJob, Done
  <2>3. CASE Goto(c, [at |-> "resolve", job |-> j, read |-> noted])
    BY <1>1, <1>2, <2>3, MoveKeepsShapes DEF AtMail, AtJob
  <2>4. CASE Goto(c, [at |-> "put", job |-> j, read |-> call[c].read])
    BY <1>1, <2>4, MoveKeepsShapes DEF AtMail, AtJob
  <2> QED
    BY <2>1, <2>2, <2>3, <2>4
<1>5. UNCHANGED <<jobs, acked>> /\ (entered' = entered \/ entered' = [entered EXCEPT ![j] = @ + 1])
  BY DEF RegisterOutput, stored
<1>6. entered' \in [Mails \cup Calls -> Nat]
  BY <1>1, <1>5, EnteredOne DEF Shapes
<1> QED
  BY <1>4, <1>5, <1>6 DEF Shapes

LEMMA CutMoves ==
  ASSUME Shapes, NEW c \in Calls, Cut(c)
  PROVE  Shapes'
<1>1. DOMAIN call' = Calls /\ \A d \in Calls : CallOK(d)'
  BY MoveKeepsShapes DEF AtMail, AtJob, Done, Cut
<1>2. UNCHANGED <<entered, jobs, acked>>
  BY DEF Cut, stored
<1> QED
  BY <1>1, <1>2 DEF Shapes

LEMMA ShapesKept ==
  ASSUME Shapes, OfferedOK, Next
  PROVE  Shapes'
  BY MailMoves, MailWorkMoves, MessageMoves, ParseMoves, TapMoves, PutMoves, RegisterMoves, CutMoves
     DEF Next
-----------------------------------------------------------------------------
(* A mail, step by step.                                                   *)

Works(c, m) == At(c) \in {"fetch", "create"} /\ call[c].mail = m

\* A step of a call that does not work on the mail, before and after.
LEMMA MailRests ==
  ASSUME Shapes, NEW m \in Mails, MailOK(m), NEW c \in Calls, ~Works(c, m), ~Works(c, m)',
         \A d \in Calls \ {c} : call'[d] = call[d],
         m \in seen' <=> m \in seen, entered'[m] = entered[m],
         cut \subseteq cut', closed \subseteq closed', overlapped \subseteq overlapped',
         m \in acked' => m \in acked \cup closed'
  PROVE  MailOK(m)'
<1>1. WorkingOn(m)' = WorkingOn(m)
  BY DEF WorkingOn, Works, At
<1>2. \A d \in Calls : d \in WorkingOn(m) => At(d)' = At(d)
  BY DEF WorkingOn, Works, At
<1>3. (m \notin cut => ClaimHeld(m)) => (m \notin cut' => ClaimHeld(m)')
  BY <1>1 DEF ClaimHeld
<1> QED
  BY <1>1, <1>3 DEF MailOK

\* What a step of one call leaves alone.
LEMMA OthersStay ==
  ASSUME Shapes, NEW c \in Calls, NEW s, Goto(c, s)
  PROVE  call'[c] = s /\ \A d \in Calls \ {c} : call'[d] = call[d]
  BY DEF Shapes, Goto

LEMMA ArrivalKeepsMail ==
  ASSUME Shapes, NEW m \in Mails, MailOK(m), NEW c \in Calls,
         (\E n \in Mails : HandleEmailWebhook(c, n)) \/ AllowForward(c) \/ CountForward(c)
  PROVE  MailOK(m)'
<1>1. PICK s : Goto(c, s) /\ s.at \in {"rate", "counted", "claim", "done"}
  <2>1. CASE \E n \in Mails : HandleEmailWebhook(c, n)
    BY <2>1 DEF HandleEmailWebhook, Ack, Done
  <2>2. CASE AllowForward(c)
    BY <2>2 DEF AllowForward, Ack, Done
  <2>3. CASE CountForward(c)
    BY <2>3 DEF CountForward
  <2> QED
    BY <2>1, <2>2, <2>3
<1>2. ~Works(c, m) /\ ~Works(c, m)' /\ \A d \in Calls \ {c} : call'[d] = call[d]
  BY <1>1, OthersStay DEF Works, At, HandleEmailWebhook, AllowForward, CountForward
<1>3. UNCHANGED <<seen, entered, cut, overlapped>>
  BY DEF HandleEmailWebhook, AllowForward, CountForward, stored, history
<1>4. closed \subseteq closed' /\ (m \in acked' => m \in acked \cup closed')
  BY DEF HandleEmailWebhook, AllowForward, CountForward, history, Ack
<1> QED
  BY <1>2, <1>3, <1>4, MailRests

LEMMA JobsKeepMail ==
  ASSUME Shapes, NEW m \in Mails, MailOK(m), NEW c \in Calls,
         \/ ParseApi(c) \/ PutParseJob(c) \/ RegisterOutput(c)
         \/ \E j \in AllJobs : HandleMessage(c, j)
         \/ \E x \in offered : HandlePostback(c, x)
  PROVE  MailOK(m)'
<1>1. PICK s : Goto(c, s) /\ s.at \in {"put", "register", "resolve", "done"}
  <2>1. CASE RegisterOutput(c)
    <3>1. call[c] = [at |-> "register", job |-> call[c].job, read |-> call[c].read]
      BY <2>1 DEF RegisterOutput, Shapes, CallOK, AtJob
    <3>2. Refused(c).at = "put"
      BY <3>1 DEF Refused
    <3> QED
      BY <2>1, <3>2 DEF RegisterOutput, Done
  <2>2. CASE ParseApi(c) \/ PutParseJob(c)
    BY <2>2 DEF ParseApi, PutParseJob, Done
  <2>4. ASSUME NEW j \in AllJobs, HandleMessage(c, j)
        PROVE  \E s : Goto(c, s) /\ s.at \in {"put", "register", "resolve", "done"}
    BY <2>4 DEF HandleMessage, Done
  <2>3. ASSUME NEW x \in offered, HandlePostback(c, x)
        PROVE  \E s : Goto(c, s) /\ s.at \in {"put", "register", "resolve", "done"}
    BY <2>3 DEF HandlePostback, Done
  <2> QED
    BY <2>1, <2>2, <2>3, <2>4
<1>2. ~Works(c, m) /\ ~Works(c, m)' /\ \A d \in Calls \ {c} : call'[d] = call[d]
  BY <1>1, OthersStay DEF Works, At, ParseApi, PutParseJob, RegisterOutput, HandleMessage, HandlePostback
<1>3. UNCHANGED <<seen, closed, acked, cut>> /\ overlapped \subseteq overlapped'
  BY DEF ParseApi, PutParseJob, RegisterOutput, HandleMessage, HandlePostback, stored, history
<1>4. entered'[m] = entered[m]
  <2>1. CASE RegisterOutput(c)
    <3>1. call[c].job \in Calls /\ call[c].job # m
      BY <2>1, IntakeAssumption DEF RegisterOutput, Shapes, CallOK, AtJob
    <3> QED
      BY <2>1, <3>1, EnteredOne DEF RegisterOutput
  <2>2. CASE ~RegisterOutput(c)
    BY <2>2 DEF ParseApi, PutParseJob, HandleMessage, HandlePostback, history
  <2> QED
    BY <2>1, <2>2
<1> QED
  BY <1>2, <1>3, <1>4, MailRests

LEMMA ClaimKeepsMail ==
  ASSUME Shapes, NEW m \in Mails, MailOK(m), NEW c \in Calls, Claim(c)
  PROVE  MailOK(m)'
<1> DEFINE n == call[c].mail
<1>1. n \in Mails
  BY DEF Claim, Shapes, CallOK, AtMail
<1>2. UNCHANGED <<entered, closed, cut>> /\ overlapped \subseteq overlapped'
  BY DEF Claim
<1>3. CASE n # m
  <2>1. PICK s : Goto(c, s) /\ (s = [at |-> "fetch", mail |-> n] \/ s = Done)
    BY DEF Claim, Ack
  <2>2. ~Works(c, m) /\ ~Works(c, m)' /\ \A d \in Calls \ {c} : call'[d] = call[d]
    BY <1>3, <2>1, OthersStay DEF Works, At, Claim, Done
  <2>3. (m \in seen' <=> m \in seen) /\ (m \in acked' <=> m \in acked)
    BY <1>3 DEF Claim, Ack
  <2> QED
    BY <1>2, <2>2, <2>3, MailRests
<1>4. CASE n = m /\ m \notin seen
  <2>1. Goto(c, [at |-> "fetch", mail |-> m]) /\ seen' = seen \cup {m} /\ acked' = acked
    BY <1>4 DEF Claim
  <2>2. WorkingOn(m)' = WorkingOn(m) \cup {c}
    BY <2>1, OthersStay DEF WorkingOn, At
  <2>3. ASSUME m \notin cut PROVE ClaimHeld(m)'
    BY <1>2, <1>4, <2>1, <2>2, <2>3 DEF MailOK, ClaimHeld
  <2> QED
    BY <1>2, <2>1, <2>2, <2>3 DEF MailOK
<1>5. CASE n = m /\ m \in seen
  <2>1. Goto(c, Done) /\ seen' = seen /\ acked' = acked \cup {m}
    BY <1>5 DEF Claim, Ack
  <2>2. WorkingOn(m)' = WorkingOn(m)
    BY <2>1, OthersStay DEF WorkingOn, At, Claim, Done
  <2>3. WorkingOn(m) # {} => m \in overlapped'
    BY <1>5 DEF Claim
  <2>4. m \notin cut => ClaimHeld(m)'
    BY <1>2, <2>1, <2>2 DEF MailOK, ClaimHeld
  <2> QED
    BY <1>2, <1>5, <2>1, <2>2, <2>3, <2>4 DEF MailOK
<1> QED
  BY <1>3, <1>4, <1>5

\* The one call that works on a mail ends its work.
LEMMA WorkEnds ==
  ASSUME Shapes, NEW m \in Mails, NEW c \in Calls, Works(c, m), Goto(c, Done)
  PROVE  c \in WorkingOn(m) /\ WorkingOn(m)' = WorkingOn(m) \ {c}
  BY OthersStay DEF Works, WorkingOn, At, Done

LEMMA WorkKeepsMail ==
  ASSUME Shapes, NEW m \in Mails, MailOK(m), NEW c \in Calls,
         IntakeFails(c) \/ ReadMail(c) \/ CreateCandidate(c) \/ Cut(c)
  PROVE  MailOK(m)'
<1> DEFINE n == call[c].mail
<1>1. cut \subseteq cut' /\ closed \subseteq closed' /\ overlapped' = overlapped
  BY DEF IntakeFails, ReadMail, CreateCandidate, Cut
<1>2. Goto(c, Done) \/ Goto(c, [at |-> "create", mail |-> n])
  BY DEF IntakeFails, ReadMail, CreateCandidate, Cut, Ack
<1>3. CASE ~Works(c, m)
  <2>1. ~Works(c, m)' /\ \A d \in Calls \ {c} : call'[d] = call[d]
    <3>1. CASE Goto(c, Done)
      BY <3>1, OthersStay DEF Works, At, Done
    <3>2. CASE Goto(c, [at |-> "create", mail |-> n]) /\ ~Goto(c, Done)
      BY <1>3, <3>2, OthersStay DEF Works, At, IntakeFails, ReadMail, CreateCandidate, Cut, Ack
    <3> QED
      BY <1>2, <3>1, <3>2
  <2>2. (m \in seen' <=> m \in seen) /\ (m \in acked' <=> m \in acked)
    BY <1>3 DEF Works, IntakeFails, ReadMail, CreateCandidate, Cut, Ack, Release, stored
  <2>3. entered'[m] = entered[m]
    <3>1. entered' = entered \/ (At(c) \in {"fetch", "create"} /\ entered' = [entered EXCEPT ![n] = @ + 1])
      BY DEF IntakeFails, ReadMail, CreateCandidate, Cut
    <3>2. At(c) \in {"fetch", "create"} => n \in Mails /\ n # m
      BY <1>3 DEF Works, Shapes, CallOK, AtMail
    <3> QED
      BY <3>1, <3>2, EnteredOne
  <2> QED
    BY <1>1, <1>3, <2>1, <2>2, <2>3, MailRests
<1>4. CASE Works(c, m)
  <2>1. n = m /\ At(c) \in {"fetch", "create"} /\ c \in WorkingOn(m)
    BY <1>4 DEF Works, WorkingOn
  <2>2. CASE IntakeFails(c)
    <3>1. /\ Goto(c, Done) /\ seen' = seen \ {m} /\ acked' = acked /\ closed' = closed
          /\ entered' = entered \/ m \in cut'
      BY <2>1, <2>2 DEF IntakeFails, Release
    <3>2. WorkingOn(m)' = WorkingOn(m) \ {c}
      BY <1>4, <3>1, WorkEnds
    <3>3. entered'[m] >= entered[m] /\ entered[m] \in Nat
      <4>1. entered' = entered \/ entered' = [entered EXCEPT ![m] = @ + 1]
        BY <2>1, <2>2 DEF IntakeFails
      <4> QED
        BY <4>1, EnteredOne DEF Shapes
    <3>4. ASSUME m \notin cut' PROVE ClaimHeld(m)'
      <4>1. m \notin cut /\ entered' = entered
        BY <1>1, <3>1, <3>4
      <4>2. ClaimHeld(m)
        BY <4>1 DEF MailOK
      <4>3. WorkingOn(m)' = {} /\ entered[m] = 0
        BY <2>1, <3>2, <4>2 DEF ClaimHeld
      <4> QED
        BY <4>1, <4>3 DEF ClaimHeld
    <3> QED
      BY <1>1, <3>1, <3>3, <3>4 DEF MailOK
  <2>3. CASE ReadMail(c) /\ Goto(c, Done)
    <3>1. seen' = seen /\ entered' = entered /\ cut' = cut
      BY <2>3 DEF ReadMail, stored
    <3>2. closed' = closed \cup {m} /\ acked' = acked \cup {m}
      <4>1. call'[c] = Done
        BY <2>3, OthersStay
      <4>2. ~Goto(c, [at |-> "create", mail |-> m])
        BY <4>1, OthersStay DEF Done
      <4> QED
        BY <2>1, <2>3, <4>2 DEF ReadMail, Ack
    <3>3. WorkingOn(m)' = WorkingOn(m) \ {c}
      BY <1>4, <2>3, WorkEnds
    <3>4. ASSUME m \notin cut' PROVE ClaimHeld(m)'
      BY <2>1, <3>1, <3>3, <3>4 DEF MailOK, ClaimHeld
    <3> QED
      BY <3>1, <3>2, <3>4 DEF MailOK
  <2>4. CASE ReadMail(c) /\ Goto(c, [at |-> "create", mail |-> n])
    <3>1. seen' = seen /\ entered' = entered /\ cut' = cut
      BY <2>4 DEF ReadMail, stored
    <3>2. acked' = acked \/ m \in closed'
      BY <2>1, <2>4 DEF ReadMail
    <3>3. WorkingOn(m)' = WorkingOn(m)
      BY <2>1, <2>4, OthersStay DEF WorkingOn, At
    <3>4. ASSUME m \notin cut' PROVE ClaimHeld(m)'
      BY <3>1, <3>3, <3>4 DEF MailOK, ClaimHeld
    <3> QED
      BY <1>1, <3>1, <3>2, <3>3, <3>4 DEF MailOK
  <2>5. CASE CreateCandidate(c)
    <3>1. /\ Goto(c, Done) /\ seen' = seen /\ cut' = cut
          /\ entered' = [entered EXCEPT ![m] = @ + 1]
      BY <2>1, <2>5 DEF CreateCandidate, Ack, stored
    <3>2. entered'[m] = entered[m] + 1 /\ entered[m] \in Nat
      BY <3>1, EnteredOne
    <3>3. WorkingOn(m)' = WorkingOn(m) \ {c}
      BY <1>4, <3>1, WorkEnds
    <3>4. ASSUME m \notin cut' PROVE ClaimHeld(m)'
      <4>1. ClaimHeld(m)
        BY <3>1, <3>4 DEF MailOK
      <4>2. WorkingOn(m)' = {} /\ entered[m] = 0 /\ m \in seen
        BY <2>1, <3>3, <4>1 DEF ClaimHeld
      <4> QED
        BY <3>1, <3>2, <4>2 DEF ClaimHeld
    <3> QED
      BY <3>2, <3>4 DEF MailOK
  <2>6. CASE Cut(c)
    <3>1. m \in cut' /\ Goto(c, Done) /\ UNCHANGED <<seen, entered, acked, closed>>
      BY <2>1, <2>6 DEF Cut, stored
    <3> QED
      BY <3>1 DEF MailOK
  <2> QED
    BY <1>2, <2>2, <2>3, <2>4, <2>5, <2>6
<1> QED
  BY <1>3, <1>4

LEMMA MailStep ==
  ASSUME Shapes, NEW m \in Mails, MailOK(m), Next
  PROVE  MailOK(m)'
  BY ArrivalKeepsMail, JobsKeepMail, ClaimKeepsMail, WorkKeepsMail DEF Next
-----------------------------------------------------------------------------
(* A job, step by step.                                                    *)

On(c, j) == At(c) \in AtJob /\ call[c].job = j

LEMMA TapsAreOn ==
  ASSUME NEW j
  PROVE  /\ TapsOn(j) = {c \in Calls : On(c, j)}
         /\ TapsOn(j)' = {c \in Calls : On(c, j)'}
  BY DEF TapsOn, On, AtJob

\* A call never begins again.
LEMMA OneCallMoves ==
  ASSUME Shapes, Next
  PROVE  \E c \in Calls : \E s : Goto(c, s) /\ s.at # "new"
<1>1. ASSUME NEW c \in Calls, NEW m \in Mails, HandleEmailWebhook(c, m)
      PROVE  \E s : Goto(c, s) /\ s.at # "new"
  BY <1>1 DEF HandleEmailWebhook, Ack, Done
<1>2. ASSUME NEW c \in Calls, AllowForward(c) \/ ReadMail(c) \/ Claim(c)
      PROVE  \E s : Goto(c, s) /\ s.at # "new"
  <2>1. CASE AllowForward(c)
    BY <2>1 DEF AllowForward, Ack, Done
  <2>2. CASE ReadMail(c)
    BY <2>2 DEF ReadMail, Ack, Done
  <2>3. CASE Claim(c)
    BY <2>3 DEF Claim, Ack, Done
  <2> QED
    BY <1>2, <2>1, <2>2, <2>3
<1>3. ASSUME NEW c \in Calls, CountForward(c)
      PROVE  \E s : Goto(c, s) /\ s.at # "new"
  BY <1>3 DEF CountForward
<1>4. ASSUME NEW c \in Calls, IntakeFails(c) \/ CreateCandidate(c) \/ ParseApi(c) \/ PutParseJob(c) \/ Cut(c)
      PROVE  \E s : Goto(c, s) /\ s.at # "new"
  <2>1. Goto(c, Done)
    BY <1>4 DEF IntakeFails, CreateCandidate, Ack, ParseApi, PutParseJob, Cut
  <2> QED
    BY <2>1 DEF Done
<1>5. ASSUME NEW c \in Calls, NEW job \in AllJobs, HandleMessage(c, job)
      PROVE  \E s : Goto(c, s) /\ s.at # "new"
  BY <1>5 DEF HandleMessage, Done
<1>6. ASSUME NEW c \in Calls, NEW x \in offered, HandlePostback(c, x)
      PROVE  \E s : Goto(c, s) /\ s.at # "new"
  BY <1>6 DEF HandlePostback, Done
<1>7. ASSUME NEW c \in Calls, RegisterOutput(c)
      PROVE  \E s : Goto(c, s) /\ s.at # "new"
  <2>1. call[c] = [at |-> "register", job |-> call[c].job, read |-> call[c].read]
    BY <1>7 DEF RegisterOutput, Shapes, CallOK, AtJob
  <2>2. Refused(c).at = "put"
    BY <2>1 DEF Refused
  <2> QED
    BY <1>7, <2>2 DEF RegisterOutput, Done
<1> QED
  BY <1>1, <1>2, <1>3, <1>4, <1>5, <1>6, <1>7 DEF Next

LEMMA BegunStaysBegun ==
  ASSUME Shapes, Next, NEW j \in Calls, At(j) # "new"
  PROVE  At(j)' # "new"
  BY OneCallMoves, OthersStay DEF At

LEMMA OfferedStep ==
  ASSUME Shapes, OfferedOK, Next
  PROVE  OfferedOK'
<1>1. \A x \in offered : x[1] \in Calls /\ At(x[1])' # "new"
  BY BegunStaysBegun DEF OfferedOK
<1>2. ASSUME NEW c \in Calls, NEW job \in AllJobs, HandleMessage(c, job) PROVE OfferedOK'
  <2>1. At(c)' # "new"
    BY <1>2, OthersStay DEF HandleMessage, Done, At
  <2>2. offered' \subseteq offered \cup Offer(c, job)
    BY <1>2 DEF HandleMessage
  <2> QED
    BY <1>1, <2>1, <2>2, OffersName DEF OfferedOK
<1>3. ASSUME NEW c \in Calls, PutParseJob(c) PROVE OfferedOK'
  <2>1. call[c].job \in Calls /\ At(call[c].job) # "new"
    BY <1>3 DEF PutParseJob, Shapes, CallOK, AtJob
  <2>2. PICK j \in Calls : j = call[c].job
    BY <2>1
  <2>3. At(j)' # "new"
    BY <2>1, <2>2, BegunStaysBegun
  <2>4. offered' \subseteq offered \cup Offer(j, call[c].read)
    BY <1>3, <2>2 DEF PutParseJob
  <2> QED
    BY <1>1, <2>3, <2>4, OffersName DEF OfferedOK
<1>4. CASE offered' = offered
  BY <1>1, <1>4 DEF OfferedOK
<1>5. \/ offered' = offered
      \/ \E c \in Calls : PutParseJob(c) \/ \E job \in AllJobs : HandleMessage(c, job)
  BY DEF Next, HandleEmailWebhook, AllowForward, CountForward, Claim, IntakeFails, ReadMail,
         CreateCandidate, ParseApi, HandlePostback, RegisterOutput, Cut, history
<1> QED
  BY <1>2, <1>3, <1>4, <1>5
LEMMA EnteredGrows ==
  ASSUME Shapes, Next, NEW y \in Mails \cup Calls
  PROVE  entered'[y] \in Nat /\ entered[y] \in Nat /\ entered'[y] >= entered[y]
<1>1. entered[y] \in Nat
  BY DEF Shapes
<1>2. ASSUME NEW x \in Mails \cup Calls, entered' = [entered EXCEPT ![x] = @ + 1]
      PROVE  entered'[y] \in Nat /\ entered'[y] >= entered[y]
  BY <1>1, <1>2, EnteredOne DEF Shapes
<1>3. ASSUME NEW c \in Calls, IntakeFails(c) \/ CreateCandidate(c)
      PROVE  entered'[y] \in Nat /\ entered'[y] >= entered[y]
  <2>1. call[c].mail \in Mails
    BY <1>3 DEF IntakeFails, CreateCandidate, Shapes, CallOK, AtMail
  <2>2. entered' = entered \/ entered' = [entered EXCEPT ![call[c].mail] = @ + 1]
    BY <1>3 DEF IntakeFails, CreateCandidate
  <2> QED
    BY <1>1, <1>2, <2>1, <2>2
<1>4. ASSUME NEW c \in Calls, RegisterOutput(c)
      PROVE  entered'[y] \in Nat /\ entered'[y] >= entered[y]
  <2>1. call[c].job \in Calls
    BY <1>4 DEF RegisterOutput, Shapes, CallOK, AtJob
  <2>2. entered' = entered \/ entered' = [entered EXCEPT ![call[c].job] = @ + 1]
    BY <1>4 DEF RegisterOutput
  <2> QED
    BY <1>1, <1>2, <2>1, <2>2
<1>5. CASE entered' = entered
  BY <1>1, <1>5
<1>6. entered' = entered \/ \E c \in Calls : IntakeFails(c) \/ CreateCandidate(c) \/ RegisterOutput(c)
  BY DEF Next, HandleEmailWebhook, AllowForward, CountForward, Claim, ReadMail,
         PutParseJob, HandleMessage, ParseApi, HandlePostback, Cut, history
<1> QED
  BY <1>1, <1>3, <1>4, <1>5, <1>6

\* What a call has read, step by step.
LEMMA ReadOfMover ==
  ASSUME Shapes, Next, NEW c \in Calls, NEW s, Goto(c, s), \A d \in Calls : ReadOK(d),
         s.at \in {"put", "register"} =>
           s.read.status = IF s.job = c THEN "parsed" ELSE "needs_review",
         s.at \in {"put", "resolve"} => s.job # c,
         s.at = "resolve" => s.read.status = "resolved" /\ s.job \in Calls /\ entered'[s.job] > 0
  PROVE  \A d \in Calls : ReadOK(d)'
<1>1. ReadOK(c)'
  BY OthersStay DEF ReadOK, At
<1>2. ASSUME NEW d \in Calls \ {c} PROVE ReadOK(d)'
  <2>1. call'[d] = call[d]
    BY OthersStay
  <2>2. ASSUME At(d) = "resolve" PROVE entered'[call[d].job] > 0
    <3>1. call[d].job \in Calls
      BY <2>2 DEF Shapes, CallOK, AtJob
    <3>2. entered[call[d].job] > 0
      BY <2>2 DEF ReadOK
    <3> QED
      BY <3>1, <3>2, EnteredGrows
  <2> QED
    BY <2>1, <2>2 DEF ReadOK, At
<1> QED
  BY <1>1, <1>2

LEMMA ReadStep ==
  ASSUME Shapes, OfferedOK, \A c \in Calls : ReadOK(c), \A j \in Calls : JobOK(j), Next
  PROVE  \A c \in Calls : ReadOK(c)'
<1> DEFINE Goal == \A c \in Calls : ReadOK(c)'
<1>0. ASSUME NEW c \in Calls, NEW s, Goto(c, s), s.at \notin AtJob PROVE Goal
  BY <1>0, ReadOfMover DEF AtJob
<1>1. ASSUME NEW c \in Calls, NEW m \in Mails, HandleEmailWebhook(c, m)
      PROVE  Goal
  <2>1. Goto(c, Done) \/ Goto(c, [at |-> "rate", mail |-> m])
    BY <1>1 DEF HandleEmailWebhook, Ack
  <2> QED
    BY <2>1, <1>0 DEF AtJob, Done
<1>2. ASSUME NEW c \in Calls,
             \/ AllowForward(c) \/ CountForward(c) \/ Claim(c) \/ IntakeFails(c) \/ ReadMail(c)
             \/ CreateCandidate(c) \/ ParseApi(c) \/ PutParseJob(c) \/ Cut(c)
      PROVE  Goal
  <2> DEFINE m == call[c].mail
  <2>1. \/ Goto(c, Done) \/ Goto(c, [at |-> "counted", mail |-> m, count |-> forwards])
        \/ Goto(c, [at |-> "claim", mail |-> m]) \/ Goto(c, [at |-> "fetch", mail |-> m])
        \/ Goto(c, [at |-> "create", mail |-> m])
    BY <1>2 DEF AllowForward, CountForward, Claim, IntakeFails, ReadMail, CreateCandidate, Ack,
                ParseApi, PutParseJob, Cut
  <2> HIDE DEF Goal
  <2> QED
    BY <2>1, <1>0 DEF AtJob, Done
<1>3. ASSUME NEW c \in Calls, NEW job \in AllJobs, HandleMessage(c, job)
      PROVE  Goal
  <2>1. CASE Goto(c, Done)
    BY <2>1, <1>0 DEF AtJob, Done
  <2>2. CASE Goto(c, [at |-> "register", job |-> c, read |-> job]) /\ job.status = "parsed"
    BY <2>2, ReadOfMover
  <2> QED
    BY <1>3, <2>1, <2>2 DEF HandleMessage
<1>4. ASSUME NEW c \in Calls, NEW x \in offered, HandlePostback(c, x)
      PROVE  Goal
  <2> DEFINE j == x[1]
             read == Narrowed(jobs[j], x[2], Place(j, x[2], x[3]))
  <2>1. j # c /\ j \in Calls /\ "status" \in DOMAIN jobs[j]
    BY <1>4 DEF HandlePostback, OfferedOK, Shapes
  <2>2. CASE Goto(c, Done)
    BY <2>2, <1>0 DEF AtJob, Done
  <2>3. CASE Open(jobs[j]) /\ \E a \in {"register", "put"} : Goto(c, [at |-> a, job |-> j, read |-> read])
    <3>1. read.status = "needs_review"
      BY <2>1, <2>3, NarrowedKeeps DEF Open
    <3> HIDE DEF read, Goal
    <3>2. ASSUME NEW a \in {"register", "put"}, Goto(c, [at |-> a, job |-> j, read |-> read]) PROVE Goal
      BY <2>1, <3>1, <3>2, ReadOfMover DEF Goal
    <3> QED
      BY <2>3, <3>2
  <2>4. Goto(c, Done) \/ (Open(jobs[j]) /\ \E a \in {"register", "put"} : Goto(c, [at |-> a, job |-> j, read |-> read]))
    BY <1>4 DEF HandlePostback
  <2> QED
    BY <2>2, <2>3, <2>4
<1>5. ASSUME NEW c \in Calls, RegisterOutput(c)
      PROVE  Goal
  <2> DEFINE j == call[c].job
             read == call[c].read
             noted == [read EXCEPT !.status = "resolved"]
  <2>1. /\ j \in Calls /\ "status" \in DOMAIN read
        /\ call[c] = [at |-> "register", job |-> j, read |-> read]
        /\ read.status = IF j = c THEN "parsed" ELSE "needs_review"
    BY <1>5 DEF RegisterOutput, Shapes, CallOK, AtJob, ReadOK
  <2>2. noted.status = "resolved"
    BY <2>1
  <2>3. Refused(c) = [at |-> "put", job |-> j, read |-> read]
    BY <2>1 DEF Refused
  <2>4. CASE Goto(c, Done)
    BY <2>4, <1>0 DEF AtJob, Done
  <2>5. CASE j # c /\ Goto(c, [at |-> "put", job |-> j, read |-> read])
    <3> HIDE DEF Goal, noted
    <3> QED
      BY <2>1, <2>5, ReadOfMover DEF Goal
  <2>6. CASE j # c /\ entered' = [entered EXCEPT ![j] = @ + 1]
             /\ Goto(c, [at |-> "resolve", job |-> j, read |-> noted])
    <3> HIDE DEF Goal, noted
    <3>0. j \in Mails \cup Calls
      BY <2>1
    <3>1. entered'[j] = entered[j] + 1 /\ entered[j] \in Nat
      BY <2>6, <3>0, EnteredOne
    <3> QED
      BY <2>1, <2>2, <2>6, <3>1, ReadOfMover DEF Goal
  <2>7. \/ Goto(c, Done)
        \/ j # c /\ Goto(c, Refused(c))
        \/ j # c /\ entered' = [entered EXCEPT ![j] = @ + 1]
           /\ Goto(c, [at |-> "resolve", job |-> j, read |-> noted])
    BY <1>5 DEF RegisterOutput
  <2> QED
    BY <2>3, <2>4, <2>5, <2>6, <2>7
<1> QED
  BY <1>1, <1>2, <1>3, <1>4, <1>5 DEF Next
\* A step of a call that is not at work on the job, before and after, and does not make it.
LEMMA JobRests ==
  ASSUME Shapes, NEW j \in Calls, JobOK(j), NEW c \in Calls, ~On(c, j), ~On(c, j)',
         \A d \in Calls \ {c} : call'[d] = call[d],
         jobs'[j] = jobs[j], entered'[j] = entered[j], At(j)' = "new" => At(j) = "new",
         cut \subseteq cut', overlapped \subseteq overlapped'
  PROVE  JobOK(j)'
<1>0. \A d \in Calls : On(d, j)' <=> On(d, j)
  BY DEF On, At
<1>1. TapsOn(j)' = TapsOn(j)
  BY <1>0, TapsAreOn
<1>2. \A d \in TapsOn(j) : At(d)' = At(d)
  BY TapsAreOn DEF On, At
<1>3. JobSettles(j) => JobSettles(j)'
  BY <1>1, <1>2 DEF JobSettles, Open
<1> QED
  BY <1>3 DEF JobOK

LEMMA MailsKeepJob ==
  ASSUME Shapes, Next, NEW j \in Calls, JobOK(j), NEW c \in Calls,
         \/ \E m \in Mails : HandleEmailWebhook(c, m)
         \/ AllowForward(c) \/ CountForward(c) \/ Claim(c) \/ IntakeFails(c) \/ ReadMail(c)
         \/ CreateCandidate(c)
  PROVE  JobOK(j)'
<1> DEFINE m == call[c].mail
<1>1. PICK s : Goto(c, s) /\ s.at \notin AtJob
  <2>1. CASE \E n \in Mails : HandleEmailWebhook(c, n)
    <3>1. \E n \in Mails : Goto(c, Done) \/ Goto(c, [at |-> "rate", mail |-> n])
      BY <2>1 DEF HandleEmailWebhook, Ack
    <3> QED
      BY <3>1 DEF Done, AtJob
  <2>2. CASE ~ \E n \in Mails : HandleEmailWebhook(c, n)
    <3>1. \/ Goto(c, Done) \/ Goto(c, [at |-> "counted", mail |-> m, count |-> forwards])
          \/ Goto(c, [at |-> "claim", mail |-> m]) \/ Goto(c, [at |-> "fetch", mail |-> m])
          \/ Goto(c, [at |-> "create", mail |-> m])
      BY <2>2 DEF AllowForward, CountForward, Claim, IntakeFails, ReadMail, CreateCandidate, Ack
    <3> QED
      BY <3>1 DEF Done, AtJob
  <2> QED
    BY <2>1, <2>2
<1>2. At(c) \notin AtJob
  BY DEF HandleEmailWebhook, AllowForward, CountForward, Claim, IntakeFails, ReadMail, CreateCandidate, AtJob
<1>3. ~On(c, j) /\ ~On(c, j)' /\ \A d \in Calls \ {c} : call'[d] = call[d]
  BY <1>1, <1>2, OthersStay DEF On, At
<1>4. jobs' = jobs /\ cut \subseteq cut' /\ overlapped \subseteq overlapped'
  BY DEF HandleEmailWebhook, AllowForward, CountForward, Claim, IntakeFails, ReadMail, CreateCandidate,
         stored, history
<1>5. entered'[j] = entered[j]
  <2>1. entered' = entered \/ (At(c) = "create" /\ entered' = [entered EXCEPT ![m] = @ + 1])
    BY DEF HandleEmailWebhook, AllowForward, CountForward, Claim, IntakeFails, ReadMail,
           CreateCandidate, history
  <2>2. At(c) = "create" => m \in Mails /\ m # j
    BY IntakeAssumption DEF Shapes, CallOK, AtMail
  <2> QED
    BY <2>1, <2>2, EnteredOne
<1> QED
  BY <1>3, <1>4, <1>5, BegunStaysBegun, JobRests

\* The job of a new call is nobody's yet.
LEMMA NewJob ==
  ASSUME Shapes, NEW c \in Calls, At(c) = "new", JobOK(c)
  PROVE  TapsOn(c) = {} /\ entered[c] = 0
<1>1. \A d \in Calls : At(d) \in AtJob => call[d].job # c
  BY DEF Shapes, CallOK
<1> QED
  BY <1>1, TapsAreOn DEF On, JobOK

LEMMA ArrivalKeepsJob ==
  ASSUME Shapes, Next, NEW j \in Calls, JobOK(j), NEW c \in Calls,
         ParseApi(c) \/ \E job \in AllJobs : HandleMessage(c, job)
  PROVE  JobOK(j)'
<1>1. At(c) = "new" /\ UNCHANGED <<entered, cut, overlapped>>
  BY DEF ParseApi, HandleMessage, history
<1>2. PICK job \in AllJobs \cup {jobs[c]} :
        /\ DOMAIN jobs' = Calls /\ jobs'[c] = job /\ \A i \in Calls \ {c} : jobs'[i] = jobs[i]
        /\ \/ Goto(c, Done)
           \/ Goto(c, [at |-> "register", job |-> c, read |-> job]) /\ job.status = "parsed"
  BY DEF ParseApi, HandleMessage, Shapes
<1>3. /\ \A d \in Calls \ {c} : call'[d] = call[d]
      /\ call'[c] = Done \/ (call'[c] = [at |-> "register", job |-> c, read |-> job] /\ job.status = "parsed")
  BY <1>2, OthersStay
<1>4. CASE j # c
  <2>1. ~On(c, j) /\ ~On(c, j)'
    BY <1>1, <1>3, <1>4 DEF On, At, AtJob, Done
  <2> QED
    BY <1>1, <1>2, <1>3, <1>4, <2>1, BegunStaysBegun, JobRests
<1>5. CASE j = c
  <2>1. TapsOn(c) = {} /\ entered[c] = 0 /\ jobs[c].status = "none"
    BY <1>1, <1>5, NewJob DEF JobOK
  <2>2. job.status # "resolved" /\ (On(c, c)' => job.status # "needs_review")
    BY <1>2, <1>3, <2>1, JobsComeIn DEF On, At, AtJob, Done
  <2>3. TapsOn(c)' \subseteq {c}
    BY <1>3, <2>1, TapsAreOn DEF On, At
  <2>4. At(c)' # "new"
    BY <1>3 DEF At, Done
  <2>5. c \in TapsOn(c)' => On(c, c)'
    BY TapsAreOn
  <2>6. JobSettles(c)'
    BY <1>1, <1>2, <2>1, <2>2, <2>3, <2>5 DEF JobSettles, Open
  <2> QED
    BY <1>1, <1>2, <1>5, <2>1, <2>2, <2>4, <2>6 DEF JobOK
<1> QED
  BY <1>4, <1>5

LEMMA TapKeepsJob ==
  ASSUME Shapes, OfferedOK, Next, NEW j \in Calls, JobOK(j), NEW c \in Calls,
         NEW x \in offered, HandlePostback(c, x)
  PROVE  JobOK(j)'
<1> DEFINE read == Narrowed(jobs[x[1]], x[2], Place(x[1], x[2], x[3]))
<1>1. /\ At(c) = "new" /\ x[1] \in Calls /\ x[1] # c
      /\ UNCHANGED <<jobs, entered, cut>> /\ overlapped \subseteq overlapped'
  BY DEF HandlePostback, OfferedOK, stored
<1>2. \/ Goto(c, Done)
      \/ Open(jobs[x[1]]) /\ \E a \in {"register", "put"} : Goto(c, [at |-> a, job |-> x[1], read |-> read])
  BY DEF HandlePostback
<1>3. ~On(c, j)
  BY <1>1 DEF On, AtJob
<1>4. CASE Goto(c, Done) \/ j # x[1]
  <2>1. ~On(c, j)' /\ \A d \in Calls \ {c} : call'[d] = call[d]
    <3>1. CASE Goto(c, Done)
      BY <3>1, OthersStay DEF On, At, AtJob, Done
    <3>2. ASSUME j # x[1], NEW a \in {"register", "put"}, Goto(c, [at |-> a, job |-> x[1], read |-> read])
          PROVE  ~On(c, j)' /\ \A d \in Calls \ {c} : call'[d] = call[d]
      BY <3>2, OthersStay DEF On, At
    <3> QED
      BY <1>2, <1>4, <3>1, <3>2
  <2> QED
    BY <1>1, <1>3, <2>1, BegunStaysBegun, JobRests
<1>5. ASSUME j = x[1], Open(jobs[j]), NEW a \in {"register", "put"},
             Goto(c, [at |-> a, job |-> j, read |-> read])
      PROVE  JobOK(j)'
  <2>1. call'[c].at = a /\ call'[c].job = j /\ \A d \in Calls \ {c} : call'[d] = call[d]
    BY <1>5, OthersStay
  <2>2. TapsOn(j)' = TapsOn(j) \cup {c}
    BY <1>5, <2>1, TapsAreOn DEF On, At, AtJob
  <2>3. At(j)' # "new"
    BY <1>5, BegunStaysBegun DEF OfferedOK
  <2>4. ASSUME j \notin overlapped' \cup cut' PROVE JobSettles(j)'
    <3>1. TapsOn(j) = {}
      BY <1>5, <2>4 DEF HandlePostback
    <3>2. JobSettles(j)
      BY <1>1, <2>4 DEF JobOK
    <3>3. entered[j] = 0
      BY <1>5, <3>1, <3>2 DEF JobSettles, Shapes
    <3>4. j \notin TapsOn(j)' /\ TapsOn(j)' # {}
      BY <1>1, <1>5, <2>2, <3>1
    <3> QED
      BY <1>1, <2>2, <3>1, <3>3, <3>4 DEF JobSettles
  <2> QED
    BY <1>1, <2>3, <2>4 DEF JobOK
<1> QED
  BY <1>2, <1>4, <1>5
LEMMA PutKeepsJob ==
  ASSUME Shapes, Next, NEW j \in Calls, JobOK(j), NEW c \in Calls, ReadOK(c), PutParseJob(c)
  PROVE  JobOK(j)'
<1>1. PICK i \in Calls : i = call[c].job /\ At(i) # "new" /\ i # c
  BY DEF PutParseJob, Shapes, CallOK, AtJob, ReadOK
<1>2. /\ At(c) \in {"put", "resolve"} /\ call'[c] = Done /\ \A d \in Calls \ {c} : call'[d] = call[d]
      /\ jobs'[i] = call[c].read /\ \A k \in Calls \ {i} : jobs'[k] = jobs[k]
      /\ UNCHANGED <<entered, cut, overlapped>>
  BY <1>1, OthersStay DEF PutParseJob, Shapes
<1>3. CASE i # j
  <2>1. ~On(c, j) /\ ~On(c, j)'
    BY <1>1, <1>2, <1>3 DEF On, At, AtJob, Done
  <2> QED
    BY <1>2, <1>3, <2>1, BegunStaysBegun, JobRests
<1>4. CASE i = j
  <2>1. c \in TapsOn(j) /\ TapsOn(j)' = TapsOn(j) \ {c}
    <3>1. On(c, j) /\ ~On(c, j)'
      BY <1>1, <1>2, <1>4 DEF On, At, AtJob, Done
    <3>2. \A d \in Calls \ {c} : On(d, j)' <=> On(d, j)
      BY <1>2 DEF On, At
    <3> QED
      BY <3>1, <3>2, TapsAreOn
  <2>2. At(j)' # "new"
    BY <1>1, <1>4, BegunStaysBegun
  <2>3. \/ At(c) = "put" /\ jobs'[j].status = "needs_review"
        \/ At(c) = "resolve" /\ jobs'[j].status = "resolved" /\ entered[j] > 0
    BY <1>1, <1>2, <1>4 DEF ReadOK
  <2>4. ASSUME j \notin overlapped \cup cut PROVE JobSettles(j)'
    <3>1. JobSettles(j)
      BY <2>4 DEF JobOK
    <3>2. TapsOn(j)' = {}
      BY <2>1, <3>1 DEF JobSettles
    <3>3. At(c) = "put" => entered[j] = 0
      BY <2>1, <3>1 DEF JobSettles
    <3> QED
      BY <1>2, <2>3, <3>1, <3>2, <3>3 DEF JobSettles, Open
  <2> QED
    BY <1>2, <2>2, <2>3, <2>4 DEF JobOK
<1> QED
  BY <1>3, <1>4

LEMMA RegisterKeepsJob ==
  ASSUME Shapes, Next, NEW j \in Calls, JobOK(j), NEW c \in Calls, ReadOK(c), RegisterOutput(c)
  PROVE  JobOK(j)'
<1>1. PICK i \in Calls : i = call[c].job /\ At(i) # "new"
  BY DEF RegisterOutput, Shapes, CallOK, AtJob
<1>2. At(c) = "register" /\ UNCHANGED <<jobs, cut, overlapped>>
  BY DEF RegisterOutput, stored
<1>3. call[c] = [at |-> "register", job |-> i, read |-> call[c].read]
  BY <1>1, <1>2 DEF Shapes, CallOK, AtJob
<1>4. /\ \A d \in Calls \ {c} : call'[d] = call[d]
      /\ \/ call'[c] = Done /\ i = c
         \/ call'[c].at = "put" /\ call'[c].job = i /\ i # c /\ entered' = entered
         \/ /\ call'[c].at = "resolve" /\ call'[c].job = i /\ i # c
            /\ entered' = [entered EXCEPT ![i] = @ + 1]
      /\ entered' = entered \/ entered' = [entered EXCEPT ![i] = @ + 1]
  <2> DEFINE noted == [call[c].read EXCEPT !.status = "resolved"]
  <2>1. Refused(c) = [at |-> "put", job |-> i, read |-> call[c].read]
    BY <1>3 DEF Refused
  <2>2. \/ Goto(c, Done) /\ i = c
        \/ Goto(c, Refused(c)) /\ i # c /\ entered' = entered
        \/ /\ Goto(c, [at |-> "resolve", job |-> i, read |-> noted]) /\ i # c
           /\ entered' = [entered EXCEPT ![i] = @ + 1]
    BY <1>1 DEF RegisterOutput
  <2>3. entered' = entered \/ entered' = [entered EXCEPT ![i] = @ + 1]
    BY <1>1 DEF RegisterOutput
  <2> HIDE DEF noted
  <2> QED
    BY <2>1, <2>2, <2>3, OthersStay
<1>5. \A k \in Calls \ {i} : entered'[k] = entered[k]
  BY <1>4, EnteredOne
<1>6. CASE i # j
  <2>1. ~On(c, j) /\ ~On(c, j)'
    BY <1>1, <1>4, <1>6 DEF On, At, AtJob, Done
  <2> QED
    BY <1>2, <1>4, <1>5, <1>6, <2>1, BegunStaysBegun, JobRests
<1>7. CASE i = j
  <2>1. c \in TapsOn(j)
    BY <1>1, <1>2, <1>7, TapsAreOn DEF On, AtJob
  <2>2. \A d \in Calls \ {c} : On(d, j)' <=> On(d, j)
    BY <1>4 DEF On, At
  <2>3. At(j)' # "new"
    BY <1>1, <1>7, BegunStaysBegun
  <2>4. jobs'[j].status = "resolved" => entered'[j] > 0
    BY <1>2, EnteredGrows DEF JobOK
  <2>5. ASSUME j \notin overlapped \cup cut PROVE JobSettles(j)'
    <3>1. JobSettles(j) /\ TapsOn(j) = {c} /\ entered[j] = 0
      BY <1>2, <2>1, <2>5 DEF JobOK, JobSettles
    <3>2. TapsOn(j)' \subseteq {c}
      BY <2>2, <3>1, TapsAreOn
    <3>3. CASE call'[c] = Done /\ j = c
      <4>1. TapsOn(j)' = {}
        BY <3>2, <3>3, TapsAreOn DEF On, At, AtJob, Done
      <4>2. ~Open(jobs[j]) /\ entered'[j] <= 1
        BY <1>4, <1>7, <3>1, <3>3, EnteredOne DEF JobSettles
      <4> QED
        BY <1>2, <4>1, <4>2 DEF JobSettles
    <3>4. CASE call'[c].at = "put" /\ call'[c].job = j /\ j # c /\ entered' = entered
      BY <1>2, <3>1, <3>2, <3>4, TapsAreOn DEF JobSettles, On, At, AtJob
    <3>5. CASE call'[c].at = "resolve" /\ call'[c].job = j /\ j # c /\ entered' = [entered EXCEPT ![j] = @ + 1]
      <4>1. entered'[j] = entered[j] + 1
        BY <3>5, EnteredOne
      <4>2. TapsOn(j)' = {c}
        BY <3>2, <3>5, TapsAreOn DEF On, At, AtJob
      <4> QED
        BY <1>2, <3>1, <3>5, <4>1, <4>2 DEF JobSettles, At
    <3> QED
      BY <1>4, <1>7, <3>3, <3>4, <3>5
  <2> QED
    BY <1>2, <2>3, <2>4, <2>5 DEF JobOK
<1> QED
  BY <1>6, <1>7

LEMMA CutKeepsJob ==
  ASSUME Shapes, Next, NEW j \in Calls, JobOK(j), NEW c \in Calls, Cut(c)
  PROVE  JobOK(j)'
<1>1. /\ call'[c] = Done /\ \A d \in Calls \ {c} : call'[d] = call[d]
      /\ UNCHANGED <<jobs, entered, overlapped>> /\ cut \subseteq cut'
  BY OthersStay DEF Cut, stored
<1>2. ~On(c, j)'
  BY <1>1 DEF On, At, AtJob, Done
<1>3. CASE ~On(c, j)
  BY <1>1, <1>2, <1>3, BegunStaysBegun, JobRests
<1>4. CASE On(c, j)
  <2>1. At(j)' # "new"
    BY <1>4, BegunStaysBegun DEF On, Shapes, CallOK
  <2>2. c \in TapsOn(j) /\ TapsOn(j)' = TapsOn(j) \ {c}
    <3>1. \A d \in Calls \ {c} : On(d, j)' <=> On(d, j)
      BY <1>1 DEF On, At
    <3> QED
      BY <1>2, <1>4, <3>1, TapsAreOn
  <2>3. ASSUME j \notin overlapped' \cup cut' PROVE JobSettles(j)'
    <3>1. At(c) = "put" /\ JobSettles(j)
      BY <1>1, <1>4, <2>3 DEF Cut, On, AtJob, JobOK
    <3>2. TapsOn(j)' = {} /\ entered[j] = 0
      BY <2>2, <3>1 DEF JobSettles
    <3> QED
      BY <1>1, <3>2 DEF JobSettles
  <2> QED
    BY <1>1, <2>1, <2>3 DEF JobOK
<1> QED
  BY <1>3, <1>4

LEMMA JobStep ==
  ASSUME Shapes, OfferedOK, NEW j \in Calls, JobOK(j), \A c \in Calls : ReadOK(c), Next
  PROVE  JobOK(j)'
  BY MailsKeepJob, ArrivalKeepsJob, TapKeepsJob, PutKeepsJob, RegisterKeepsJob, CutKeepsJob DEF Next

-----------------------------------------------------------------------------
(* The theorems of Intake.                                                 *)

LEMMA IntakeStart == Init => IntakeInv
<1> SUFFICES ASSUME Init PROVE IntakeInv
  OBVIOUS
<1>1. \A c \in Calls : At(c) = "new"
  BY DEF Init, At
<1>2. Shapes /\ OfferedOK
  BY <1>1 DEF Init, Shapes, OfferedOK, CallOK, AtMail, AtJob, NoJob
<1>3. \A m \in Mails : MailOK(m)
  BY <1>1 DEF Init, MailOK, ClaimHeld, WorkingOn
<1>4. \A c \in Calls : ReadOK(c)
  BY <1>1 DEF ReadOK
<1>5. \A j \in Calls : JobOK(j)
  BY <1>1 DEF Init, JobOK, JobSettles, TapsOn, NoJob, Open
<1> QED
  BY <1>2, <1>3, <1>4, <1>5 DEF IntakeInv

LEMMA IntakeStep == IntakeInv /\ [Next]_vars => IntakeInv'
<1> SUFFICES ASSUME IntakeInv, [Next]_vars PROVE IntakeInv'
  OBVIOUS
<1>1. CASE Next
  BY <1>1, ShapesKept, OfferedStep, MailStep, ReadStep, JobStep DEF IntakeInv
<1>2. CASE UNCHANGED vars
  BY <1>2 DEF IntakeInv, Shapes, OfferedOK, CallOK, AtMail, AtJob, At, MailOK, ClaimHeld, WorkingOn,
              ReadOK, JobOK, JobSettles, TapsOn, Open, vars, stored, history
<1> QED
  BY <1>1, <1>2

LEMMA IntakeInvariance == Spec => []IntakeInv
  BY IntakeStart, IntakeStep, PTL DEF Spec

\* A mail makes one candidate however often it is delivered, and one that is
\* acknowledged is in the ledger or was closed for a reason (email-intake.ts), but for
\* what a failure left half done or a call that answered for another.
THEOREM MailsOnce == Spec => []EachMailOnce
<1>1. IntakeInv => OneCandidatePerMail
  BY DEF IntakeInv, Shapes, MailOK, ClaimHeld, OneCandidatePerMail
<1>2. IntakeInv => NoMailLost
  BY DEF IntakeInv, Shapes, MailOK, NoMailLost
<1>3. IntakeInv => EachMailOnce
  BY <1>1, <1>2 DEF EachMailOnce
<1> QED
  BY <1>3, IntakeInvariance, PTL

\* A job of the LINE bot is registered once, and is in the ledger when it says it is
\* resolved (webhook.ts), but for taps that overlapped and what a failure cut off.
THEOREM JobsOnce == Spec => []JobsSettleOnce
<1>1. IntakeInv => JobsSettleOnce
  BY DEF IntakeInv, Shapes, JobOK, JobSettles, JobsSettleOnce
<1> QED
  BY <1>1, IntakeInvariance, PTL
-----------------------------------------------------------------------------
(* What is registered.  A job keeps what the parsers said; a conflict of it *)
(* is as they left it, or down to a value that was tapped.                  *)

\* The attempts are a list of outputs.
Listed(attempts) == \E n \in Nat : attempts \in [1 .. n -> [Fields -> Nat] \cup {Failed}]

\* The conflict of the job j about f, where P are the choices tapped.
ConflictOK(j, job, f, P) ==
  IF Disagree(job.attempts, f)
  THEN \/ job.conflicts[f] = Options(job.attempts, f)
       \/ \E v : <<j, f, v>> \in P /\ job.conflicts[f] = <<v>>
  ELSE job.conflicts[f] = <<>>

Kept(j, job, P) ==
  /\ job = [attempts |-> job.attempts, conflicts |-> job.conflicts, status |-> job.status]
  /\ DOMAIN job.conflicts = Fields /\ Listed(job.attempts)
  /\ \A f \in Fields : ConflictOK(j, job, f, P)

\* A job with no conflict left, whose output the rules accept.
Ready(job) == Unresolved(job.conflicts) = {} /\ Valid(ResolvedOutput(job))

\* There is a job j, and these are its attempts.
Has(j, attempts) == j \in Calls /\ jobs[j].status # "none" /\ jobs[j].attempts = attempts

\* What a call has read of a job is of that job, and may be registered when it is about to be.
ReadBacked(c) ==
  At(c) \in AtJob =>
    /\ Kept(call[c].job, call[c].read, picks) /\ Has(call[c].job, call[c].read.attempts)
    /\ At(c) = "register" => Ready(call[c].read)

\* A choice is one of those the parsers disagree about.
Choice(x, attempts) ==
  /\ x = <<x[1], x[2], x[3]>> /\ x[2] \in Fields /\ Disagree(attempts, x[2])
  /\ \E i \in DOMAIN Options(attempts, x[2]) : x[3] = Options(attempts, x[2])[i]

\* An output of the job j, of which the parsers said this.
ValueBacked(read, v, f) ==
  LET good == {i \in DOMAIN read : Valid(read[i])} IN
  v = 0 \/ \E i \in IF good = {} THEN DOMAIN read ELSE good : Given(read[i]) /\ read[i][f] = v

Backed(attempts, j, o, P) ==
  /\ Valid(o)
  /\ \A f \in Fields :
       IF Disagree(attempts, f) THEN <<j, f, o[f]>> \in P ELSE ValueBacked(attempts, o[f], f)

\* What is offered of a job is a choice there is; what is registered of it is backed.
OfferBacked(x) == \E a : Has(x[1], a) /\ Choice(x, a)
OutputBacked(x) == \E a : Has(x[1], a) /\ Backed(a, x[1], x[2], picks)

BackedInv ==
  /\ \A j \in Calls : jobs[j].status # "none" => Kept(j, jobs[j], picks)
  /\ \A c \in Calls : ReadBacked(c)
  /\ \A x \in offered : OfferBacked(x)
  /\ \A x \in outputs : OutputBacked(x)

\* A step leaves a job alone, or leaves it with what the parsers said.
JobStays(j) ==
  \/ jobs'[j] = jobs[j]
  \/ /\ Kept(j, jobs'[j], picks') /\ jobs'[j].status # "none"
     /\ jobs[j].status # "none" => jobs'[j].attempts = jobs[j].attempts

\* A nonempty set of naturals has a least element.
LEMMA LeastNatural ==
  ASSUME NEW T, T \subseteq Nat, T # {}
  PROVE  \E x \in T : \A y \in T : x <= y
<1>1. PICK x \in T : \A y \in T : ~(<<y, x>> \in OpToRel(<, Nat))
  BY NatLessThanWellFounded, WFMin
<1>2. \A y \in T : ~(y < x)
  BY <1>1 DEF OpToRel
<1> QED  BY <1>2

\* A set of numbers has a greatest one when a number bounds it.
LEMMA Greatest ==
  ASSUME NEW n \in Nat, NEW S \in SUBSET (1 .. n), S # {}
  PROVE  Max(S) \in S
<1> DEFINE Bounds == {m \in Nat : \A i \in S : i <= m}
<1>1. n \in Bounds
  OBVIOUS
<1>2. PICK m \in Bounds : \A x \in Bounds : m <= x
  <2>1. Bounds \subseteq Nat /\ Bounds # {}
    BY <1>1
  <2> HIDE DEF Bounds
  <2> QED  BY <2>1, LeastNatural
<1>3. m \in S
  <2> SUFFICES ASSUME m \notin S PROVE FALSE
    OBVIOUS
  <2>1. PICK i \in S : TRUE
    OBVIOUS
  <2>2. \A x \in S : x <= m - 1
    BY <1>2
  <2>3. m - 1 \in Bounds
    BY <1>2, <2>1, <2>2
  <2> QED  BY <1>2, <2>3
<1>4. \A i \in S : m >= i
  BY <1>2
<1> QED  BY <1>3, <1>4 DEF Max

\* The options are a list.
LEMMA OptionsListed ==
  ASSUME NEW attempts, Listed(attempts), NEW f
  PROVE  LET options == Options(attempts, f) IN
         /\ Len(options) \in Nat /\ DOMAIN options = 1 .. Len(options)
         /\ options \in Seq(Range(options))
<1>1. PICK n \in Nat : attempts \in [1 .. n -> [Fields -> Nat] \cup {Failed}]
  BY DEF Listed
<1>2. PICK said : said = Said(attempts, f)
  OBVIOUS
<1>3. said \subseteq 1 .. n
  BY <1>1, <1>2 DEF Said
<1>4. PICK m \in Nat : m = Cardinality(said)
  <2>1. IsFiniteSet(1 .. n)
    BY FS_Interval
  <2> QED  BY <1>3, <2>1, FS_Subset, FS_CardinalityType
<1>5. PICK options : options = Options(attempts, f)
  OBVIOUS
<1>6. options = [k \in 1 .. m |-> attempts[Nth(said, k)][f]]
  BY <1>2, <1>4, <1>5 DEF Options
<1>7. options \in [1 .. m -> Range(options)]
  BY <1>6 DEF Range
<1>8. options \in Seq(Range(options)) /\ Len(options) = m /\ DOMAIN options = 1 .. m
  BY <1>7
<1> QED  BY <1>5, <1>8

\* Whoever disagree are two at least.
LEMMA DisagreementIsOpen ==
  ASSUME NEW attempts, Listed(attempts), NEW f, Disagree(attempts, f)
  PROVE  Len(Options(attempts, f)) > 1
<1>1. PICK options : options = Options(attempts, f)
  OBVIOUS
<1>2. Len(options) \in Nat /\ DOMAIN options = 1 .. Len(options)
  BY <1>1, OptionsListed
<1> SUFFICES ASSUME ~(Len(options) > 1) PROVE FALSE
  BY <1>1
<1>3. CASE Len(options) = 0
  <2>1. ToSet(options) = {}
    BY <1>2, <1>3 DEF ToSet
  <2> QED  BY <1>1, <2>1, FS_EmptySet DEF Disagree
<1>4. CASE Len(options) = 1
  <2>1. ToSet(options) = {options[1]}
    BY <1>2, <1>4 DEF ToSet
  <2>2. Cardinality(ToSet(options)) = 1
    BY <2>1, FS_Singleton
  <2> QED  BY <1>1, <2>2 DEF Disagree
<1> QED  BY <1>2, <1>3, <1>4

\* What the chain leaves is a list of outputs.
LEMMA AttemptsListed ==
  ASSUME NEW input \in Inputs, NEW answer, NEW doubtful, NEW stated \in {0, 1},
         \A p \in {"groq-llama", "gemini-flash"} : answer[p] \in Answers
  PROVE  Listed(Attempts(input, answer, doubtful, stated))
<1>1. PICK chain : chain = ChainForInput(input)
  OBVIOUS
<1> DEFINE last == {i \in 1 .. Len(chain) : Stops(chain, i, answer, doubtful)}
           n == IF last = {} THEN Len(chain) ELSE CHOOSE i \in last : \A k \in last : i <= k
<1>2. /\ Len(chain) \in Nat
      /\ \A i \in 1 .. Len(chain) : chain[i] \in {"groq-llama", "gemini-flash"}
  <2>1. \/ chain = <<"groq-llama", "gemini-flash">> \/ chain = <<"gemini-flash", "groq-llama">>
        \/ chain = <<"gemini-flash">>
    BY <1>1 DEF ChainForInput, Inputs
  <2> QED  BY <2>1
<1>3. n \in Nat /\ n <= Len(chain)
  <2>1. CASE last = {}
    BY <1>2, <2>1
  <2>2. CASE last # {}
    <3>1. last \subseteq Nat /\ \A i \in last : i <= Len(chain)
      BY <1>2
    <3> HIDE DEF last
    <3>2. \E i \in last : \A k \in last : i <= k
      BY <2>2, <3>1, LeastNatural
    <3>3. n \in last
      BY <2>2, <3>2
    <3> QED  BY <3>1, <3>3
  <2> QED  BY <2>1, <2>2
<1>4. PICK asked : asked = Asked(chain, answer, doubtful)
  OBVIOUS
<1>5. asked = [i \in 1 .. n |-> answer[chain[i]]]
  BY <1>4 DEF Asked
<1> HIDE DEF n
<1>6. asked \in [1 .. n -> [Fields -> Nat] \cup {Failed}]
  BY <1>2, <1>3, <1>5, IntakeAssumption
<1>7. Floor(stated) \in [Fields -> Nat]
  BY DEF Floor
<1>8. Append(asked, Floor(stated)) \in [1 .. n + 1 -> [Fields -> Nat] \cup {Failed}]
  <2>1. PICK A, more : A = [Fields -> Nat] \cup {Failed} /\ more = Floor(stated)
    OBVIOUS
  <2>2. asked \in Seq(A) /\ Len(asked) = n /\ more \in A
    BY <1>3, <1>6, <1>7, <2>1
  <2>3. Append(asked, more) \in Seq(A) /\ Len(Append(asked, more)) = n + 1
    BY <2>2, AppendProperties
  <2>4. \A u \in Seq(A) : Len(u) = n + 1 => u \in [1 .. n + 1 -> A]
    OBVIOUS
  <2> QED  BY <2>1, <2>3, <2>4
<1>9. Listed(asked) /\ Listed(Append(asked, Floor(stated)))
  BY <1>3, <1>6, <1>8 DEF Listed
<1> QED  BY <1>1, <1>4, <1>9 DEF Attempts

\* A merged value is one of a source; with a valid output, all of them are.
LEMMA MergedBacked ==
  ASSUME NEW attempts, Listed(attempts), NEW o, o = MergedParsedOutput(attempts)
  PROVE  /\ o \in [Fields -> Nat] /\ \A f \in Fields : ValueBacked(attempts, o[f], f)
         /\ (\E i \in DOMAIN attempts : Valid(attempts[i])) => Valid(o)
<1>1. PICK n \in Nat : attempts \in [1 .. n -> [Fields -> Nat] \cup {Failed}]
  BY DEF Listed
<1>2. PICK good, some : good = {i \in DOMAIN attempts : Valid(attempts[i])} /\ some = Sources(attempts)
  OBVIOUS
<1>3. /\ some \subseteq 1 .. n /\ \A i \in some : Given(attempts[i])
      /\ good # {} => some = good
  BY <1>1, <1>2 DEF Sources, Valid
<1>4. ASSUME NEW f \in Fields
      PROVE  \/ o[f] = 0 /\ \A i \in some : attempts[i][f] = 0
             \/ \E i \in some : o[f] = attempts[i][f] /\ o[f] # 0
  <2>1. PICK saying : saying = some \cap Said(attempts, f)
    OBVIOUS
  <2>2. o[f] = IF saying = {} THEN 0 ELSE attempts[Max(saying)][f]
    BY <1>2, <2>1 DEF MergedParsedOutput
  <2>3. CASE saying = {}
    BY <1>1, <1>3, <2>1, <2>2, <2>3 DEF Said
  <2>4. CASE saying # {}
    <3>1. saying \in SUBSET (1 .. n)
      BY <1>3, <2>1
    <3>2. Max(saying) \in saying
      BY <2>4, <3>1, Greatest
    <3> QED  BY <2>1, <2>2, <2>4, <3>2 DEF Said
  <2> QED  BY <2>3, <2>4
<1>5. \A i \in some : attempts[i] \in [Fields -> Nat]
  BY <1>1, <1>3 DEF Given
<1>6. o \in [Fields -> Nat]
  <2>1. \A f \in Fields : o[f] \in Nat
    BY <1>4, <1>5
  <2>2. o = [f \in Fields |-> o[f]]
    BY DEF MergedParsedOutput
  <2> QED  BY <2>1, <2>2
<1>7. \A f \in Fields : ValueBacked(attempts, o[f], f)
  <2> SUFFICES ASSUME NEW f \in Fields, o[f] # 0
               PROVE  \E i \in IF good = {} THEN DOMAIN attempts ELSE good :
                        Given(attempts[i]) /\ attempts[i][f] = o[f]
    BY <1>2 DEF ValueBacked
  <2> QED  BY <1>1, <1>3, <1>4
<1>8. ASSUME good # {}
      PROVE  Valid(o)
  <2>1. "service" \in Fields /\ "start" \in Fields
    BY DEF Fields
  <2>2. PICK i \in some : Valid(attempts[i])
    BY <1>2, <1>3, <1>8
  <2>3. o["service"] # 0 /\ o["start"] # 0
    BY <1>4, <2>1, <2>2 DEF Valid
  <2> QED  BY <1>6, <2>3, FailedAssumption DEF Valid, Given
<1> QED  BY <1>2, <1>6, <1>7, <1>8

\* A job that comes in is kept as the parsers left it; one that parsed is ready.
LEMMA JobsKept ==
  ASSUME NEW job \in AllJobs, NEW j, NEW P
  PROVE  Kept(j, job, P) /\ job.status # "none" /\ (job.status = "parsed" => Ready(job))
<1>1. PICK attempts : Listed(attempts) /\ job = RunParseChain(attempts)
  <2>1. PICK input \in Inputs, a \in Answers, b \in Answers, doubtful \in BOOLEAN, stated \in {0, 1} :
          job = RunParseChain(Attempts(input,
                  [p \in {"groq-llama", "gemini-flash"} |-> IF p = "groq-llama" THEN a ELSE b], doubtful, stated))
    BY DEF AllJobs
  <2>2. PICK answer : answer = [p \in {"groq-llama", "gemini-flash"} |-> IF p = "groq-llama" THEN a ELSE b]
    OBVIOUS
  <2>3. \A p \in {"groq-llama", "gemini-flash"} : answer[p] \in Answers
    BY <2>2
  <2>4. Listed(Attempts(input, answer, doubtful, stated))
    BY <2>3, AttemptsListed
  <2> QED  BY <2>1, <2>2, <2>4
<1>2. PICK conflicts, status : conflicts = DetectFieldConflicts(attempts) /\ status = Status(attempts)
  OBVIOUS
<1>3. job = [attempts |-> attempts, conflicts |-> conflicts, status |-> status]
  BY <1>1, <1>2 DEF RunParseChain
<1>4. /\ DOMAIN conflicts = Fields
      /\ \A f \in Fields : conflicts[f] = IF Disagree(attempts, f) THEN Options(attempts, f) ELSE <<>>
  BY <1>2 DEF DetectFieldConflicts
<1>5. Kept(j, job, P)
  BY <1>1, <1>3, <1>4 DEF Kept, ConflictOK
<1>6. status # "none"
  BY <1>2 DEF Status
<1>7. ASSUME status = "parsed"
      PROVE  Ready(job)
  <2>1. /\ \E i \in DOMAIN attempts : Valid(attempts[i])
        /\ Unresolved(conflicts) = {}
    BY <1>2, <1>7 DEF Status
  <2>2. \A f \in Fields : ~Disagree(attempts, f)
    BY <1>1, <1>4, <2>1, DisagreementIsOpen DEF Unresolved
  <2>3. \A f \in Fields : conflicts[f] = <<>>
    BY <1>4, <2>2
  <2>4. PICK o : o = MergedParsedOutput(attempts)
    OBVIOUS
  <2>5. o \in [Fields -> Nat] /\ Valid(o)
    BY <1>1, <2>1, <2>4, MergedBacked
  <2>6. ResolvedOutput(job) = [f \in Fields |-> o[f]]
    BY <1>3, <2>3, <2>4 DEF ResolvedOutput
  <2> QED  BY <1>3, <2>1, <2>5, <2>6 DEF Ready
<1> QED  BY <1>3, <1>5, <1>6, <1>7

\* A choice that is tapped narrows its conflict to its own value.
LEMMA NarrowedKept ==
  ASSUME NEW j, NEW job, NEW P, NEW Q, Kept(j, job, P), P \subseteq Q,
         NEW x \in Q, x[1] = j, Choice(x, job.attempts),
         NEW i, i = (CHOOSE l \in 1 .. Len(Options(job.attempts, x[2])) : Options(job.attempts, x[2])[l] = x[3])
  PROVE  Kept(j, Narrowed(job, x[2], i), Q) /\ Narrowed(job, x[2], i).attempts = job.attempts
<1>1. PICK f, v, attempts, c : f = x[2] /\ v = x[3] /\ attempts = job.attempts /\ c = job.conflicts
  OBVIOUS
<1>2. PICK options : options = Options(attempts, f)
  OBVIOUS
<1>3. /\ job = [attempts |-> attempts, conflicts |-> c, status |-> job.status]
      /\ DOMAIN c = Fields /\ Listed(attempts) /\ f \in Fields /\ x = <<j, f, v>>
      /\ Disagree(attempts, f)
  BY <1>1 DEF Kept, Choice
<1>4. Len(options) \in Nat /\ DOMAIN options = 1 .. Len(options)
  BY <1>2, <1>3, OptionsListed
<1>5. i \in 1 .. Len(options) /\ options[i] = v
  <2>1. \E l \in 1 .. Len(options) : options[l] = v
    BY <1>1, <1>2, <1>4 DEF Choice
  <2> QED  BY <1>1, <1>2, <2>1
<1>6. ASSUME NEW g \in Fields
      PROVE  ConflictOK(j, job, g, Q)
  BY DEF Kept, ConflictOK
<1>7. PICK n : n = Narrowed(job, f, i)
  OBVIOUS
<1>8. CASE n = job
  BY <1>1, <1>3, <1>6, <1>7, <1>8 DEF Kept
<1>9. CASE n # job
  <2>1. n = [job EXCEPT !.conflicts[f] = <<@[i]>>] /\ ~(i > Len(c[f]))
    BY <1>1, <1>7, <1>9 DEF Narrowed
  <2>2. PICK d : d = [c EXCEPT ![f] = <<c[f][i]>>]
    OBVIOUS
  <2>3. n = [attempts |-> attempts, conflicts |-> d, status |-> job.status]
    BY <1>3, <2>1, <2>2
  <2>4. PICK w : c[f][i] = w
    OBVIOUS
  <2>5. <<j, f, w>> \in Q
    <3>1. c[f] = options \/ \E u : <<j, f, u>> \in P /\ c[f] = <<u>>
      BY <1>1, <1>2, <1>3 DEF Kept, ConflictOK
    <3>2. CASE c[f] = options
      BY <1>3, <1>5, <2>4, <3>2
    <3>3. ASSUME NEW u, <<j, f, u>> \in P, c[f] = <<u>>
          PROVE  <<j, f, w>> \in Q
      <4>1. Len(c[f]) = 1
        BY <3>3
      <4>2. i = 1
        BY <1>4, <1>5, <2>1, <4>1
      <4>3. c[f][1] = u
        BY <3>3
      <4>4. w = u
        BY Zenon, <2>4, <4>2, <4>3
      <4> QED  BY Zenon, <1>3, <3>3, <4>4
    <3> QED  BY <3>1, <3>2, <3>3
  <2>6. d[f] = <<w>> /\ DOMAIN d = Fields /\ \A g \in Fields \ {f} : d[g] = c[g]
    BY <1>3, <2>2, <2>4
  <2>7. ASSUME NEW g \in Fields
        PROVE  ConflictOK(j, n, g, Q)
    <3>1. n.conflicts = d /\ n.attempts = attempts
      BY <2>3
    <3>2. CASE g = f
      BY <1>3, <2>5, <2>6, <3>1, <3>2 DEF ConflictOK
    <3>3. CASE g # f
      <4>1. n.conflicts[g] = job.conflicts[g] /\ n.attempts = job.attempts
        BY <1>1, <2>6, <3>1, <3>3
      <4> QED  BY <1>6, <4>1 DEF ConflictOK
    <3> QED  BY <3>2, <3>3
  <2>8. n = [attempts |-> n.attempts, conflicts |-> n.conflicts, status |-> n.status]
        /\ n.attempts = attempts /\ n.conflicts = d
    BY <2>3
  <2> QED  BY <1>1, <1>3, <1>7, <2>6, <2>7, <2>8 DEF Kept
<1> QED  BY <1>8, <1>9

\* What is offered of a job are values its parsers disagree about.
LEMMA OffersOK ==
  ASSUME NEW j, NEW job, NEW P, Kept(j, job, P), NEW x \in Offer(j, job)
  PROVE  x[1] = j /\ Choice(x, job.attempts)
<1>1. PICK open : open = Unresolved(job.conflicts)
  OBVIOUS
<1>2. PICK f : f = (CHOOSE g \in open : TRUE)
  OBVIOUS
<1>3. open # {} /\ \E i \in DOMAIN job.conflicts[f] : x = <<j, f, job.conflicts[f][i]>>
  BY <1>1, <1>2 DEF Offer
<1>4. f \in open
  BY <1>2, <1>3
<1>5. f \in Fields /\ Len(job.conflicts[f]) > 1
  BY <1>1, <1>4 DEF Unresolved
<1>6. PICK attempts, c : attempts = job.attempts /\ c = job.conflicts[f]
  OBVIOUS
<1>7. Disagree(attempts, f) /\ c = Options(attempts, f)
  <2>1. ConflictOK(j, job, f, P)
    BY <1>5 DEF Kept
  <2>2. ASSUME NEW v, c = <<v>>
        PROVE  FALSE
    <3>1. Len(c) = 1
      BY <2>2
    <3> QED  BY <1>5, <1>6, <3>1
  <2>3. c # <<>>
    BY <1>5, <1>6
  <2> QED  BY <1>6, <2>1, <2>2, <2>3 DEF ConflictOK
<1>8. PICK i \in DOMAIN c : x = <<j, f, c[i]>>
  BY <1>3, <1>6
<1> QED  BY <1>5, <1>6, <1>7, <1>8 DEF Choice

\* A job that is ready has an output its parsers and its sender stand for.
LEMMA ReadyBacked ==
  ASSUME NEW j, NEW job, NEW P, Kept(j, job, P), Ready(job)
  PROVE  Backed(job.attempts, j, ResolvedOutput(job), P)
<1>1. PICK attempts, c : attempts = job.attempts /\ c = job.conflicts
  OBVIOUS
<1>2. PICK o, merged : o = ResolvedOutput(job) /\ merged = MergedParsedOutput(attempts)
  OBVIOUS
<1>3. Listed(attempts) /\ \A f \in Fields : ConflictOK(j, job, f, P)
  BY <1>1 DEF Kept
<1>4. \A f \in Fields : o[f] = IF Len(c[f]) = 1 THEN c[f][1] ELSE merged[f]
  BY <1>1, <1>2 DEF ResolvedOutput
<1>5. Valid(o) /\ \A f \in Fields : ~(Len(c[f]) > 1)
  BY <1>1, <1>2 DEF Ready, Unresolved
<1>6. ASSUME NEW f \in Fields, Disagree(attempts, f)
      PROVE  <<j, f, o[f]>> \in P
  <2>1. c[f] # Options(attempts, f)
    BY <1>3, <1>5, <1>6, DisagreementIsOpen
  <2>2. PICK v : <<j, f, v>> \in P /\ c[f] = <<v>>
    BY <1>1, <1>3, <1>6, <2>1 DEF ConflictOK
  <2>3. o[f] = v
    BY <1>4, <2>2
  <2> QED  BY <2>2, <2>3
<1>7. ASSUME NEW f \in Fields, ~Disagree(attempts, f)
      PROVE  ValueBacked(attempts, o[f], f)
  <2>1. c[f] = <<>>
    BY <1>1, <1>3, <1>7 DEF ConflictOK
  <2>2. o[f] = merged[f]
    BY <1>4, <2>1
  <2>3. \A g \in Fields : ValueBacked(attempts, merged[g], g)
    BY <1>2, <1>3, MergedBacked
  <2> QED  BY <2>2, <2>3
<1> QED  BY <1>1, <1>2, <1>5, <1>6, <1>7 DEF Backed

\* More taps take nothing back.
LEMMA KeptOn ==
  ASSUME NEW j, NEW job, NEW P, NEW Q, P \subseteq Q
  PROVE  /\ Kept(j, job, P) => Kept(j, job, Q)
         /\ \A a, o : Backed(a, j, o, P) => Backed(a, j, o, Q)
<1>1. \A f \in Fields : ConflictOK(j, job, f, P) => ConflictOK(j, job, f, Q)
  BY DEF ConflictOK
<1>2. Kept(j, job, P) => Kept(j, job, Q)
  BY <1>1 DEF Kept
<1>3. ASSUME NEW a, NEW o, Backed(a, j, o, P)
      PROVE  Backed(a, j, o, Q)
  BY <1>3 DEF Backed
<1> QED  BY <1>2, <1>3

\* A step that leaves the jobs what they have, and brings what is backed.
LEMMA BackedStep ==
  ASSUME BackedInv, picks \subseteq picks', \A j \in Calls : JobStays(j),
         \A c \in Calls : call'[c] = call[c] \/ ReadBacked(c)',
         \A x \in offered' : x \in offered \/ OfferBacked(x)',
         \A x \in outputs' : x \in outputs \/ OutputBacked(x)'
  PROVE  BackedInv'
<1>1. PICK P, Q : P = picks /\ Q = picks'
  OBVIOUS
<1>2. P \subseteq Q
  BY <1>1
<1>3. ASSUME NEW j, NEW a, Has(j, a)
      PROVE  Has(j, a)'
  BY <1>3 DEF Has, JobStays
<1>4. ASSUME NEW j \in Calls, jobs'[j].status # "none"
      PROVE  Kept(j, jobs'[j], Q)
  <2>1. CASE jobs'[j] = jobs[j]
    <3>1. Kept(j, jobs[j], P)
      BY <1>1, <1>4, <2>1 DEF BackedInv
    <3>2. Kept(j, jobs[j], Q)
      BY <1>2, <3>1, KeptOn
    <3> QED  BY <2>1, <3>2
  <2>2. CASE jobs'[j] # jobs[j]
    BY <1>1, <2>2 DEF JobStays
  <2> QED  BY <2>1, <2>2
<1>5. ASSUME NEW c \in Calls
      PROVE  ReadBacked(c)'
  <2>1. CASE call'[c] = call[c]
    <3>1. PICK j, read : j = call[c].job /\ read = call[c].read
      OBVIOUS
    <3>2. At(c)' = At(c) /\ call'[c].job = j /\ call'[c].read = read
      BY <2>1, <3>1 DEF At
    <3>3. ASSUME At(c) \in AtJob
          PROVE  /\ Kept(j, read, Q) /\ Has(j, read.attempts)'
                 /\ At(c) = "register" => Ready(read)
      <4>1. /\ Kept(j, read, P) /\ Has(j, read.attempts)
            /\ At(c) = "register" => Ready(read)
        BY <1>1, <3>1, <3>3 DEF BackedInv, ReadBacked
      <4> QED  BY <1>2, <1>3, <4>1, KeptOn
    <3> QED  BY <1>1, <3>2, <3>3 DEF ReadBacked
  <2>2. CASE call'[c] # call[c]
    BY <2>2
  <2> QED  BY <2>1, <2>2
<1>6. ASSUME NEW x \in offered'
      PROVE  OfferBacked(x)'
  <2>1. CASE x \in offered
    <3>1. PICK a : Has(x[1], a) /\ Choice(x, a)
      BY <2>1 DEF BackedInv, OfferBacked
    <3>2. Has(x[1], a)'
      BY <1>3, <3>1
    <3> QED  BY <3>1, <3>2 DEF OfferBacked
  <2> QED  BY <2>1
<1>7. ASSUME NEW x \in outputs'
      PROVE  OutputBacked(x)'
  <2>1. CASE x \in outputs
    <3>1. PICK a : Has(x[1], a) /\ Backed(a, x[1], x[2], P)
      BY <1>1, <2>1 DEF BackedInv, OutputBacked
    <3>2. Has(x[1], a)'
      BY <1>3, <3>1
    <3>3. Backed(a, x[1], x[2], Q)
      BY <1>2, <3>1, KeptOn
    <3> QED  BY <1>1, <3>2, <3>3 DEF OutputBacked
  <2> QED  BY <2>1
<1> QED  BY <1>1, <1>4, <1>5, <1>6, <1>7 DEF BackedInv

\* A step of a call that ends or stays with the mails.
LEMMA BackedRests ==
  ASSUME Shapes, BackedInv, NEW c \in Calls, NEW s, Goto(c, s), s.at \notin AtJob,
         picks' = picks, offered' = offered, outputs' = outputs, \A j \in Calls : JobStays(j)
  PROVE  BackedInv'
<1>1. call'[c] = s /\ \A d \in Calls \ {c} : call'[d] = call[d]
  BY OthersStay
<1>2. ReadBacked(c)'
  BY <1>1 DEF ReadBacked, At
<1>3. \A d \in Calls : call'[d] = call[d] \/ ReadBacked(d)'
  BY <1>1, <1>2
<1> QED  BY <1>3, BackedStep

LEMMA MailsBacked ==
  ASSUME Shapes, BackedInv, NEW c \in Calls,
         \/ \E m \in Mails : HandleEmailWebhook(c, m)
         \/ AllowForward(c) \/ CountForward(c) \/ Claim(c) \/ IntakeFails(c) \/ ReadMail(c)
         \/ CreateCandidate(c) \/ Cut(c)
  PROVE  BackedInv'
<1>1. PICK s : Goto(c, s) /\ s.at \notin AtJob
  <2>1. Done.at \notin AtJob
    BY DEF Done, AtJob
  <2>2. \A m : \A a \in {"rate", "claim", "fetch", "create"} : [at |-> a, mail |-> m].at \notin AtJob
    BY DEF AtJob
  <2>3. \A m : [at |-> "counted", mail |-> m, count |-> forwards].at \notin AtJob
    BY DEF AtJob
  <2> QED
    BY <2>1, <2>2, <2>3
       DEF HandleEmailWebhook, AllowForward, CountForward, Claim, IntakeFails, ReadMail, CreateCandidate, Cut, Ack
<1>2. UNCHANGED <<jobs, picks, offered, outputs>>
  BY DEF HandleEmailWebhook, AllowForward, CountForward, Claim, IntakeFails, ReadMail, CreateCandidate, Cut,
         stored, history
<1>3. \A j \in Calls : JobStays(j)
  BY <1>2 DEF JobStays
<1> QED  BY <1>1, <1>2, <1>3, BackedRests

\* A new call has no job yet.
LEMMA JobArrives ==
  ASSUME IntakeInv, NEW c \in Calls, At(c) = "new", NEW job \in AllJobs, jobs' = [jobs EXCEPT ![c] = job]
  PROVE  /\ \A j \in Calls : JobStays(j)
         /\ jobs'[c] = job /\ Kept(c, job, picks') /\ Has(c, job.attempts)'
         /\ job.status = "parsed" => Ready(job)
<1>1. jobs[c].status = "none" /\ DOMAIN jobs = Calls
  BY DEF IntakeInv, JobOK, Shapes
<1>2. jobs'[c] = job /\ \A j \in Calls \ {c} : jobs'[j] = jobs[j]
  BY <1>1
<1>3. PICK Q : Q = picks'
  OBVIOUS
<1>4. Kept(c, job, Q) /\ job.status # "none" /\ (job.status = "parsed" => Ready(job))
  BY JobsKept
<1>5. Has(c, job.attempts)'
  BY <1>2, <1>4 DEF Has
<1>6. JobStays(c)
  BY <1>1, <1>2, <1>3, <1>4 DEF JobStays
<1>7. \A j \in Calls \ {c} : JobStays(j)
  BY <1>2 DEF JobStays
<1> QED  BY <1>2, <1>3, <1>4, <1>5, <1>6, <1>7

LEMMA ParseBacked ==
  ASSUME IntakeInv, BackedInv, NEW c \in Calls, ParseApi(c)
  PROVE  BackedInv'
<1>1. Goto(c, Done) /\ Done.at \notin AtJob /\ UNCHANGED <<picks, offered, outputs>>
  BY DEF ParseApi, Done, AtJob, history
<1>2. \A j \in Calls : JobStays(j)
  <2>1. CASE jobs' = jobs
    BY <2>1 DEF JobStays
  <2>2. ASSUME NEW job \in AllJobs, jobs' = [jobs EXCEPT ![c] = job]
        PROVE  \A j \in Calls : JobStays(j)
    BY <2>2, JobArrives DEF ParseApi
  <2> QED  BY <2>1, <2>2 DEF ParseApi
<1>3. Shapes
  BY DEF IntakeInv
<1> QED  BY <1>1, <1>2, <1>3, BackedRests

LEMMA MessageBacked ==
  ASSUME IntakeInv, BackedInv, NEW c \in Calls, NEW job \in AllJobs, HandleMessage(c, job)
  PROVE  BackedInv'
<1>1. /\ At(c) = "new" /\ jobs' = [jobs EXCEPT ![c] = job] /\ UNCHANGED <<picks, outputs>>
  BY DEF HandleMessage
<1>2. /\ \A j \in Calls : JobStays(j)
      /\ jobs'[c] = job /\ Kept(c, job, picks') /\ Has(c, job.attempts)'
      /\ job.status = "parsed" => Ready(job)
  BY <1>1, JobArrives
<1>3. Shapes
  BY DEF IntakeInv
<1>4. PICK s : s = IF job.status = "parsed" THEN [at |-> "register", job |-> c, read |-> job] ELSE Done
  OBVIOUS
<1>5. call'[c] = s /\ \A d \in Calls \ {c} : call'[d] = call[d]
  <2>1. Goto(c, s)
    BY <1>4 DEF HandleMessage
  <2> QED  BY <1>3, <2>1, OthersStay
<1>6. ReadBacked(c)'
  <2>1. CASE job.status = "parsed"
    <3>1. At(c)' = "register" /\ call'[c].job = c /\ call'[c].read = job
      BY <1>4, <1>5, <2>1 DEF At
    <3> QED  BY <1>2, <2>1, <3>1 DEF ReadBacked
  <2>2. CASE job.status # "parsed"
    <3>1. At(c)' \notin AtJob
      BY <1>4, <1>5, <2>2 DEF At, Done, AtJob
    <3> QED  BY <3>1 DEF ReadBacked
  <2> QED  BY <2>1, <2>2
<1>7. ASSUME NEW x \in offered', x \notin offered
      PROVE  OfferBacked(x)'
  <2>1. x \in Offer(c, job)
    BY <1>7 DEF HandleMessage
  <2>2. x[1] = c /\ Choice(x, job.attempts)
    BY <1>2, <2>1, OffersOK
  <2> QED  BY <1>2, <2>2 DEF OfferBacked
<1>8. \A d \in Calls : call'[d] = call[d] \/ ReadBacked(d)'
  BY <1>5, <1>6
<1> QED  BY <1>1, <1>2, <1>7, <1>8, BackedStep

\* A tap: what it narrows is a job that is still open, as it stands now.
LEMMA TapBacked ==
  ASSUME IntakeInv, BackedInv, NEW c \in Calls, NEW x \in offered, HandlePostback(c, x)
  PROVE  BackedInv'
<1>1. PICK j, now, i, P, Q : /\ j = x[1] /\ now = jobs[j] /\ i = Place(j, x[2], x[3])
                             /\ P = picks /\ Q = picks'
  OBVIOUS
<1>2. Q = P \cup {x} /\ UNCHANGED <<jobs, offered, outputs>>
  BY <1>1 DEF HandlePostback, stored
<1>3. PICK a : Has(j, a) /\ Choice(x, a)
  BY <1>1 DEF BackedInv, OfferBacked
<1>4. j \in Calls /\ a = now.attempts /\ Kept(j, now, P)
  BY <1>1, <1>3 DEF Has, BackedInv
<1>5. PICK job : job = Narrowed(now, x[2], i)
  OBVIOUS
<1>6. Kept(j, job, Q) /\ job.attempts = a
  <2>1. i = (CHOOSE l \in 1 .. Len(Options(now.attempts, x[2])) : Options(now.attempts, x[2])[l] = x[3])
    BY <1>1 DEF Place
  <2>2. P \subseteq Q /\ x \in Q /\ x[1] = j /\ Choice(x, now.attempts)
    BY <1>1, <1>2, <1>3, <1>4
  <2> QED  BY <1>4, <1>5, <2>1, <2>2, NarrowedKept
<1>7. Has(j, a)'
  BY <1>2, <1>3 DEF Has
<1>8. PICK s : s = IF Open(now)
                   THEN [at |-> IF Ready(job) THEN "register" ELSE "put", job |-> j, read |-> job] ELSE Done
  OBVIOUS
<1>9. call'[c] = s /\ \A d \in Calls \ {c} : call'[d] = call[d]
  <2>1. Goto(c, s)
    BY <1>1, <1>5, <1>8 DEF HandlePostback, Ready
  <2> QED  BY <2>1, OthersStay DEF IntakeInv
<1>10. ReadBacked(c)'
  <2>1. CASE Open(now)
    <3>1. /\ At(c)' = (IF Ready(job) THEN "register" ELSE "put")
          /\ call'[c].job = j /\ call'[c].read = job
      BY <1>8, <1>9, <2>1 DEF At
    <3> QED  BY <1>1, <1>6, <1>7, <3>1 DEF ReadBacked
  <2>2. CASE ~Open(now)
    <3>1. At(c)' \notin AtJob
      BY <1>8, <1>9, <2>2 DEF At, Done, AtJob
    <3> QED  BY <3>1 DEF ReadBacked
  <2> QED  BY <2>1, <2>2
<1>11. \A k \in Calls : JobStays(k)
  BY <1>2 DEF JobStays
<1>12. \A d \in Calls : call'[d] = call[d] \/ ReadBacked(d)'
  BY <1>9, <1>10
<1> QED  BY <1>1, <1>2, <1>11, <1>12, BackedStep

LEMMA PutBacked ==
  ASSUME IntakeInv, BackedInv, NEW c \in Calls, PutParseJob(c)
  PROVE  BackedInv'
<1>1. PICK j, read, P : j = call[c].job /\ read = call[c].read /\ P = picks
  OBVIOUS
<1>2. /\ At(c) \in AtJob /\ At(c) # "register" /\ jobs' = [jobs EXCEPT ![j] = read]
      /\ UNCHANGED <<picks, outputs>> /\ Goto(c, Done)
      /\ offered' \subseteq offered \cup Offer(j, read)
  BY <1>1 DEF PutParseJob, AtJob
<1>3. Kept(j, read, P) /\ Has(j, read.attempts)
  BY <1>1, <1>2 DEF BackedInv, ReadBacked
<1>4. j \in Calls /\ DOMAIN jobs = Calls
  BY <1>3 DEF Has, IntakeInv, Shapes
<1>5. jobs'[j] = read /\ \A k \in Calls \ {j} : jobs'[k] = jobs[k]
  BY <1>2, <1>4
<1>6. read.status # "none"
  BY <1>1, <1>2 DEF IntakeInv, ReadOK, AtJob
<1>7. \A k \in Calls : JobStays(k)
  BY <1>1, <1>2, <1>3, <1>5, <1>6 DEF JobStays, Has
<1>8. Has(j, read.attempts)'
  BY <1>4, <1>5, <1>6 DEF Has
<1>9. ASSUME NEW x \in offered', x \notin offered
      PROVE  OfferBacked(x)'
  <2>1. x[1] = j /\ Choice(x, read.attempts)
    BY <1>2, <1>3, <1>9, OffersOK
  <2> QED  BY <1>8, <2>1 DEF OfferBacked
<1>10. \A d \in Calls : call'[d] = call[d] \/ ReadBacked(d)'
  <2>1. call'[c] = Done /\ \A d \in Calls \ {c} : call'[d] = call[d]
    BY <1>2, OthersStay DEF IntakeInv
  <2>2. ReadBacked(c)'
    BY <2>1 DEF ReadBacked, At, Done, AtJob
  <2> QED  BY <2>1, <2>2
<1> QED  BY <1>2, <1>7, <1>9, <1>10, BackedStep

LEMMA RegisterBacked ==
  ASSUME Shapes, BackedInv, NEW c \in Calls, RegisterOutput(c)
  PROVE  BackedInv'
<1>1. PICK j, read, P : j = call[c].job /\ read = call[c].read /\ P = picks
  OBVIOUS
<1>2. At(c) = "register" /\ UNCHANGED <<jobs, picks, offered>>
  BY DEF RegisterOutput, stored
<1>3. Kept(j, read, P) /\ Has(j, read.attempts) /\ Ready(read)
  BY <1>1, <1>2 DEF BackedInv, ReadBacked, AtJob
<1>4. Has(j, read.attempts)'
  BY <1>2, <1>3 DEF Has
<1>5. call[c] = [at |-> "register", job |-> j, read |-> read]
  BY <1>1, <1>2 DEF Shapes, CallOK, AtJob
<1>6. PICK noted : noted = [read EXCEPT !.status = "resolved"]
  OBVIOUS
<1>7. Kept(j, noted, P) /\ noted.attempts = read.attempts
  <2>1. read = [attempts |-> read.attempts, conflicts |-> read.conflicts, status |-> read.status]
    BY <1>3 DEF Kept
  <2>2. noted = [attempts |-> read.attempts, conflicts |-> read.conflicts, status |-> "resolved"]
    BY <1>6, <2>1
  <2>3. /\ noted.attempts = read.attempts /\ noted.conflicts = read.conflicts
        /\ noted = [attempts |-> noted.attempts, conflicts |-> noted.conflicts, status |-> noted.status]
    BY <2>2
  <2> QED  BY <1>3, <2>3 DEF Kept, ConflictOK
<1>8. PICK s : /\ Goto(c, s)
               /\ \/ s = Done \/ s = [at |-> "resolve", job |-> j, read |-> noted]
                  \/ s = [at |-> "put", job |-> j, read |-> read]
  <2>1. Refused(c) = [at |-> "put", job |-> j, read |-> read]
    BY <1>5 DEF Refused
  <2> QED  BY <1>1, <1>6, <2>1 DEF RegisterOutput
<1>9. call'[c] = s /\ \A d \in Calls \ {c} : call'[d] = call[d]
  BY <1>8, OthersStay
<1>10. ReadBacked(c)'
  <2>1. CASE s = Done
    BY <1>9, <2>1 DEF ReadBacked, At, Done, AtJob
  <2>2. CASE s = [at |-> "resolve", job |-> j, read |-> noted]
    <3>1. At(c)' = "resolve" /\ call'[c].job = j /\ call'[c].read = noted
      BY <1>9, <2>2 DEF At
    <3> QED  BY <1>1, <1>2, <1>4, <1>7, <3>1 DEF ReadBacked
  <2>3. CASE s = [at |-> "put", job |-> j, read |-> read]
    <3>1. At(c)' = "put" /\ call'[c].job = j /\ call'[c].read = read
      BY <1>9, <2>3 DEF At
    <3> QED  BY <1>1, <1>2, <1>3, <1>4, <3>1 DEF ReadBacked
  <2> QED  BY <1>8, <2>1, <2>2, <2>3
<1>11. ASSUME NEW x \in outputs', x \notin outputs
       PROVE  OutputBacked(x)'
  <2>1. x = <<j, ResolvedOutput(read)>>
    BY <1>1, <1>11 DEF RegisterOutput
  <2>2. x[1] = j /\ x[2] = ResolvedOutput(read)
    BY <2>1
  <2>3. Backed(read.attempts, x[1], x[2], P)
    BY <1>3, <2>2, ReadyBacked
  <2> QED  BY <1>1, <1>2, <1>4, <2>2, <2>3 DEF OutputBacked
<1>12. \A k \in Calls : JobStays(k)
  BY <1>2 DEF JobStays
<1>13. \A d \in Calls : call'[d] = call[d] \/ ReadBacked(d)'
  BY <1>9, <1>10
<1> QED  BY <1>2, <1>11, <1>12, <1>13, BackedStep

LEMMA BackedStart == Init => BackedInv
<1> SUFFICES ASSUME Init PROVE BackedInv
  OBVIOUS
<1>1. \A j \in Calls : jobs[j].status = "none" /\ At(j) = "new"
  BY DEF Init, NoJob, At
<1>2. offered = {} /\ outputs = {}
  BY DEF Init
<1> QED  BY <1>1, <1>2 DEF BackedInv, ReadBacked, AtJob

LEMMA BackedKept == IntakeInv /\ BackedInv /\ [Next]_vars => BackedInv'
<1> SUFFICES ASSUME IntakeInv, BackedInv, [Next]_vars PROVE BackedInv'
  OBVIOUS
<1>1. Shapes
  BY DEF IntakeInv
<1>2. CASE UNCHANGED vars
  <2>1. UNCHANGED <<jobs, call, offered, picks, outputs>>
    BY <1>2 DEF vars, stored, history
  <2>2. \A j \in Calls : JobStays(j)
    BY <2>1 DEF JobStays
  <2> QED  BY <2>1, <2>2, BackedStep
<1>3. CASE Next
  BY <1>1, <1>3, MailsBacked, ParseBacked, MessageBacked, TapBacked, PutBacked, RegisterBacked DEF Next
<1> QED  BY <1>2, <1>3

\* What is registered of a LINE message, from the parser's answer or after the sender's taps, has
\* a name and a start; a field the parsers disagreed about has a value the sender tapped, whatever
\* other taps and refusals came between, and any other one a value some good answer gave
\* (webhook.ts, handlePostback; output.ts, mergedParsedOutput and resolvedOutput).
THEOREM OutputsBacked == Spec => []OutputIsBacked
<1>1. BackedInv => OutputIsBacked
  <2> SUFFICES ASSUME BackedInv, NEW x \in outputs
               PROVE  /\ Valid(x[2])
                      /\ \A f \in Fields :
                           IF Disagree(jobs[x[1]].attempts, f) THEN <<x[1], f, x[2][f]>> \in picks
                           ELSE ValueBacked(jobs[x[1]].attempts, x[2][f], f)
    BY DEF OutputIsBacked, ValueBacked
  <2>1. PICK a : Has(x[1], a) /\ Backed(a, x[1], x[2], picks)
    BY DEF BackedInv, OutputBacked
  <2>2. a = jobs[x[1]].attempts
    BY <2>1 DEF Has
  <2> QED  BY <2>1, <2>2 DEF Backed
<1> QED  BY <1>1, BackedStart, BackedKept, IntakeStart, IntakeStep, PTL DEF Spec

-----------------------------------------------------------------------------
(* The chat. While nothing disturbs it, a tap that has counted has counted *)
(* what its commit will turn.                                              *)

Losers(id) == IF ledger[id].plan THEN L!Siblings(id) \cap L!Active ELSE {}

TapOK(t) ==
  /\ tap[t] # None /\ tap[t].pc = "write" => tap[t].seen \in L!Reservation
  /\ tap[t] # None /\ ~tap[t].disturbed =>
       /\ tap[t].pc = "count" => ledger[tap[t].id] # None /\ ledger[tap[t].id].plan
       /\ tap[t].pc = "commit" =>
            ledger[tap[t].id] # None /\ tap[t].claimed = L!Cardinality(Losers(tap[t].id))
       /\ tap[t].pc = "told" => tap[t].claimed = tap[t].flipped

ChatInv == L!TypeOK /\ \A t \in Taps : TapOK(t)

LEMMA ChatSizes == L!Cardinality({}) = 0 /\ \A S \in SUBSET Rows : L!Cardinality(S) \in Nat
<1>1. \A S : L!IsFiniteSet(S) <=> IsFiniteSet(S)
  BY DEF IsFiniteSet, L!IsFiniteSet
<1>2. \A S : L!Cardinality(S) = Cardinality(S)
  BY <1>1 DEF Cardinality, L!Cardinality
<1>3. IsFiniteSet(Rows)
  BY <1>1, ChatAssumption DEF L!LineChatAssumption
<1> QED
  BY <1>2, <1>3, FS_Subset, FS_CardinalityType, FS_EmptySet

LEMMA Flagged ==
  ASSUME NEW r \in L!TapState, NEW b \in BOOLEAN
  PROVE  /\ [r EXCEPT !.disturbed = b] \in L!TapState
         /\ [r EXCEPT !.disturbed = b].disturbed = b /\ [r EXCEPT !.disturbed = b].pc = r.pc
  BY DEF L!TapState

\* A change of the ledger leaves a tap that has counted, and is not the one that made it,
\* disturbed, and every other one as it was.
LEMMA DisturbOthers ==
  ASSUME L!TypeOK, NEW t \in Taps \cup {None}, NEW s \in L!TapState \cup {None},
         tap' = L!Disturb(t, s)
  PROVE  /\ tap' \in [Taps -> L!TapState \cup {None}]
         /\ t \in Taps => tap'[t] = s
         /\ \A u \in Taps \ {t} : TapOK(u) => TapOK(u)'
<1>1. /\ tap' = [u \in Taps |-> tap'[u]]
      /\ \A u \in Taps : tap'[u] = L!Disturb(t, s)[u]
  BY DEF L!Disturb
<1>2. ASSUME NEW u \in Taps \ {t}
      PROVE  /\ tap'[u] \in L!TapState \cup {None}
             /\ tap'[u] = tap[u] \/ (tap'[u].disturbed /\ tap'[u].pc # "write")
             /\ tap'[u] = tap[u] => tap[u] = None \/ tap[u].pc \notin {"count", "commit"}
                                   \/ tap[u].disturbed
  <2>1. tap[u] \in L!TapState \cup {None}
    BY DEF L!TypeOK
  <2>2. tap'[u] = IF L!At(u, "count") \/ L!At(u, "commit") THEN [tap[u] EXCEPT !.disturbed = TRUE]
                  ELSE tap[u]
    BY <1>1, <1>2 DEF L!Disturb
  <2>3. CASE L!At(u, "count") \/ L!At(u, "commit")
    <3>1. tap[u] \in L!TapState /\ tap[u] # None
      BY <2>1, <2>3 DEF L!At
    <3>2. tap'[u] \in L!TapState /\ tap'[u].disturbed /\ tap'[u].pc # "write"
      BY <2>2, <2>3, <3>1, Flagged DEF L!At
    <3> QED
      BY <3>1, <3>2
  <2>4. CASE ~(L!At(u, "count") \/ L!At(u, "commit"))
    BY <2>1, <2>2, <2>4 DEF L!At
  <2> QED
    BY <2>3, <2>4
<1>3. t \in Taps => tap'[t] = s
  BY <1>1 DEF L!Disturb
<1>4. tap' \in [Taps -> L!TapState \cup {None}]
  BY <1>1, <1>2, <1>3
<1>5. ASSUME NEW u \in Taps \ {t}, TapOK(u) PROVE TapOK(u)'
  BY <1>2, <1>5 DEF TapOK
<1> QED
  BY <1>3, <1>4, <1>5

\* A step that changes the ledger, and only the tap that made it.
LEMMA ChatChange ==
  ASSUME ChatInv, NEW t \in Taps \cup {None}, NEW s \in L!TapState \cup {None}, tap' = L!Disturb(t, s),
         ledger' \in [Rows -> L!Reservation \cup {None}],
         chips' \subseteq [act : L!Acts, id : Rows], edits' \in 0 .. MaxEdits,
         t \in Taps /\ s # None => s.pc = "told" /\ (s.disturbed \/ s.claimed = s.flipped)
  PROVE  ChatInv'
<1>1. /\ tap' \in [Taps -> L!TapState \cup {None}]
      /\ t \in Taps => tap'[t] = s
      /\ \A u \in Taps \ {t} : TapOK(u)'
  BY DisturbOthers DEF ChatInv
<1>2. t \in Taps => TapOK(t)'
  BY <1>1 DEF TapOK
<1>3. L!TypeOK'
  BY <1>1 DEF L!TypeOK
<1> QED
  BY <1>1, <1>2, <1>3 DEF ChatInv

\* A step of one tap that leaves the ledger.
LEMMA ChatMove ==
  ASSUME ChatInv, NEW t \in Taps, NEW s \in L!TapState \cup {None}, tap' = [tap EXCEPT ![t] = s],
         UNCHANGED <<ledger, chips, edits>>,
         s # None /\ s.pc = "write" => s.seen \in L!Reservation,
         s # None /\ ~s.disturbed =>
           /\ s.pc = "count" => ledger[s.id] # None /\ ledger[s.id].plan
           /\ s.pc = "commit" => ledger[s.id] # None /\ s.claimed = L!Cardinality(Losers(s.id))
           /\ s.pc # "told"
  PROVE  ChatInv'
<1>1. tap' \in [Taps -> L!TapState \cup {None}] /\ tap'[t] = s /\ \A u \in Taps \ {t} : tap'[u] = tap[u]
  BY DEF ChatInv, L!TypeOK
<1>2. \A id : Losers(id)' = Losers(id)
  BY DEF Losers, L!Siblings, L!Active, L!Known
<1>3. TapOK(t)'
  BY <1>1, <1>2 DEF TapOK
<1>4. \A u \in Taps \ {t} : TapOK(u)'
  BY <1>1, <1>2 DEF TapOK, ChatInv
<1>5. L!TypeOK'
  BY <1>1 DEF L!TypeOK, ChatInv
<1> QED
  BY <1>3, <1>4, <1>5 DEF ChatInv

LEMMA ChatStart == L!Init => ChatInv
  BY ChatAssumption DEF L!Init, ChatInv, L!TypeOK, TapOK, L!LineChatAssumption

LEMMA ChatReplies ==
  ASSUME ChatInv, L!Check
  PROVE  ChatInv'
<1>1. chips' \subseteq [act : L!Acts, id : Rows]
  <2>1. PICK shown \in SUBSET L!Active : chips' = chips \cup {L!ChipOf(r) : r \in shown}
    BY DEF L!Check
  <2>2. shown \subseteq Rows
    BY <2>1 DEF L!Active, L!Known
  <2>3. \A r \in shown : L!ChipOf(r) \in [act : L!Acts, id : Rows]
    BY <2>2 DEF L!ChipOf, L!Acts
  <2> QED
    BY <2>1, <2>3 DEF ChatInv, L!TypeOK
<1>2. UNCHANGED <<ledger, tap, edits>>
  BY DEF L!Check
<1>3. \A id : Losers(id)' = Losers(id)
  BY <1>2 DEF Losers, L!Siblings, L!Active, L!Known
<1>4. \A t \in Taps : TapOK(t)'
  BY <1>2, <1>3 DEF TapOK, ChatInv
<1>5. L!TypeOK'
  BY <1>1, <1>2 DEF ChatInv, L!TypeOK
<1> QED
  BY <1>4, <1>5 DEF ChatInv

LEMMA ChatEdits ==
  ASSUME ChatInv, NEW r \in Rows,
         \/ \E known \in BOOLEAN : L!Register(r, known)
         \/ \E new \in {n \in L!Reservation : n.status = "candidate"} \cup {None} : L!WebEdit(r, new)
         \/ L!DayEnds(r)
  PROVE  ChatInv'
<1>0. /\ ledger \in [Rows -> L!Reservation \cup {None}] /\ chips \subseteq [act : L!Acts, id : Rows]
      /\ edits \in 0 .. MaxEdits /\ MaxEdits \in Nat
  BY ChatAssumption DEF ChatInv, L!TypeOK, L!LineChatAssumption
<1>1. tap' = L!Disturb(None, None) /\ None \notin Taps
  BY ChatAssumption DEF L!Register, L!WebEdit, L!DayEnds, L!LineChatAssumption
<1>2. ledger' \in [Rows -> L!Reservation \cup {None}]
  <2>1. PICK q \in L!Reservation \cup {None} : ledger' = [ledger EXCEPT ![r] = q]
    <3>1. CASE \E known \in BOOLEAN : L!Register(r, known)
      BY <3>1 DEF L!Register, L!Reservation
    <3>2. CASE \E new \in {n \in L!Reservation : n.status = "candidate"} \cup {None} : L!WebEdit(r, new)
      BY <3>2 DEF L!WebEdit
    <3>3. CASE L!DayEnds(r)
      <4>1. ledger[r] \in L!Reservation
        BY <1>0, <3>3 DEF L!DayEnds, L!Active, L!Known
      <4>2. PICK b \in BOOLEAN : b = TRUE
        OBVIOUS
      <4>3. [ledger[r] EXCEPT !.over = b] \in L!Reservation
        BY <4>1 DEF L!Reservation
      <4>4. ledger' = [ledger EXCEPT ![r] = [ledger[r] EXCEPT !.over = b]]
        BY <3>3, <4>2 DEF L!DayEnds
      <4> QED
        BY <4>3, <4>4
    <3> QED
      BY <3>1, <3>2, <3>3
  <2> QED
    BY <1>0, <2>1
<1>3. chips' \subseteq [act : L!Acts, id : Rows]
  BY <1>0 DEF L!Register, L!WebEdit, L!DayEnds, L!Acts
<1>4. edits' \in 0 .. MaxEdits
  BY <1>0 DEF L!Register, L!WebEdit, L!DayEnds
<1> QED
  BY <1>1, <1>2, <1>3, <1>4, ChatChange

LEMMA ChatTaps ==
  ASSUME ChatInv, NEW t \in Taps, NEW chip \in chips, L!Tap(t, chip)
  PROVE  ChatInv'
<1>1. chip \in [act : L!Acts, id : Rows] /\ ledger[chip.id] \in L!Reservation
  BY DEF ChatInv, L!TypeOK, L!Tap
<1> DEFINE r == ledger[chip.id]
           s == [pc |-> CASE chip.act = "policy" -> "write"
                          [] chip.act = "cancel" -> "read"
                          [] chip.act = "confirm" -> IF r.plan THEN "count" ELSE "commit",
                 act |-> chip.act, id |-> chip.id, seen |-> IF chip.act = "policy" THEN r ELSE None,
                 claimed |-> 0, flipped |-> 0, disturbed |-> FALSE]
<1>2. tap' = [tap EXCEPT ![t] = s] /\ UNCHANGED <<ledger, chips, edits>> /\ r # None
  BY DEF L!Tap
<1>3. s \in L!TapState
  BY <1>1 DEF L!TapState, L!Acts
<1>4. s.pc # "told" /\ (s.pc = "count" => r.plan) /\ (s.pc = "commit" => ~r.plan)
  BY <1>1 DEF L!Acts
<1>5. s.id = chip.id /\ s.claimed = 0 /\ (s.pc = "write" => s.seen \in L!Reservation)
  BY <1>1 DEF L!Acts
<1>6. s.pc = "commit" => L!Cardinality(Losers(chip.id)) = 0
  BY <1>4, ChatSizes DEF Losers
<1> HIDE DEF s
<1> QED
  BY <1>2, <1>3, <1>4, <1>5, <1>6, ChatMove

LEMMA ChatWork ==
  ASSUME ChatInv, NEW t \in Taps, L!Count(t) \/ L!Read(t) \/ L!Reply(t)
  PROVE  ChatInv'
<1>1. tap[t] \in L!TapState /\ tap[t] # None /\ tap[t].id \in Rows
  BY DEF ChatInv, L!TypeOK, L!Count, L!Read, L!Reply, L!At, L!TapState
<1>2. CASE L!Count(t)
  <2> DEFINE n == L!Cardinality(L!Siblings(tap[t].id) \cap L!Active)
             s == [[tap[t] EXCEPT !.claimed = n] EXCEPT !.pc = "commit"]
  <2>1. tap' = [tap EXCEPT ![t] = s] /\ UNCHANGED <<ledger, chips, edits>> /\ tap[t].pc = "count"
    BY <1>1, <1>2 DEF L!Count, L!At, ChatInv, L!TypeOK
  <2>2. n \in Nat
    BY ChatSizes DEF L!Active, L!Known
  <2> HIDE DEF n
  <2>3. s \in L!TapState
    BY <1>1, <2>2 DEF L!TapState
  <2>4. s.pc = "commit" /\ s.claimed = n /\ s.id = tap[t].id /\ s.disturbed = tap[t].disturbed
    BY <1>1 DEF L!TapState
  <2>5. ~s.disturbed => ledger[s.id] # None /\ n = L!Cardinality(Losers(s.id))
    BY <1>1, <2>1, <2>4 DEF ChatInv, TapOK, Losers, n
  <2> HIDE DEF s
  <2> QED
    BY <2>1, <2>3, <2>4, <2>5, ChatMove
<1>3. CASE L!Read(t)
  <2> DEFINE s == [[tap[t] EXCEPT !.pc = "write"] EXCEPT !.seen = ledger[tap[t].id]]
  <2>1. UNCHANGED <<ledger, chips, edits>>
    BY <1>3 DEF L!Read
  <2>2. \/ tap' = [tap EXCEPT ![t] = None]
        \/ ledger[tap[t].id] # None /\ tap' = [tap EXCEPT ![t] = s]
    BY <1>1, <1>3 DEF L!Read, L!End, ChatInv, L!TypeOK
  <2>3. ledger[tap[t].id] \in L!Reservation \cup {None}
    BY <1>1 DEF ChatInv, L!TypeOK
  <2>4. s \in L!TapState
    BY <1>1, <2>3 DEF L!TapState
  <2>5. s.pc = "write" /\ s.seen = ledger[tap[t].id]
    BY <1>1 DEF L!TapState
  <2> HIDE DEF s
  <2> QED
    BY <2>1, <2>2, <2>3, <2>4, <2>5, ChatMove
<1>4. CASE L!Reply(t)
  BY <1>4, ChatMove DEF L!Reply, L!End
<1> QED
  BY <1>2, <1>3, <1>4

LEMMA ChatCommits ==
  ASSUME ChatInv, NEW t \in Taps, L!Commit(t)
  PROVE  ChatInv'
<1> DEFINE k == tap[t]
           id == k.id
           r == ledger[id]
           lost0 == IF r.plan THEN L!Siblings(id) \cap L!Active ELSE {}
           s == [[k EXCEPT !.pc = "told"] EXCEPT !.flipped = L!Cardinality(lost0)]
           next == [x \in Rows |-> CASE x = id -> [r EXCEPT !.status = "confirmed"]
                                     [] x \in lost0 -> [ledger[x] EXCEPT !.status = "to_cancel"]
                                     [] OTHER -> ledger[x]]
<1>1. k \in L!TapState /\ k # None /\ id \in Rows /\ k.pc = "commit"
  BY DEF ChatInv, L!TypeOK, L!Commit, L!At, L!TapState
<1>2. ledger \in [Rows -> L!Reservation \cup {None}] /\ UNCHANGED <<chips, edits>>
  BY DEF ChatInv, L!TypeOK, L!Commit
<1>3. \/ tap' = [tap EXCEPT ![t] = None] /\ ledger' = ledger
      \/ r # None /\ ledger' = next /\ tap' = L!Disturb(t, s)
  BY DEF L!Commit, L!End
<1>4. CASE tap' = [tap EXCEPT ![t] = None] /\ ledger' = ledger
  BY <1>2, <1>4, ChatMove
<1>5. CASE r # None /\ ledger' = next /\ tap' = L!Disturb(t, s)
  <2>1. lost0 \subseteq L!Known /\ L!Known \subseteq Rows
    BY DEF L!Active, L!Known
  <2>2. ledger' \in [Rows -> L!Reservation \cup {None}]
    <3>1. [r EXCEPT !.status = "confirmed"] \in L!Reservation
      BY <1>1, <1>2, <1>5 DEF L!Reservation
    <3>2. ASSUME NEW x \in Rows, x \in lost0 PROVE [ledger[x] EXCEPT !.status = "to_cancel"] \in L!Reservation
      <4>1. ledger[x] \in L!Reservation
        BY <1>2, <2>1, <3>2 DEF L!Known
      <4> QED
        BY <4>1 DEF L!Reservation
    <3> HIDE DEF lost0, r
    <3>3. \A x \in Rows : next[x] \in L!Reservation \cup {None}
      BY <1>2, <3>1, <3>2
    <3> QED
      BY <1>5, <3>3
  <2>3. L!Cardinality(lost0) \in Nat
    BY <2>1, ChatSizes
  <2>4. lost0 = Losers(id)
    BY DEF Losers
  <2>5. s \in L!TapState
    BY <1>1, <2>3 DEF L!TapState
  <2>6. s.pc = "told" /\ s.flipped = L!Cardinality(lost0) /\ s.claimed = k.claimed /\ s.disturbed = k.disturbed
    BY <1>1 DEF L!TapState
  <2>7. s.disturbed \/ s.claimed = s.flipped
    BY <1>1, <2>4, <2>6 DEF ChatInv, TapOK
  <2>8. chips' \subseteq [act : L!Acts, id : Rows] /\ edits' \in 0 .. MaxEdits
    BY <1>2 DEF ChatInv, L!TypeOK
  <2> HIDE DEF s, next
  <2> QED
    BY <1>5, <2>2, <2>5, <2>6, <2>7, <2>8, ChatChange
<1> QED
  BY <1>3, <1>4, <1>5

LEMMA ChatWrites ==
  ASSUME ChatInv, NEW t \in Taps, L!Write(t)
  PROVE  ChatInv'
<1> DEFINE k == tap[t]
<1>1. k \in L!TapState /\ k.id \in Rows /\ k.seen \in L!Reservation
  BY DEF ChatInv, TapOK, L!TypeOK, L!Write, L!At, L!TapState
<1>2. /\ ledger \in [Rows -> L!Reservation \cup {None}] /\ tap' = L!Disturb(t, None)
      /\ chips' \subseteq [act : L!Acts, id : Rows] /\ edits' \in 0 .. MaxEdits
  BY DEF ChatInv, L!TypeOK, L!Write
<1>3. ledger' \in [Rows -> L!Reservation \cup {None}]
  <2> DEFINE q == IF k.act = "cancel" THEN [k.seen EXCEPT !.status = "cancelled"] ELSE k.seen
  <2>1. ledger' = [ledger EXCEPT ![k.id] = q]
    BY DEF L!Write
  <2>2. q \in L!Reservation \cup {None}
    BY <1>1 DEF L!Reservation
  <2> QED
    BY <1>1, <1>2, <2>1, <2>2
<1> QED
  BY <1>2, <1>3, ChatChange

LEMMA ChatStep == ChatInv /\ [L!Next]_(L!vars) => ChatInv'
<1>1. ASSUME ChatInv, L!Next PROVE ChatInv'
  BY <1>1, ChatReplies, ChatEdits, ChatTaps, ChatWork, ChatCommits, ChatWrites DEF L!Next
<1>2. ASSUME ChatInv, UNCHANGED L!vars PROVE ChatInv'
  BY <1>2 DEF ChatInv, L!TypeOK, TapOK, Losers, L!Siblings, L!Active, L!Known, L!vars
<1> QED
  BY <1>1, <1>2

LEMMA ChatInvariance == L!Spec => []ChatInv
  BY ChatStart, ChatStep, PTL DEF L!Spec

\* The siblings the reply of a confirmation names are those its commit turned to_cancel
\* (web-commands.ts), unless a row changed or ended after they were counted.
THEOREM SiblingsCounted == L!Spec => []SiblingCountTrue
<1>1. ChatInv => SiblingCountTrue
  BY DEF ChatInv, TapOK, SiblingCountTrue, L!SiblingCountTrue, L!At
<1> QED
  BY <1>1, ChatInvariance, PTL

\* The types of the chat's variables hold in every reachable state.
THEOREM ChatTypeCorrect == L!Spec => []L!TypeOK
<1>1. ChatInv => L!TypeOK
  BY DEF ChatInv
<1> QED
  BY <1>1, ChatInvariance, PTL

-----------------------------------------------------------------------------
(* What the developer is told. The hours at which a key was claimed are a   *)
(* day apart, and the next may come when the last claim has lapsed; what    *)
(* was pushed, and what is about to be, is no more than what was claimed.   *)

Times == Nat \cup {None}
Filing == {"file", "claim", "push"}

\* Where a process stands tells what it carries.
ProcOK(p) ==
  /\ R!At(p) \in {"idle", "count", "put", "beacon", "digest", "ask"} \cup Filing
  /\ R!At(p) \in {"beacon", "digest"} => proc[p].fault \in Boots
  /\ R!At(p) \in Filing =>
       /\ proc[p] = [at |-> R!At(p), todo |-> proc[p].todo]
       /\ proc[p].todo \in Seq(R!Kinds) /\ proc[p].todo # <<>>
  /\ R!At(p) = "ask" =>
       /\ p = "cron" /\ proc[p].left \in Seq(Parsers) /\ proc[p].broken \in Seq(Parsers)
       /\ proc[p] = [at |-> "ask", began |-> proc[p].began, left |-> proc[p].left,
                     broken |-> proc[p].broken]
  /\ p = "cron" => R!At(p) \in {"idle", "ask"} \cup Filing

TellTypes ==
  /\ hour \in Nat /\ Day <= hour
  /\ filed \in [R!Kinds -> Nat] /\ pushes \in [R!Keys -> Nat]
  /\ claims \in [R!Keys -> Seq(Nat)]
  /\ DOMAIN digests = Boots /\ pushed \in [R!Keys -> Times]
  /\ marker \in [started : Nat, finished : Times]
  /\ runs \in [started : Seq(Nat), finished : Seq(Nat)]
  /\ found \subseteq Parsers
  /\ DOMAIN proc = R!Procs /\ \A p \in R!Procs : ProcOK(p)

\* Hours that are d apart, the next of which may be h.
Spaced(hours, d, h) ==
  /\ hours \in Seq(Nat) /\ R!Apart(hours, d)
  /\ \A i \in DOMAIN hours : hours[i] + d <= h

Pending(k) == {p \in R!Procs : R!At(p) = "push" /\ R!PushKey(Head(proc[p].todo)) = k}
Spent(k) == pushes[k] + Cardinality(Pending(k))

PushesOK(k) ==
  /\ IsFiniteSet(Pending(k)) /\ Spent(k) <= Len(claims[k])
  /\ Spaced(claims[k], Day, IF pushed[k] = None THEN hour ELSE pushed[k])

\* A check that has begun rests for an hour, one that has ended for a day.
CheckOK ==
  /\ \/ runs.started = <<>> /\ runs.finished = <<>> /\ marker.finished = None
     \/ /\ marker.started \in Day .. hour
        /\ Spaced(runs.started, Retry, marker.started + Retry)
        /\ IF marker.finished = None THEN Spaced(runs.finished, Day, marker.started)
           ELSE /\ marker.finished = marker.started
                /\ Spaced(runs.finished, Day, marker.started + Day)
  /\ R!At("cron") = "ask" =>
       proc["cron"].began = marker.started /\ marker.finished = None /\ runs.started # <<>>

\* What is to be filed, and was not cut off, is on its way; and a parser on its way was
\* found broken.
Owed(f) == filed[f] > 0 \/ R!OnItsWay(f) \/ f \in lost
FaultsOK ==
  /\ \A b \in Boots : digests[b] # None => Owed(b)
  /\ \A f \in Parsers : f \in found => Owed(f)
  /\ \A f \in Parsers : filed[f] > 0 => f \in found
  /\ \A p \in R!Procs : R!At(p) \in Filing =>
       \A f \in R!ToSet(proc[p].todo) : f \in Parsers => f \in found

TellInv ==
  /\ TellTypes /\ CheckOK /\ FaultsOK
  /\ \A k \in R!Keys : PushesOK(k)

LEMMA TellConstants ==
  /\ Retry \in Nat \ {0} /\ Day \in Nat \ {0} /\ Retry < Day
  /\ Boots \cap Parsers = {} /\ None \notin Nat /\ "cron" \notin Clients
  /\ IsFiniteSet(R!Procs) /\ IsFiniteSet(Parsers)
  /\ R!Kinds = Boots \cup Parsers /\ R!Procs = Clients \cup {"cron"}
  /\ \A f \in R!Kinds : R!PushKey(f) \in R!Keys
<1>1. \A S : R!IsFiniteSet(S) <=> IsFiniteSet(S)
  BY DEF IsFiniteSet, R!IsFiniteSet
<1>2. IsFiniteSet(Clients) /\ IsFiniteSet(Parsers)
  BY <1>1, TellingAssumption DEF R!ReportsAssumption
<1>3. IsFiniteSet(R!Procs)
  BY <1>2, FS_AddElement DEF R!Procs
<1> QED
  BY <1>2, <1>3, TellingAssumption DEF R!ReportsAssumption, R!Procs, R!Kinds, R!PushKey, R!Keys

\* Nothing is spaced at any distance, spaced hours are so for a later one, and the
\* next is added.
LEMMA SpacedNone ==
  ASSUME NEW d \in Nat, NEW h \in Nat
  PROVE  Spaced(<<>>, d, h)
  BY DEF Spaced, R!Apart

LEMMA SpacedLater ==
  ASSUME NEW s, NEW d \in Nat, NEW g \in Nat, NEW h \in Nat, g <= h, Spaced(s, d, g)
  PROVE  Spaced(s, d, h)
<1>1. s \in Seq(Nat) /\ R!Apart(s, d) /\ DOMAIN s = 1 .. Len(s)
  BY DEF Spaced
<1>2. \A i \in DOMAIN s : s[i] \in Nat /\ s[i] + d <= g
  BY <1>1 DEF Spaced
<1>3. \A i \in DOMAIN s : s[i] + d <= h
  BY <1>2
<1> QED
  BY <1>1, <1>3 DEF Spaced

LEMMA SpacedNext ==
  ASSUME NEW s, NEW d \in Nat, NEW h \in Nat, Spaced(s, d, h)
  PROVE  Spaced(Append(s, h), d, h + d) /\ Append(s, h) \in Seq(Nat)
         /\ Len(Append(s, h)) = Len(s) + 1 /\ Append(s, h) # <<>>
<1>1. s \in Seq(Nat) /\ Len(s) \in Nat /\ DOMAIN s = 1 .. Len(s)
  BY DEF Spaced
<1>2. PICK t : t = Append(s, h)
  OBVIOUS
<1>3. /\ t \in Seq(Nat) /\ Len(t) = Len(s) + 1 /\ DOMAIN t = 1 .. Len(s) + 1
      /\ t[Len(s) + 1] = h /\ \A i \in 1 .. Len(s) : t[i] = s[i]
  BY <1>1, <1>2
<1>4. ASSUME NEW i \in 1 .. Len(s) PROVE t[i] \in Nat /\ t[i] + d <= h
  <2>1. s[i] \in Nat /\ s[i] + d <= h
    BY <1>1 DEF Spaced
  <2>2. t[i] = s[i]
    BY <1>3
  <2> QED
    BY <2>1, <2>2
<1>5. ASSUME NEW i \in DOMAIN t PROVE t[i] + d <= h + d
  <2>1. CASE i = Len(s) + 1
    BY <1>1, <1>3, <2>1
  <2>2. CASE i # Len(s) + 1
    <3>1. i \in 1 .. Len(s)
      BY <1>1, <1>3, <2>2
    <3> QED
      BY <1>4, <3>1
  <2> QED
    BY <2>1, <2>2
<1>6. ASSUME NEW i \in DOMAIN t, NEW j \in DOMAIN t, i < j PROVE t[i] + d <= t[j]
  <2>1. i \in 1 .. Len(s)
    BY <1>1, <1>3, <1>6
  <2>2. CASE j = Len(s) + 1
    BY <1>3, <1>4, <2>1, <2>2
  <2>3. CASE j # Len(s) + 1
    <3>1. j \in 1 .. Len(s) /\ t[i] = s[i] /\ t[j] = s[j]
      BY <1>1, <1>3, <2>1, <2>3
    <3>2. s[i] + d <= s[j]
      BY <1>1, <1>6, <2>1, <3>1 DEF Spaced, R!Apart
    <3> QED
      BY <3>1, <3>2
  <2> QED
    BY <2>2, <2>3
<1>7. R!Apart(t, d)
  BY <1>6 DEF R!Apart
<1>8. t # <<>>
  BY <1>1, <1>3
<1> QED
  BY <1>2, <1>3, <1>5, <1>7, <1>8 DEF Spaced

\* The head of a queue, and the rest.
LEMMA QueueParts ==
  ASSUME NEW S, NEW s \in Seq(S), s # <<>>
  PROVE  /\ Head(s) \in S /\ Tail(s) \in Seq(S) /\ Len(s) \in Nat
         /\ R!ToSet(s) = {Head(s)} \cup R!ToSet(Tail(s))
         /\ R!ToSet(s) \subseteq S
         /\ Len(s) # 1 => Tail(s) # <<>>
         /\ Len(s) = 1 => R!ToSet(Tail(s)) = {}
<1>1. /\ Len(s) \in Nat /\ Len(s) > 0 /\ DOMAIN s = 1 .. Len(s) /\ \A i \in 1 .. Len(s) : s[i] \in S
      /\ Head(s) = s[1] /\ Tail(s) \in Seq(S) /\ Len(Tail(s)) = Len(s) - 1
      /\ \A i \in 1 .. Len(s) - 1 : Tail(s)[i] = s[i + 1]
      /\ DOMAIN Tail(s) = 1 .. Len(s) - 1
  OBVIOUS
<1>2. R!ToSet(s) = {s[i] : i \in 1 .. Len(s)} /\ R!ToSet(Tail(s)) = {Tail(s)[i] : i \in 1 .. Len(s) - 1}
  BY <1>1 DEF R!ToSet
<1>3. ASSUME NEW i \in 1 .. Len(s) PROVE s[i] = Head(s) \/ s[i] \in R!ToSet(Tail(s))
  <2>1. CASE i = 1
    BY <1>1, <2>1
  <2>2. CASE i # 1
    <3>1. i - 1 \in 1 .. Len(s) - 1 /\ Tail(s)[i - 1] = s[i]
      BY <1>1, <2>2
    <3> QED
      BY <1>2, <3>1
  <2> QED
    BY <2>1, <2>2
<1>4. ASSUME NEW i \in 1 .. Len(s) - 1 PROVE Tail(s)[i] \in R!ToSet(s)
  <2>1. i + 1 \in 1 .. Len(s) /\ Tail(s)[i] = s[i + 1]
    BY <1>1
  <2> QED
    BY <1>2, <2>1
<1>5. Head(s) \in R!ToSet(s)
  BY <1>1, <1>2
<1>6. R!ToSet(s) = {Head(s)} \cup R!ToSet(Tail(s))
  BY <1>2, <1>3, <1>4, <1>5
<1>7. Len(s) # 1 => Tail(s) # <<>>
  <2>1. Len(s) # 1 => Len(Tail(s)) # 0
    BY <1>1
  <2> QED
    BY <2>1, EmptySeq
<1>8. Len(s) = 1 => R!ToSet(Tail(s)) = {}
  BY <1>1, <1>2
<1> QED
  BY <1>1, <1>2, <1>6, <1>7, <1>8

\* The parsers as a list.
LEMMA ParserList == R!SetToSeq(Parsers) \in Seq(Parsers)
<1> DEFINE n == Cardinality(Parsers)
<1>1. n \in Nat /\ ExistsBijection(1 .. n, Parsers)
  BY TellConstants, FS_CardinalityType
<1>2. \E f \in [1 .. n -> Parsers] : R!IsInjective(f)
  <2>1. PICK f \in Bijection(1 .. n, Parsers) : TRUE
    BY <1>1 DEF ExistsBijection
  <2> QED
    BY <2>1 DEF Bijection, Injection, IsInjective, R!IsInjective
<1>3. R!Cardinality(Parsers) = n
  <2>1. \A S : R!IsFiniteSet(S) <=> IsFiniteSet(S)
    BY DEF IsFiniteSet, R!IsFiniteSet
  <2> QED
    BY <2>1 DEF Cardinality, R!Cardinality
<1>4. R!SetToSeq(Parsers) \in [1 .. n -> Parsers]
  BY <1>2, <1>3 DEF R!SetToSeq
<1> QED
  BY <1>1, <1>4

\* One process moves, to a place its new record fits.
LEMMA ProcMoves ==
  ASSUME TellTypes, NEW p \in R!Procs, NEW s, R!Goto(p, s),
         s.at \in {"idle", "count", "put", "beacon", "digest", "ask"} \cup Filing,
         s.at \in {"beacon", "digest"} => s.fault \in Boots,
         s.at \in Filing => /\ s = [at |-> s.at, todo |-> s.todo]
                            /\ s.todo \in Seq(R!Kinds) /\ s.todo # <<>>,
         s.at = "ask" =>
           /\ p = "cron" /\ s.left \in Seq(Parsers) /\ s.broken \in Seq(Parsers)
           /\ s = [at |-> "ask", began |-> s.began, left |-> s.left, broken |-> s.broken],
         p = "cron" => s.at \in {"idle", "ask"} \cup Filing
  PROVE  /\ DOMAIN proc' = R!Procs /\ proc'[p] = s /\ \A o \in R!Procs \ {p} : proc'[o] = proc[o]
         /\ \A o \in R!Procs : ProcOK(o)'
<1>1. DOMAIN proc' = R!Procs /\ proc'[p] = s /\ \A o \in R!Procs \ {p} : proc'[o] = proc[o]
  BY DEF R!Goto, TellTypes
<1>2. ProcOK(p)'
  BY <1>1 DEF ProcOK, R!At
<1>3. \A o \in R!Procs \ {p} : ProcOK(o)'
  BY <1>1 DEF ProcOK, R!At, TellTypes
<1> QED
  BY <1>1, <1>2, <1>3

\* What a process at work on the list has to file, if any.
LEMMA QueueOf ==
  ASSUME TellTypes, NEW p \in R!Procs, R!At(p) \in Filing
  PROVE  /\ proc[p] = [at |-> R!At(p), todo |-> proc[p].todo]
         /\ proc[p].todo \in Seq(R!Kinds) /\ proc[p].todo # <<>>
         /\ Head(proc[p].todo) \in R!Kinds /\ R!PushKey(Head(proc[p].todo)) \in R!Keys
         /\ R!ToSet(proc[p].todo) = {Head(proc[p].todo)} \cup R!ToSet(Tail(proc[p].todo))
         /\ Tail(proc[p].todo) \in Seq(R!Kinds)
<1>1. /\ proc[p] = [at |-> R!At(p), todo |-> proc[p].todo]
      /\ proc[p].todo \in Seq(R!Kinds) /\ proc[p].todo # <<>>
  BY DEF TellTypes, ProcOK
<1> QED
  BY <1>1, QueueParts, TellConstants

\* The claims of a key that gains no pending push.
LEMMA PushRests ==
  ASSUME TellTypes, NEW k \in R!Keys, PushesOK(k), hour' \in Nat, hour <= hour',
         pushed'[k] = pushed[k], claims'[k] = claims[k], pushes'[k] = pushes[k],
         Pending(k)' \subseteq Pending(k)
  PROVE  PushesOK(k)'
<1>1. IsFiniteSet(Pending(k)') /\ Cardinality(Pending(k)') <= Cardinality(Pending(k))
      /\ Cardinality(Pending(k)') \in Nat /\ Cardinality(Pending(k)) \in Nat
  BY FS_Subset, FS_CardinalityType DEF PushesOK
<1>2. pushes[k] \in Nat /\ claims[k] \in Seq(Nat) /\ Len(claims[k]) \in Nat
  BY DEF TellTypes
<1>3. Spent(k)' <= Len(claims[k])
  BY <1>1, <1>2 DEF Spent, PushesOK
<1>4. PICK g, h : /\ g = (IF pushed[k] = None THEN hour ELSE pushed[k])
                  /\ h = (IF pushed'[k] = None THEN hour' ELSE pushed'[k])
  OBVIOUS
<1>5. g \in Nat /\ h \in Nat /\ g <= h
  BY <1>4 DEF TellTypes, Times
<1>6. Spaced(claims[k], Day, g)
  BY <1>4 DEF PushesOK
<1>7. Spaced(claims'[k], Day, h)
  <2>1. Day \in Nat
    BY TellConstants
  <2>2. Spaced(claims[k], Day, h)
    BY <1>5, <1>6, <2>1, SpacedLater
  <2> QED
    BY <2>2
<1>8. \A s, d, x : Spaced(s, d, x)' = Spaced(s, d, x)
  BY DEF Spaced, R!Apart
<1> QED
  BY <1>1, <1>3, <1>4, <1>7 DEF PushesOK, Spaced, R!Apart

LEMMA CheckKept ==
  ASSUME TellTypes, CheckOK, hour' \in Nat, hour <= hour', UNCHANGED <<marker, runs>>,
         R!At("cron")' = "ask" =>
           R!At("cron") = "ask" /\ proc'["cron"].began = proc["cron"].began
  PROVE  CheckOK'
<1>1. marker.started \in Day .. hour => marker.started \in Day .. hour'
  BY TellConstants DEF TellTypes
<1> QED
  BY <1>1 DEF CheckOK, Spaced, R!Apart

\* What is owed stays owed when a process drops nothing that is not listed or lost.
LEMMA OwedKept ==
  ASSUME NEW p \in R!Procs, \A o \in R!Procs \ {p} : proc'[o] = proc[o],
         \A f \in R!Kinds : filed[f] > 0 => filed'[f] > 0,
         lost \subseteq lost',
         \A f \in R!Unfiled(p) : f \in R!Unfiled(p)' \/ f \in lost' \/ filed'[f] > 0
  PROVE  \A f \in R!Kinds : Owed(f) => Owed(f)'
<1>1. \A o \in R!Procs \ {p} : R!Unfiled(o)' = R!Unfiled(o)
  BY DEF R!Unfiled, R!At
<1>2. ASSUME NEW f \in R!Kinds, R!OnItsWay(f) PROVE Owed(f)'
  <2>1. PICK o \in R!Procs : f \in R!Unfiled(o)
    BY <1>2 DEF R!OnItsWay
  <2>2. CASE o = p
    BY <2>1, <2>2 DEF Owed, R!OnItsWay
  <2>3. CASE o # p
    <3>1. f \in R!Unfiled(o)'
      BY <1>1, <2>1, <2>3
    <3> QED
      BY <3>1 DEF Owed, R!OnItsWay
  <2> QED
    BY <2>2, <2>3
<1> QED
  BY <1>2 DEF Owed

\* A step of a process that does not file, before and after, and leaves the lists.
LEMMA QuietKeeps ==
  ASSUME TellInv, NEW p \in R!Procs, NEW s, R!Goto(p, s),
         R!At(p) \notin Filing, s.at \notin Filing,
         s.at \in {"idle", "count", "put", "beacon", "digest", "ask"},
         s.at \in {"beacon", "digest"} => s.fault \in Boots,
         s.at = "ask" =>
           /\ p = "cron" /\ s.left \in Seq(Parsers) /\ s.broken \in Seq(Parsers)
           /\ s = [at |-> "ask", began |-> s.began, left |-> s.left, broken |-> s.broken]
           /\ R!At("cron") = "ask" /\ s.began = proc["cron"].began,
         p = "cron" => s.at \in {"idle", "ask"},
         UNCHANGED <<hour, filed, digests, pushed, marker, claims, pushes, runs, found, lost>>
  PROVE  TellInv'
<1>1. /\ DOMAIN proc' = R!Procs /\ proc'[p] = s /\ \A o \in R!Procs \ {p} : proc'[o] = proc[o]
      /\ \A o \in R!Procs : ProcOK(o)'
  BY ProcMoves DEF TellInv
<1>2. TellTypes'
  BY <1>1 DEF TellInv, TellTypes
<1>3. CheckOK'
  <2>1. R!At("cron")' = "ask" => R!At("cron") = "ask" /\ proc'["cron"].began = proc["cron"].began
    BY <1>1, TellConstants DEF R!At
  <2> QED
    BY <2>1, CheckKept DEF TellInv, TellTypes
<1>4. \A k \in R!Keys : PushesOK(k)'
  <2>1. \A k \in R!Keys : Pending(k)' \subseteq Pending(k)
    BY <1>1 DEF Pending, R!At, Filing
  <2>2. UNCHANGED <<hour, pushed, claims, pushes>> /\ hour \in Nat /\ hour <= hour
    BY DEF TellInv, TellTypes
  <2>3. TellTypes /\ \A k \in R!Keys : PushesOK(k)
    BY DEF TellInv
  <2> QED
    BY <2>1, <2>2, <2>3, PushRests
<1>5. FaultsOK'
  <2>1. R!Unfiled(p) = {}
    BY DEF R!Unfiled, Filing
  <2>2. \A f \in R!Kinds : Owed(f) => Owed(f)'
    BY <1>1, <2>1, OwedKept
  <2>3. \A o \in R!Procs : R!At(o)' \in Filing => R!At(o) \in Filing /\ proc'[o] = proc[o]
    BY <1>1 DEF R!At
  <2> QED
    BY <2>2, <2>3, TellConstants DEF TellInv, FaultsOK
<1> QED
  BY <1>2, <1>3, <1>4, <1>5 DEF TellInv

\* The steps of a request before it has anything to file.
LEMMA TellRequests ==
  ASSUME TellInv, NEW c \in Clients,
         \/ \E w \in Writers : R!Submit(c, w)
         \/ \E b \in Boots : R!Beacon(c, b)
         \/ R!CountReport(c) \/ R!PutReport(c) \/ R!CountBeacon(c)
  PROVE  TellInv'
<1>1. c \in R!Procs /\ c # "cron"
  BY TellConstants
<1>2. ASSUME NEW w \in Writers, R!Submit(c, w) PROVE TellInv'
  <2>1. PICK s : /\ R!Goto(c, s) /\ s.at \in {"idle", "count"} /\ R!At(c) = "idle"
    BY <1>2 DEF R!Submit, R!Begin, R!Idle
  <2>2. UNCHANGED <<hour, filed, digests, pushed, marker, claims, pushes, runs, found, lost>>
    BY <1>2 DEF R!Submit, R!lists, R!history
  <2> QED
    BY <1>1, <2>1, <2>2, QuietKeeps DEF Filing
<1>3. ASSUME NEW b \in Boots, R!Beacon(c, b) PROVE TellInv'
  <2>1. PICK s : /\ R!Goto(c, s) /\ s.at \in {"idle", "beacon"} /\ R!At(c) = "idle"
                 /\ s.at = "beacon" => s.fault = b
    BY <1>3 DEF R!Beacon, R!Begin, R!Idle
  <2>2. UNCHANGED <<hour, filed, digests, pushed, marker, claims, pushes, runs, found, lost>>
    BY <1>3 DEF R!Beacon, R!lists, R!history
  <2> QED
    BY <1>1, <2>1, <2>2, QuietKeeps DEF Filing
<1>4. CASE R!CountReport(c)
  <2>1. PICK s : R!Goto(c, s) /\ s.at = "put" /\ R!At(c) = "count"
    BY <1>4 DEF R!CountReport
  <2>2. UNCHANGED <<hour, filed, digests, pushed, marker, claims, pushes, runs, found, lost>>
    BY <1>4 DEF R!CountReport, R!history
  <2> QED
    BY <1>1, <2>1, <2>2, QuietKeeps DEF Filing
<1>5. CASE R!PutReport(c)
  <2>1. PICK s : R!Goto(c, s) /\ s.at = "idle" /\ R!At(c) = "put"
    BY <1>5 DEF R!PutReport, R!Idle
  <2>2. UNCHANGED <<hour, filed, digests, pushed, marker, claims, pushes, runs, found, lost>>
    BY <1>5 DEF R!PutReport, R!history
  <2> QED
    BY <1>1, <2>1, <2>2, QuietKeeps DEF Filing
<1>6. CASE R!CountBeacon(c)
  <2>1. proc[c].fault \in Boots
    BY <1>1, <1>6 DEF R!CountBeacon, TellInv, TellTypes, ProcOK
  <2>2. PICK s : R!Goto(c, s) /\ s.at = "digest" /\ s.fault \in Boots /\ R!At(c) = "beacon"
    BY <1>6, <2>1 DEF R!CountBeacon
  <2>3. UNCHANGED <<hour, filed, digests, pushed, marker, claims, pushes, runs, found, lost>>
    BY <1>6 DEF R!CountBeacon, R!history
  <2> QED
    BY <1>1, <2>2, <2>3, QuietKeeps DEF Filing
<1> QED
  BY <1>2, <1>3, <1>4, <1>5, <1>6

\* The parsers are asked, and what came back is noted.
LEMMA TellAsk ==
  ASSUME TellInv, R!Ask
  PROVE  TellInv'
<1> DEFINE r == proc["cron"]
<1>1. "cron" \in R!Procs /\ R!At("cron") = "ask"
  BY TellConstants DEF R!Ask
<1>2. /\ r.left \in Seq(Parsers) /\ r.broken \in Seq(Parsers) /\ r.left # <<>>
      /\ r = [at |-> "ask", began |-> r.began, left |-> r.left, broken |-> r.broken]
  BY <1>1 DEF TellInv, TellTypes, ProcOK, R!Ask
<1>3. PICK answer \in R!Findings :
        R!Goto("cron", [r EXCEPT !.left = Tail(@),
          !.broken = IF R!Structural(answer) THEN Append(@, Head(r.left)) ELSE @])
  BY Zenon DEF R!Ask
<1> DEFINE s == [r EXCEPT !.left = Tail(@),
                  !.broken = IF R!Structural(answer) THEN Append(@, Head(r.left)) ELSE @]
<1>4. PICK t, u : /\ t = Tail(r.left)
                  /\ u = IF R!Structural(answer) THEN Append(r.broken, Head(r.left)) ELSE r.broken
  OBVIOUS
<1>5. t \in Seq(Parsers) /\ u \in Seq(Parsers)
  <2>1. Tail(r.left) \in Seq(Parsers) /\ Head(r.left) \in Parsers
    BY <1>2, QueueParts
  <2>2. Append(r.broken, Head(r.left)) \in Seq(Parsers)
    BY <1>2, <2>1
  <2> QED
    BY <1>2, <1>4, <2>1, <2>2
<1>6. /\ s.at = "ask" /\ s.began = r.began /\ s.left \in Seq(Parsers) /\ s.broken \in Seq(Parsers)
      /\ s = [at |-> "ask", began |-> s.began, left |-> s.left, broken |-> s.broken]
  <2>1. s = [[r EXCEPT !.left = t] EXCEPT !.broken = u]
    BY Zenon, <1>4
  <2>2. PICK b, l, k : b = r.began /\ l = r.left /\ k = r.broken
    OBVIOUS
  <2>3. r = [at |-> "ask", began |-> b, left |-> l, broken |-> k]
    BY Zenon, <1>2, <2>2
  <2>4. [[[at |-> "ask", began |-> b, left |-> l, broken |-> k] EXCEPT !.left = t]
            EXCEPT !.broken = u]
          = [at |-> "ask", began |-> b, left |-> t, broken |-> u]
    <3>1. [[at |-> "ask", began |-> b, left |-> l, broken |-> k] EXCEPT !.left = t]
            = [at |-> "ask", began |-> b, left |-> t, broken |-> k]
      OBVIOUS
    <3>2. [[at |-> "ask", began |-> b, left |-> t, broken |-> k] EXCEPT !.broken = u]
            = [at |-> "ask", began |-> b, left |-> t, broken |-> u]
      OBVIOUS
    <3> QED
      BY Zenon, <3>1, <3>2
  <2>5. s = [at |-> "ask", began |-> b, left |-> t, broken |-> u]
    BY Zenon, <2>1, <2>3, <2>4
  <2>6. \A x : x = [at |-> "ask", began |-> b, left |-> t, broken |-> u] =>
          x.at = "ask" /\ x.began = b /\ x.left = t /\ x.broken = u
    OBVIOUS
  <2>7. s.at = "ask" /\ s.began = b /\ s.left = t /\ s.broken = u
    BY Zenon, <2>5, <2>6
  <2> QED
    BY Zenon, <1>5, <2>2, <2>5, <2>7
<1>7. UNCHANGED <<hour, filed, digests, pushed, marker, claims, pushes, runs, found, lost>>
  BY DEF R!Ask, R!lists, R!history
<1>8. R!Goto("cron", s)
  BY <1>3
<1> HIDE DEF s
<1> QED
  BY <1>1, <1>6, <1>7, <1>8, QuietKeeps DEF Filing

\* The faults of the others, and what is on its way, when a process goes on in its queue.
LEMMA FaultsRest ==
  ASSUME TellTypes, FaultsOK, NEW p \in R!Procs, \A o \in R!Procs \ {p} : proc'[o] = proc[o],
         UNCHANGED <<filed, digests, found>>, lost \subseteq lost',
         \A f \in R!Unfiled(p) : f \in R!Unfiled(p)' \/ f \in lost',
         R!At(p)' \in Filing =>
           R!At(p) \in Filing /\ R!ToSet(proc'[p].todo) \subseteq R!ToSet(proc[p].todo)
  PROVE  FaultsOK'
<1>1. \A f \in R!Kinds : Owed(f) => Owed(f)'
  BY OwedKept
<1>2. ASSUME NEW o \in R!Procs, R!At(o)' \in Filing
      PROVE  R!At(o) \in Filing /\ R!ToSet(proc'[o].todo) \subseteq R!ToSet(proc[o].todo)
  <2>1. CASE o = p
    BY <1>2, <2>1
  <2>2. CASE o # p
    BY <1>2, <2>2 DEF R!At
  <2> QED
    BY <2>1, <2>2
<1>3. \A o \in R!Procs : R!At(o)' \in Filing =>
        \A f \in R!ToSet(proc'[o].todo) : f \in Parsers => f \in found
  BY <1>2 DEF FaultsOK
<1>4. /\ \A b \in Boots : digests[b] # None => Owed(b)'
      /\ \A f \in Parsers : f \in found => Owed(f)'
      /\ \A f \in Parsers : filed[f] > 0 => f \in found
  BY <1>1, TellConstants DEF FaultsOK
<1>5. \A S : R!ToSet(S)' = R!ToSet(S)
  BY DEF R!ToSet
<1>6. \A o \in R!Procs : (R!At(o) \in Filing)' =>
        \A f \in R!ToSet(proc'[o].todo) : f \in Parsers => f \in found
  BY <1>3
<1> QED
  BY <1>4, <1>6 DEF FaultsOK

\* The end of a fault: the next in the queue, or nothing more to do.
LEMMA DoneGoes ==
  ASSUME TellTypes, NEW p \in R!Procs, R!At(p) \in {"claim", "push"}, R!Done(p)
  PROVE  /\ DOMAIN proc' = R!Procs /\ \A o \in R!Procs \ {p} : proc'[o] = proc[o]
         /\ \A o \in R!Procs : ProcOK(o)'
         /\ R!At(p)' \in {"idle", "file"}
         /\ R!Unfiled(p)' = R!Unfiled(p)
         /\ R!At(p)' = "file" => R!ToSet(proc'[p].todo) \subseteq R!ToSet(proc[p].todo)
<1>1. /\ proc[p] = [at |-> R!At(p), todo |-> proc[p].todo] /\ R!At(p) \in Filing
      /\ proc[p].todo \in Seq(R!Kinds) /\ proc[p].todo # <<>>
      /\ R!ToSet(proc[p].todo) = {Head(proc[p].todo)} \cup R!ToSet(Tail(proc[p].todo))
      /\ Tail(proc[p].todo) \in Seq(R!Kinds)
  BY QueueOf DEF Filing
<1>2. PICK q, a : q = proc[p].todo /\ a = R!At(p)
  OBVIOUS
<1>3. R!Unfiled(p) = R!ToSet(Tail(q))
  BY <1>2 DEF R!Unfiled
<1>4. CASE Len(q) = 1
  <2>1. R!Goto(p, R!Idle)
    BY <1>2, <1>4 DEF R!Done
  <2>2. R!Idle.at = "idle"
    BY DEF R!Idle
  <2>3. /\ DOMAIN proc' = R!Procs /\ proc'[p] = R!Idle /\ \A o \in R!Procs \ {p} : proc'[o] = proc[o]
        /\ \A o \in R!Procs : ProcOK(o)'
    BY <2>1, <2>2, ProcMoves DEF Filing
  <2>4. R!At(p)' = "idle"
    BY <2>2, <2>3 DEF R!At
  <2>5. R!ToSet(Tail(q)) = {}
    BY <1>1, <1>2, <1>4, QueueParts
  <2>6. R!Unfiled(p)' = {}
    BY <2>4 DEF R!Unfiled
  <2> QED
    BY <1>3, <2>3, <2>4, <2>5, <2>6
<1>5. CASE Len(q) # 1
  <2>1. PICK t : t = Tail(q)
    OBVIOUS
  <2>2. PICK s : s = [at |-> "file", todo |-> t]
    OBVIOUS
  <2>3. R!Goto(p, s)
    <3>1. R!Goto(p, R!Next1(p))
      BY <1>2, <1>5 DEF R!Done
    <3>2. R!Next1(p) = [[proc[p] EXCEPT !.todo = t] EXCEPT !.at = "file"]
      BY <1>2, <1>5, <2>1 DEF R!Next1
    <3>3. [[at |-> a, todo |-> q] EXCEPT !.todo = t] = [at |-> a, todo |-> t]
      OBVIOUS
    <3>4. [[at |-> a, todo |-> t] EXCEPT !.at = "file"] = [at |-> "file", todo |-> t]
      OBVIOUS
    <3>5. proc[p] = [at |-> a, todo |-> q]
      BY Zenon, <1>1, <1>2
    <3>6. R!Next1(p) = s
      BY Zenon, <2>2, <3>2, <3>3, <3>4, <3>5
    <3> QED
      BY <3>1, <3>6
  <2>4. s.at = "file" /\ s.todo = t
    BY <2>2
  <2>5. t \in Seq(R!Kinds) /\ t # <<>>
    BY <1>1, <1>2, <1>5, <2>1, QueueParts
  <2>6. /\ DOMAIN proc' = R!Procs /\ proc'[p] = s /\ \A o \in R!Procs \ {p} : proc'[o] = proc[o]
        /\ \A o \in R!Procs : ProcOK(o)'
    BY <2>2, <2>3, <2>4, <2>5, ProcMoves DEF Filing
  <2>7. R!At(p)' = "file" /\ proc'[p].todo = t
    BY <2>4, <2>6 DEF R!At
  <2>8. R!Unfiled(p)' = R!ToSet(t)
    BY <2>7 DEF R!Unfiled, R!ToSet
  <2> QED
    BY <1>1, <1>2, <1>3, <2>1, <2>6, <2>7, <2>8
<1> QED
  BY <1>4, <1>5

\* A digest is claimed: its fault is to be filed.
LEMMA TellDigest ==
  ASSUME TellInv, NEW c \in Clients, R!ClaimDigest(c)
  PROVE  TellInv'
<1>1. c \in R!Procs /\ c # "cron" /\ R!At(c) = "digest" /\ R!At(c) \notin Filing
  BY TellConstants DEF R!ClaimDigest, Filing
<1>2. PICK b : b = proc[c].fault
  OBVIOUS
<1>3. b \in Boots
  BY <1>1, <1>2 DEF TellInv, TellTypes, ProcOK
<1>4. CASE digests[b] # None
  <2>1. R!Goto(c, R!Idle) /\ UNCHANGED digests
    BY <1>2, <1>4 DEF R!ClaimDigest
  <2>2. R!Idle.at = "idle"
    BY DEF R!Idle
  <2>3. UNCHANGED <<hour, filed, digests, pushed, marker, claims, pushes, runs, found, lost>>
    BY <2>1 DEF R!ClaimDigest, R!history
  <2> QED
    BY <1>1, <2>1, <2>2, <2>3, QuietKeeps DEF Filing
<1>5. CASE digests[b] = None
  <2>1. /\ digests' = [digests EXCEPT ![b] = hour + Day]
        /\ R!Goto(c, [at |-> "file", todo |-> <<b>>])
        /\ UNCHANGED <<hour, filed, pushed, marker, claims, pushes, runs, found, lost>>
    BY <1>2, <1>5 DEF R!ClaimDigest, R!history
  <2>2. PICK s : s = [at |-> "file", todo |-> <<b>>]
    OBVIOUS
  <2>3. s.at = "file" /\ s.todo = <<b>>
    BY <2>2
  <2>4. <<b>> \in Seq(R!Kinds) /\ <<b>> # <<>> /\ R!ToSet(<<b>>) = {b}
    BY <1>3, TellConstants DEF R!ToSet
  <2>5. /\ DOMAIN proc' = R!Procs /\ proc'[c] = s /\ \A o \in R!Procs \ {c} : proc'[o] = proc[o]
        /\ \A o \in R!Procs : ProcOK(o)'
    BY <1>1, <2>1, <2>2, <2>3, <2>4, ProcMoves DEF Filing, TellInv
  <2>6. TellTypes'
    BY <2>1, <2>5 DEF TellInv, TellTypes
  <2>7. CheckOK'
    <3>1. R!At("cron")' = "ask" => R!At("cron") = "ask" /\ proc'["cron"].began = proc["cron"].began
      BY <1>1, <2>5, TellConstants DEF R!At
    <3> QED
      BY <2>1, <3>1, CheckKept DEF TellInv, TellTypes
  <2>8. \A k \in R!Keys : PushesOK(k)'
    <3>1. \A k \in R!Keys : Pending(k)' \subseteq Pending(k)
      BY <2>3, <2>5 DEF Pending, R!At
    <3> QED
      BY <2>1, <3>1, PushRests DEF TellInv, TellTypes
  <2>9. FaultsOK'
    <3>1. R!Unfiled(c) = {} /\ R!Unfiled(c)' = {b}
      BY <1>1, <2>3, <2>4, <2>5 DEF R!Unfiled, R!At, R!ToSet
    <3>2. \A f \in R!Kinds : Owed(f) => Owed(f)'
      BY <1>1, <2>1, <2>5, <3>1, OwedKept
    <3>3. Owed(b)'
      BY <1>1, <3>1 DEF Owed, R!OnItsWay
    <3>4. \A x \in Boots : digests'[x] # None => Owed(x)'
      <4>1. \A x \in Boots \ {b} : digests'[x] = digests[x]
        BY <2>1
      <4> QED
        BY <3>2, <3>3, <4>1, TellConstants DEF TellInv, FaultsOK
    <3>5. \A f \in Parsers : f \in found => Owed(f)'
      BY <3>2, TellConstants DEF TellInv, FaultsOK
    <3>6. ASSUME NEW o \in R!Procs, R!At(o)' \in Filing, NEW f \in R!ToSet(proc'[o].todo), f \in Parsers
          PROVE  f \in found
      <4>1. CASE o = c
        BY <1>3, <2>3, <2>4, <2>5, <3>6, <4>1, TellConstants
      <4>2. CASE o # c
        <5>1. R!At(o) \in Filing /\ proc'[o] = proc[o]
          BY <2>5, <3>6, <4>2 DEF R!At
        <5> QED
          BY <3>6, <5>1 DEF TellInv, FaultsOK
      <4> QED
        BY <4>1, <4>2
    <3>7. \A o \in R!Procs : (R!At(o) \in Filing)' =>
            \A f \in R!ToSet(proc'[o].todo) : f \in Parsers => f \in found
      BY <3>6
    <3>8. \A S : R!ToSet(S)' = R!ToSet(S)
      BY DEF R!ToSet
    <3>9. \A f \in Parsers : filed[f] > 0 => f \in found
      BY DEF TellInv, FaultsOK
    <3> QED
      BY <2>1, <3>4, <3>5, <3>7, <3>8, <3>9 DEF FaultsOK
  <2> QED
    BY <2>6, <2>7, <2>8, <2>9 DEF TellInv
<1> QED
  BY <1>4, <1>5

\* A fault is put in the list.
LEMMA TellFile ==
  ASSUME TellInv, NEW p \in R!Procs, R!File(p)
  PROVE  TellInv'
<1>1. R!At(p) = "file" /\ R!At(p) \in Filing
  BY DEF R!File, Filing
<1>2. /\ proc[p] = [at |-> R!At(p), todo |-> proc[p].todo]
      /\ proc[p].todo \in Seq(R!Kinds) /\ proc[p].todo # <<>> /\ Head(proc[p].todo) \in R!Kinds
      /\ R!ToSet(proc[p].todo) = {Head(proc[p].todo)} \cup R!ToSet(Tail(proc[p].todo))
  BY <1>1, QueueOf DEF TellInv
<1>3. PICK q, h : q = proc[p].todo /\ h = Head(q)
  OBVIOUS
<1>4. /\ filed' = [filed EXCEPT ![h] = @ + 1]
      /\ UNCHANGED <<hour, digests, pushed, marker, claims, pushes, runs, found, lost>>
  BY <1>3 DEF R!File, R!history
<1>5. PICK s : s = [at |-> "claim", todo |-> q]
  OBVIOUS
<1>6. s.at = "claim" /\ s.todo = q
  BY <1>5
<1>7. R!Goto(p, s)
  <2>1. proc[p] = [at |-> "file", todo |-> q]
    BY Zenon, <1>1, <1>2, <1>3
  <2>2. [[at |-> "file", todo |-> q] EXCEPT !.at = "claim"] = [at |-> "claim", todo |-> q]
    OBVIOUS
  <2>3. R!Goto(p, [proc[p] EXCEPT !.at = "claim"])
    BY DEF R!File
  <2> QED
    BY Zenon, <1>5, <2>1, <2>2, <2>3
<1>8. /\ DOMAIN proc' = R!Procs /\ proc'[p] = s /\ \A o \in R!Procs \ {p} : proc'[o] = proc[o]
      /\ \A o \in R!Procs : ProcOK(o)'
  BY <1>2, <1>3, <1>5, <1>6, <1>7, ProcMoves DEF Filing, TellInv
<1>9. h \in R!Kinds /\ filed'[h] > 0 /\ (\A f \in R!Kinds \ {h} : filed'[f] = filed[f])
      /\ filed' \in [R!Kinds -> Nat]
  BY <1>2, <1>3, <1>4 DEF TellInv, TellTypes
<1>10. TellTypes'
  BY <1>4, <1>8, <1>9 DEF TellInv, TellTypes
<1>11. CheckOK'
  <2>1. R!At("cron")' = "ask" => R!At("cron") = "ask" /\ proc'["cron"].began = proc["cron"].began
    BY <1>6, <1>8, TellConstants DEF R!At
  <2> QED
    BY <1>4, <2>1, CheckKept DEF TellInv, TellTypes
<1>12. \A k \in R!Keys : PushesOK(k)'
  <2>1. \A k \in R!Keys : Pending(k)' \subseteq Pending(k)
    BY <1>6, <1>8 DEF Pending, R!At
  <2> QED
    BY <1>4, <2>1, PushRests DEF TellInv, TellTypes
<1>13. FaultsOK'
  <2>1. R!Unfiled(p) = {h} \cup R!ToSet(Tail(q)) /\ R!Unfiled(p)' = R!ToSet(Tail(q))
    <3>1. R!At(p)' = "claim" /\ proc'[p].todo = q
      BY <1>6, <1>8 DEF R!At
    <3>2. R!Unfiled(p)' = R!ToSet(Tail(q))
      BY <3>1 DEF R!Unfiled, R!ToSet
    <3>3. R!Unfiled(p) = R!ToSet(q)
      BY <1>1, <1>3 DEF R!Unfiled
    <3> QED
      BY <1>2, <1>3, <3>2, <3>3
  <2>2. \A f \in R!Kinds : Owed(f) => Owed(f)'
    <3>1. \A f \in R!Kinds : filed[f] > 0 => filed'[f] > 0
      BY <1>9
    <3> QED
      BY <1>4, <1>8, <1>9, <2>1, <3>1, OwedKept
  <2>3. h \in Parsers => h \in found
    BY <1>1, <1>2, <1>3 DEF TellInv, FaultsOK
  <2>4. \A f \in Parsers : filed'[f] > 0 => f \in found
    BY <1>9, <2>3, TellConstants DEF TellInv, FaultsOK
  <2>5. ASSUME NEW o \in R!Procs, R!At(o)' \in Filing PROVE R!At(o) \in Filing /\ proc'[o].todo = proc[o].todo
    <3>1. CASE o = p
      BY <1>1, <1>3, <1>6, <1>8, <3>1
    <3>2. CASE o # p
      BY <1>8, <2>5, <3>2 DEF R!At
    <3> QED
      BY <3>1, <3>2
  <2>6. \A o \in R!Procs : (R!At(o) \in Filing)' =>
            \A f \in R!ToSet(proc'[o].todo) : f \in Parsers => f \in found
    BY <2>5 DEF TellInv, FaultsOK
  <2>7. \A S : R!ToSet(S)' = R!ToSet(S)
    BY DEF R!ToSet
  <2> QED
    BY <1>4, <2>2, <2>4, <2>6, <2>7, TellConstants DEF TellInv, FaultsOK
<1> QED
  BY <1>10, <1>11, <1>12, <1>13 DEF TellInv

\* The day of a push key is claimed, once; or it was, and the fault is done.
LEMMA TellClaim ==
  ASSUME TellInv, NEW p \in R!Procs, R!ClaimDay(p)
  PROVE  TellInv'
<1>1. R!At(p) = "claim" /\ R!At(p) \in Filing
  BY DEF R!ClaimDay, Filing
<1>2. /\ proc[p] = [at |-> R!At(p), todo |-> proc[p].todo]
      /\ proc[p].todo \in Seq(R!Kinds) /\ proc[p].todo # <<>>
      /\ R!PushKey(Head(proc[p].todo)) \in R!Keys
  BY <1>1, QueueOf DEF TellInv
<1>3. PICK q, k : q = proc[p].todo /\ k = R!PushKey(Head(q))
  OBVIOUS
<1>4. UNCHANGED <<hour, filed, digests, marker, pushes, runs, found, lost>>
  BY DEF R!ClaimDay
<1>5. CASE pushed[k] # None
  <2>1. R!Done(p) /\ UNCHANGED <<pushed, claims>>
    BY <1>3, <1>5 DEF R!ClaimDay
  <2>2. /\ DOMAIN proc' = R!Procs /\ \A o \in R!Procs \ {p} : proc'[o] = proc[o]
        /\ \A o \in R!Procs : ProcOK(o)'
        /\ R!At(p)' \in {"idle", "file"}
        /\ R!Unfiled(p)' = R!Unfiled(p)
        /\ R!At(p)' = "file" => R!ToSet(proc'[p].todo) \subseteq R!ToSet(proc[p].todo)
    BY <1>1, <2>1, DoneGoes DEF TellInv
  <2>3. TellTypes'
    BY <1>4, <2>1, <2>2 DEF TellInv, TellTypes
  <2>4. CheckOK'
    <3>1. R!At("cron")' = "ask" => R!At("cron") = "ask" /\ proc'["cron"].began = proc["cron"].began
      BY <2>2, TellConstants DEF R!At
    <3> QED
      BY <1>4, <3>1, CheckKept DEF TellInv, TellTypes
  <2>5. \A l \in R!Keys : PushesOK(l)'
    <3>1. \A l \in R!Keys : Pending(l)' \subseteq Pending(l)
      BY <2>2 DEF Pending, R!At
    <3>2. UNCHANGED <<hour, pushed, claims, pushes>> /\ hour \in Nat /\ hour <= hour
      BY <1>4, <2>1 DEF TellInv, TellTypes
    <3>3. TellTypes /\ \A l \in R!Keys : PushesOK(l)
      BY DEF TellInv
    <3> QED
      BY <3>1, <3>2, <3>3, PushRests
  <2>6. FaultsOK'
    BY <1>1, <1>4, <2>2, FaultsRest DEF TellInv, Filing
  <2> QED
    BY <2>3, <2>4, <2>5, <2>6 DEF TellInv
<1>6. CASE pushed[k] = None
  <2>1. /\ pushed' = [pushed EXCEPT ![k] = hour + Day]
        /\ claims' = [claims EXCEPT ![k] = Append(@, hour)]
        /\ R!Goto(p, [proc[p] EXCEPT !.at = "push"])
    BY <1>3, <1>6 DEF R!ClaimDay
  <2>2. PICK s : s = [at |-> "push", todo |-> q]
    OBVIOUS
  <2>3. s.at = "push" /\ s.todo = q
    BY <2>2
  <2>4. R!Goto(p, s)
    <3>1. proc[p] = [at |-> "claim", todo |-> q]
      BY Zenon, <1>1, <1>2, <1>3
    <3>2. [[at |-> "claim", todo |-> q] EXCEPT !.at = "push"] = [at |-> "push", todo |-> q]
      OBVIOUS
    <3> QED
      BY Zenon, <2>1, <2>2, <3>1, <3>2
  <2>5. /\ DOMAIN proc' = R!Procs /\ proc'[p] = s /\ \A o \in R!Procs \ {p} : proc'[o] = proc[o]
        /\ \A o \in R!Procs : ProcOK(o)'
    BY <1>2, <1>3, <2>2, <2>3, <2>4, ProcMoves DEF Filing, TellInv
  <2>6. /\ hour \in Nat /\ Day \in Nat /\ hour + Day \in Nat /\ k \in R!Keys
        /\ pushed' \in [R!Keys -> Times] /\ pushed'[k] = hour + Day /\ hour + Day # None
        /\ \A l \in R!Keys \ {k} : pushed'[l] = pushed[l]
    BY <1>2, <1>3, <2>1, TellConstants DEF TellInv, TellTypes, Times
  <2>12. /\ Spaced(Append(claims[k], hour), Day, hour + Day) /\ Len(claims[k]) \in Nat
         /\ Append(claims[k], hour) \in Seq(Nat) /\ Len(Append(claims[k], hour)) = Len(claims[k]) + 1
    <3>1. Spaced(claims[k], Day, hour)
      BY <1>6, <2>6 DEF TellInv, PushesOK
    <3>2. claims[k] \in Seq(Nat)
      BY <3>1 DEF Spaced
    <3> QED
      BY <2>6, <3>1, <3>2, SpacedNext
  <2>13. /\ claims'[k] = Append(claims[k], hour) /\ claims' \in [R!Keys -> Seq(Nat)]
         /\ \A l \in R!Keys \ {k} : claims'[l] = claims[l]
    <3>1. claims \in [R!Keys -> Seq(Nat)]
      BY DEF TellInv, TellTypes
    <3> QED
      BY <2>1, <2>6, <2>12, <3>1
  <2>7. TellTypes'
    BY <1>4, <2>5, <2>6, <2>13 DEF TellInv, TellTypes
  <2>8. CheckOK'
    <3>1. R!At("cron")' = "ask" => R!At("cron") = "ask" /\ proc'["cron"].began = proc["cron"].began
      BY <2>3, <2>5, TellConstants DEF R!At
    <3> QED
      BY <1>4, <3>1, CheckKept DEF TellInv, TellTypes
  <2>9. PushesOK(k)'
    <3>1. p \notin Pending(k)
      BY <1>1 DEF Pending
    <3>2. Pending(k)' \subseteq Pending(k) \cup {p}
      BY <2>5 DEF Pending, R!At
    <3>3. /\ IsFiniteSet(Pending(k)) /\ Cardinality(Pending(k)) \in Nat
          /\ pushes[k] + Cardinality(Pending(k)) <= Len(claims[k])
      BY <2>6, FS_CardinalityType DEF TellInv, PushesOK, Spent
    <3>4. /\ IsFiniteSet(Pending(k) \cup {p})
          /\ Cardinality(Pending(k) \cup {p}) = Cardinality(Pending(k)) + 1
      BY <3>1, <3>3, FS_AddElement
    <3>5. /\ IsFiniteSet(Pending(k)') /\ Cardinality(Pending(k)') \in Nat
          /\ Cardinality(Pending(k)') <= Cardinality(Pending(k)) + 1
      BY <3>2, <3>4, FS_Subset, FS_CardinalityType
    <3>6. pushes[k] \in Nat
      BY <2>6 DEF TellInv, TellTypes
    <3>7. pushes[k] + Cardinality(Pending(k)') <= Len(claims'[k])
      BY <2>12, <2>13, <3>3, <3>5, <3>6
    <3>8. pushes'[k] = pushes[k] /\ pushed'[k] = hour + Day /\ pushed'[k] # None
      BY <1>4, <2>6
    <3>9. Spaced(claims'[k], Day, pushed'[k])
      BY Zenon, <2>12, <2>13, <3>8
    <3> QED
      BY <3>5, <3>7, <3>8, <3>9 DEF PushesOK, Spent, Spaced, R!Apart
  <2>10. \A l \in R!Keys \ {k} : PushesOK(l)'
    <3>1. \A l \in R!Keys \ {k} : Pending(l)' \subseteq Pending(l)
      BY <1>3, <2>3, <2>5 DEF Pending, R!At
    <3> QED
      BY <1>4, <2>6, <2>13, <3>1, PushRests DEF TellInv, TellTypes
  <2>11. FaultsOK'
    <3>1. R!At(p)' = "push" /\ proc'[p].todo = q
      BY <2>3, <2>5 DEF R!At
    <3>2. R!Unfiled(p)' = R!ToSet(Tail(q)) /\ R!Unfiled(p) = R!ToSet(Tail(q))
      BY <1>1, <1>3, <3>1 DEF R!Unfiled, R!ToSet
    <3> QED
      BY <1>1, <1>3, <1>4, <2>5, <3>1, <3>2, FaultsRest DEF TellInv
  <2> QED
    BY <2>7, <2>8, <2>9, <2>10, <2>11 DEF TellInv
<1> QED
  BY <1>5, <1>6

\* The push, which is not repeated.
LEMMA TellPush ==
  ASSUME TellInv, NEW p \in R!Procs, R!Push(p)
  PROVE  TellInv'
<1>1. R!At(p) = "push" /\ R!At(p) \in Filing /\ R!Done(p)
  BY DEF R!Push, Filing
<1>2. PICK k : k = R!PushKey(Head(proc[p].todo))
  OBVIOUS
<1>3. k \in R!Keys
  BY <1>1, <1>2, QueueOf DEF TellInv
<1>4. /\ pushes' = [pushes EXCEPT ![k] = @ + 1]
      /\ UNCHANGED <<hour, filed, digests, pushed, marker, claims, runs, found, lost>>
  BY <1>2 DEF R!Push, R!lists
<1>5. /\ DOMAIN proc' = R!Procs /\ \A o \in R!Procs \ {p} : proc'[o] = proc[o]
      /\ \A o \in R!Procs : ProcOK(o)'
      /\ R!At(p)' \in {"idle", "file"}
      /\ R!Unfiled(p)' = R!Unfiled(p)
      /\ R!At(p)' = "file" => R!ToSet(proc'[p].todo) \subseteq R!ToSet(proc[p].todo)
  BY <1>1, DoneGoes DEF TellInv
<1>6. /\ pushes' \in [R!Keys -> Nat] /\ pushes[k] \in Nat /\ pushes'[k] = pushes[k] + 1
      /\ \A l \in R!Keys \ {k} : pushes'[l] = pushes[l]
  BY <1>3, <1>4 DEF TellInv, TellTypes
<1>7. TellTypes'
  BY <1>4, <1>5, <1>6 DEF TellInv, TellTypes
<1>8. CheckOK'
  <2>1. R!At("cron")' = "ask" => R!At("cron") = "ask" /\ proc'["cron"].began = proc["cron"].began
    BY <1>5, TellConstants DEF R!At
  <2> QED
    BY <1>4, <2>1, CheckKept DEF TellInv, TellTypes
<1>9. PushesOK(k)'
  <2>1. p \in Pending(k)
    BY <1>1, <1>2 DEF Pending
  <2>2. Pending(k)' \subseteq Pending(k) \ {p}
    BY <1>5 DEF Pending, R!At
  <2>3. IsFiniteSet(Pending(k)) /\ Cardinality(Pending(k)) \in Nat
    BY <1>3, FS_CardinalityType DEF TellInv, PushesOK
  <2>4. /\ IsFiniteSet(Pending(k) \ {p})
        /\ Cardinality(Pending(k) \ {p}) = Cardinality(Pending(k)) - 1
    BY <2>1, <2>3, FS_RemoveElement
  <2>5. /\ IsFiniteSet(Pending(k)') /\ Cardinality(Pending(k)') \in Nat
        /\ Cardinality(Pending(k)') <= Cardinality(Pending(k)) - 1
    BY <2>2, <2>4, FS_Subset, FS_CardinalityType
  <2>6. pushes'[k] + Cardinality(Pending(k)') <= pushes[k] + Cardinality(Pending(k))
    BY <1>6, <2>3, <2>5
  <2>7. Spent(k)' <= Len(claims[k])
    <3>1. claims[k] \in Seq(Nat) /\ Len(claims[k]) \in Nat
      BY <1>3 DEF TellInv, TellTypes
    <3>2. pushes[k] + Cardinality(Pending(k)) <= Len(claims[k])
      BY <1>3 DEF TellInv, PushesOK, Spent
    <3> QED
      BY <1>6, <2>3, <2>5, <2>6, <3>1, <3>2 DEF Spent
  <2>8. Spaced(claims[k], Day, IF pushed[k] = None THEN hour ELSE pushed[k])
    BY <1>3 DEF TellInv, PushesOK
  <2> QED
    BY <1>4, <2>5, <2>7, <2>8 DEF PushesOK, Spaced, R!Apart
<1>10. \A l \in R!Keys \ {k} : PushesOK(l)'
  <2>1. \A l \in R!Keys \ {k} : Pending(l)' \subseteq Pending(l)
    BY <1>5 DEF Pending, R!At
  <2> QED
    BY <1>4, <1>6, <2>1, PushRests DEF TellInv, TellTypes
<1>11. FaultsOK'
  BY <1>1, <1>4, <1>5, FaultsRest DEF TellInv, Filing
<1> QED
  BY <1>7, <1>8, <1>9, <1>10, <1>11 DEF TellInv

\* A process is cut short: what it had not filed is lost.
LEMMA TellCut ==
  ASSUME TellInv, NEW p \in R!Procs, R!Cut(p)
  PROVE  TellInv'
<1>1. /\ R!Goto(p, R!Idle) /\ lost' = lost \cup R!Unfiled(p)
      /\ UNCHANGED <<hour, filed, digests, pushed, marker, claims, pushes, runs, found>>
  BY DEF R!Cut, R!lists
<1>2. R!Idle.at = "idle"
  BY DEF R!Idle
<1>3. /\ DOMAIN proc' = R!Procs /\ proc'[p] = R!Idle /\ \A o \in R!Procs \ {p} : proc'[o] = proc[o]
      /\ \A o \in R!Procs : ProcOK(o)'
  BY <1>1, <1>2, ProcMoves DEF Filing, TellInv
<1>4. R!At(p)' = "idle"
  BY <1>2, <1>3 DEF R!At
<1>5. TellTypes'
  BY <1>1, <1>3 DEF TellInv, TellTypes
<1>6. CheckOK'
  <2>1. R!At("cron")' = "ask" => R!At("cron") = "ask" /\ proc'["cron"].began = proc["cron"].began
    BY <1>3, <1>4, TellConstants DEF R!At
  <2> QED
    BY <1>1, <2>1, CheckKept DEF TellInv, TellTypes
<1>7. \A k \in R!Keys : PushesOK(k)'
  <2>1. \A k \in R!Keys : Pending(k)' \subseteq Pending(k)
    BY <1>2, <1>3 DEF Pending, R!At
  <2>2. UNCHANGED <<hour, pushed, claims, pushes>> /\ hour \in Nat /\ hour <= hour
    BY <1>1 DEF TellInv, TellTypes
  <2>3. TellTypes /\ \A k \in R!Keys : PushesOK(k)
    BY DEF TellInv
  <2> QED
    BY <2>1, <2>2, <2>3, PushRests
<1>8. FaultsOK'
  BY <1>1, <1>3, <1>4, FaultsRest DEF TellInv, Filing
<1> QED
  BY <1>5, <1>6, <1>7, <1>8 DEF TellInv

\* A check begins, an hour after one that did not end, a day after one that did.
LEMMA TellStart ==
  ASSUME TellInv, R!StartCheck
  PROVE  TellInv'
<1>1. /\ R!At("cron") = "idle" /\ ~R!Rests
      /\ marker' = [started |-> hour, finished |-> None]
      /\ runs' = [runs EXCEPT !.started = Append(@, hour)]
      /\ R!Goto("cron", [at |-> "ask", began |-> hour, left |-> R!SetToSeq(Parsers), broken |-> <<>>])
      /\ UNCHANGED <<hour, filed, digests, pushed, claims, pushes, found, lost>>
  BY DEF R!StartCheck
<1>2. "cron" \in R!Procs /\ R!At("cron") \notin Filing
  BY <1>1, TellConstants DEF Filing
<1>3. PICK s : s = [at |-> "ask", began |-> hour, left |-> R!SetToSeq(Parsers), broken |-> <<>>]
  OBVIOUS
<1>4. /\ s.at = "ask" /\ s.began = hour /\ s.left = R!SetToSeq(Parsers) /\ s.broken = <<>>
  BY <1>3
<1>5. s.left \in Seq(Parsers) /\ s.broken \in Seq(Parsers)
  BY <1>4, ParserList
<1>6. s = [at |-> "ask", began |-> s.began, left |-> s.left, broken |-> s.broken]
  BY Zenon, <1>3, <1>4
<1>7. /\ DOMAIN proc' = R!Procs /\ proc'["cron"] = s
      /\ \A o \in R!Procs \ {"cron"} : proc'[o] = proc[o]
      /\ \A o \in R!Procs : ProcOK(o)'
  BY <1>1, <1>2, <1>3, <1>4, <1>5, <1>6, ProcMoves DEF Filing, TellInv
<1>8. /\ hour \in Nat /\ Day <= hour
      /\ marker'.started = hour /\ marker'.finished = None
      /\ marker' \in [started : Nat, finished : Times]
      /\ runs'.started = Append(runs.started, hour) /\ runs'.finished = runs.finished
      /\ runs' \in [started : Seq(Nat), finished : Seq(Nat)]
      /\ marker \in [started : Nat, finished : Times]
  <2>1. hour \in Nat /\ Day <= hour /\ marker \in [started : Nat, finished : Times]
    BY DEF TellInv, TellTypes
  <2>2. marker' = [started |-> hour, finished |-> None]
    BY <1>1
  <2>3. marker'.started = hour /\ marker'.finished = None
        /\ marker' \in [started : Nat, finished : Times]
    BY <2>1, <2>2 DEF Times
  <2>4. runs \in [started : Seq(Nat), finished : Seq(Nat)]
        /\ runs' = [runs EXCEPT !.started = Append(@, hour)]
    BY <1>1 DEF TellInv, TellTypes
  <2>5. runs'.started = Append(runs.started, hour) /\ runs'.finished = runs.finished
    BY <2>4
  <2>6. runs.started \in Seq(Nat) /\ Append(runs.started, hour) \in Seq(Nat)
    BY <2>1, <2>4
  <2>7. runs' \in [started : Seq(Nat), finished : Seq(Nat)]
    BY <2>4, <2>6
  <2> QED
    BY <2>1, <2>3, <2>5, <2>7
<1>9. TellTypes'
  BY <1>1, <1>7, <1>8 DEF TellInv, TellTypes
<1>10. CheckOK'
  <2>1. Spaced(runs.started, Retry, hour) /\ Spaced(runs.finished, Day, hour)
    <3>1. Day \in Nat /\ Retry \in Nat /\ Retry < Day /\ hour \in Nat
      BY <1>8, TellConstants
    <3>2. CASE runs.started = <<>> /\ runs.finished = <<>>
      BY <3>1, <3>2, SpacedNone
    <3>3. CASE ~(runs.started = <<>> /\ runs.finished = <<>>)
      <4>1. PICK m, e : m = marker.started /\ e = marker.finished
        OBVIOUS
      <4>2. /\ m \in Day .. hour /\ Spaced(runs.started, Retry, m + Retry)
            /\ e = None => Spaced(runs.finished, Day, m)
            /\ e # None => e = m /\ Spaced(runs.finished, Day, m + Day)
        BY <3>3, <4>1 DEF TellInv, CheckOK
      <4>3. /\ e # None => ~(hour - e < Day)
            /\ e = None => ~(hour - m < Retry)
        BY <1>1, <4>1 DEF R!Rests
      <4>4. /\ m \in Nat /\ m + Retry \in Nat /\ m + Day \in Nat /\ m <= hour /\ m + Retry <= hour
            /\ e # None => m + Day <= hour
        BY <3>1, <4>2, <4>3
      <4>5. Spaced(runs.started, Retry, hour)
        BY <3>1, <4>2, <4>4, SpacedLater
      <4>6. CASE e = None
        <5>1. Spaced(runs.finished, Day, hour)
          BY <3>1, <4>2, <4>4, <4>6, SpacedLater
        <5> QED
          BY <4>5, <5>1
      <4>7. CASE e # None
        <5>1. Spaced(runs.finished, Day, hour)
          BY <3>1, <4>2, <4>4, <4>7, SpacedLater
        <5> QED
          BY <4>5, <5>1
      <4> QED
        BY <4>6, <4>7
    <3> QED
      BY <3>2, <3>3
  <2>2. /\ Spaced(Append(runs.started, hour), Retry, hour + Retry)
        /\ Append(runs.started, hour) # <<>>
    <3>1. Retry \in Nat /\ hour \in Nat
      BY <1>8, TellConstants
    <3> QED
      BY <2>1, <3>1, SpacedNext
  <2>3. /\ marker'.started \in Day .. hour' /\ Spaced(runs'.started, Retry, marker'.started + Retry)
        /\ marker'.finished = None /\ Spaced(runs'.finished, Day, marker'.started)
        /\ runs'.started # <<>> /\ proc'["cron"].began = marker'.started
    <3>1. hour \in Day .. hour /\ hour' = hour
      BY <1>1, <1>8, TellConstants
    <3> QED
      BY Zenon, <1>4, <1>7, <1>8, <2>1, <2>2, <3>1
  <2> QED
    BY <2>3 DEF CheckOK, Spaced, R!Apart
<1>11. \A k \in R!Keys : PushesOK(k)'
  <2>1. \A k \in R!Keys : Pending(k)' \subseteq Pending(k)
    BY <1>4, <1>7 DEF Pending, R!At
  <2>2. UNCHANGED <<hour, pushed, claims, pushes>> /\ hour \in Nat /\ hour <= hour
    BY <1>1, <1>8
  <2>3. TellTypes /\ \A k \in R!Keys : PushesOK(k)
    BY DEF TellInv
  <2> QED
    BY <2>1, <2>2, <2>3, PushRests
<1>12. FaultsOK'
  <2>1. R!At("cron")' = "ask" /\ R!Unfiled("cron") = {}
    BY <1>1, <1>4, <1>7 DEF R!At, R!Unfiled
  <2> QED
    BY <1>1, <1>2, <1>7, <2>1, FaultsRest DEF TellInv, Filing
<1> QED
  BY <1>9, <1>10, <1>11, <1>12 DEF TellInv

\* A check ends, and what it found is to be filed.
LEMMA TellFinish ==
  ASSUME TellInv, R!FinishCheck
  PROVE  TellInv'
<1>1. "cron" \in R!Procs /\ R!At("cron") = "ask" /\ R!At("cron") \notin Filing
  BY TellConstants DEF R!FinishCheck, Filing
<1>2. PICK e, q : e = proc["cron"].began /\ q = proc["cron"].broken
  OBVIOUS
<1>3. /\ marker' = [started |-> e, finished |-> e]
      /\ runs' = [runs EXCEPT !.finished = Append(@, e)]
      /\ found' = found \cup R!ToSet(q)
      /\ R!Goto("cron", IF q = <<>> THEN R!Idle ELSE [at |-> "file", todo |-> q])
      /\ UNCHANGED <<hour, filed, digests, pushed, claims, pushes, lost>>
  BY <1>2 DEF R!FinishCheck, R!ToFile
<1>4. q \in Seq(Parsers) /\ q \in Seq(R!Kinds) /\ R!ToSet(q) \subseteq Parsers
  <2>1. q \in Seq(Parsers)
    BY <1>1, <1>2 DEF TellInv, TellTypes, ProcOK
  <2>2. R!ToSet(q) \subseteq Parsers
    BY <2>1 DEF R!ToSet
  <2>3. Parsers \subseteq R!Kinds
    BY TellConstants
  <2> QED
    BY <2>1, <2>2, <2>3
<1>5. /\ e = marker.started /\ marker.finished = None
      /\ e \in Day .. hour /\ Spaced(runs.started, Retry, e + Retry) /\ Spaced(runs.finished, Day, e)
  BY <1>1, <1>2 DEF TellInv, CheckOK
<1>6. PICK s : s = IF q = <<>> THEN R!Idle ELSE [at |-> "file", todo |-> q]
  OBVIOUS
<1>7. /\ q = <<>> => s.at = "idle"
      /\ q # <<>> => s = [at |-> "file", todo |-> q] /\ s.at = "file" /\ s.todo = q
  BY <1>6 DEF R!Idle
<1>8. /\ DOMAIN proc' = R!Procs /\ proc'["cron"] = s
      /\ \A o \in R!Procs \ {"cron"} : proc'[o] = proc[o]
      /\ \A o \in R!Procs : ProcOK(o)'
  <2>1. R!Goto("cron", s)
    BY <1>3, <1>6
  <2>2. TellTypes
    BY DEF TellInv
  <2>3. CASE q = <<>>
    BY <1>1, <1>7, <2>1, <2>2, <2>3, ProcMoves DEF Filing
  <2>4. CASE q # <<>>
    <3>1. s.at = "file" /\ s = [at |-> s.at, todo |-> s.todo] /\ s.todo \in Seq(R!Kinds) /\ s.todo # <<>>
      BY Zenon, <1>4, <1>7, <2>4
    <3> QED
      BY <1>1, <2>1, <2>2, <3>1, ProcMoves DEF Filing
  <2> QED
    BY <2>3, <2>4
<1>9. /\ e \in Nat /\ marker'.started = e /\ marker'.finished = e /\ e # None
      /\ marker' \in [started : Nat, finished : Times]
      /\ runs'.started = runs.started /\ runs'.finished = Append(runs.finished, e)
      /\ runs' \in [started : Seq(Nat), finished : Seq(Nat)]
  <2>1. e \in Nat /\ e # None
    BY <1>5, TellConstants DEF TellInv, TellTypes
  <2>2. marker' = [started |-> e, finished |-> e]
    BY <1>3
  <2>3. marker'.started = e /\ marker'.finished = e
        /\ marker' \in [started : Nat, finished : Times]
    BY <2>1, <2>2 DEF Times
  <2>4. runs \in [started : Seq(Nat), finished : Seq(Nat)]
        /\ runs' = [runs EXCEPT !.finished = Append(@, e)]
    BY <1>3 DEF TellInv, TellTypes
  <2>5. runs'.started = runs.started /\ runs'.finished = Append(runs.finished, e)
    BY <2>4
  <2>6. runs.finished \in Seq(Nat) /\ Append(runs.finished, e) \in Seq(Nat)
    BY <2>1, <2>4
  <2>7. runs' \in [started : Seq(Nat), finished : Seq(Nat)]
    BY <2>4, <2>6
  <2> QED
    BY <2>1, <2>3, <2>5, <2>7
<1>10. TellTypes'
  <2>1. found' \subseteq Parsers
    BY <1>3, <1>4 DEF TellInv, TellTypes
  <2>2. UNCHANGED <<hour, filed, digests, pushed, claims, pushes>>
    BY <1>3
  <2> QED
    BY <1>8, <1>9, <2>1, <2>2 DEF TellInv, TellTypes
<1>11. CheckOK'
  <2>1. R!At("cron")' # "ask"
    BY <1>7, <1>8 DEF R!At
  <2>2. Spaced(Append(runs.finished, e), Day, e + Day)
    <3>1. Day \in Nat
      BY TellConstants
    <3> QED
      BY <1>5, <1>9, <3>1, SpacedNext
  <2>3. /\ marker'.started \in Day .. hour'
        /\ marker'.finished # None /\ marker'.finished = marker'.started
        /\ Spaced(runs'.started, Retry, marker'.started + Retry)
        /\ Spaced(runs'.finished, Day, marker'.started + Day)
    <3>1. hour' = hour
      BY <1>3
    <3> QED
      BY Zenon, <1>5, <1>9, <2>2, <3>1
  <2> QED
    BY <2>1, <2>3 DEF CheckOK, Spaced, R!Apart
<1>12. \A k \in R!Keys : PushesOK(k)'
  <2>1. \A k \in R!Keys : Pending(k)' \subseteq Pending(k)
    BY <1>7, <1>8 DEF Pending, R!At
  <2>2. UNCHANGED <<hour, pushed, claims, pushes>> /\ hour \in Nat /\ hour <= hour
    BY <1>3 DEF TellInv, TellTypes
  <2>3. TellTypes /\ \A k \in R!Keys : PushesOK(k)
    BY DEF TellInv
  <2> QED
    BY <2>1, <2>2, <2>3, PushRests
<1>13. FaultsOK'
  <2>1. R!Unfiled("cron") = {}
    BY <1>1 DEF R!Unfiled
  <2>2. \A f \in R!Kinds : Owed(f) => Owed(f)'
    <3>1. UNCHANGED <<filed, lost>>
      BY <1>3
    <3> QED
      BY <1>1, <1>8, <2>1, <3>1, OwedKept
  <2>3. \A f \in R!ToSet(q) : Owed(f)'
    <3>1. CASE q = <<>>
      BY <3>1 DEF R!ToSet
    <3>2. CASE q # <<>>
      <4>1. R!At("cron")' = "file" /\ proc'["cron"].todo = q
        BY <1>7, <1>8, <3>2 DEF R!At
      <4>2. R!Unfiled("cron")' = R!ToSet(q)
        BY <4>1 DEF R!Unfiled, R!ToSet
      <4> QED
        BY <1>1, <4>2 DEF Owed, R!OnItsWay
    <3> QED
      BY <3>1, <3>2
  <2>4. /\ \A b \in Boots : digests[b] # None => Owed(b)'
        /\ \A f \in Parsers : f \in found' => Owed(f)'
        /\ \A f \in Parsers : filed[f] > 0 => f \in found'
    BY <1>3, <2>2, <2>3, TellConstants DEF TellInv, FaultsOK
  <2>5. ASSUME NEW o \in R!Procs, R!At(o)' \in Filing, NEW f \in R!ToSet(proc'[o].todo), f \in Parsers
        PROVE  f \in found'
    <3>1. CASE o = "cron"
      <4>1. q # <<>> /\ proc'[o].todo = q
        BY <1>7, <1>8, <2>5, <3>1 DEF R!At, Filing
      <4> QED
        BY <1>3, <2>5, <4>1
    <3>2. CASE o # "cron"
      <4>1. R!At(o) \in Filing /\ proc'[o] = proc[o]
        BY <1>8, <2>5, <3>2 DEF R!At
      <4>2. f \in found
        BY <2>5, <4>1 DEF TellInv, FaultsOK
      <4> QED
        BY <1>3, <4>2
    <3> QED
      BY <3>1, <3>2
  <2>6. \A o \in R!Procs : (R!At(o) \in Filing)' =>
          \A f \in R!ToSet(proc'[o].todo) : f \in Parsers => f \in found'
    BY <2>5
  <2>7. \A S : R!ToSet(S)' = R!ToSet(S)
    BY DEF R!ToSet
  <2>8. UNCHANGED <<filed, digests>>
    BY <1>3
  <2> QED
    BY <2>4, <2>6, <2>7, <2>8 DEF FaultsOK
<1> QED
  BY <1>10, <1>11, <1>12, <1>13 DEF TellInv

\* Time passes.
LEMMA TellHour ==
  ASSUME TellInv, R!Hour
  PROVE  TellInv'
<1>1. /\ hour' = hour + 1
      /\ UNCHANGED <<filed, digests, pushed, marker, proc, claims, pushes, runs, found, lost>>
  BY DEF R!Hour, R!lists, R!history
<1>2. hour' \in Nat /\ hour <= hour' /\ Day <= hour'
  BY <1>1, TellConstants DEF TellInv, TellTypes
<1>3. TellTypes'
  BY <1>1, <1>2 DEF TellInv, TellTypes, ProcOK, R!At
<1>4. CheckOK'
  BY <1>1, <1>2, CheckKept DEF TellInv, R!At
<1>5. \A k \in R!Keys : PushesOK(k)'
  <2>1. \A k \in R!Keys : Pending(k)' \subseteq Pending(k)
    BY <1>1 DEF Pending, R!At
  <2>2. UNCHANGED <<pushed, claims, pushes>> /\ TellTypes /\ \A k \in R!Keys : PushesOK(k)
    BY <1>1 DEF TellInv
  <2> QED
    BY <1>2, <2>1, <2>2, PushRests
<1>6. FaultsOK'
  BY <1>1 DEF TellInv, FaultsOK, Owed, R!OnItsWay, R!Unfiled, R!At, R!ToSet
<1> QED
  BY <1>3, <1>4, <1>5, <1>6 DEF TellInv

\* A claim the store drops is of a day that is over.
LEMMA TellDrops ==
  ASSUME TellInv, R!KvDrops
  PROVE  TellInv'
<1>1. UNCHANGED <<hour, filed, marker, proc, claims, pushes, runs, found, lost>>
  BY DEF R!KvDrops, R!history
<1>2. /\ DOMAIN digests' = Boots /\ \A b \in Boots : digests'[b] # None => digests[b] # None
      /\ pushed' \in [R!Keys -> Times]
      /\ \A k \in R!Keys : \/ pushed'[k] = pushed[k]
                           \/ pushed'[k] = None /\ pushed[k] # None /\ pushed[k] <= hour
  <2>1. DOMAIN digests = Boots /\ pushed \in [R!Keys -> Times]
    BY DEF TellInv, TellTypes
  <2>2. CASE \E b \in Boots : digests' = [digests EXCEPT ![b] = None] /\ UNCHANGED pushed
    BY <2>1, <2>2
  <2>3. CASE \E k \in R!Keys : /\ pushed[k] # None /\ pushed[k] <= hour
                               /\ pushed' = [pushed EXCEPT ![k] = None] /\ UNCHANGED digests
    BY <2>1, <2>3 DEF Times
  <2>4. CASE UNCHANGED <<digests, pushed>>
    BY <2>1, <2>4
  <2> QED
    BY <2>2, <2>3, <2>4 DEF R!KvDrops, R!Over
<1>3. TellTypes'
  BY <1>1, <1>2 DEF TellInv, TellTypes, ProcOK, R!At
<1>4. hour \in Nat /\ hour <= hour
  BY DEF TellInv, TellTypes
<1>5. CheckOK'
  BY <1>1, <1>4, CheckKept DEF TellInv, R!At
<1>6. ASSUME NEW k \in R!Keys PROVE PushesOK(k)'
  <2>1. Pending(k)' = Pending(k)
    BY <1>1 DEF Pending, R!At
  <2>2. TellTypes /\ PushesOK(k) /\ UNCHANGED <<hour, claims, pushes>>
    BY <1>1 DEF TellInv
  <2>3. CASE pushed'[k] = pushed[k]
    BY <1>4, <2>1, <2>2, <2>3, PushRests
  <2>4. CASE pushed'[k] = None /\ pushed[k] # None /\ pushed[k] <= hour
    <3>1. pushed[k] \in Nat /\ hour \in Nat /\ Day \in Nat
      BY <1>4, <2>2, <2>4, TellConstants DEF TellTypes, Times
    <3>2. Spaced(claims[k], Day, pushed[k])
      BY <2>2, <2>4 DEF PushesOK
    <3>3. Spaced(claims[k], Day, hour)
      BY <2>4, <3>1, <3>2, SpacedLater
    <3>4. IsFiniteSet(Pending(k)) /\ Spent(k)' = Spent(k) /\ Spent(k) <= Len(claims[k])
      BY <2>1, <2>2 DEF PushesOK, Spent
    <3> QED
      BY <2>1, <2>2, <2>4, <3>3, <3>4 DEF PushesOK, Spaced, R!Apart
  <2> QED
    BY <1>2, <2>3, <2>4
<1>7. FaultsOK'
  <2>1. \A f : Owed(f)' <=> Owed(f)
    BY <1>1 DEF Owed, R!OnItsWay, R!Unfiled, R!At, R!ToSet
  <2>2. \A o \in R!Procs : (R!At(o) \in Filing)' => R!At(o) \in Filing /\ proc'[o] = proc[o]
    BY <1>1 DEF R!At
  <2>3. \A S : R!ToSet(S)' = R!ToSet(S)
    BY DEF R!ToSet
  <2> QED
    BY <1>1, <1>2, <2>1, <2>2, <2>3 DEF TellInv, FaultsOK
<1> QED
  BY <1>3, <1>5, <1>6, <1>7 DEF TellInv

LEMMA TellInit == R!Init => TellInv
<1> SUFFICES ASSUME R!Init PROVE TellInv
  OBVIOUS
<1>1. /\ hour = Day
      /\ filed = [f \in R!Kinds |-> 0] /\ digests = [b \in Boots |-> None]
      /\ pushed = [k \in R!Keys |-> None] /\ marker = [started |-> 0, finished |-> None]
      /\ proc = [p \in R!Procs |-> R!Idle]
      /\ claims = [k \in R!Keys |-> <<>>] /\ pushes = [k \in R!Keys |-> 0]
      /\ runs = [started |-> <<>>, finished |-> <<>>]
      /\ found = {} /\ lost = {}
  BY DEF R!Init
<1>2. \A p \in R!Procs : R!At(p) = "idle"
  BY <1>1 DEF R!At, R!Idle
<1>3. TellTypes
  <2>1. \A p \in R!Procs : ProcOK(p)
    BY <1>2 DEF ProcOK, Filing
  <2>2. /\ hour \in Nat /\ Day <= hour /\ found \subseteq Parsers
        /\ DOMAIN digests = Boots /\ DOMAIN proc = R!Procs
    BY <1>1, TellConstants
  <2>3. /\ filed \in [R!Kinds -> Nat] /\ pushes \in [R!Keys -> Nat] /\ pushed \in [R!Keys -> Times]
        /\ claims \in [R!Keys -> Seq(Nat)]
    BY <1>1 DEF Times
  <2>4. /\ marker \in [started : Nat, finished : Times] /\ runs \in [started : Seq(Nat), finished : Seq(Nat)]
    BY <1>1 DEF Times
  <2> QED
    BY <2>1, <2>2, <2>3, <2>4 DEF TellTypes
<1>4. CheckOK
  <2>1. R!At("cron") # "ask"
    BY <1>2, TellConstants
  <2> QED
    BY <1>1, <2>1 DEF CheckOK
<1>5. ASSUME NEW k \in R!Keys PROVE PushesOK(k)
  <2>1. Pending(k) = {}
    BY <1>2 DEF Pending
  <2>2. IsFiniteSet(Pending(k)) /\ Cardinality(Pending(k)) = 0
    BY <2>1, FS_EmptySet
  <2>3. pushes[k] = 0 /\ pushed[k] = None /\ claims[k] = <<>>
    BY <1>1
  <2>4. Spent(k) = 0 /\ Len(claims[k]) = 0
    BY <2>2, <2>3 DEF Spent
  <2>5. Spaced(claims[k], Day, hour)
    <3>1. Day \in Nat /\ hour \in Nat
      BY <1>1, TellConstants
    <3> QED
      BY <2>3, <3>1, SpacedNone
  <2> QED
    BY <2>2, <2>3, <2>4, <2>5 DEF PushesOK
<1>6. FaultsOK
  BY <1>1, <1>2, TellConstants DEF FaultsOK, Filing
<1> QED
  BY <1>3, <1>4, <1>5, <1>6 DEF TellInv

LEMMA TellStep == TellInv /\ [R!Next]_(R!vars) => TellInv'
<1> SUFFICES ASSUME TellInv, [R!Next]_(R!vars) PROVE TellInv'
  OBVIOUS
<1>1. ASSUME NEW c \in Clients,
             \/ \E w \in Writers : R!Submit(c, w)
             \/ \E b \in Boots : R!Beacon(c, b)
             \/ R!CountReport(c) \/ R!PutReport(c) \/ R!CountBeacon(c) \/ R!ClaimDigest(c)
      PROVE  TellInv'
  BY <1>1, TellRequests, TellDigest
<1>2. ASSUME NEW p \in R!Procs, R!File(p) \/ R!ClaimDay(p) \/ R!Push(p) \/ R!Cut(p)
      PROVE  TellInv'
  BY <1>2, TellFile, TellClaim, TellPush, TellCut
<1>3. CASE R!StartCheck \/ R!Ask \/ R!FinishCheck \/ R!Hour \/ R!KvDrops
  BY <1>3, TellStart, TellAsk, TellFinish, TellHour, TellDrops
<1>4. CASE UNCHANGED R!vars
  <2>1. UNCHANGED <<hour, filed, digests, pushed, marker, proc, claims, pushes, runs, found, lost>>
    BY <1>4 DEF R!vars
  <2>2. TellTypes'
    BY <2>1 DEF TellInv, TellTypes, ProcOK, R!At
  <2>3. CheckOK'
    BY <2>1 DEF TellInv, CheckOK, R!At, Spaced, R!Apart
  <2>4. FaultsOK'
    BY <2>1 DEF TellInv, FaultsOK, Owed, R!OnItsWay, R!Unfiled, R!At, R!ToSet
  <2>5. \A k \in R!Keys : PushesOK(k)'
    <3>1. \A k \in R!Keys : Pending(k)' \subseteq Pending(k)
      BY <2>1 DEF Pending, R!At
    <3>2. hour \in Nat /\ hour <= hour
      BY DEF TellInv, TellTypes
    <3> QED
      BY <2>1, <3>1, <3>2, PushRests DEF TellInv
  <2> QED
    BY <2>2, <2>3, <2>4, <2>5 DEF TellInv
<1> QED
  BY <1>1, <1>2, <1>3, <1>4 DEF R!Next

LEMMA TellInvariance == R!Spec => []TellInv
  BY TellInit, TellStep, PTL DEF R!Spec

LEMMA TellsOncePerDay == TellInv => OncePerDay
<1> SUFFICES ASSUME TellInv PROVE OncePerDay
  OBVIOUS
<1>1. ASSUME NEW k \in R!Keys PROVE R!Apart(claims[k], Day) /\ pushes[k] <= Len(claims[k])
  <2>1. /\ IsFiniteSet(Pending(k)) /\ pushes[k] + Cardinality(Pending(k)) <= Len(claims[k])
        /\ pushes[k] \in Nat /\ claims[k] \in Seq(Nat) /\ R!Apart(claims[k], Day)
    BY DEF TellInv, TellTypes, PushesOK, Spent, Spaced
  <2>2. Cardinality(Pending(k)) \in Nat /\ Len(claims[k]) \in Nat
    BY <2>1, FS_CardinalityType
  <2> QED
    BY <2>1, <2>2
<1>2. R!Apart(runs.started, Retry) /\ R!Apart(runs.finished, Day)
  <2>1. CASE runs.started = <<>> /\ runs.finished = <<>>
    BY <2>1 DEF R!Apart
  <2>2. CASE ~(runs.started = <<>> /\ runs.finished = <<>>)
    BY <2>2 DEF TellInv, CheckOK, Spaced
  <2> QED
    BY <2>1, <2>2
<1> QED
  BY <1>1, <1>2 DEF OncePerDay, R!OncePerDay, R!ClaimsRest, R!CheckRests

\* The day of a push key is claimed at hours at least a day apart and every push has a claim of its
\* own, whoever finds the fault and however the claims overlap; and checks of the parsers begin at
\* least an hour apart, those that finish at least a day apart, whatever is cut short (reports.ts,
\* recordSystemReport; canary-watch.ts, sweepCanary). The pushes themselves may bunch.
THEOREM ToldOncePerDay == R!Spec => []OncePerDay
  BY TellInvariance, TellsOncePerDay, PTL

\* A failure to boot whose digest is taken, and a parser a finished check found broken, are in the
\* list or about to be, unless the process was cut; and nothing else of a parser is in the list
\* (reports.ts; canary-watch.ts, sweepCanary).
THEOREM FaultsAreListed == R!Spec => []FaultsReachTheList
<1>1. TellInv => FaultsReachTheList
  BY DEF TellInv, FaultsOK, Owed, FaultsReachTheList, R!FaultsReachTheList
<1> QED
  BY <1>1, TellInvariance, PTL
=============================================================================
