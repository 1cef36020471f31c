------------------------------- MODULE Intake -------------------------------
(* Where reservations come in from outside: mails forwarded to a ledger's     *)
(* address (src/web/email-intake.ts) and messages to the LINE bot             *)
(* (src/line/webhook.ts). Both go through the parse chain; a LINE job whose   *)
(* parsers disagree waits for the sender to tap the right values.             *)
(*                                                                            *)
(* Calls arrive at least once, late and out of order, and the isolate that    *)
(* serves one may go away between two of its steps.                           *)
EXTENDS ParseChain

CONSTANTS Mails, Calls,
          Answers,     \* what a parser may answer
          DailyCap,    \* mails of a user and day
          Faults       \* bound: failures in a behaviour

ASSUME IntakeAssumption ==
    /\ Mails \cap Calls = {}
    /\ Answers \subseteq [Fields -> Nat] \cup {Failed}
    /\ DailyCap \in Nat /\ Faults \in Nat

VARIABLES seen,       \* email_seen: mails that are claimed
          forwards,   \* email_rate: mails of the day
          jobs,       \* parse jobs of LINE messages, by the call that made them
          call,       \* the calls: their handler and what it has read
          faults,
          offered,    \* history: choices <<job, field, value>> shown to the sender
          picks,      \* history: the choices that were tapped
          entered,    \* history: registrations of a mail or a job
          outputs,    \* history: <<job, output>> registered
          acked,      \* history: mails some call answered 200
          closed,     \* history: mails read, and reported or dropped for a reason
          cut,        \* history: mails and jobs a failure left half done
          overlapped  \* history: mails and jobs with two calls at work

stored == <<seen, forwards, jobs>>
history == <<offered, picks, entered, outputs, acked, closed, cut, overlapped>>
vars == <<stored, call, faults, history>>

NoJob == [status |-> "none"]
At(c) == call[c].at
Goto(c, s) == call' = [call EXCEPT ![c] = s]
Done == [at |-> "done"]
Fault == faults < Faults /\ faults' = faults + 1

AllJobs ==
    {RunParseChain(Attempts(input, [p \in {"groq-llama", "gemini-flash"} |-> IF p = "groq-llama" THEN a ELSE b],
                            doubtful, stated)) :
        input \in Inputs, a \in Answers, b \in Answers, doubtful \in BOOLEAN, stated \in {0, 1}}

Init ==
    /\ seen = {} /\ forwards = 0
    /\ jobs = [c \in Calls |-> NoJob]
    /\ call = [c \in Calls |-> [at |-> "new"]]
    /\ faults = 0
    /\ offered = {} /\ picks = {} /\ outputs = {}
    /\ entered = [x \in Mails \cup Calls |-> 0]
    /\ acked = {} /\ closed = {} /\ cut = {} /\ overlapped = {}

-----------------------------------------------------------------------------
(* A mail. Deliveries of it repeat until one is acknowledged, and after.      *)
WorkingOn(m) == {c \in Calls : At(c) \in {"fetch", "create"} /\ call[c].mail = m}
Ack(c, m) == Goto(c, Done) /\ acked' = acked \cup {m}

(* The recipient's secret opens no ledger (any more): dropped.                *)
HandleEmailWebhook(c, m) ==
    /\ At(c) = "new"
    /\ \/ Goto(c, [at |-> "rate", mail |-> m]) /\ UNCHANGED <<acked, closed>>
       \/ Ack(c, m) /\ closed' = closed \cup {m}
    /\ UNCHANGED <<stored, faults, offered, picks, entered, outputs, cut, overlapped>>

(* The count is read, then written.                                           *)
AllowForward(c) ==
    LET m == call[c].mail IN
    /\ At(c) = "rate"
    /\ IF forwards >= DailyCap
       THEN Ack(c, m) /\ closed' = closed \cup {m}
       ELSE Goto(c, [at |-> "counted", mail |-> m, count |-> forwards]) /\ UNCHANGED <<acked, closed>>
    /\ UNCHANGED <<stored, faults, offered, picks, entered, outputs, cut, overlapped>>

CountForward(c) ==
    /\ At(c) = "counted"
    /\ forwards' = call[c].count + 1
    /\ Goto(c, [at |-> "claim", mail |-> call[c].mail])
    /\ UNCHANGED <<seen, jobs, faults, history>>

(* Mistake: the claim does not look whether it is the first.                  *)
ClaimBlindly(c) ==
    /\ At(c) = "claim"
    /\ seen' = seen \cup {call[c].mail}
    /\ Goto(c, [at |-> "fetch", mail |-> call[c].mail])
    /\ UNCHANGED <<forwards, jobs, faults, history>>

(* One atomic check and set; whoever loses it answers that all is done.       *)
Claim(c) ==
    LET m == call[c].mail IN
    /\ At(c) = "claim"
    /\ \/ /\ m \notin seen
          /\ seen' = seen \cup {m}
          /\ Goto(c, [at |-> "fetch", mail |-> m])
          /\ UNCHANGED <<acked, overlapped>>
       \/ /\ m \in seen
          /\ Ack(c, m)
          /\ overlapped' = IF WorkingOn(m) # {} THEN overlapped \cup {m} ELSE overlapped
          /\ UNCHANGED seen
    /\ UNCHANGED <<forwards, jobs, faults, offered, picks, entered, outputs, closed, cut>>

(* Mistake: a failed call keeps its claim.                                    *)
ReleaseNot(m) == UNCHANGED seen

Release(m) == seen' = seen \ {m}

(* The mail cannot be fetched, or the work on it throws: 502 or 500, and the  *)
(* claim is taken back for the retry. A write that failed may have arrived.   *)
IntakeFails(c) ==
    LET m == call[c].mail IN
    /\ At(c) \in {"fetch", "create"} /\ Fault
    /\ Release(m)
    /\ Goto(c, Done)
    /\ \/ UNCHANGED <<entered, cut>>
       \/ /\ At(c) = "create"
          /\ entered' = [entered EXCEPT ![m] = @ + 1]
          /\ cut' = cut \cup {m}
    /\ UNCHANGED <<forwards, jobs, offered, picks, outputs, acked, closed, overlapped>>

(* Read and parsed. Without text, or without a job that parsed into a valid   *)
(* reservation, the user is told.                                             *)
ReadMail(c) ==
    LET m == call[c].mail IN
    /\ At(c) = "fetch"
    /\ \/ Ack(c, m) /\ closed' = closed \cup {m}
       \/ Goto(c, [at |-> "create", mail |-> m]) /\ UNCHANGED <<acked, closed>>
    /\ UNCHANGED <<stored, faults, offered, picks, entered, outputs, cut, overlapped>>

CreateCandidate(c) ==
    LET m == call[c].mail IN
    /\ At(c) = "create"
    /\ entered' = [entered EXCEPT ![m] = @ + 1]
    /\ Ack(c, m)
    /\ UNCHANGED <<stored, faults, offered, picks, outputs, closed, cut, overlapped>>

-----------------------------------------------------------------------------
(* A message. The job is stored before anything is answered; what the answer  *)
(* offers are the options of one conflict.                                    *)
Offer(j, job) ==
    LET open == Unresolved(job.conflicts) IN
    IF open = {} THEN {}
    ELSE LET f == CHOOSE g \in open : TRUE IN {<<j, f, job.conflicts[f][i]>> : i \in DOMAIN job.conflicts[f]}

HandleMessage(c, job) ==
    /\ At(c) = "new"
    /\ jobs' = [jobs EXCEPT ![c] = job]
    /\ IF job.status = "parsed"
       THEN Goto(c, [at |-> "register", job |-> c, read |-> job]) /\ UNCHANGED offered
       ELSE /\ Goto(c, Done)
            /\ offered' = IF job.status = "needs_review" THEN offered \cup Offer(c, job) ELSE offered
    /\ UNCHANGED <<seen, forwards, faults, picks, entered, outputs, acked, closed, cut, overlapped>>

(* A tap on a choice that was shown. The job may have moved on meanwhile: the *)
(* tap names the place of the option, in the list as it was.                  *)
Place(j, f, v) == CHOOSE i \in 1 .. Len(Options(jobs[j].attempts, f)) : Options(jobs[j].attempts, f)[i] = v

Narrowed(job, f, i) ==
    IF i > Len(job.conflicts[f]) THEN job
    ELSE [job EXCEPT !.conflicts[f] = <<@[i]>>]

TapsOn(j) == {c \in Calls : At(c) \in {"put", "register", "resolve"} /\ call[c].job = j}

(* Mistake: a job that has been resolved is registered again.                 *)
OpenAlways(job) == job.status # "none"

Open(job) == job.status = "needs_review"

HandlePostback(c, x) ==
    LET j == x[1]
        job == Narrowed(jobs[j], x[2], Place(j, x[2], x[3]))
        whole == Unresolved(job.conflicts) = {} /\ Valid(ResolvedOutput(job)) IN
    /\ At(c) = "new" /\ x \in offered
    /\ picks' = picks \cup {x}
    /\ IF Open(jobs[j])
       THEN Goto(c, [at |-> IF whole THEN "register" ELSE "put", job |-> j, read |-> job])
       ELSE Goto(c, Done)
    /\ overlapped' = IF TapsOn(j) # {} THEN overlapped \cup {j} ELSE overlapped
    /\ UNCHANGED <<stored, faults, offered, entered, outputs, acked, closed, cut>>

PutParseJob(c) ==
    /\ At(c) \in {"put", "resolve"}
    /\ jobs' = [jobs EXCEPT ![call[c].job] = call[c].read]
    /\ offered' = IF At(c) = "put" THEN offered \cup Offer(call[c].job, call[c].read) ELSE offered
    /\ Goto(c, Done)
    /\ UNCHANGED <<seen, forwards, faults, picks, entered, outputs, acked, closed, cut, overlapped>>

Refused(c) == [call[c] EXCEPT !.at = "put"]

(* The output becomes a candidate, or the ledger's schema turns it down.      *)
RegisterOutput(c) ==
    LET j == call[c].job
        job == call[c].read IN
    /\ At(c) = "register"
    /\ \/ /\ entered' = [entered EXCEPT ![j] = @ + 1]
          /\ outputs' = outputs \cup {<<j, ResolvedOutput(job)>>}
          /\ Goto(c, IF j = c THEN Done
                     ELSE [at |-> "resolve", job |-> j, read |-> [job EXCEPT !.status = "resolved"]])
       \/ /\ UNCHANGED <<entered, outputs>>
          /\ Goto(c, IF j = c THEN Done ELSE Refused(c))
    /\ UNCHANGED <<stored, faults, offered, picks, acked, closed, cut, overlapped>>

-----------------------------------------------------------------------------
(* POST /api/parse: the web form is filled with what could be read, and the   *)
(* job is kept, if that can be done: nobody is asked about it.                *)
ParseApi(c) ==
    /\ At(c) = "new"
    /\ \/ \E job \in AllJobs : jobs' = [jobs EXCEPT ![c] = job]
       \/ UNCHANGED jobs
    /\ Goto(c, Done)
    /\ UNCHANGED <<seen, forwards, faults, history>>

-----------------------------------------------------------------------------
(* The isolate goes away, or a write throws, with the call half done.         *)
Cut(c) ==
    /\ At(c) \notin {"new", "done"} /\ Fault
    /\ cut' = CASE At(c) \in {"fetch", "create"} -> cut \cup {call[c].mail}
                [] At(c) \in {"register", "resolve"} -> cut \cup {call[c].job}
                [] OTHER -> cut
    /\ Goto(c, Done)
    /\ UNCHANGED <<stored, offered, picks, entered, outputs, acked, closed, overlapped>>

Next ==
    \E c \in Calls :
        \/ \E m \in Mails : HandleEmailWebhook(c, m)
        \/ AllowForward(c) \/ CountForward(c) \/ Claim(c) \/ IntakeFails(c) \/ ReadMail(c)
        \/ CreateCandidate(c)
        \/ ParseApi(c)
        \/ \E j \in AllJobs : HandleMessage(c, j)
        \/ \E x \in offered : HandlePostback(c, x)
        \/ PutParseJob(c) \/ RegisterOutput(c) \/ Cut(c)

Spec == Init /\ [][Next]_vars

-----------------------------------------------------------------------------
(* However often a mail is delivered, it makes one candidate, unless a write  *)
(* that was reported as failed had been made, and the mail came again. And a  *)
(* mail that is acknowledged, and so never comes again, is in the ledger,     *)
(* was reported or dropped for a reason, or is being worked on: unless the    *)
(* work was cut off, or one call answered for another that failed later.      *)
OneCandidatePerMail == \A m \in Mails : entered[m] > 1 => m \in cut
NoMailLost ==
    \A m \in acked : entered[m] > 0 \/ m \in closed \cup cut \cup overlapped \/ WorkingOn(m) # {}
EachMailOnce == OneCandidatePerMail /\ NoMailLost

(* A job is registered once, unless two taps overlapped on it or a failure    *)
(* came between the registration and the note of it; and a job that says it   *)
(* is resolved is in the ledger.                                              *)
JobsSettleOnce ==
    \A j \in Calls :
        /\ entered[j] > 1 => j \in overlapped \cup cut
        /\ jobs[j].status = "resolved" => entered[j] > 0

(* What is registered has a name and a start; a field the parsers disagreed   *)
(* about has a value the sender tapped; any other field has a value of the    *)
(* good answers, if there was one, and never of an answer that failed.        *)
OutputIsBacked ==
    \A x \in outputs :
        LET j == x[1]  o == x[2] IN
        /\ Valid(o)
        /\ \A f \in Fields :
              IF Disagree(jobs[j].attempts, f)
              THEN <<j, f, o[f]>> \in picks
              ELSE LET read == jobs[j].attempts
                       good == {i \in DOMAIN read : Valid(read[i])} IN
                   o[f] = 0 \/ \E i \in IF good = {} THEN DOMAIN read ELSE good :
                                  Given(read[i]) /\ read[i][f] = o[f]
=============================================================================
