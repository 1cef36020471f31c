------------------------------ MODULE MCIntake ------------------------------
(* Instances of Intake, LineChat and Reports for TLC: parsers' answers that agree, *)
(* disagree on one field or on two, leave one out, fail the rules, or are    *)
(* none at all; then the daily check of the parsers beside one beacon after  *)
(* the other, and overlapping beacons and people's reports. A behaviour is   *)
(* of one of the three throughout.                                           *)
EXTENDS Intake, TLC

CONSTANTS Rows, Taps, MaxChips, MaxEdits, Clients, Writers, Boots, Parsers, None, Cap, BeaconCap, Retry, Day, LastHour,
          Requests, Cuts

VARIABLES hour, filed, own, rate, beacons, digests, pushed, marker, proc, toCome, cuts,
          claims, pushes, runs, found, lost

R == INSTANCE Reports WITH seen <- digests
ASSUME TellingAssumption == R!ReportsAssumption

VARIABLES ledger, chips, tap, edits

L == INSTANCE LineChat WITH Null <- None
ASSUME ChatAssumption == L!LineChatAssumption

VARIABLE part

chat == <<ledger, chips, tap, edits>>
told == <<hour, filed, own, rate, beacons, digests, pushed, marker, proc, toCome, cuts,
          claims, pushes, runs, found, lost>>

Answer(s, t, p) == [f \in Fields |-> CASE f = "service" -> s [] f = "start" -> t [] f = "place" -> p]
MCAnswers == {Failed, Answer(1, 1, 1), Answer(1, 2, 2), Answer(1, 1, 0), Answer(0, 1, 2), Answer(1, 0, 2)}
Symmetry == Permutations(Calls) \cup Permutations(Mails)

MCInit == Init /\ R!Init /\ L!Init /\ part \in {"intake", "check", "people", "chat"}

InIntake == part = "intake" /\ UNCHANGED <<told, chat, part>>
InChat == part = "chat" /\ UNCHANGED <<vars, told, part>>
In(p) == part \in p /\ UNCHANGED <<vars, chat, part>>
InReports == In({"check", "people"})
Alone(c) == part = "check" => c = CHOOSE d \in Clients : TRUE

MCNext ==
  \/ \E c \in Calls :
       \/ \E m \in Mails : InIntake /\ HandleEmailWebhook(c, m)
       \/ InIntake /\ AllowForward(c)
       \/ InIntake /\ CountForward(c)
       \/ InIntake /\ Claim(c)
       \/ InIntake /\ IntakeFails(c)
       \/ InIntake /\ ReadMail(c)
       \/ InIntake /\ CreateCandidate(c)
       \/ \E j \in AllJobs : InIntake /\ HandleMessage(c, j)
       \/ InIntake /\ ParseApi(c)
       \/ \E x \in offered : InIntake /\ HandlePostback(c, x)
       \/ InIntake /\ PutParseJob(c)
       \/ InIntake /\ RegisterOutput(c)
       \/ InIntake /\ Cut(c)
  \/ \E c \in Clients :
       \/ \E w \in Writers : In({"people"}) /\ R!Submit(c, w)
       \/ \E b \in Boots : InReports /\ Alone(c) /\ R!Beacon(c, b)
       \/ InReports /\ R!CountReport(c)
       \/ InReports /\ R!PutReport(c)
       \/ InReports /\ R!CountBeacon(c)
       \/ InReports /\ R!ClaimDigest(c)
  \/ \E p \in R!Procs :
       \/ InReports /\ R!File(p)
       \/ InReports /\ R!ClaimDay(p)
       \/ InReports /\ R!Push(p)
       \/ InReports /\ R!Cut(p)
  \/ In({"check"}) /\ R!StartCheck
  \/ InReports /\ R!Ask
  \/ InReports /\ R!FinishCheck
  \/ InReports /\ R!Hour
  \/ InReports /\ R!KvDrops
  \/ InChat /\ L!Check
  \/ \E r \in Rows :
       \/ \E known \in BOOLEAN : InChat /\ L!Register(r, known)
       \/ \E new \in {n \in L!Reservation : n.status = "candidate"} \cup {None} :
            InChat /\ L!WebEdit(r, new)
       \/ InChat /\ L!DayEnds(r)
  \/ \E t \in Taps :
       \/ \E chip \in chips : InChat /\ L!Tap(t, chip)
       \/ InChat /\ L!Count(t)
       \/ InChat /\ L!Commit(t)
       \/ InChat /\ L!Read(t)
       \/ InChat /\ L!Write(t)
       \/ InChat /\ L!Reply(t)

MCSpec == MCInit /\ [][MCNext]_<<vars, told, chat, part>>

\* Bound: chips left in the chat.
Explored == Cardinality(chips) <= 2

\* The properties of LineChat and of Reports in this instance.
SiblingCountTrue == L!SiblingCountTrue
OncePerDay == R!OncePerDay
FaultsReachTheList == R!FaultsReachTheList
=============================================================================
