# plancel: specifications and proofs

plancel keeps reservations, tells what cancelling them costs and when that
changes, and reminds its users in time. Its hard part is not a computation but
what several requests, cron ticks, chat taps and outside services do to the same
records: Deno KV gives atomic commits, yet most operations read a record, wait,
and write it back. This directory models that, checks it with TLC on small
instances, and proves the most important invariants with TLAPS for instances of
any size.

Line numbers are those of `src/src/...` in the repository. `PROJECT.json` maps
every definition that models code to its lines, and lists every place where this
code is hard to test, with the properties that guard it.

## 1. The system

| part | state it keeps | operations | what is hard |
|---|---|---|---|
| web ledger `web/store.ts` | a record per reservation, a guard key per plan | create, confirm (optionally replacing), edit, cancel, restore, delete | confirm is optimistic over the target, the guard and the listed siblings; everything else is a blind write of a record read earlier; a request may die between two KV calls |
| core ledger `core/domain`, `core/eventlog`, `mcp/tools` | append-only event log, reservation and plan entries, outbox | the MCP tools | events, puts, plan and notice are written one by one with no version check |
| KV store `core/store/kv-store.ts`, in-memory store | entries and two secondary indexes | put with index upkeep, listings | index keys computed from an entry read before |
| cancellation policy `core/domain/policy.ts`, `web/policy.ts` | none: stage tables, a start, a clock | stage at, next boundary, free deadline, import and normalisation | local end-of-day deadlines, several boundaries on a day, two fees a stage |
| policy templates and web tools `web/policy-template.ts`, `mcp/web_api_*.ts` | one policy per place | look up, save, delete; a model's create | two reads that other requests fall between; a call that timed out is made again |
| triggers, outbox `notify/`, `cron/tick.ts` | an entry per idempotency key | what is due, enqueue, deliver, give up | windows against a 15-minute tick; at-least-once sending, overlapping publishers, processes cut short |
| calendar sync `web/calendar/` | event mapping, dirty flags, calendar id | pass after a mutation, sweep | every pass is a dozen calls to KV and Google; both sides fail, answers get lost |
| accounts `web/users.ts`, `web/auth/routes.ts` | user record, seven kinds of index, sessions, links, OAuth states, counters | sign up, log in, claim a name, link, rotate, delete | read-then-write of a whole record; check-then-act on the indexes; single use without a transaction |
| API tokens, device pairing `web/users.ts`, `web/auth/device.ts` | token key and listing row; a record per code | issue, use, revoke; poll, approve, deny, expire | two keys written one at a time; the record is written back by polls and decisions that read it long ago |
| PC pairing `mcp/pairing.ts`, `mcp/credentials.ts` | one state object, one file | tool calls, polling loops | overlapping calls and loops of old requests act on one state |
| sharing `web/sharing.ts`, `web/api.ts` | mirrored member and shared rows | invite, accept, re-grade, remove, clean up | a re-grade can bring back a removed member; clean-ups delete what they listed |
| web notifications `web/notify.ts` | markers, mail budget | sweep | marker after the send; a budget that orders who waits |
| mail intake, LINE bot `web/email-intake.ts`, `line/` | claims, caps, parse jobs, chips | webhooks, taps | duplicates, late and repeated taps on a ledger that has changed |
| parsers `parse/` | none | fallback chain, merge | providers that fail, disagree, or answer wrongly |
| reports and canary `web/reports.ts`, `web/canary-watch.ts` | report list, claims, marker of the last check | submit, beacon, daily check | claims that must hold across overlaps, faults found but not yet filed |

They interact through KV only, with three exceptions. A mutation of the web ledger
calls `onMutate` (`deploy/main.ts:490`), which flags the owner's calendar and runs
a pass after the response; a settlement in the core ledger publishes an event whose
notice goes into the outbox; the MCP server on the PC talks HTTP to the web app. The
cron calls `runTick` and the sweeps every 15 minutes; the runtime does not overlap
invocations of one cron.

### What makes each part correct

* **web ledger**: a settlement leaves no sibling half settled and never overwrites
  one that did not lose; who was confirmed and not written since holds the guard;
  seen through its winners the ledger is the abstract `PlanWinner`.
* **core ledger**: the log explains the store and folds to it; the quota holds
  whatever a dead process left behind.
* **web tools**: a repeated create makes no second row; a place whose policy is known
  is not left unknown.
* **KV store**: the indexes say exactly what the entries say, and the whole is the
  in-memory store the tests run on.
* **policy, triggers**: the announced boundary is the next change; waiting never gets
  cheaper; the web form of a table charges what the core form charges and never warns
  too late; what a preview promises is enqueued.
* **outbox**: a settled entry stays settled; each send is accounted for; whatever is
  enqueued is delivered or given up on.
* **calendar sync**: what carries no flag is in sync, because nothing would look at it
  again; every flag is cleared in the end.
* **accounts**: an index leads to the user whose record names the handle, and to
  nobody who has left; a link opens one session; a counter holds.
* **tokens and pairing**: a working token can be found and revoked, a revoked one never
  works again; a token is handed out once; a code on the screen is polled for,
  as long as nothing begun before it can replace it.
* **sharing**: owner and member see the same share; nothing outlives its deletion;
  every change reaches the owner's calendar.
* **notices, intake, chat, reports**: a notice goes out once and none is forgotten; a
  mail becomes one candidate and is not lost; a job is registered once, with values
  that were read or chosen; a confirmation says what it did; a fault is listed, and the
  day of its push is claimed once.

## 2. The modules

Every module models one KV call, one call to an outside service, or one pure
function as one action or operator, named after the function in the source.

| module | models | how state corresponds |
|---|---|---|
| `PlanWinner` | the promise: a plan has one winner or none | abstract |
| `WebLedger` | `web/store.ts`, `web/lifecycle.ts` | `store`, `guard` are KV keys; `call[c]` is the handler's local state between two awaits; a versionstamp check of key *k* fails iff *k* is in `touched[c]` |
| `CoreLedger` | transitions, fold, `persistTransition`, tools | `log`, `store`, `plans`, `outbox` are KV; event ids are ULIDs, so the log is ordered by the moment of computation (`at`), not of appending |
| `RemoteTools` | `create_reservation` of `mcp/web_api_tools.ts`, `web/policy-template.ts` | `rows`, `templates` are the ledger's; a call remembers what it listed and found |
| `InMemoryStore`, `KvStore` | `putReservation` of both stores, the pending listing | `stale` is a failed version check; an atomic commit writes entry and both indexes |
| `CancellationPolicy` | `core/domain/policy.ts` and its schema | time in parts of a day; an offset picks a day, the boundary is its end |
| `WebPolicy` | `web/policy.ts`, EXTENDS `CancellationPolicy` | the same clock; `freeAt` is the free window read from the source text |
| `Triggers` | `notify/trigger.ts`, EXTENDS `CancellationPolicy` | `enqueued` is what the outbox has taken, `preview` an answer of the simulation |
| `Outbox` | `notify/outbox.ts`, `subscribe.ts`, `cron/tick.ts` | `entry` is KV, `batch`/`current` the loop of a tick |
| `GcalSync` | `web/calendar/sync.ts`, `gcal.ts` and their callers | `google`, `mapping`, `dirty` are KV; `cals`, `events`, `granted` are Google's side (external) |
| `Accounts` | user records and indexes of `web/users.ts` under `web/auth/routes.ts` | `record`, `index` are KV; `req[c]` what a request has read; only the index is checked at a commit |
| `Logins` | sessions, links, states, counters | `ticket` is a link or state; a redeem is a read, then a delete |
| `ApiTokens` | tokens of `web/users.ts` | `works`, `listed` are the two keys |
| `DevicePairing` | `web/auth/device.ts`, EXTENDS `ApiTokens` | one pairing; the other sessions of `ApiTokens` run beside it |
| `PcPairing` | `mcp/pairing.ts`, `credentials.ts`, pairing tools | `state` is the client's object, `loop[i].same` whether it is still the object a loop slept on; `code`, `works` are the server's answers; `excused` (history) are the codes that were shown while something else could still end their request |
| `Sharing` | `web/sharing.ts`, the member gate of `web/api.ts`, account deletion | `roster`, `mirror` are the two rows |
| `DeadlineSweep` | `web/notify.ts` and the cron of `deploy/main.ts` | `marked`, `counted` are KV; `sweep` is the loop |
| `ParseChain` | `parse/chain.ts`, `parse/output.ts` | operators on attempts; a field is a number, 0 when left out |
| `Intake` | `web/email-intake.ts`, `line/webhook.ts`, `web/parse-api.ts`, EXTENDS `ParseChain` | `seen`, `forwards`, `jobs` are KV; a call is a webhook delivery |
| `LineChat` | `line/web-commands.ts` | `chips` are all that were ever shown; a tap counts, commits or reads, and replies |
| `Reports` | `web/reports.ts`, `web/canary-watch.ts`, `parse/canary.ts` | `seen`, `pushed` hold the hour a claim may be dropped at; `claims`, `runs` (history) the hours at which a key was claimed and checks began |
| `WebLedgerProofs`, `CoreLedgerProofs`, `NoticesProofs`, `DeliveryProofs`, `PairingProofs`, `AccountsProofs`, `SharingProofs`, `IntakeProofs` | theorems | those that prove about several systems EXTEND the `MC` module that holds them and speak of the others through its instances (`R!`, `P!`, `D!`, `G!`, `Pc!`, `L!`, `W!`). `NoticesProofs` reaches `MCWebPolicy` through `MCNotices`, the tables whose deadlines the notices are about |

`MC...` modules put specifications into an instance for TLC. Some hold several
systems that share nothing, one in each behaviour: a variable `part` (or `menu`, for
`WebLedger`) is chosen at the start and never changes, the other parts stand still.
Such a run asks the same as one run a part, each property being about the variables of
one part. Symmetry sets are given where values are compared only by equality;
`MCDelivery`, the run with liveness, has none.

Names, titles, prices and texts are left out; a reservation is reduced to the fields
the rules read. History variables (marked as such where they are declared) guard no
action, except as a bound. Operators called mutant or mistake are plausible bugs; no
specification uses one.

## 3. The runs

Runs that pass:

| run | instance | shows |
|---|---|---|
| `web_safe` | 2 clients, 2 reservations, 1 plan, 2 days, 1 attempt; create and confirm, with replace, edit, cancel and restore, or delete; crashes | `WinnerHoldsGuard`, `SettlementIsWhole`, `LosersReallyLost`, `ImplementsPlanWinner` (refinement) |
| `core` | 2 sessions, 2 reservations, 2 plans (one that was never created), quotas 1 and 2, 5 commands, crashes; or 2 creates of 2 rows, 2 spellings of a place and another place, 2 policies, 2 changes; or all valid tables of up to 3 stages over 5 offsets, 3 rates, with and without a fixed fee, to a day past the start; or a reservation and ticks | `LogExplainsStore`, `ProjectionAgrees`, `QuotaHeld`; `NoSecondRow`, `TaughtPolicyApplies`; `BoundaryIsTheNextChange`, `FeeNeverDrops`; `PreviewIsKept`, `RemindedInTime` |
| `delivery` | 1 cron, 1 publisher, 2 keys, 2 attempts, 2 processes cut short; or a request and the sweep, 2 reservations, 2 mutations, 1 trouble; fairness | `SendsAreCounted`, `SettledIsFinal`, `EventuallySettled`; `CleanMeansInSync`, `EventuallyClean` |
| `pairing` | 2 polls, 1 phone, 2 sessions, 2 tokens, 5 record writes; or 2 tool calls, 2 loops, 2 codes, 1 fault | `TokenHandOver`, `WorkingIsListed`, `RevokedStaysDead`; `ShownIsPolled` |
| `accounts` | 2 clients, 3 requests, 4 users, a cap of one; or 2 people, 1 ticket, 2 sessions, 1 attempt, 4 requests | `IndexesAgree`; `UsesAreLimited` |
| `sharing` | an owner and two others, 2 reservations of two owners, 2 clients, 4 requests, cuts | `SidesAgree`, `ChangesAreFlagged` |
| `notify` | 3 users (one with LINE, one guaranteed), 4 reservations, a cap of 1, 2 slots a day, 2 days, 1 failure, 1 edit; or 2 puts of one reservation; or the tables of `core` and all unordered web tables, to a day past the start | `NoticeOnce`, `NoneMissed`, `RationHeld`; `IndexesMatch`, `ImplementsMemory` (refinement); `SameRateAsCore`, `CanonicalForm`, `FreeWindowNeverUnderWarns` |
| `intake` | 1 mail and 3 calls, 6 kinds of answer, a cap of 2, 2 failures; or 2 taps on 3 rows; or the check of 2 parsers beside a beacon; or 2 clients who beacon and report | `EachMailOnce`, `JobsSettleOnce`, `OutputIsBacked`; `SiblingCountTrue`; `OncePerDay`, `FaultsReachTheList` |

Semicolons separate the parts of a run and their properties.

Runs that show a disagreement between the code and what it says of itself:

| run | what happens |
|---|---|
| `web_two_winners` | an edit that read a confirmed reservation writes it back after a replacing confirm: two winners (`store.ts:310` against `store.ts:392`) |
| `early_reminder` | the reminder of a start before eight is due at the start alone: between two ticks it never goes out (`trigger.ts:244` against `trigger.ts:83`) |
| `view_rate` | of a rising table whose free stage and first paid stage end on one day (0% at 4 hours, 30% at 3, 100% at 0, in days of 3 hours), the 30% shown as the next charge is never charged: once its instant has passed it is 100% (`web_api_view.ts:84` against `web_api_view.ts:54`) |
| `overlapping_pairing` | two tool calls that overlap both find nothing pending and each show a code; the loop of the first ends, so its approval is never fetched (`pairing.ts:85`, 109 and 123 against `pairing.ts:79`) |

### Bounds, and why they are enough

Two clients interleave every pair of handlers call by call; a third adds no new pair,
and guards, version checks and claims are pairwise. Two reservations of a plan are a
winner and a loser; the proofs cover any number. Ids are never reused, so `Ids` bounds
creations. Every other bound cuts the number of requests, commands, faults or changes
of one behaviour, and is large enough for the case that matters:

* `web_safe`: two days put midnight between any two calls, which is what takes a
  candidate out of a settlement (`isFinished`). The `menu` of a behaviour says which
  handlers run beside create and confirm: replace and midnight with everything that
  settles, replace with edits (a midnight then only before the first reservation),
  cancel and restore, or delete. Ids and clients are interchangeable.
* `core`: five commands create a plan and two reservations, confirm, die half way, and
  confirm or report on what was left. `Foreign` plan ids are those that
  `create_reservation` accepts although no plan has them. `torn` records that a write
  was cut short, `mixed` that two calls overlapped or that an
  existing reservation was linked. `Explored` stops following mixed behaviours that
  report, void, use a foreign plan or a quota of two: only `LogExplainsStore` is claimed
  there. In the part `remote`, `Explored` leaves the third place without rows: it is
  there for its template. The tables and the notices are below.
* The tables of `core` and `notify`: a day has three hours, so that boundaries fall before, at
  and after midnight, on one day, and after the start. `Uniform` excludes tables that mix
  stages with and without a fixed fee: the schema lets their fee fall (section 5). The
  notices depend on where boundaries are, not on rates, hence `OneRate` there. A tick is one
  hour late and comes every two. No offset is negative, as `validate.ts:109` asks of a parsed
  table; the schema (`cancellation-policy.ts:17`) takes any number, and of a stage that ends
  after the start `PreviewIsKept` is not true: the boundary at the start is announced as due a
  day before, when the ticks still wait for the boundary of the eve. In `notify`, offsets
  beyond `MaxHours` and tables longer than `WebMaxStages` exercise the refusals.
* `delivery`: two attempts are a retry and a giving up. In the part `gcal` the account
  starts with a calendar, because two first passes would each create one and forget the
  other. A trouble is a refused call, a call applied without an answer, a crash, or a
  change of the link. Excused are a reservation whose request ended before it wrote the
  flag (`missed`: nothing can find it again), one with an event whose id was lost
  (`orphaned`), and one that two passes worked on at once (`overlapped`).
* `pairing`: five writes of the record let overlapping polls bring a decided record back
  to pending and a second approval follow; beside sessions that use tokens the record is
  followed to its third write. On the PC a behaviour has one fault, expiry or revocation;
  two codes are a request and the one that replaces it. `ShownIsPolled` follows every code
  a call has shown to its end, whatever `state` says meanwhile. `excused` takes out the
  codes that were shown while something begun earlier could still end them (`Crossed`: a
  saved token, another call between its look at the state and its write, a 401 on its way,
  a loop that is not asleep), those there when the person asked to unpair, and those a
  failed poll or a restart ended. None of it is there for comfort: without any single
  one of these clauses TLC finds a code that is shown and not polled. `overlapping_pairing`
  is the shortest of them.
* `accounts`: three requests are two that overlap and one that comes upon the result.
  `IndexesAgree` claims nothing once a request has written back what had changed
  (`raced`), so the run stops there (`Undisturbed`); that behaviours *reach* that point is
  what section 5 reports.
* `sharing`: four requests: invite, two that race over the row, one that follows.
* `notify`: one user with two reservations is one message for both and two markers; the
  second may be missing at the start, so that a budget of one is used up early or late.
* `intake`: answers that agree, disagree on one field or two, leave one out, fail the
  rules, or are none. Two chips stay in the chat (`Explored`), over at most three rows,
  two changes from the web page. A claim of a day lapses within the four hours of the
  part with reports, so that a key can be claimed twice.

`CHECK_DEADLOCK FALSE` is set where the instance really stops: all commands, requests,
mails or slots are used (`core`, `accounts`, `intake`, `notify`), or the clock has passed
the start (`core`, `notify`). The others check deadlock; at the end of a behaviour something can
still happen there, an edit, a tick, a poll.

### Fairness

Only `delivery` states any: work that has started is fair. `Outbox!Fairness`: a process
goes on and the cron fires every 15 minutes (`StartTick` is part of `Work`).
`GcalSync!Fairness`: a pass goes on and the sweep fires. No fairness is assumed of users,
of Google's answers (a call may always be refused, within the bound), or of crashes not
happening; bounds on faults mean that they are finite in number.

## 4. The proofs

All are for every value of the constants that satisfies the named `ASSUME` of the
module, or of the `MC` module that instantiates it (`Null` is not an id, limits are positive
naturals, and the like).

| theorem | of | along which argument |
|---|---|---|
| `GuardCorrect`, `OneSettledWinner` | `WebLedger` | `WinnerHoldsGuard` is not inductive: whether a commit keeps it depends on what the confirm read actions ago. `Attempt(c)` says what those reads are still worth while nobody touched the keys: the target is unchanged, the guard is what was seen, every other settled winner of the plan is among the siblings the commit rewrites or is excluded by the guard's check. Two settled winners would then hold one guard key |
| `LosersCorrect`, `SettlementCorrect` | `WebLedger` | the first from the same invariant; the second from `SeenOK`, what the batches of the list have covered |
| `PromiseKept` | `WebLedger` implements `PlanWinner` | the mapping sees a plan's one settled reservation and what each confirm under way asks; a commit is a `Settle`, an unchecked write lets at most one winner step down, a refused, exhausted or crashed request gives up. `IssuedOK` (an id not handed out names nothing) keeps a create from removing a winner |
| `LogExplains` | `CoreLedger` | everything a call has read is explained by the log, its events go before what they explain, and the cause of an event it will append is in the log or is appended next (`CallOK`); neither an overlapping call nor a crash takes that away, for the log only grows |
| `QuotaCorrect` | `CoreLedger` | with one call after the other what was read is what is stored and no sibling is left out (`Fresh`), so the confirmed reservations and the one about to be put are within the quota together (`Within`), and stay so where a crash leaves half of it. A plan comes into being with no confirmed reservation (`AllKnown`: a reservation created under an id that no plan has keeps it, and `create_plan` never hands that id out) |
| `ProjectionCorrect` | `CoreLedger` | `ProjInv`: with one call after the other, a reservation whose event a call is still to append will be put as that event makes it of what the log says already (`PutsAgree`), and everything else is stored as the log says. An event joins the log as the latest of its reservation (`EventsOrdered`), so the fold grows by applying it (lemma `FoldGrows`). That rests on the fold being well defined for any set of events that are ordered in time: it exists and is unique (`FoldExists`, `FoldIsUnique`), by a least counterexample over the bound of their times. `Fresh` of `QuotaCorrect` says that what a command read is still stored when it decides |
| `IndexesCorrect`, `MemoryImplemented` | `KvStore` | `ReadIsFresh`: a put that may still commit has read the present entry; so each commit is one `putReservation` of `InMemoryStore`, and every other step a stutter |
| `BoundaryCorrect`, `FeeCorrect` | `CancellationPolicy` | the stages reached only get fewer, so the first of them moves inward; ordered neighbours make an ordered table, by a least counterexample, and a dearer stage costs no less |
| `ImportedAlike`, `StoredFormCorrect`, `FreeWindowCorrect` | `WebPolicy` | a step changes the instant alone, so each is about one table at one instant. A table is read by its hours: the farthest one still ahead decides, or the nearest when all are past (`RateIsRead`), because an hour that normalisation drops charges what the next one kept inside it does (`KeptInside`, by a least counterexample). A stored table is its own normal form (`FinalStays`), for there is one way to sort a set (`SortedOnce`). The first two suppose that no offset is negative (section 3): of two stages that end at the start or later the core ledger takes the first and the web ledger, whose hours are cut off at 0, keeps the last; a client's rows have no negative hour (`web/policy.ts:36`) |
| `SendsCorrect`, `SettledCorrect` | `Outbox` | `PassesOK`: a pass still knows what it listed, because publishers only put keys that have no entry and no two processes own a key (`OwnersOK`). From `OneTick`: a cron's invocations do not overlap (`Deno.cron` in `deploy/main.ts`; the runs have one tick) |
| `CleanCalendarsMatch` | `GcalSync` | `SyncInv`: until somebody unlinks or a first calendar is still to be made, a reservation that nothing excuses has one pass at most (`FollowedOK`), what this pass has read is still so, and the events of the calendar are those that the mapping, or the pass about to write the mapping, names (`Kept`). The theorem is about an account that has its calendar (`FirstCalendar # Null`): two first passes that overlap would each create one. The run starts there too |
| `RetriesMakeNoRow`, `TaughtPolicyFound` | `RemoteTools` | calls under way together have raced (`AloneOrRaced`), so what a call found when it looked for a duplicate stays true until it writes (`CheckHolds`); a lookup's memory of templates stays true (`LookupOK`), and it scans only because its own spelling was missing |
| `WorkingTokensAreListed`, `RevocationIsFinal` | `ApiTokens` | unissued tokens are blank, a use under way holds the token's user, a revocation unlists only what it has stopped (`TokenInv`) |
| `TokenGoesOutOnce`, `PairingKeepsTokens` | `DevicePairing`, with the sessions of `ApiTokens` | `DeviceInv`: a version of the record stands for one content (`PollsSound`), so the versionstamp check of an answering poll decides whether another one was first; a token minted for a pairing is in no record and no poll but its own (`ParkedIsAlone`), and one handed out is carried by no record that a poll could still consume, unless a stale write brought it back (`HandedSound`, `undead`). The second theorem carries the two of `ApiTokens` over to the composition |
| `ShownCodeIsPolled`, `PcTypesKept` | `PcPairing` | that the pending request is polled is inductive beside the types: a loop that goes on takes its request from the state object, a new object comes with a loop that knows it or stands for no request (`PcInv`). That a code shown *is* the pending request needs what else may be under way: `Quiet` says that nothing is that could end it, no saved token, no call between its look at the state and its write, no loop of another request that still knows the state or has an answer in hand. A code not `excused` is shown when all is quiet, and every step keeps it so until the code is gone |
| `UsersAndIndexesAgree` | `Accounts` | neither half of the property is kept alone: a handle resolves to its user or to the second write still to come (`Resolved`), an entry is held by its user or is on the list of a deletion under way (`Held`), and such a user is gone already, so no deletion takes an entry of somebody who is there (`DroppedAreGone`) |
| `UsesLimited` | `Logins` | a link or state that is not shared is in one hand at most, and is gone once its holder deleted it (`OneHand`); whoever is about to count has read less than the limit (`CountersOK`) |
| `SharesStayTogether` | `Sharing` | one side alone is what a deletion under way has left (`HalvesAreOwned`), which needs what each of its six phases has cleared (`ErasuresProgress`), what the deletion of a reservation still lists (`DeletionsKnow`), and that a user who is gone left nothing (`GoneLeftNothing`) |
| `ChangesReachTheCalendar` | `Sharing` | a reservation whose last writer is not its owner is flagged, or the write's request is at the flag, or the owner is leaving; a request about to flag what it owes keeps owing it under every other step (lemma `FlagsStay`) |
| `NoticedOnce`, `NoDeadlineMissed`, `RationKept` | `DeadlineSweep` | `SweepInv`: what a sweep has still to announce is on its queue or in its hand, what it sent is about to be marked, what it mailed is about to be counted (`ToldOnce`, `NothingForgotten`, `MailsCounted`); the guaranteed stand first in every rest of the queue, so one of them is put off only when the sweep may send no mail at all (`GuaranteedServed`). What is counted is compared with what was mailed day by day, for a new day starts from zero |
| `PreviewKept` | `Triggers` | from the hypothesis that no offset is negative (section 3): a stage that is not the last ends at the end of a day, so whoever asks for the next boundary on the day before one is told of it (`SameBoundary`). Hence what is announced is due at every instant until its end (`PromisedIsDue`), and what is due was announced or due before (`DueWasPromised`). `PreviewInv`: while nobody changes the reservation, the ticks since the preview have taken whatever was due at them |
| `ReminderComesInTime` | `Triggers` | `RemindInv`: every tick since the start of the behaviour that fell between the morning of the reservation's day and its start has found the reminder in the outbox or put it there. `RemindedInTime` asks the same when the reservation has begun; the theorem leaves the length of a day and the rhythm of the ticks open |
| `MailsOnce`, `JobsOnce` | `Intake` | `IntakeInv`: of the calls at work on a mail one holds the claim, and it has not entered the mail; a claim nobody works on stands for a mail that is entered, closed or cut (`MailOK`). A job that no two taps met and no failure cut is either open and not registered, or in one call's hand, or settled (`JobOK`); what a call has read of a job is the job unless another call changed it, and then the job is `overlapped` (`ReadOK`) |
| `OutputsBacked` | `Intake` | `BackedInv`: a job, stored or in a call's hand, has the attempts it came in with, and each of its conflicts is the list of the values said or the one that was tapped (`Kept`); so what is offered is a value of a disagreement, and a call about to register holds a job with no conflict open (`ReadBacked`). It rests on lemmas about the operators of `ParseChain`: the options of a disagreement are two at least (`DisagreementIsOpen`), and a merged value is one that a source gave (`MergedBacked`) |
| `SiblingsCounted` | `LineChat` | `ChatInv`: between its count and its commit a tap that is not `disturbed` has counted the rows its commit will turn (`TapOK`) |
| `ToldOncePerDay`, `FaultsAreListed` | `Reports` | `TellInv`: the hours at which a key was claimed are a day apart and the next may come when the claim that is there lapses (`Spaced`), and the pushes of a key with those still to come are no more than its claims (`PushesOK`); the marker of the check says the same of its beginnings and ends (`CheckOK`); a fault whose claim was taken is listed, owed by a process or `lost` (`FaultsOK`) |
| `TypeCorrect`, `AccountsTypeCorrect`, `LoginsTypeCorrect`, `SharingTypeCorrect`, `SweepTypeCorrect`, `RemoteToolsTypeCorrect`, `SyncTypeCorrect`, `ChatTypeCorrect`, `TariffCorrect` | `WebLedger`, `Outbox`, `ApiTokens`, these six, `LineChat` and `CancellationPolicy` | part of the inductive invariants |

The inductive invariant is named `IInv`, or after its system (`TokenInv`, `DeviceInv`,
`PcInv`, `ProjInv`, `AccountsInv`, `LoginsInv`, `SharingInv`, `SweepInv`, `SyncInv`, `RemoteInv`, `IntakeInv`, `BackedInv`,
`ChatInv`, `TellInv`, `PreviewInv`, `RemindInv`, `WebInv`). The last step of a theorem combines its
initial case and its step with `PTL`. What the history variables excuse in a property
(`mixed`, `shared`, `raced`, `torn`, `stale`, `aborts`, `revived`, `undead`, `repeats`,
`excused`, `slips`, `missed`, `overlapped`, `orphaned`, `cut`, `disturbed`, `lost`) is excused in its theorem too.

## 5. Where the code and its comments disagree

Besides the four runs above, modelling met the following. Each is a behaviour of the
models here unless it says otherwise; the history variable that excuses it in a property
is named in brackets. Nothing of it is claimed by a run.

Ledgers:

* `store.ts:270`: the undo of a failed create-with-confirmed deletes the key whatever it
  holds, also a reservation another client has confirmed meanwhile; the comment at 268
  argues that nobody knows the id.
* `mcp/tools/shared.ts:152`: two overlapping confirms that both read the plan exceed the
  quota, against `transitions.ts:204`; overlapping calls break the fold as well [`mixed`].
* `mcp/tools/add_to_plan.ts:69`: linking an existing reservation appends no event, so the
  log no longer folds to the store, against `fold.ts:3` [`mixed`].
* `kv-store.ts:189`: a listed pending cancellation may have left `to_cancel`, against
  `store.ts:75`.
* `web/api.ts:520`: "Exact normalized-key match ONLY", but `getTemplate`
  (`policy-template.ts:116`) falls back to a scan that ignores spacing.
* `web_api_tools.ts:311`: a retried create that overlaps the first makes a second row
  [`raced`].

Policy and notices:

* `cancellation-policy.ts:59`: fixed fees are compared only when both neighbours have one,
  so `[{24h, 0%, 5000}, {0h, 0%, null}]` passes and its fee falls, against line 8
  [`FeeNeverDrops` without `Uniform`].
* `policy.ts:99` of `core/domain`: a boundary a few hours before the start is the end of the
  start's own day, so after the start an outer stage still applies, against line 33;
  `web/policy.ts:152` the same against line 200.
* `policy.ts:185`: when two boundaries fall on one day, `toStage` is a stage that is over at
  once, so `estimateLoss` does not give the loss "right after the next fee boundary is
  crossed" (line 196).
* `web/notify.ts:265`: a user put off at the cap is "picked up again by the first sweep of the
  next JST day" only if the deadline has not lapsed by then [`NoneMissed` excuses the cap].
* `outbox.ts:121`: a message accepted by the channel is sent again when the put that records
  it fails or is not reached, against `trigger.ts:32` [`SendsAreCounted` is what does hold].
* `sync.ts:111`: passes over one reservation that overlap may leave the older state in the
  calendar and clear the flag, against `sync.ts:7` [`overlapped`]; `gcal.ts:104`: an insert
  that was applied but not answered is inserted again and the first event is never removed
  [`orphaned`].

Accounts and tokens:

* `users.ts:395`: claims of a uid, an additional address or a LINE account check the index,
  then write the whole record: of two that overlap, one is lost or leaves an index entry
  behind [`raced`]; `users.ts:304`: two overlapping first calls of `ensureMailSecret` leave a
  secret nobody can retire.
* The index by Google subject survives unlinking and the deletion of the account.
* `users.ts:728`: `deleteAccount` is to be "idempotent if a retry re-runs it", but once the
  user record is gone a retry returns before it deletes the rest.
* Two overlapping sign-ups pass the cap; two first log-ins with one address make two users.
* `users.ts:853`: two requests that both read a single-use link or state both use it
  [`shared`]; overlapping attempts overrun a counter [`stale`].
* `users.ts:511`: two issues that list the tokens before either writes pass the limit that
  `users.ts:559` relies on.
* `device.ts:201`: a poll that came too soon writes back a record another poll consumed, and
  the token goes out again, against `device.ts:176`; `device.ts:209`: a poll answering
  `authorization_pending` writes its record back over a decision, against lines 268-269.
* `mcp/pairing.ts:75`: a 401 for an old token drops a pairing made meanwhile; the answer of a
  stale poll (denied, expired) replaces a newer request; `force` while a credential is saved
  is undone by the next `token()`.
* `mcp/pairing.ts:155`: a late `slow_down` puts the request its loop slept on back in place of
  a newer one, which nobody polls from then on; `pairing.ts:161`: any answer that is not one
  of those the client knows, a 502 of a proxy too, ends a request that is still good, although
  the `catch` at 131 keeps going after a network error [`excused`].

Intake, chat, reports:

* `email-intake.ts:341`: a duplicate is answered 200 while the delivery that holds the claim
  may still fail [`overlapped`]; an isolate that goes away after the claim loses the mail
  [`cut`]; redeliveries count against the daily cap.
* `webhook.ts:415`: two taps that overlap register a job twice; `webhook.ts:244`: a webhook
  that LINE delivers again makes a second job.
* `web-commands.ts:606`: the number of siblings in the reply is counted before the commit, and
  a policy or cancel tap writes back a record read earlier [`disturbed`].
* `reports.ts:285`: the claim of a day is taken before the push, so it is the claims that are a
  day apart: a push that hangs until its claim has lapsed can go out in the hour of the next
  (`OncePerDay` says so, and no more).
* `canary-watch.ts:73`: faults are filed after the marker of the check, and are lost or late
  when it is cut there [`lost`]; `reports.ts:364`: the filter by kind comes after the limit of
  200 (not modelled).

## 6. What is only model-checked, what is not modelled

Only model-checked, because the provers cannot reach it:

* Liveness (`EventuallySettled`, `EventuallyClean`): TLAPS does not treat fairness and ENABLED here.
* The theorems are about the specifications, one by one. That the parts of an `MC` module share
  nothing, so that a run asks of each part what its theorem says, is read off that module.

Not modelled:

* HTTP parsing, signatures, cookies, views, the wording of mails and LINE messages,
  the read-only commands of the bot: they keep no state that others share.
* What a parser answers: it is any of a set of outputs. Prompts, masking, and the rules over
  text (`parse/rules`) are pure functions of text whose detail no property here tells apart;
  so is the retry of a provider that answers 5xx, whose result is again one of those answers.
* The marker of a notice expires after 60 days (`web/notify.ts:43`): a reservation moved
  beyond that would be announced again. `email-intake.ts` can give one claim back twice
  (361, then 342 when the first delete was applied and its answer lost); `Release` is one step.
* `markDone` and `selfCancel` of the core ledger have no caller; travel events and the debug
  tools group or read.
* The migration of the single-token era (`listApiTokens`), the retry of a colliding user code
  (the code space makes it another pairing), `deleteCalendar` on account deletion (a call
  whose failure is ignored).
* The browser client, seeds, benches and lint scripts.

## 7. What could follow

* A composition of `WebLedger` with `DeadlineSweep` and `GcalSync`, whose reservations change
  here by actions of their own.
* Longer behaviours of `Sharing` and `Accounts`, where the bound is on requests.
