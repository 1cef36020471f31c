----------------------------- MODULE PcPairing -----------------------------
(***************************************************************************)
(* The PC side of device pairing: mcp/pairing.ts as the tools of           *)
(* mcp/web_api_tools.ts call it, and the credentials file it keeps         *)
(* (mcp/credentials.ts).  A tool call that finds no token asks for a code  *)
(* and returns; a loop polls behind it.  Calls overlap each other and the  *)
(* loops; a loop knows its request by the identity of the state object.    *)
(* A code and the token it leads to have the same number.  Every code the  *)
(* server gives out is shown: the call that got it returns it at once.     *)
(***************************************************************************)
EXTENDS Naturals

CONSTANTS
  Calls,      \* tool calls that may be under way at once
  Tools,      \* what they call: "api" for the tools of the ledger, "pair" and "force"
              \* for pair_with_plancel, "status" and "unpair" for the other two
  Loops,      \* loops that may be alive at once
  MaxCodes,   \* bound: codes asked for
  MaxFaults,  \* bound: polls that fail or lose their answer, slow_downs, restarts
  None

Codes == 1 .. MaxCodes
LoopState == [at : {"sleep", "fetch", "save", "saved"}, n : Codes, same : BOOLEAN]
PcPairingAssumption ==
  /\ "api" \in Tools /\ Tools \subseteq {"api", "pair", "force", "status", "unpair"}
  /\ MaxCodes \in Nat /\ MaxFaults \in Nat /\ None \notin Nat \cup LoopState \cup Loops

VARIABLES
  state,    \* PairingClient.state: [kind, n], n its code or token
  loop,     \* each loop: None or [at, n, same]; same: this.state is the object it slept on
  call,     \* each call: [at, tool, n], n the token it uses
  file,     \* the credentials saved for this base URL: a token, or None
  asked,    \* codes given out by the server
  code,     \* device_code/<n> at the server
  over,     \* codes whose life has passed
  works,    \* tokens the server honours
  faults,
  excused   \* history: codes shown whose request something else may end (see Crossed)

client == <<state, loop, call, file>>
server == <<asked, code, over, works>>
vars == <<client, server, faults, excused>>

NoCall == [at |-> "idle", tool |-> "api", n |-> None]
Pending(n) == [kind |-> "pending", n |-> n]
Paired(n) == [kind |-> "paired", n |-> n]
Plain(k) == [kind |-> k, n |-> None]

TypeOK ==
  /\ state \in [kind : {"pending", "paired"}, n : Codes]
               \cup {Plain(k) : k \in {"idle", "denied", "expired"}}
  /\ loop \in [Loops -> LoopState \cup {None}]
  /\ call \in [Calls -> [at : {"idle", "file", "start", "code", "request", "forget", "erase", "drop"},
                         tool : Tools, n : Codes \cup {None}]]
  /\ file \in Codes \cup {None}
  /\ asked \in 0 .. MaxCodes /\ over \subseteq 1 .. asked /\ works \subseteq 1 .. asked
  /\ code \in [Codes -> {"pending", "approved", "denied", "gone"}]
  /\ faults \in 0 .. MaxFaults /\ excused \subseteq Codes

Init ==
  /\ state = Plain("idle") /\ loop = [i \in Loops |-> None]
  /\ call = [c \in Calls |-> NoCall] /\ file = None
  /\ asked = 0 /\ code = [n \in Codes |-> "pending"] /\ over = {} /\ works = {}
  /\ faults = 0 /\ excused = {}

Fault == faults < MaxFaults /\ faults' = faults + 1
At(c, l) == call' = [call EXCEPT ![c].at = l]
Return(c) == call' = [call EXCEPT ![c] = NoCall]

\* A new state object: no sleeping loop recognises it.
Others(i) == [j \in Loops |-> IF loop[j] = None \/ j = i THEN loop[j] ELSE [loop[j] EXCEPT !.same = FALSE]]
Become(s) == state' = s /\ loop' = Others(None)

-----------------------------------------------------------------------------
(* A tool call: token(), then the request, or start().                     *)

\* token(): the token in memory, else the file is read.
ToolCall(c, tool) ==
  /\ call[c].at = "idle"
  /\ call' = [call EXCEPT ![c] =
       [at |-> CASE tool = "unpair" -> "forget"
                 [] tool = "force" /\ state.kind = "paired" -> "start"
                 [] tool # "unpair" /\ state.kind # "paired" -> "file"
                 [] OTHER -> "request",
        tool |-> tool, n |-> IF state.kind = "paired" THEN state.n ELSE None]]
  /\ excused' = IF tool = "unpair" THEN excused \cup (1 .. asked) ELSE excused
  /\ UNCHANGED <<state, loop, file, server, faults>>

ReadFile(c) ==
  /\ call[c].at = "file"
  /\ IF file = None
       THEN /\ IF call[c].tool = "status" THEN Return(c) ELSE At(c, "start")
            /\ UNCHANGED <<state, loop>>
       ELSE /\ Become(Paired(file))
            /\ call' = [call EXCEPT ![c].at = IF call[c].tool = "force" THEN "start" ELSE "request",
                                    ![c].n = file]
  /\ UNCHANGED <<file, server, faults, excused>>

\* The code that is pending is shown again; a denied request waits for force.
Start(c) ==
  /\ call[c].at = "start"
  /\ IF \/ state.kind = "pending" /\ state.n \notin over
        \/ state.kind = "denied" /\ call[c].tool # "force"
       THEN Return(c) ELSE At(c, "code")
  /\ UNCHANGED <<state, loop, file, server, faults, excused>>

\* What may still end a request that call c makes now: a token saved before it, a start()
\* or a forget() that looked at the state earlier, a 401 on its way, the answer to a poll
\* for an older request.
Crossed(c) ==
  \/ file # None
  \/ \E d \in Calls : d # c /\ (call[d].at = "request" => call[d].tool = "api")
                     /\ call[d].at \in {"code", "request", "forget", "erase", "drop"}
  \/ \E i \in Loops : loop[i] # None /\ loop[i].at # "sleep"

\* POST /auth/device/code is answered: a new request, and a loop of its own.
NewCode(c) ==
  /\ call[c].at = "code" /\ asked < MaxCodes
  /\ asked' = asked + 1
  /\ state' = Pending(asked + 1)
  /\ \E i \in Loops : /\ loop[i] = None
                      /\ loop' = [Others(None) EXCEPT ![i] =
                                    [at |-> "sleep", n |-> asked + 1, same |-> TRUE]]
  /\ excused' = IF Crossed(c) THEN excused \cup {asked + 1} ELSE excused
  /\ Return(c)
  /\ UNCHANGED <<file, code, over, works, faults>>

NoCode(c) ==
  /\ call[c].at = "code" /\ Fault /\ Return(c)
  /\ UNCHANGED <<state, loop, file, server, excused>>

\* The API call; pair_with_plancel and pairing_status make none.
Request(c) ==
  /\ call[c].at = "request"
  /\ IF call[c].tool = "api" /\ call[c].n \notin works THEN At(c, "forget") ELSE Return(c)
  /\ UNCHANGED <<state, loop, file, server, faults, excused>>

\* forget(): store.remove reads the file, writes it, and then the state goes.
Forget(c) ==
  /\ call[c].at = "forget" /\ At(c, IF file = None THEN "drop" ELSE "erase")
  /\ UNCHANGED <<state, loop, file, server, faults, excused>>

Erase(c) ==
  /\ call[c].at = "erase" /\ file' = None /\ At(c, "drop")
  /\ UNCHANGED <<state, loop, server, faults, excused>>

Drop(c) ==
  /\ call[c].at = "drop" /\ Become(Plain("idle")) /\ Return(c)
  /\ UNCHANGED <<file, server, faults, excused>>

-----------------------------------------------------------------------------
(* pollUntilDone.                                                          *)

Stop(i) == loop' = [loop EXCEPT ![i] = None]

\* The head of the while loop: go on with whatever request is pending now.
Continue(i) ==
  /\ loop' = [loop EXCEPT ![i] = IF state.kind = "pending"
                                 THEN [at |-> "sleep", n |-> state.n, same |-> TRUE] ELSE None]
  /\ UNCHANGED state

\* Mistake: the loop does not look whether its request is still the one that is pending.
WakeAnyway(i) ==
  /\ loop[i] # None /\ loop[i].at = "sleep"
  /\ loop' = [loop EXCEPT ![i].at = "fetch"]
  /\ UNCHANGED <<state, call, file, server, faults, excused>>

Wake(i) ==
  /\ loop[i] # None /\ loop[i].at = "sleep"
  /\ IF loop[i].same THEN loop' = [loop EXCEPT ![i].at = "fetch"] ELSE Stop(i)
  /\ UNCHANGED <<state, call, file, server, faults, excused>>

\* What the server says of code n (web/auth/device.ts, pollDeviceToken).
Says(n) == CASE n \in over \/ code[n] = "gone" -> "expired_token"
             [] n \notin over /\ code[n] = "denied" -> "access_denied"
             [] n \notin over /\ code[n] = "pending" -> "authorization_pending"
             [] OTHER -> "token"

\* Every answer but a pending one ends the code; the token works from its approval.
Served(n) == code' = IF Says(n) = "authorization_pending" THEN code ELSE [code EXCEPT ![n] = "gone"]

Poll(i) ==
  /\ loop[i] # None /\ loop[i].at = "fetch"
  /\ LET n == loop[i].n IN
     /\ Served(n)
     /\ \/ Says(n) = "authorization_pending" /\ Continue(i)
        \/ Says(n) = "token" /\ loop' = [loop EXCEPT ![i].at = "save"] /\ UNCHANGED state
        \/ Says(n) = "access_denied" /\ state' = Plain("denied")
             /\ loop' = [Others(None) EXCEPT ![i] = None]
        \/ Says(n) = "expired_token" /\ state' = Plain("expired")
             /\ loop' = [Others(None) EXCEPT ![i] = None]
  /\ UNCHANGED <<call, file, asked, over, works, faults, excused>>

\* slow_down: the request goes on as a new state object.
SlowDown(i) ==
  /\ loop[i] # None /\ loop[i].at = "fetch" /\ Says(loop[i].n) # "expired_token" /\ Fault
  /\ state' = Pending(loop[i].n)
  /\ loop' = [Others(i) EXCEPT ![i].at = "sleep", ![i].same = TRUE]
  /\ UNCHANGED <<call, file, server, excused>>

\* fetch throws, before the server saw the poll or after: try again.
Blip(i) ==
  /\ loop[i] # None /\ loop[i].at = "fetch" /\ Fault
  /\ code' = code \/ Served(loop[i].n)
  /\ Continue(i)
  /\ UNCHANGED <<call, file, asked, over, works, excused>>

\* Any other answer (a 5xx, a body that is no JSON) ends the request like an expired code.
Refused(i) ==
  /\ loop[i] # None /\ loop[i].at = "fetch" /\ Fault
  /\ state' = Plain("expired") /\ loop' = [Others(None) EXCEPT ![i] = None]
  /\ code' = code \/ Served(loop[i].n)
  /\ excused' = excused \cup {loop[i].n}
  /\ UNCHANGED <<call, file, asked, over, works>>

Save(i) ==
  /\ loop[i] # None /\ loop[i].at = "save"
  /\ file' = loop[i].n /\ loop' = [loop EXCEPT ![i].at = "saved"]
  /\ UNCHANGED <<state, call, server, faults, excused>>

Saved(i) ==
  /\ loop[i] # None /\ loop[i].at = "saved"
  /\ state' = Paired(loop[i].n) /\ loop' = [Others(None) EXCEPT ![i] = None]
  /\ UNCHANGED <<call, file, server, faults, excused>>

\* The process ends (a save that throws ends it too: nobody catches the loop's error).
Restart ==
  /\ Fault /\ state' = Plain("idle") /\ loop' = [i \in Loops |-> None]
  /\ call' = [c \in Calls |-> NoCall] /\ excused' = excused \cup (1 .. asked)
  /\ UNCHANGED <<file, server>>

-----------------------------------------------------------------------------
(* At the server: the person's answer, the code's life, a revocation.      *)

Answer(n) ==
  /\ n \in (1 .. asked) \ over /\ code[n] = "pending"
  /\ \/ code' = [code EXCEPT ![n] = "approved"] /\ works' = works \cup {n}
     \/ code' = [code EXCEPT ![n] = "denied"] /\ UNCHANGED works
  /\ UNCHANGED <<client, asked, over, faults, excused>>

LifeEnds(n) ==
  /\ n \in (1 .. asked) \ over /\ over' = over \cup {n}
  /\ UNCHANGED <<client, asked, code, works, faults, excused>>

Revoke(n) ==
  /\ n \in works /\ works' = works \ {n}
  /\ UNCHANGED <<client, asked, code, over, faults, excused>>

Next ==
  \/ \E c \in Calls : \/ \E tool \in Tools : ToolCall(c, tool)
                      \/ ReadFile(c) \/ Start(c) \/ NewCode(c) \/ NoCode(c) \/ Request(c)
                      \/ Forget(c) \/ Erase(c) \/ Drop(c)
  \/ \E i \in Loops : Wake(i) \/ Poll(i) \/ SlowDown(i) \/ Blip(i) \/ Refused(i) \/ Save(i) \/ Saved(i)
  \/ Restart
  \/ \E n \in Codes : Answer(n) \/ LifeEnds(n) \/ Revoke(n)

Spec == Init /\ [][Next]_vars

-----------------------------------------------------------------------------
(* Properties.                                                             *)

\* The request that is pending is polled by a loop that knows it, whatever overlaps: calls,
\* answers to older requests, failing polls, slow_downs (pairing.ts:120-165).
PendingIsPolled ==
  state.kind = "pending" =>
    \E i \in Loops : loop[i] # None /\ loop[i].same /\ loop[i].n = state.n

\* A code on the screen stays the request that is pending until its life or its answer ends
\* it, unless something that had begun before it could still replace it (Crossed), the person
\* dropped it (unpair), or the poll or the process broke down.
ShownIsPending ==
  \A n \in (1 .. asked) \ (over \cup excused) : code[n] # "gone" => state = Pending(n)

\* So its approval is always fetched, and there is one such code: the next call shows the
\* same (pairing.ts:78-80, 120-165).
ShownIsPolled == ShownIsPending /\ PendingIsPolled

\* What pairing.ts:79-80 promises of start(): "Idempotent while one is pending: the same
\* code comes back." Two calls that overlap each show a code of their own.
SameCodeComesBack ==
  [][state.kind = "pending" /\ state.n \notin over /\ state'.kind = "pending" => state'.n = state.n]_vars
=============================================================================
