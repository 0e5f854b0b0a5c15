# A verification project for s2-kit

s2-kit is a Rust implementation of EN 50491-12-2 (S2), the protocol between a
Resource Manager (RM: the software of one device) and a Customer Energy Manager
(CEM: the software that decides when devices use energy), and of S2 Connect, the
pairing and session-initiation protocol in front of it. This directory holds TLA+
modules that model its protocol core, configurations that check them with TLC, and
proofs checked by TLAPS. Paths below are relative to `src/src/` of the repository;
`PROJECT.json` maps every definition to the lines it stands for.

## 1. Inventory

The crate is sans-I/O: engines are state machines that take decoded messages and a
clock, and queue messages to send; drivers move bytes.

| Component | State it keeps | Operations | Interacts with |
|---|---|---|---|
| State table, `validate/state.rs` | none | which kind may cross from which role in which phase | consulted by both engines before a message is judged and before one is sent |
| RM engine, `session/rm.rs` | session state, version, details, close reason, outbox | `open`, `handle_text`/`handle_message`, `handle_timeout`, `send`, `report_instruction`, `close`, `transport_closed` | the peer through messages; its application through events |
| CEM engine, `session/cem.rs` | the same, and the one selection it waits for | `open`, `handle_*`, `select_control_type`, `instruct`, `close` | the same |
| Acknowledgement ledger, `session/core.rs` 231-365 | messages sent and not yet answered, with deadlines; the last 256 answers given | `sent`, `received`, `expire`, `next_deadline`, `answered`, `previous_answer` | owned by each engine |
| Registry, `session/core.rs` 367-760 | descriptions scheduled, in force and published; modes, timers, instructions | `record`, `schedule`, `activate_due`, `revoke`, `apply` | owned by each engine; judged against by the validation |
| Driver, `io.rs` | the transport, when the last keep-alive was sent | `step`, `run`, `flush`, `wait`: frames, the session's deadline, the keep-alive, errors and the close | one engine and one transport, two clocks |
| Session set, `session/set.rs` | a map of sessions | routing, earliest deadline | several engines |
| Backoff, `session/core.rs` 1053-1102 | none | delay from an attempt number | drivers |
| Session initiation, `connect/proto/session_init.rs` | client: token list, phase, how far down the list it is, the grant; server: token list, the communication token it issued | `initiate`, `unauthorized`, `accept`, `confirm`, `connected`, `restart`, `unpaired`; `initiate_session`, `confirm_access_token`, `unpair` | over HTTPS |
| Its drivers, `connect/client/session.rs`, `connect/server/{session,store,ws}.rs` | the client's loop; the server's persistent `Store` and the communication tokens it issued | requests with a ten-second timeout; read, change and write back per request; the WebSocket upgrade | each other, the store |
| Pairing machines, `connect/proto/pairing.rs` | client: step, code, the bearer of its attempt; server: the attempt in flight, when the last one ended | `request_pairing`, `accept`, `connection_details`, `finalize`; `request_pairing`, `verify_client`, `connection_details`, `finalize` | over HTTPS; produce the first access token |
| Their drivers, `connect/client/pairing.rs`, `connect/server/{pairing,routes,store}.rs` | the certificates the client met; one machine per node, the router's list of live attempts, the store's pairings and open nodes | four requests with a ten-second timeout and an `abandon`; the handlers, which sleep out the mandatory second and store the pairing after the machine's lock is released | each other, the store, users who open a node and type its code |
| Long polling, `connect/server/longpoll.rs`, `connect/client/lan.rs` | an action per node waiting for a poll, the nodes seen, the requests held | `instruct` from any thread of the host; `poll`, which looks, registers, looks again and waits | the client that asks again after every answer |
| Validation, `validate/{messages,mod,rules}.rs` | none; judges against a `Context` | a report of the rules a message breaks, and the status it is answered with | the registry, both engines, on what is sent as on what is received |
| Message types and device model, `types/`, `model/` | none | resolving an instruction, its power and rates, limits in force, schedules, explanations | applications; reads the same `Context` |
| LAN pairing, discovery, TLS, HTTP | sockets, certificates | network I/O | pairing, initiation |
| Codec and schema | none | pure functions of one frame | both engines |
| Trace analysis, simulators, command line | none that the protocol reads | offline | recorded traffic |

What is hard here: two engines that act at once and learn of each other's actions
late; acknowledgements that are late, duplicated, lost or name nothing; a wall clock
that can be stepped back; bounded windows and queues; descriptions that take effect
later, are corrected, revoked and replaced meanwhile, while what is judged against them
arrives; a validator and a device model that read one description in two places; a
driver in which a frame, a deadline and a keep-alive fall together; requests held open
while another thread decides to wake them; clients that race for one attempt slot, with
two tables that learn of it at different moments; a two-phase rotation of credentials
between two processes that persist, restart and lose messages. What makes each component
correct:

- the two engines agree on the version and, once nothing is in flight, on the control
  type; nothing a peer was allowed to send is refused as out of place; each side's
  reason for closing is true; a close at one side ends the other;
- every message sent has exactly one outcome, and a message delivered twice is acted on
  once;
- what was revoked stays gone, what replaced it survives, and what is remembered about
  modes and timers is remembered of the description in force;
- what the validator accepts, the device model resolves: the same modes, the same
  timers, limits within what was allowed, and schedules that exist;
- keep-alives and deadlines are on time however busy the connection is, and what a
  session queued last is sent before its connection is closed;
- no request sleeps through an action, and a node is told each action once, in order;
- one opening of a node pairs one client, a client holds no pairing the server does not,
  a failed attempt does not keep the node busy, and a node answers once a second;
- the two sides of a pairing always share a token, and a communication token opens at
  most one connection.

The list of hazards, each at its line, is in `PROJECT.json`.

## 2. Modules

From the bottom up:

- `StateTable` - kinds, phases, roles, control types and versions as pure operators
  translated from `validate/state.rs`, and which kind exists in which wire profile.
- `SessionCore` - what the engines share: the eleven variables of a session, answering
  (`Ignore`, `AnswerUnreadable`, `AnswerDuplicate`, `RefuseInvalid`, `RefuseByPolicy`,
  `AcceptOther`, `Unmatched`, one action per way `handle_message` can end), sending,
  closing, and the connection.
- `RmSession`, `CemSession` - the two engines: one action per operation and per kind of
  message that changes their state. An action is the whole handler: it takes the
  message off the connection, answers it, and does what the handler does.
- `Session` - both engines over one connection, the specification, the fairness, and
  the properties. `MCSession` gives the constants small values. `SessionProofs` has the
  theorems about one engine at a time, then those about the two and what is on its way
  between them.
- `SendOutcome`, `AckLedger` - what the ledger promises for each message sent, and the
  ledger against a wall clock and an arbitrary peer; the second refines the first.
  `LedgerProofs`.
- `Registry`, `MCRegistry` - scheduled, corrected, activated and revoked descriptions of
  several control types. `RegistryProofs`.
- `Values`, `Tables` - numbers, ranges, quantities, forecasts and transitions
  (`types/common.rs`), and the bounded tables of `session/core.rs`.
- `Rules` - the rule catalogue with its severities, the `Context`, and the checks that
  messages share.
- `ModeContent`, `PowerContent`, `Content` - the messages of the control types with
  operation modes (FRBC, OMBC, DDBC), of power envelopes and profiles (PEBC, PPBC) and
  of none, with what `validate/messages.rs` checks of each; `Judge` is the report.
- `DeviceModel` - what an instruction would do: resolution, projections, limits in
  force, energy windows, schedules, and the explanation (`model/`).
- `Judging`, `MCJudging` - the composition: the registry, instantiated from `Registry`
  and extended with the contents of what it keeps and every other table, around the
  rules and the device model. `MCJudging` writes the messages. `JudgingProofs`.
- `Driver` - the loop that pumps a session over a transport. `DriverProofs`.
- `LongPoll`, `MCLongPoll` - the queue behind `waitForPairing`, the requests it holds,
  and the client that polls. `LongPollProofs`.
- `TokenStore`, `SessionInitiation` - the token list, and session initiation between a
  client and a server that lose messages and restart. `InitiationProofs`.
- `Pairing`, `MCPairing` - clients pairing with one node of an endpoint: both machines,
  the client's driver, the handlers, the router's list and the store. `PairingProofs`.

How state corresponds to code:

- `net[r]` is everything on its way to role `r`: the peer's outbox, the driver's flush
  and the socket, in order. `Disconnect` fails the connection and loses a suffix of
  what is on its way; `Redeliver` is the retrying proxy the crate's duplicate window is
  for, `MaxCopies` times.
- In `Session` a message is a kind, an identifier and one argument (a selection, a
  version, a description's name, a status). Content rules are abstracted to a choice:
  kinds in `ContentKinds` may be refused as `INVALID_CONTENT`; what the inbound policy
  answers is in `PolicyAnswers`. Both are sets a configuration chooses, the first
  because `Judging` is about those rules, the second because it is the application's.
- In `Session` time is left out: a deadline in `GivesUp` may pass at any moment for any
  set of pending messages (a wall clock may be stepped between two sends, so the ones
  that expire need not be the oldest). `AckLedger` has the clock and the bounded window
  that `Session` leaves unbounded; an identifier is sent once, so what it waits for
  is a set. `selecting` is `CemSession::pending_selection`, a set
  of at most one.
- In `Judging` the variables are the fields of `Registry` in `session/core.rs`. A
  message is a record with the fields its rules read, a rule a string of the catalogue,
  a report the set of rules that fire: the path and the wording of a violation are left
  out, its severity and the status it leads to are not. A number is an integer or
  `NotFinite`; a factor is a number of `Unit`ths, and the spans of power ranges are
  multiples of `Unit` (`IsExact`), so a factor and the power it yields determine each
  other, as they do in the code but for rounding. `Decoded` says what a message is known
  to be when it is judged, because it was decoded: lists, numbers, times that are natural
  numbers. `SkewTolerance` is the context's allowance for a sender's clock
  (30 s in the contexts the code builds), a unit of time in the run. `Repeats` says that two descriptions of one identifier differ in their time
  only; a description is named by its identifier. The control type is chosen once per
  behaviour. An engine's `validate_outbound` judges what it sends, so `Acceptable` is
  the same for both directions; a duplicate is answered by the ledger and never judged;
  an accepted message that publishes nothing leaves no trace. A table holds `MaxTracked`
  entries where the code's holds 4096.
- In `Driver` the session is what the trait `Session` promises: messages to send, a set
  of deadlines, whether it is closed. Every await is a step. `clock` is the wall clock
  that `now()` reads, which anything may set; `wake.left` is what is left of the sleep,
  in time that really passes. Time passes only while the driver waits: sends take none,
  a branch of the `select` that is ready is taken before time goes on, and the
  application is back at `step` at once. `elapsed`, `queued`, `sincePing`, `setBack`,
  `overdue` and `setForward` are recorded for the properties; no code reads them.
- In `LongPoll` an action is the number of the instruction that queued it, so that
  actions of a node are ordered; `request[r].at` is how far `poll` is, one step per look
  at the queue and one per await. `woken` is the permit a registered `Notified` has been
  given. A unit of time is the five seconds between the server's hold and the client's
  timeout. `made`, `told`, `owed` and `watches` are history. A node asks through one
  endpoint (`OwnersAssumption`): it is that endpoint that knows it.
- In `SessionInitiation` an access token is the number of the grant that minted it, so a
  newest-first list is a set ordered by that number. `driver` tells the crate's own
  `Session`, which sends the confirmation before its caller can persist anything, from
  an integrator driving `SessionInitClient` directly and persisting in between. `disk`
  is a set of numbers: `TokenStore` gives out only tokens, and a restarted client
  `adopt`s them as in force. The server's handlers read the store (`Begin`) and write
  it back later, so handlers can overlap. Time is in units of about five seconds: a
  request's timeout of ten is two, the fifteen a grant may wait to be confirmed are
  three, and a communication token's thirty are cut to two.
- In `Pairing` a user's code is the number of the opening whose token it names, 0 when it
  was mistyped, and the challenge of either side succeeds when the two tokens are equal;
  the certificate a server presents is a number, which a restart may change. `Inputs`
  folds roles, versions, transports and hash functions into one choice, because each has
  the same effect: a refusal that takes up the node's second. A request is a record that
  stays in `requests` until it is handled; `live` says whether its client still waits,
  and a client that stopped may or may not take its handler down with it (`Leave`).
  `sleeping` are the handlers waiting out the second, which the router learns of only
  afterwards; `finishing` are those past the machine's lock, one store call per action.
  They hold up the clock, since the store's calls do not wait. The fifteen, ten and one
  seconds are three, two and one units. `agreed`, `made` and `answered` are recorded for
  the properties and read by no action.

Definitions whose comment begins "Mutant of" are not part of the model: each is a
plausible mistake in the definition it names, under which a property fails.

## 3. Runs

| Run | Module | Question | Bounds |
|---|---|---|---|
| `session_handshake` | `MCSession` | handshake with version choice, refusals, policy, one copy, connection failure | RM speaks only 0.0.2-beta; 3 messages minted per side; 1 copy |
| `session_selection` | `MCSession` | selection, deselection, changing details, publications and instructions racing | pre-negotiated; two descriptions; 3 messages per side; 1 copy |
| `session_liveness` | `MCSession` | while the connection holds, handshake, close, selection and every send come to an end, also an oversized frame | both sides give up; 3 messages per side; no copy |
| `ledger` | `AckLedger` | the outcome of what was sent, and the window of what was answered | 2 sent, 2 inbound identifiers, 4 answers, window 2, clock to 4, one step back |
| `registry` | `MCRegistry` | scheduled and corrected descriptions | 3 descriptions of 2 types, 2 may wait, clock to 2 |
| `content` | `MCJudging` | what the rules accept against what the device model makes of it | 18 to 29 messages per control type, tables of 2, 1 description may wait, clock to 1 |
| `driver` | `Driver` | keep-alives, deadlines and last words | `run` and a loop over `step`; interval 3, acknowledgement timeout 2, 6 units of time, 3 messages, a clock set by 3 or 6 |
| `longpoll` | `MCLongPoll` | wake-ups, order and delivery | 3 nodes, room for 2, 2 per request, 2 clients, 2 requests at once, 3 instructions, 1 failed connection |
| `initiation` | `SessionInitiation` | rotation under any single failure | both drivers, 2 connections, 3 tokens per list, clock to 7, 1 failure |
| `pairing` | `MCPairing` | two clients, one node | 2 openings, 2 runs, 2 answers, clock to 5, 1 failure; server a CEM or an RM |
| `registry_correction`, `initiation_restart` | | a statement of the repository the code does not keep (section 6) | smallest that shows it |

What the passing runs establish:

- *Handshake.* `VersionAgreement`: two sides past the handshake use one version, never
  one neither offered, and every frame exists in the profile it is read against.
  `NoForgottenAck`: whatever is waited for is on its way, or its answer is.
  `ReasonsAreTrue`: a side that says its peer asked to end the session, or that its
  transport failed, is right. `ClosedIsFinal`. `TypeOK`.
- *Selection.* `FollowsResource`: with no selection unanswered both sides are in the
  same control type. It needs the acknowledgement queued before anything the new state
  allows, duplicates not processed twice, and a manager that waits for its answer before
  selecting again. `PublicationsInPlace` and `OnlyRacingInstructionsOutOfPlace` say what
  can be refused as out of place: nothing of the resource's, and of the manager's only
  what raced a deselection.
- *Liveness.* `HandshakeEnds`, `ClosePropagates`, `EverySendEnds`, with
  `AwaitedSelectionIsPending`, which makes every selection one of those sends. All three
  are about a connection that holds. When a transport fails, `step` and `run` return the
  error (`io.rs` 403-456, 508) and only a clean end of the stream tells the session
  (438-440), so a session whose connection failed in the handshake, for which there is
  no timer, or after its peer closed, stays as it is until its application calls
  `transport_closed`; a write to a peer that is gone is such a failure too. A frame
  over the peer's size cap is answered with the nil identifier, which matches nothing, so
  only the deadline ends the wait.
- *Ledger.* It implements `SendOutcome`: one outcome per message, never taken back. A
  message is acted on again only once as many answers as the window holds were given
  since (`OncePerWindow`).
- *Registry.* `RevokedStaysGone`, `ReplacementSurvivesRevoke`, and
  `EvictionKeepsTheSoonest` for a queue that is full.
- *Content.* For every state the tables can be brought into by messages the rules accept:
  `AcceptedResolves`, what is accepted resolves and what does not resolve is refused;
  `BlockedAsExplained`, the rule and the explanation wait for the same timers;
  `KnownIsDescribed`, modes and timers known are the effective description's;
  `EnvelopeAsAllowed`, limits are in force exactly while the envelope lasts, do not cross
  and stay within the ranges allowed; `WindowsAreExact`, the windows of a schedule are
  those of the start times a search finds, the longest pauses notwithstanding; `TooShortMeansUnschedulable`, the warning
  about a window is true in both directions; `ExplainedAsDescribed`, an explanation gives
  the rates, powers and durations that the description does.
- *Driver.* `PingsInTime`: never more than an interval between two keep-alives, however
  many frames and deadlines wake the driver - only setting the clock back adds to it.
  `DeadlinesKeepTime`: a deadline that is due waits for nothing, or, when the clock was
  set past it, for the next keep-alive. `LastWordsAreSent`: in order, once, and all of it
  before the connection is closed.
- *Long polling.* `SleepersAreWoken`: between the second look and the wait no wake-up is
  missed. `EachActionOnceInOrder`, for a client whose request timed out while its
  successor was answered. `QueuedActionsArrive`: what is queued for a node that some
  client asks for, and that has a place in the table, reaches it, is replaced, or was
  carried by a connection that failed.
- *Initiation.* With any one request or reply lost, either process restarted once, and
  calls that last up to their timeout: the two sides share a token (`PairingSurvives`), a
  communication token opens one connection and only while it is the newest and fresh
  (`ConnectionsAreAuthorised`); the crate's own driver says `NotPaired` only when the
  pairing is gone (`DriverKnowsWhenGone`) and, while its caller keeps trying, is connected
  again (`Reconnects`). The last two are not said of an integrator that restarts one
  machine: section 6, `initiation_restart`.
- *Pairing.* `OpeningUsedOnce`: the pairing is stored and the token consumed after the
  lock is released, and still no second client pairs with the same opening, because the
  node's second is longer than a store call. `RouterAgrees`: a bearer the router lets
  through is that of the machine's attempt or of one being finalized. `PairingsAreMutual`:
  what a client holds the server stored, and what the server stored a client finalized.
  `LastManagerOnly`: when the answer goes out a Resource Manager has one energy manager.
  `FailureReleases`: while nothing is lost, no attempt remains that nobody pursues.
  `AnswersAreSpaced`: the machine's answers, refusals included, are a second apart.

Bounds and why they are enough. Three messages per side are the details or the
handshake, a selection and its reversal or an instruction, which is what the races need;
one copy is the least that tests the duplicate window, and two behave as one repeated.
The window of two answers with two identifiers and four answers lets the window wrap,
with a duplicate taking a slot. Two waiting descriptions with three announced make the
queue overflow. In `content` each control type has, for the rules that matter to the
properties, a message that meets them and one that just misses; tables of two overflow
with the third entry, and one unit of time lets a scheduled description take effect and
a timer finish. In `driver` an interval longer than a deadline and two of them within
the time lets every order of the two happen; the clock may be set by less and by more
than the interval. In `longpoll` the stranger may fill the table before the gateway's
nodes come, and two requests are a request that timed out and its successor. In
`initiation` a list of three is filled by one lost grant and the slow calls that follow
it; the code's four is the same with one more. One failure is not a limit of convenience
there: with more the property is false (section 6). Two clients and two openings are a
race and a reopening in the middle of one; the clock reaches past the budget of the
first attempt and a full second attempt. The run stays in the LAN: where a
client is only changes whom it takes for the communication server (`Posts`, which for
either place of the server comes out the same), and section 6 is about that. The
clients' symmetry is sound because no action distinguishes them.

Fairness. A driver's `step` flushes, then waits for a frame, a deadline or the
keep-alive (`io.rs` 402-480), so receiving and timing out are weakly fair, and so is
noticing that the peer closed, each only while the connection holds (`up`): a transport
that fails ends the step with an error, and nothing is assumed of the application then,
which may or may not call `transport_closed` (the action stays possible, and safety is
checked with and without it). Applications open the sessions they build; nothing obliges
them to send, or a connection to fail. In `SessionInitiation` the caller of
`initiate` retries, the server handles what it receives and a request that gets no reply
times out; failures are not fair, and neither are unpairing, dialling and the clock. In
`LongPoll` the runtime polls every future that is ready (`Progress(r)`), a thread in
`instruct` reaches `notify_waiters` (`Notify`), clients ask again in their loop (`Ask`)
and time passes (`Tick`); hang-ups and instructions are not fair. Liveness is checked
under `FairSpec` only.

Deadlock is checked in the runs of `Session`, `Registry`, `Judging` and `LongPoll` (a
session that is over stutters through `Ended`); `ledger`, `initiation`, `pairing` and
`driver` end where their bounds do, or when a driver is done, so it is off there.

## 4. Theorems

Each is proved for every value of the constants that satisfies the assumptions its
module states.

`SessionProofs`, about `Session`:

- `TypeCorrectness`: `Spec => []TypeOK`;
- `VersionsAgree`: `Spec => []VersionAgreement`, for every pair of version lists;
- `AwaitedSelections`: `Spec => []AwaitedSelectionIsPending`;
- `ClosedStaysClosed`: `Spec => ClosedIsFinal`.

The first three rest on one inductive invariant, `Inv == Typed /\ Agreeing /\ Awaiting`.
Version agreement alone is not inductive: nothing in it says what a message still on its
way carries. `Good` is the missing part: every message in `net` has an argument that fits
its kind, a choice of version is the manager's `Chosen`, no handshake message exists in a
pre-negotiated session, and the kind exists in the profile of the version both will
agree on. `Agreeing` adds that a version is the agreed one from the moment it is set, and
that a side past the handshake has one. `Awaiting` ties the selection the manager waits
for to its ledger and to a state in which it may select at all. `Init => Inv` and
`Inv /\ [Next]_vars => Inv'` are proved action by action, over lemmas about the shared
helpers (`AnswerIsGood`, `SharedReceive`, `SendingStep`, `ClosingStep`). `ChosenIsCommon`
shows by well-foundedness of `<` that the manager's choice is one of its versions and one
the resource offered. `ClosedStaysClosed` is proved from `Typed` and a second split over
the actions: a closed session's steps only drop what arrives.

The rest of `SessionProofs` is about the two sides and what is on its way between them,
for any number of messages, copies and failures of the connection:

- `ReasonsHold`: `Spec => []ReasonsAreTrue`. `Numbered` says that whoever asks uses its
  own identifiers and each once, `Truthful` that a question has one answer and that the
  answers on their way are the remembered ones, `Closing` that a request to end the
  session comes from a side that closed. A reason is then true when it is given, and what
  makes it true does not go away.
- `NothingIsForgotten`: `Spec => []NoForgottenAck`, if applications send no frame over the
  size cap: such a frame is answered without its identifier, so it is forgotten
  indeed, and only its deadline ends the wait.
- `ManagerFollows`: `Spec => []FollowsResource`, if the manager waits for its selection's
  answer and makes no other meanwhile. `Meeting` has the handshake (`Shaking`), what may
  be asked for (`Choosing`), who is behind (`Waiting`) and the equation that is the
  inductive form of the property (`Following`): the resource is where the manager is, or,
  when it accepted the selection awaited, where that leads.
- `NothingOutOfPlace`: `Spec => []PublicationsInPlace`, under the same two hypotheses.
  Judging only the head of the queue is not inductive: `InPlace` says of every place of
  the queue by which row the manager will read it, the one it is in or, behind the answer
  it awaits, the one selected; `AckOnTheWay` that this answer is indeed on its way.
- `OnlyRacingInstructions`: `Spec => []OnlyRacingInstructionsOutOfPlace`. It needs one
  hypothesis more where there is a handshake: that nothing makes the resource refuse the
  manager's choice of a version. A resource that refuses it stays in the handshake while
  the manager goes on, and what the manager selects is then out of place without any race.
  `HandshakeFirst`, `ChoiceFirst` and `InstructionsInPlace` say what is ahead of what in
  the resource's queue.

The hypotheses are exact in the sense that TLC finds a counterexample without each. Every
action is first reduced to what it does to the queues, the ledgers and the states
(`EverythingSteps`: a `Step(r)` of one side), so the invariants are shown to be kept
by that once and not by each action. `SessionCore` assumes that the frame over the
cap is no resource's details, which is how the names of the model are meant.

`LedgerProofs`, about `AckLedger`:

- `OnceWithinTheWindow`: `Spec => OncePerWindow`, for every size of the window. The
  invariant `Window` says what the window is: the end of the history of answers, all of it
  until it is full. What is not found there was last answered at least a window ago.
- `EveryMessageOneOutcome`: `Spec => ImplementsSendOutcome`, the refinement: each step
  of the ledger is a step of `SendOutcome` or leaves it alone. `Accounts` ties what is
  waited for to what was sent and not told, and `ToldOnce` says that an identifier has one
  outcome at most.

`RegistryProofs`, about `Registry`:

- `RevocationHolds`: `Spec => RevokedStaysGone`. `Spec => ReplacementSurvivesRevoke` is
  `RevocationSpares`. `AmongElements` says what is in a queue that is filtered, `Kept`
  what a full queue keeps.
- `EvictionIsOfTheFurthest`: `Spec => EvictionKeepsTheSoonest`, for every length of the
  queue, from the place of the entry that `schedule` picks (`Later`).

`DriverProofs`, about `Driver`:

- `KeepAlivesInTime`: `Spec => []PingsInTime`. `Pinging` relates the wall clock to the
  time that passed: the clock has moved from the last keep-alive by what passed, less at
  most what it was set back; a sleep ends no later than the interval does.
- `DeadlinesInTime`: `Spec => []DeadlinesKeepTime`. `Punctual` says that while the driver
  sleeps past a deadline the clock has been set forward, and that otherwise the sleep ends with
  the earliest deadline; that there is an earliest one is `MinOfNaturals`.
- `LastWords`: `Spec => []LastWordsAreSent`. `Ordered` says that what was sent, what is
  in hand and what is queued, joined, are the messages in the order they were queued.

`LongPollProofs`, about `LongPoll`:

- `NobodySleepsThrough`: `Spec => []SleepersAreWoken`. The property is about requests
  that wait; `Guarded` has it for every request from the moment it is registered, which
  is why the second look after registering is enough.
- `ToldInOrder`: `Spec => []EachActionOnceInOrder`. `InOrder` adds what the answer in
  flight alone does not say: a client waits for one answer at a time and finds only its
  own nodes' actions, what is queued is newer than what was told, and newer than any
  answer not yet received.

`PairingProofs`, about `Pairing`, for any number of clients, runs, openings and failures:
`PairingIsMutual`, `OneOpeningOnePairing`, `OneManagerLeft`, `RouterFollowsMachine`,
`FailuresRelease` and `SecondBetweenAnswers` are the six properties the run checks. One
invariant, `Inv`, holds them together. `Owned` says that an attempt, wherever it is
spoken of - by the machine, a handler, a client, a reply, the store - is one client's,
which is what keeps a late request from finishing another's pairing; `Awaited` and `Knows`
say what a client waits for at each step and what it holds; `Mutual` is
`PairingsAreMutual` at every step on the way to it; `UsedUp` says that a token that paired
a client is nobody's any more, for which `RecentlyAnswered` is needed: the machine's
second is why no second attempt verifies between the end of one and its store; `ToldLater`
is the interval in which machine and router differ; `NothingLost` names who will answer
whom while nothing is lost.

`InitiationProofs`, about `SessionInitiation`:

- `OnlyAuthorisedConnections`: `Spec => ConnectionsAreAuthorised`, with any number of
  failures, overlapping handlers included. `NewestOnly`: the server would accept at most
  the token it issued last, at the time the log has for it, and has seen no token it has
  yet to issue.
- `SurvivesAnyFailure`: `Spec => []PairingSurvives`, for one failure at most, whichever
  it is, and every lifetime of a grant, timeout, number of connections and length of the
  list from three on. `Structure` is the shape of a call: one request, handled while the
  client waits, so what its handler read is what the server holds; what each reply says of
  the two lists; how long a call lasts. `Faultless` is what holds until something fails:
  both sides hold the token in force, and every unconfirmed grant but the one of this call
  has lapsed, or on the client's side nearly has. So no list has more than three entries
  in use and the token in force is never pushed out; that is the step which needs the
  cardinality of a list (`InForceStays`). The failure then costs one side its step, the two
  share a token all the same (`SharedBeforeFailure`), and from there `PairingSurvives` is
  inductive with `Structure` alone (`ClientKeepsShared`, `ServerKeepsShared`).
- `DriverAsksForHelpOnlyWhenGone`: `Spec => []DriverKnowsWhenGone`, under the same
  hypotheses. The code counts refusals, so the proof counts places: a list has as many
  places as entries and one entry at each (`FewerBefore`, `OneCandidate`,
  `CandidateExists`, the last by an injection between finite sets). `Passed`: the server
  accepts nothing above the driver's place. `Presented`: what it presents is the entry at
  its place. When the last place was refused the two share nothing, which
  `PairingSurvives` leaves only to a server that forgot the pairing.

The hypotheses of the last two: a failure at most (`MaxFaults <= 1`); a request given up
on is lost, not late (`~Late`); the driver's process does not end in the middle of a call;
a list holds three tokens or more - four in the code. Without any one of the first three TLC
finds a counterexample to both properties; the driver's after two failures needs a grant
that lives no longer than a call may last. With that lifetime and a list of two an
integrator's machine loses the pairing; the driver was not seen to, and its theorem has
that hypothesis because it rests on the other.

`JudgingProofs`, about `Judging`, for every set of messages and descriptions, every
length of the tables and of the queue, and lists of any length in the messages. All seven
properties of the run `content` are theorems here.

- `DescriptionsFollowRegistry`: `Spec => R!Spec`, the refinement. A step of an engine that
  judges is a step of `Registry` or leaves it alone (`EveryStep`), so `RegistryProofs`,
  instantiated, speaks of it too; `RevokedHereStaysGone` is `Spec => []R!RevokedStaysGone`.
  In the same proof `InForceUsable` is shown inductive: what waits or is in force was
  accepted once, so it is of the selected control type, decoded, and has what the rules ask
  of it (`Vetted`). This is what lets every theorem below use a rule that was applied
  to a description long before the instruction it helps to read.
- `KnownWasDescribed`: `Spec => []KnownIsDescribed`, with `TablesHold`: each table is a
  sequence of entries with a key of their own, which `Upsert`, `Bounded` and `Without`
  keep (`UpsertHolds`, `AmongHolds`).
- `BlockedIsExplained`: `Spec => []BlockedAsExplained`. Both sides look up the mode, the
  move and the timers of the same actuator, which needs that a lookup by identifier finds
  the one entry of that identifier.
- `AcceptedIsResolved`: `Spec => []AcceptedResolves`, rule by rule. That a mode's bands
  leave no level between their ends uncovered (`Tiled`) follows from `CheckContiguous` by
  the first band that ends at or above the level. `FillLevelHolds`: the fill level is
  an integer once it is known.
- `EnvelopesKeepAllowed`: `Spec => []EnvelopeAsAllowed`. `ElapsingIs` says what the element
  in force at an offset is, for lists of any length; `PublicationsHold` that energy
  constraints and profiles in the tables have what their rules ask.
- `WindowsHold`: `Spec => []WindowsAreExact`. The windows of a schedule are sums of
  durations from the front and from the back (`Lasts`); that both ends of a window pass
  is shown by giving the starts, all sequences end to end from the opening of the profile
  and all of them end to end up to its close (`EndToEndIsFeasible`). Neither pauses, and
  so nothing need be said of the longest pauses: only the first sequence waits, and
  `starts_are_feasible` bounds no pause before the first.
- `TooShortIsTrue`: `Spec => []TooShortMeansUnschedulable`. The rule adds up the shortest
  sequence of each container; that a choice can be scheduled exactly if that sum fits
  is the comparison of two sums, place by place.
- `ExplanationsKeepDescriptions`: `Spec => []ExplainedAsDescribed`. The factor that
  `FactorForPower` finds for an interpolated power is the one it was interpolated with: a
  fact about integer division (`IsExact`), whichever way the range runs.

A sum over a list is recursive, and the library's induction theorems cannot be instantiated
here. What is needed of `Sum` is therefore proved from well-foundedness of `<`, without an
operator parameter: the running sums exist as a set of functions, and of a fact about
them that failed there would be a least place where it does. What is assumed
(`JudgingAssumption`): messages are `Decoded`, an identifier names one description, and
what a scheduled one says of its time lies within the model's clock; `DeviceModelAssumption`
and `RulesAssumption` keep `Absent` apart from what it is the absence of.

Model-checked only: every liveness property (`HandshakeEnds`, `ClosePropagates`,
`EverySendEnds`, `Reconnects`, `QueuedActionsArrive`), which is out of the prover's reach.

## 5. Not modelled

- Content rules that only a frame which does not decode can break (`DECODE_FAILED`,
  `UNKNOWN_PROPERTY`), and `APPLICATION_REFUSED`, which is the application's. The paths
  and the wording of a report, rounding, identifiers and the arithmetic of timestamps.
- Sends retried with the same identifier after `TEMPORARY_ERROR`.
- `Judging` is not composed with `Session`: the control type is fixed in a behaviour, and
  a message's place in the session is the subject of `Session`.
- The set of sessions (`session/set.rs`), a map of independent sessions and the least of
  their deadlines, and `Backoff`, a ceiling computed from an attempt number: neither has a
  step in which two parts could disagree.
- In session initiation, the negotiation of protocol and version inside the grant, and
  several pairings sharing one server (they share no state but the store).
- In pairing, several nodes of one endpoint (they share nothing but the router's list,
  which is keyed by bearer), and the server's pending answer (`poll_response`), which the
  service does not read: its handler sleeps instead.
- In long polling, what a waiting node says of itself, and the check of its subnet.
- The two transports, the codec, TLS, HTTP, discovery, cryptography: data and I/O. Trace
  analysis, the simulators and the command line observe sessions and change none.

## 6. Where the code and its documentation part

Two runs fail:

1. `registry_correction`: a correction that takes effect at once does not remove the
   queued announcement it corrects, which takes effect again at its old time.
2. `initiation_restart`: `tried` counts the refused tokens of the client's list, but a
   grant that lapsed leaves that list when the next one joins it, and `restart` keeps the
   count. An integrator that drives `SessionInitClient` itself and restarts it after
   failures can be told `NotPaired`, a call to a human, while it still holds the token in
   force. With the code's proportions (a timeout of four, a lifetime of six, in units of
   two and a half seconds) TLC finds the same one. The crate's driver is built anew
   after a failure and is not affected.

Seen while modelling, not kept as runs. In sessions:

- A selection the manager gave up on and the resource accepts afterwards leaves the
  resource active and the manager not (`session/cem.rs` 782, against 804-806); with
  `OverlapsSelections = TRUE` a second selection overwrites the one slot for the first
  (821), whose acceptance is then not followed.
- A resource whose handshake the manager's policy refuses stays in `Handshaking`: no
  timer covers it. `HandshakeEnds` is checked for a manager that does not refuse.
- A duplicate takes a slot in the window of answers (`session/core.rs` 339), so a peer
  that repeats one message shortens the window for the others.
- Acknowledgements that time out are reported and never counted: `ack_timeouts` is
  documented (`session/core.rs` 796), and the arm that counts it cannot be reached.
- Modes and timers of all control types share tables that are emptied when a description
  of any type takes effect (626); descriptions that fall due in one call take effect in
  the order they were announced, not of `valid_from` (632), so the earlier can win.
- A status update in flight overwrites `REVOKED`; `STATUS_REGRESSION` and
  `REVOKE_ROLE_MISMATCH` are warnings.

In the content rules and the device model:

- `Explanation.abnormal_only_misuse` (`model/explain.rs` 55, 69-74) does not see a
  transition marked for abnormal conditions only, which the validator refuses.
- A check against a table that is empty is skipped, so after the last constraint, profile
  or description was revoked an instruction that names it is accepted.
- Constraints are judged at the time of judging, not at the instruction's
  `execution_time`; `abnormal_condition_only` of a sequence is never checked.
- A total duration drops an element that overflows it (`ppbc.rs` 84, `pebc.rs` 99) where
  `element_at` saturates.
- That every element of a fill rate mode covers the same quantities is documented and not
  checked. `resolve_frbc` documents that `fill_rate` is left unanswered without a fill
  level (`model/mod.rs` 241); the code (272) answers it from the first element, and so
  does the model. No property covers that case: `ExplainedAsDescribed` gives a level.
- An unresolved PPBC instruction leaves `Explanation.unresolved` empty.

In the driver and the connections:

- A wall clock that is set back delays the keep-alive by as much.
- `Driver::run` returns the error of a step before the callback sees the events of that
  step, and the session is not told, so one that waits for its peer stays open unless
  the callback's owner calls `transport_closed`; a message in hand when a send fails is
  lost.
- `LongPoll` never forgets a node it has seen, so nodes that stopped asking keep new ones
  out; a full queue drops an instruction silently; an action taken for a client that has
  hung up is lost.
- In session initiation the client's `TokenStore::add` purges lapsed grants from its own
  list (`connect/proto/session_init.rs` 306, against 610-611), but a grant whose
  confirmation's reply was lost is the token in force: lose that reply, wait out the
  fifteen seconds, lose the next confirmation, wait again, lose the next grant, and client
  and server share no token. `client::Session` confirms before its caller can persist
  (`connect/client/session.rs` 142, against 521-523), so a process that ends before
  `initiate` returns restarts with retired tokens only. With `MaxFaults` or `MidCall`
  raised, `initiation` finds both.
- With `Late = TRUE` a single confirmation that is handled after its client timed out
  is enough to separate the two token lists; overlapping handlers also overwrite each
  other's `set_tokens`, and a confirmation that overlaps an unpairing leaves a
  communication token for a pairing that is gone.
- In pairing, the driver passes the deployment of the server it dials as its own
  (`connect/client/pairing.rs` 247), so a CEM in a LAN pairing with a Resource Manager in
  a WAN takes itself for the communication server while the Resource Manager takes itself
  for it (`connect/proto/mod.rs` 90-91: "a WAN node is always the server"). With
  `Places = {"Wan"}` and `CommunicationServerAgreed` as an invariant, `pairing` shows it.
  Also in pairing: a changed certificate is noticed before the machine has remembered the
  bearer (`connect/client/pairing.rs` 234), so that failure leaves the attempt to expire,
  although the comment at 193-199 speaks of every failure; a lost reply to
  `finalizePairing` leaves the server paired, the node closed and, on a Resource Manager,
  the previous manager dropped, for a client that reports an error; `run` passes the time
  it started at to every step, so the client's own budget never expires; a client that
  hangs up during the mandatory second leaves an attempt the router never hears of; at
  exactly fifteen seconds the router has let go of an attempt the machine still counts.

## 7. Plan

Done: the session layer, the content of its messages and the device model, the driver,
long polling, session initiation and pairing. What is left:

1. Proofs: that a table never exceeds its bound in `Judging`; `DriverKnowsWhenGone` for a
   list of two, without `PairingSurvives`. Every other property of safety that a run
   checks is a theorem.
2. `Judging` composed with the engine: a control type left and taken up again while
   descriptions wait.
3. The wide-area deployment of `Pairing`, once the two sides compute one server.
