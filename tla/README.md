# herdr-agent / myrix: a TLA+ verification project

The program (TypeScript, `src/src`) is a service that a user talks to through
Feishu chats.  It turns messages into *tasks*, starts coding agents (Codex,
Claude) in panes of the terminal multiplexer *herdr*, relays their results,
and lets a language model ("pi", the *leader*) schedule the work.  All its
state is in one SQLite store of JSON rows.  There is one process per state
directory and one thread, so the concurrency is that of `await`: code between
two awaits is atomic, everything else interleaves.  What makes the system hard
is that nearly every effect (a message, a pane, a group, a remote task) happens
in another system, over a link that loses replies, in a process that may die
at any point; the answer of the code is a durable record before and after
every effect, and a rule that an unknown outcome is looked up or decided, never
repeated blindly.

Everything below is translated from the source; the documents and tests were
read with it and are quoted where they disagree.

## 1. Inventory

| component | source (`src/src/...`) | state it keeps | operations | what makes it correct |
|---|---|---|---|---|
| operation receipts | `storage/operations.ts`, `tasks/operations.ts` | row per operation id: state, fingerprint, resolution, history; process-wide set of active ids | run, resolve, resetFailed, abort gate | an effect happens at most once per attempt that somebody paid for; unknown outcomes wait for a decision |
| keyed mutex | `core/mutex.ts` | chain of promises per key | run | mutual exclusion, order, no leak, no starvation |
| state lock | `storage/lock.ts` | two lock files, flock on their inodes | acquire, release, inspect | one service per directory, also beside older versions |
| store | `storage/store.ts`, `atomic.ts` | rows, transactions | get, set, delete, transaction | transactions are atomic (SQLite; taken as given) |
| inbox | `app/inbox.ts` | row per event: state, attempts, next attempt, failure notice | enqueue, drain, lane loop, notice, shutdown, recovery | order per chat, bounded attempts, every accepted message settles, one notice |
| outbox | `app/outbox.ts` | row per message: parts, message ids, envelope | send | parts once and in order, unknown deliveries never repeated |
| group deletion barrier | `app/group-delivery.ts` | none, reads inbox and outbox | canDeleteTaskGroup | a chat is deleted only after everything in and out of it settled |
| task service | `tasks/service.ts` | queue of reconciliations, running set, pending controls | action, send, interrupt, addParticipant, tick, reconcile, stop | one writer per task, bounded concurrency, no task forgotten |
| task lifecycle | `tasks/lifecycle.ts` | task row: status, completion request, close flag, group flags | requestAction, syncCompletion, syncGroupState, closeTask, deleteTaskGroup | order of clean-up, no reopening of a closed task, opposite requests never race |
| provisioning | `tasks/create.ts`, `provision.ts` | participants, start receipts | create, provision | one pane per participant |
| input delivery | `tasks/send.ts`, `input-delivery.ts`, `input-guard.ts`, `input-recovery.ts` | input rows, receipts | send, prepare, retry, recover | an input reaches an agent once |
| observation | `tasks/observe.ts`, `transcripts/*` | pending outputs, cursors | observe | each output is reported once |
| execution recovery and restart | `tasks/execution-recovery.ts`, `restart.ts`, `readiness.ts` | generation journal | recover, restart | at most one live pane per participant |
| uncertain effects | `tasks/uncertain-effects.ts`, `app/uncertain-*.ts` | resolutions, cards | reconcile, decide | decisions rest on evidence or the owner |
| description and remote polling | `tasks/description.ts`, `remote-poll.ts` | projection rows, back-off | sync, poll | projections converge, no doubled write |
| approvals | `app/approvals.ts`, `automatic-approvals.ts`, `directory-trust.ts` | approval rows, votes | observe, decide, apply | an answer goes to the prompt it was given for |
| application | `app/application.ts`, `task-orchestrator.ts`, `messages.ts`, `tools.ts` | pumps, timers | dispatch, tools, start, stop | glue of the above |
| leader session | `orchestration/leader-*.ts` | activations, journalled writes, native receipts | activate, write, settle, abandon | an activation that is run again repeats no effect |
| planning | `orchestration/runner.ts` plan, `plan-selection.ts`, `leader-planning.ts`, `contract-change.ts`, `document-source.ts` | plan, attempts, drafts, baseline of files | plan, authorize, refuse, wait | an obligation is given up only on the user's latest word; planning ends |
| workflow | `orchestration/runner.ts`, `settlement.ts`, `state.ts`, `verify.ts`, `workspace.ts` | nodes, evidence, verification runs, live event | candidates, dispatch, settle, verify, deliver | delivered work is proved on the very tree it was made on |
| workflow questions | `orchestration/user-decision.ts`, `selection-context.ts`, `app/workflow-notifications.ts` | decision events, posts | compile, ask, notice | asked once, about the present |
| handoffs and consensus | `orchestration/handoff.ts`, `status-block.ts`, `receipt-recovery.ts`, `consensus.ts` | files of an operation, receipts, approvals | hand over, take back, repair, confirm | what is accepted is what everybody read |
| report delivery | `orchestration/report-delivery.ts`, `report-cleanup.ts`, `app/uncertain-*.ts` | delivery rows, decision cards | deliver, decide, retry, clean up | body, file and card once each |
| conversation runtime | `runtime/*` | sessions, turns, tool results, claims | run turn, recover, settle | a turn is settled once; recovery repeats no effect |
| herdr client | `herdr/*` | socket, request table | request, close, send, screen | replies match requests |
| Feishu client | `feishu/*` | connection | send, groups, tasks | refusal and unknown outcome are told apart |
| edges | `cli/`, `config/`, `web/`, `onboarding/`, `migration/`, `projects/` | files | commands, pages | input and output; not modelled |

How they interact: Feishu events go to the inbox (durable before the
acknowledgement); a lane of the inbox runs the message through the runtime,
whose tools call the task service; the task service works under one keyed mutex
per task and performs every effect through operation receipts; replies and
notices leave through the outbox; the deletion of a chat waits for the inbox
and the outbox.  The state lock keeps a second process out of all of this.

Underneath, `tasks/execution-recovery.ts` and `restart.ts` replace lost panes
while inputs to them are on their way; `tasks/observe.ts` captures what the
agents say and hands it on; `app/approvals.ts` presses keys in their menus.  On
top, `app/task-orchestrator.ts` turns outputs and messages into scheduling
events, the leader decides each of them in an activation of a durable session,
and the workflow policy turns a plan into inputs, verification runs, questions
to the owner and a report.

Where it is hard, in one sentence per kind: interleaving (a user action, a
background pass, a message and a shutdown meet between any two awaits), crash
recovery (rows say *pending* or *sending* for something whose outcome nobody
knows), unreliable delivery (replies lost while the effect happens, now or
later), stale state (a row, a stat or a reading from before an await is used
after it), partial failure (one pane of several, one part of several) and
liveness (a barrier that waits for what only the code behind it would send).
`PROJECT.json` lists each hazard at its line, with the properties that would
catch it.

## 2. The modules

| module | models | composed with |
|---|---|---|
| `EffectLedger` | abstract: permits to change the outside world, spent, refunded, granted | |
| `Operations` | `storage/operations.ts`, `tasks/operations.ts`: every `Operations` object of a process over one store | implements `EffectLedger` (`ImplementsLedger`) |
| `KeyedMutex` | `core/mutex.ts` below the abstraction `Operations` uses (a queue per id) | |
| `StateLock` | `storage/lock.ts`, one system call a step | |
| `Inbox` | `app/inbox.ts` | the outbox receipt of a notice is a variable |
| `Outbox` | `app/outbox.ts` | |
| `Service` | `tasks/service.ts` (tick, queue, running set, stop), `remote-poll.ts`, `description.ts` | tasks compete for running places |
| `TaskClosing` | `tasks/lifecycle.ts`, `retention.ts`, `group-delivery.ts`, and what `service.ts`, `uncertain-effects.ts` and `observe.ts` do for the end of a task | receipts as `Operations` has them, under the task's mutex; the barrier over inbox and outbox rows |
| `Execution` | `tasks/send.ts`, `input-delivery.ts`, `input-guard.ts`, `input-recovery.ts`, `execution-recovery.ts`, `restart.ts`, `provision.ts` | inputs, receipts, panes and their generations in one state |
| `Discussion` | `tasks/observe.ts`, `relayDiscussion` of `send.ts`, the resume of `service.ts`, the output hooks of `app/application.ts` | outputs, outbox rows, hand-overs and participants |
| `Approvals` | `app/approvals.ts`, `automatic-approvals.ts`, `directory-trust.ts`, `herdr/control.ts` | the hook and the click as two callers of one serialized pane |
| `Orchestration` | `app/task-orchestrator.ts` and what `control-policy.ts` and `task-ingress.ts` let it do | inputs and replies each with a receipt |
| `Turns` | `runtime/sessions.ts`, `engine.ts`, `recovery.ts`, `turn-settlement.ts`, the message callback of the inbox | inbox rows, sessions, turns, tool receipts, replies |
| `Transcript` | `runtime/engine.ts`, `recovery.ts`, `tool-results.ts`, `orchestration/leader-session-*.ts`: what the model is shown | |
| `Pages` | `runtime/tool-results.ts`, `result-projection-pages.ts` | |
| `Leader` | `orchestration/leader-session*.ts`, `leader-receipts.ts`, `leader-tools.ts` | the leader's receipts over those of deliveries and actions |
| `Planning` | `orchestration/runner.ts` plan, `plan-selection.ts`, `leader-planning.ts`, `contract-change.ts`, `document-source.ts` | |
| `Workflow` | `orchestration/runner.ts`, `settlement.ts`, `state.ts`, `verify.ts`, `workspace.ts`, `authorship.ts` | a second task in the same directory |
| `Handoffs` | `orchestration/handoff.ts`, `status-block.ts`, `receipt-recovery.ts`, `consensus.ts`, `report.ts` | |
| `Questions` | `orchestration/user-decision.ts`, `selection-context.ts`, `scope-decision.ts`, `app/workflow-notifications.ts` | the event and the notice as two processes |
| `Reports` | `orchestration/report-delivery.ts`, `report-cleanup.ts`, `app/uncertain-*.ts` | the delivery, the resolver and the barrier of the group |
| `InboxProofs`, `TaskClosingProofs`, `ExecutionProofs` | the theorems about the module each is named after (section 4) | each extends its module |
| `OperationsProofs`, `StateLockProofs`, `OrchestrationProofs`, `TurnsProofs`, `WorkflowProofs` | the same, and theorems about its neighbours: `KeyedMutex` and `Outbox`; `Reports`, `Handoffs`, `Transcript` and `Pages`; `Discussion` and `Planning`; `Leader` and `Approvals`; `Questions` | each extends the `MC` module that holds them side by side, whose sizes are all CONSTANTS: a theorem is for every value of them, the `.cfg` gives the values TLC uses |

`MCInbox`, `MCTaskClosing` and `MCWorkflow` hold model values, symmetry sets and
small functions.  The other `MC*.tla` put several of the machines above side by
side: `machine` says which of them moves in a behaviour, the others rest in one
of their initial states.  So a run is the union of the behaviours of its
machines, each with its own constants and its own assumption about them (`OutboxOk`,
`LeaderOk` and so on, evaluated by the run), and a run stands for
a group of components that share a question: `MCRequests` what is asked of the
outside world, `MCRecords` what is kept and read again, `MCScheduling` what decides
who works, `MCConversation` what a turn, an activation or an approval may set in
motion, `MCWorkflows` what a workflow delivers and
asks.  Machines of one group are not interleaved: what couples them in the code
(a receipt, a row, a mutex) is inside each of them, as the module's comment says.

Operators whose comment starts with *Mutant* are plausible wrong versions of the
definition that follows them: with one of them in its place the run named in
`PROJECT.json` finds the property violated.

### How to read them against the code

* A step is what the code does between two awaits, with everything it writes on
  the way.  Variables are durable (a row of the store), volatile (lost by a
  crash), outside (another system) or history (read by properties, never by a
  guard of the code).  `pc` is the await at which a holder or a run stands, `wire`
  the requests that left and may still land, and `luck` or `trouble` the budget
  of crashes, refusals, lost answers and changes from outside.
* `Operations`: `receipt` is the table `operations`, `active` the process-wide
  set, `line[i, o]` the queue of object `i`'s mutex.  `Replay` is every way `run`
  answers from the row, `Start` writes the pending row and lets the request
  leave, `Gate` is the abort check inside the callback; `Succeed`, `Refuse` and
  `LoseReply` are the three outcomes, `Land` and `LandLate` the other system.
* `KeyedMutex`: `tails` is the map, `previous[c]` the promise call `c` awaits.
* `StateLock`: `path` and `flock` are the file system; a process goes through
  open, flock, compare (fstat against stat), and back through stat, unlink and
  unlock.  An older installation takes only the compatibility file.
* `Inbox`: `lane[l]` is the loop of a chat with the row it read, `notifying[m]`
  the claim on the notice of a message.  Retry times are one bit, still to come
  or due.  `Restart` is the constructor of the next process, after a shutdown or
  at any moment.
* `Outbox`: text and chat are one value, parts are numbers; a request whose
  reply was lost stays in `limbo` and may reach the chat later.
* `Service`: `queued`, `running` and `begun` are the queue, the set and those of it
  that hold their mutex; `mine[t]` is the copy of the row a reconciliation works
  on, `row` what others may write meanwhile.  A PATCH on the `wire` lands or
  vanishes.
* `TaskClosing`: `row` is the task row, `close`, `del` and `sync` the receipts,
  `told` the two notices, `talk` the inbox and outbox rows of the chat; `pane`,
  `chat` and `remote` are what is really so.  The statuses before completion are
  one, "active".  `stop()` ends a pass at its next gate with an error, which leaves
  the rows as `Crash` at that place does.
* `Execution`: a pane is a pair of a participant and a generation.  `space`, `boot`
  and `shut` are the receipts of its workspace, start and close, `op`, `row` and
  `tries` those of an input, `seen` what native transcripts hold.  One process
  holds the task's mutex and goes through send, recovery, restart or repair;
  events, users, decisions, late requests and crashes come in at every place.
* `Discussion`: outputs are numbered in the order they are said.  Each captured
  record is a transaction of its own (`Entry`), and the cursor moves after the last
  of a reading (`Page`).  `book` is what was captured, `note`, `box`, `shown` its way to the user, `relay` and `op` its way
  to the next participant, `cursor` and `base` what marks it as read.
* `Orchestration`: `ev` are the events in order, `op[k, p]` the receipt of the input
  event `k` gives participant `p`, `ingress` the inbox rows of the task; `mark` is
  the revision of them a run read before its model did.
* `Approvals`: a sight is what one reading of a pane shows (which question, which
  row is marked, the `stateSeq`); `seen[c]` is the one caller `c` decided on,
  `pane` the caller that holds `AgentControl.serial`.  In it a key has three
  rounds (`round`), each a reading of the agent (`Validate`) and one of the pane
  (`Look`; `LookTrust` compares two readings of the directory's menu with each
  other), with `beforeWrite` between the second and the third (`Before`); the
  terminal, the user and the other caller move between any two of these steps, and
  between the last one and the key (`connect`).
* `Reports`: `rec` is the delivery row of the file, `mem` the copy the delivery
  under way works on, `sheets` the decision cards, `asked` and `rpc` the resolver.
* `Turns`: `effect[m, w]` is the receipt of a tool call, `flying` the calls that go
  on after their turn was given up, `applied` what the world saw.  A resumed
  model may call anything again.
* `Transcript`: a row is its role, the calls it holds and how a result reads
  (whole, reference, marker).  `live` is what the engine holds, `saved` the
  checkpoint, `sent` the last request, `fold` the summary.
* `Pages`: a text is the sequence of what its characters cost once escaped.  `Room` is
  what a page-read message holds, by which new pages are cut; `OlderRoom` is the size
  of the pages an earlier release left in the store.
* `Leader`: `op` is the leader's receipt of a call, `native` and `action` what the
  system it acts on has on record, from which the receipt is settled.
* `Planning`: messages are numbered in the order the program admitted them; `ev`
  is the planning event with its attempts, `draft` and `passed` what is stored of
  a plan before it becomes the workflow's.
* `Workflow`: `rev` is what the files contain (a revision is a hash of it), and comes
  back when an edit is undone; `given` and `found` are what they contained when a
  reader's input was prepared and its output read, `alive` the commands whose
  processes may still run.
* `Handoffs`: `dir` is the directory of the last operation, `look` and `fault` what
  the settlement under way read and found, `past` the last rejection.
* `Questions`: `files` is the project as given (0) or edited (1) and may be put
  back; `run` and `view` are the orchestrator's step and the notice's.

## 3. Runs

Deadlock is checked in `Requests`, `Inbox` and `TaskClosing`, whose machines can
always do something.  The others may really stop: a report that was delivered,
a conversation without further messages, a budget of troubles that is used up.

| run | machines and instances | states | question |
|---|---|---|---|
| `Requests` | `Operations` (1 id, 2 calls, a gated and an ungated object, 2 fingerprints, refusals deleted, up to 2 retries), `KeyedMutex` (2 keys, 4 calls), `Outbox` (2 senders, 2 texts, 2 targets, 3 parts), `TaskClosing` (1 participant, 1 trouble; fair) | 201 244 | is every effect paid for, is every call answered in order, does a clean-up end |
| `Records` | `StateLock` (2 services, 1 older installation, 1 probe, 3 inodes, 1 round), `Transcript` (3 calls, one of them large, 5 rows, 3 runs, 2 troubles), `Pages` (5 texts, 3 pages of 2, a result in older pages of 4, 2 kept results, 2 scopes), `Handoffs` (2 participants, 2 plans, 4 inputs, 2 attempts, 2 troubles), `Reports` (2 cards, 3 troubles) | 1 550 046 | is what is kept one, whole, and what was agreed |
| `Inbox` | 2 messages of one chat, 2 attempts; fair | 210 892 | order, one notice, every message settles |
| `TaskClosing` | 2 participants, this and earlier versions, 1 trouble, 1 message | 2 186 392 | the order of the clean-up, and rows that tell the truth |
| `Agents` | `Execution`: 2 participants, an input of the user and one of the scheduler, 1 repair each, 2 troubles, 1 control | 1 791 643 | one agent, one delivery, on proof from the right place |
| `Scheduling` | `Orchestration` (1 participant, 3 events, 2 outputs, 1 message, 1 trouble; fair), `Discussion` (2 participants, 3 outputs, 1 trouble, 1 word), `Planning` (2 messages, 1 document and the code, 1 trouble; fair) | 451 571 | inputs and outputs once, decisions that are true, planning ends |
| `Service` | 2 tasks, 1 running place, 1 control, 2 changes of one task (its text, its end with another text), 1 trouble; fair | SERVICESTATES | no task forgotten, one description at a time, the final one shown |
| `Conversation` | `Turns` (2 messages of 2 chats, one of them a command, 3 sessions, 3 attempts, 3 troubles, 1 order), `Leader` (3 rows of 2 events, 3 calls, 2 attempts, 2 troubles), `Approvals` (a trust menu and a question, 2 values of `stateSeq`, 2 nonces, 2 moves, 1 trouble) | 2 467 177 | no effect twice, nothing past an unknown one, one key for an approval and the next after proof |
| `Workflows` | `Workflow` (implementation, check, report; 3 people, 2 of them alike, 2 contents of the files, 2 attempts, 2 plans; inputs, words of the user and troubles 4 together, at most 1 word and 1 trouble), `Questions` (1 requirement, 2 attempts, 1 trouble) | 2 414 254 | what is delivered is proved, a question is asked once |
| `TranscriptRequest` | `Transcript` alone, 6 rows | counterexample | finding 1 |
| `WorkflowUnknown` | `Workflow`, 1 revision, no message, 1 trouble; fair | counterexample | finding 2 |
| `QuestionsAgain` | `Questions`, no requirement, 2 edits; fair | counterexample | finding 3 |

### What the properties say

`Requests`.  `NoBlindReplay`: effects that happened or may still happen never
exceed one plus the decisions to retry.  `ImplementsLedger`: the receipts are a
ledger of permits.  `CallsReturn`, `FirstComeFirstServed`: no call hangs, none
overtakes.  `PartsOnceInOrder`: the chat shows the parts of a message once and in
order, whatever is lost.  `ClosingEnds`: a clean-up ends unless an unknown
outcome, or a refused notice of the deletion, holds it up.

`Records`.  `OneService`: never two services in a directory.  `Paired`: each request
to the provider answers every tool call once, right after the message that made
it, after any fold or recovery.  `SavedIsSent`: while the provider works, the
checkpoint holds exactly what it was sent.  `ReadsBackWhole`: a reader of pages
gets the text, every character once.  `DeliveredIsAgreed`: a delivered report
holds documents each participant approved in those very contents.
`AcceptedIsUntouched`: repairs of a receipt hide no change of the project.
`NoVainRepair`: the same defect in the same context is not sent back twice.
`SentOnce`: the file once, and once more per decision to retry; the card once.
`GroupWaits`: the group outlives what is on its way to it.

`Inbox`.  `LaneInOrder`, `NoticeOnce`, `AcceptedSettles`.

`TaskClosing`.  `GroupLast`: when the deletion leaves, everything else is over.
`EndIsTrue`: "deleted", "destroyed" and "kept" are so.

`Agents`.  `InputOnce`: an input arrives once, and once more per decision to send
it again.  `OneAgent`: restarts, repairs and late starts leave no second agent of
a participant.  `ProofFitsPlace`: an answer of a retired generation is no proof
for the new one.

`Scheduling`.  `InputOnce`: the work of an event is given once to a participant.
`DecisionIsTrue`: an event that was decided to wait or to deliver gave nobody work, nor
can a lost request still give it.  `OutputsScheduled`: an output leads to another event
in the end.  `ShownOnce`: nothing is shown twice.  `ObligationsKept`: an obligation
is given up only by a change that names it, was authorized and cites the latest
message.  `PlanningEnds`: a task that needs a plan gets one, asks, or waits.

`Service`.  `OnePatch`: two descriptions are never under way at once, and one that is
on its way is what the receipt calls unknown.  `EveryTaskServed`: a task that is
wanted is reconciled again and again.  `FinalShown`: what the last row reads as is
what Feishu shows in the end, also when a PATCH of an earlier text or of the last one
was refused, lost or cut off by a crash; only a write that never arrived and was
never answered is left open, since it is never repeated.

`Conversation`.  `EffectOnce` and `LeaderEffectOnce`: a call takes effect once over
retries, resumptions and calls left running.  `NothingPastUnknown`: no write
starts while another one of the turn may or may not have happened.
`OneKeyEach`: an approval lets one key through, whoever uses it, also
when a check fails after it was consumed and the card is asked about again, and a
directory is trusted once.  `NextKeyAfterProof`: a second key goes to the same
state of the agent only when the first one was seen to have worked; so a lost
answer, a veto that comes late or a restart never lets the same menu be answered
twice by two approvals.  Which menu a key hits is not among the properties: between the last
look and the key stands the connection, and nothing in the code looks again.

`Workflows`.  `DeliveredIsProved`: the author of a report and every reviewer were
given the contents that are delivered, and the files had them again when the
output was read; the command passed on them before the reviewer that validates was
asked; and no reviewer was ever given a node that implements, however often nodes
were sent, files edited and put back, and the plan redone.  The code compares hashes
at both ends of a node and of a command, so an edit that is undone in between is
not seen, here as there, and neither is one between the end of a command and its
verdict.  (An author that implements as well, which `workflow.ts` lets a plan have,
changes what it was given itself.)  A delivery takes 3 inputs; the fourth, or the
word, or the trouble, is one that happens on the way to it: the run reaches
deliveries after a repeated node, after new requirements, in a redone plan and
after a trouble.  The first two participants are alike, so states that differ in
their names only count as one (`Peers`).  `Alone`: nobody else is in the directory while a node or a
command that may write runs there.  `AskedOnce`: a question
reaches the chat once, whichever of the event, its retries, a notice and a restart
asks it.  That it is about the requirements, facts and files of that moment
(`AskedIsCurrent`) is proved only.

The modules state more than the runs check: their type invariants and the
parts or neighbours of the properties above.  Proved (section 4) are
`SingleFlight`, `OkMeansApplied`, `FinalStays`, `UnknownNeedsDecision`,
`StopGatesEffects`, `RetryOnceWhileKept`, `OneAtATime`, `OkMeansShown`, `RowIsTrue`,
`OneEnvelope`, `UnknownStays`, `NamesKeptWhileServing`, `UnlinkOwnName`, `NoStrayLock`,
`UnlockedIsTrue`, `CardLast`, `AttemptsBounded`, `HandlerMatchesRow`, `SourceKept`,
`SettledIsInert` and `OneAtWork`.  Model-checked only are `EveryoneRuns`,
`KeepIsKept`, `ClosesWhenConfirmed`, `NoOppositeWrite`, `SyncSettled`,
`AlertShows`, `PauseStays`, `OneSpeaker`, `EveryOutputTold`, `OutputsUsedOnce`,
`ContinueIsTrue`, `UnknownFreezes`, `DecisionStands`, `DecisionServed`, `WishIsKept`,
`AnsweredOnce`, `ToldTruly`, `PinStays`, `LossStops`, `FaceIsTrue` and `StaysInScope`.
They hold on the same instances with the module alone, and any
of them can be put into a configuration of its own.

### Bounds and why they are enough

Ids, tasks and participants share nothing but a mutex and a table, so one of
what is not in competition and two of what is.  Two callers make every conflict
of two; a third only waits longer in the same queue.  Four calls on two keys make
chains of three with a key that is dropped and made again.  Three inodes let a
name be created again on a new inode while an old one is still locked; the lock
is proved for every number.  Two attempts of the code's three have a first, a
last and an interrupted one.  Three parts have a first, a middle and a last; so
have three calls, three outputs and three nodes.  Two generations of a pane are
the retired and the present one.  A trouble is one lost or refused request,
failed reading, change from outside or crash, at any place: one trouble meets
every step, two meet every step of the recovery from the first; three for a turn
let each of its three attempts fail.  A second requirement arrives while the
first is worked on.  Larger instances that hold as well and take too long to be
regular runs: `Orchestration` with two troubles (404 486 states), `Questions` with
two new requirements (1.3 million), `Turns` with four troubles, `TaskClosing` with
two troubles and no messages (5.0 million), and its liveness with an arriving
message (170 600).  The texts of
`Pages` are one that a message holds whole, one that fills its last page exactly, one
that leaves room in it, one that has more pages than one result may have, and one
with a character that fits no page.  Pages an earlier release stored hold twice
what a read carries, so they are read in slices.

### Fairness

`Operations`: a call at the head of its queue goes on and a request is answered
(each platform and herdr call has a time limit); nobody has to decide, stop or
crash.  `KeyedMutex`: promise continuations run, guarded operations end.
`Inbox`: the service drains on its tick, handlers and sends have time limits, the
clock goes on; nothing is assumed of restarts.  `TaskClosing` and `Service`: the
tick reconciles every task again and again (`service.ts`, `tick`), a request
under way gets its effect and its answer, polls come due.  `Orchestration`: its
tick runs, model runs have time limits, agents go on working, messages arrive
and are handled.  `Planning`: the tick runs; a message is sorted by its turn.
`Workflow`, `Questions`: the orchestrator's tick, and the pass of notices, run.
Nothing is assumed about users, decisions, or requests whose answer was lost.

### Findings

1. `TranscriptRequest`: the fold ends at the last message of role `user`, and the
   engine puts messages of that role into the transcript itself (the prompt of a
   resumed turn, the demand for facts), so what `engine.ts:719` says is never
   summarized away, the user's request, goes into the summary.
2. `WorkflowUnknown`: a verification that was running when the service stopped
   becomes `unknown`, keeps blocking its directories, and blocks its own event,
   which is put back to `pending` on every tick; the code that would raise it
   for attention stands behind that wait.
3. `QuestionsAgain`: files that change while a question is prepared and change
   back leave a superseded event under the key of the present facts; the
   question is never asked, and nobody is told.

Configurations that belong to no regular run show more disagreements, each with
one property that TLC finds violated (`tlc -config X.cfg M`):

| configuration, module | the source says | the code does |
|---|---|---|
| `TaskClosingNotice`, `MCTaskClosing` | only an unknown outcome holds a clean-up | the notice of the deletion is one of the messages the barrier waits for, and the barrier is asked first: refused once, it keeps the task in `destroying` |
| `TaskClosingNotice` with `DecidedIsNotUnknown` for its property | a decided row is not unknown | `resetFailed` looks at the state alone: after a completion write that was settled by reading, `retry` is refused as unknown for good |
| `InboxNotice`, `MCInbox` | a notice means that the message was given up | a notice left by a shutdown is sent by the next start for a message that is only about to be handled again |
| `ExecutionPause`, `Execution` | "a lifecycle repair pause does not mean the user paused the task" (`tasks/pause.ts:10`) | a resume clears the marker of a user's pause and leaves its revision, so the next automatic pause counts as the user's (`tasks/lifecycle.ts:165-175`) |
| `DiscussionStall`, `Discussion` | temporary waits keep their durable hand-over (`tasks/send.ts:146`) | a hand-over whose answer was lost is answered before it is proved to have arrived: the answer comes from a participant that is not the active one yet, so it counts as settled and is handed to nobody |
| `OrchestrationRetry`, `Orchestration` | an input that may be tried again is tried (`docs/pi-leader-iteration-2026-09-29.md:35,44`) | the event is finished or superseded meanwhile, and the decision is taken up by nothing (`task-orchestrator.ts:174-191,237-252`) |
| `PROPERTY VetoHolds` with the constants of `Conversation.cfg`, `Approvals` | the veto is read last (`automatic-approvals.ts:396`) | between it and the key stands the connection of the transport (`herdr/control.ts:252-254`, `herdr/transport.ts:130-142`) |
| `ReportsDecision`, `Reports` | decisions re-enter the delivery before the chat is deleted (`report-cleanup.ts:46`) | a decision about a file of a completed task is carried out by no pass (`report-cleanup.ts:62-76`), while the barrier waits for it (`report-delivery.ts:443-458`) |
| `PlanningLost`, `Planning` | the accepted plan is recovered for the same event and revision (`leader-planning.ts:195`) | the plan is stored after the activation is recorded as done (`leader-session-engine.ts:921`, `leader-planning.ts:229-235`): a crash in between loses it |
| `TranscriptDropped`, `Transcript` | what the checkpoint drops is told by its summary (`leader-session-journal.ts:460-463`) | rows dropped when the summary itself is cut are told nowhere (`leader-session-journal.ts:502-508`) |

Beside these: `RetryOnceWhileKept` is stated for ids whose refused receipts are
kept.  Where code deletes them (`resetFailed`, `closeTask`, the input retries) the
history goes with them, and the one-retry limit of an operation starts again.

## 4. Proofs

`OperationsProofs` proves, for every set of ids, calls, objects and
fingerprints and every `MaxRetries`, from `OperationsAssumption` alone (the gated
objects are objects, the resettable ids are ids, the bound is a number):
type correctness, `SingleFlight`, `NoBlindReplay`, `OkMeansApplied`,
`RetryOnceWhileKept`, the action properties `FinalStays`, `UnknownNeedsDecision` and
`StopGatesEffects`, and the refinement `ImplementsLedger`.

The argument.  Type correctness needs `Holding`, that a call which runs is at the
head of its queue, since only then may the head be removed when it leaves.
`Core` adds `Running` (the id of a running call is active and its row pending and
undecided), from which `SingleFlight` follows because `Start` wants the
id not active, and `Travelling` (a running request is counted in `limbo`).
`NoBlindReplay` is not inductive: it needs to know that a receipt which lets a new
attempt through (absent, refused or granted a retry) leaves one permit over.
`Paid` says so, and `IInv == Core /\ Paid` is inductive; the same count is the
refinement mapping of `permit`.  `OneRetryWhileKept` needs that a retry stays in the
history of a row that nobody deletes.  Each invariant has an `Init` lemma, one
lemma per group of actions with a step per action, and a last step that joins
them with PTL.

The module also proves, of `KeyedMutex` for any keys and calls (`MutexOk`: `None` is
no call), `OneAtATime` and `FirstComeFirstServed`.  The chain of promises and the
queue of a key are two pictures of one thing, and `MutexInv` says that they agree:
the tail is the last call of the queue, a waiting call awaits the one before it,
and only the first may run, because what the first awaits has resolved.  The
entry of a key may be dropped only by the call that is still its tail, which is
what a release that meets a new call depends on.

Of `Outbox`, for any senders, texts, targets and parts (`OutboxOk`: there is a part,
`None` is none of the values): `PartsOnceInOrder`, `OkMeansShown`, `RowIsTrue`,
`OneEnvelope` and `UnknownStays`.  None of them is inductive.  `OutboxInv` says of a
message how far the row may lag behind the chat: the row counts the parts that
have an id, the chat shows these and at most one more, and then the row says
*sending* or *uncertain*, which no later call goes past.  Either one send is under
way or one request is left over from a lost answer, never both, and each carries
the part that comes next; so a late arrival fits as well as a punctual one.

`StateLockProofs` proves all six properties of `StateLock`, for any number of
services, older versions, probes and inodes and every `MaxAttempts`, from
`LockAssumption` (the kinds of process are disjoint, `None` is none of the values,
there is at least one round).  Its `IInv` says where a process may stand with
what it holds (`Placed`), that held inodes are locked by their holder (`Owned`) and
two different ones (`Distinct`), that before the comparison the opened inode is
locked and new to the process (`Compared`), that a held inode is what the name
means until its holder has removed the name (`Named`), and that a lock is held for
good or until the comparison (`Used`).  The step that needs all of it is `Unlink`:
if another process held the inode the name means, both would have it locked.
Nothing in the proof needs a new inode to be unused: the comparison after flock
is enough.  `UnlockedIsTrue` adds `Calmed` (a probe under way knows of a moment
without a service if there is none now); a probe that finds the compatibility
file free is in such a moment, because every version that serves has it locked.

The module also holds the theorems about four neighbours.  `Reports`, for any
cards, troubles and decisions (`ReportsOk`: the bounds are numbers): `SentOnce`,
`GroupWaits` and `CardLast`.  `ReportInv` gives each state of the delivery row an
account of what may have left by then (`Spent`), says what row and event are
possible at each await of the delivery (`At`) and that the copy the delivery works
on is the stored row (`Copied`); a decision is counted when it is consumed, so the
second upload and the second show are paid for by the same retry.

`Handoffs`, for any chain of participants, any edits, repairs and plans
(`HandoffsOk`: the chain is a sequence and not empty): `DeliveredIsAgreed`,
`AcceptedIsUntouched` and `NoVainRepair`.  `HandInv` ties the live event to the node
it is about (`Ordered`, `Selected`, `Chosen`), every repair to the revision of the
first order (`Mended`), what a participant said to what it read (`Heard`) and the
report to the approvals of the operation that completed its node (`Approved`).
`Mended` is the heart of `AcceptedIsUntouched`: a repair keeps the old revision to
compare with, and without it a change made between two repairs would pass.

`Transcript`, for any calls, histories and budgets (`TranscriptOk`: finitely many
calls): `SavedIsSent` and `Paired`.  For the first: while no write of the run failed,
the checkpoint is what the engine shows (`Shown`), and a request is on its way only
then (`Thinking`).  For the second, `Owes(rows, left)` says that every answer is
followed by the results of its calls, but for the calls `left` that have yet to run,
and `Attached(rows)` what is left of that in a checkpoint broken off after any row:
no result stands apart from its answer.  `PairInv` has the rows of the engine owe
what runs and the checkpoint attached.  The fold begins at a row of the user and a
dropped batch ends before one that is no result, so both keep what they must; and a
recovery makes an attached checkpoint whole again, one block for each answer
(`RecoveredRowWhole`).  Nothing about the order of the calls or the size of a batch
is used: the theorem holds for any number of calls in an answer.

`Pages`, for any texts and any two sizes, the room of a read and the size of the
pages an earlier release stored (`PagesOk`: texts are sequences of positive costs):
`ReadsBackWhole`.  `StartsAre` says where the pages of
a text begin: each where the one before it ended, none beyond the end.  `PageInv`
has every stored result consist of the pages of its text, cut by one of the sizes,
and every reader hold the text up to its page and offset; an older page that a
message cannot hold is read in pieces,
which follow each other without a gap (`Joined`).  A character that fits no page
leaves the next page where this one is, so no page reaches the end and nothing is
stored.

`InboxProofs`, for any messages, chats and limits (`InboxAssumption`: every message
has a chat, the limits are positive, `None` is no message): types,
`AttemptsBounded`, `HandlerMatchesRow`, `NoticeOnce` and `LaneInOrder`.  Three
records tell of a message, the row, the lane of its chat and the receipt of its
notice, and the lanes take their next messages in the middle of a step.
`Held(rows, moving)` therefore relates rows and lanes for any rows and with some
lanes left out, and one lemma covers every action that ends with lanes moving on.
`NoticeSound`: a notice whose receipt is free, or whose sender is still before its
request, has not been seen; and once is enough.  That a chat's oldest waiting
message exists follows from the well-foundedness of the numbers.

`TaskClosingProofs`, for any participants, troubles and messages
(`ClosingAssumption`: finitely many participants): types, `EndIsTrue`, `GroupLast`.
`PlaceSound` says what is certain at every await of the holder (which panes are
done with, whether the barrier was seen clear), `PaneSound` that a receipt or a
status that calls a pane closed is right, `GroupSound` that a deletion which may
still land has a receipt without an outcome in a task that is ending and whose
chat nobody keeps, `EndSound` the goal.  `EndIsTrue` alone is not inductive: the
last step of the clean-up reads receipts, not panes.

`OrchestrationProofs`, for any participants and bounds (there is a participant;
`Nobody` is none): types, `InputOnce`, `DecisionIsTrue`.  An input is on record in
the event, in its receipt, in the hands of the run that sends it (`HandSound`) and
on the other side; `OutSound` and `OnceSound` say how far these may be apart at
each await and what a crash leaves.  `DecSound` adds that an event with such a decision
has only marks of inputs that were never sent or never left, and that nothing is
decided while an input is in hand; with `OutSound` nothing can be under way then.
That the check of a request and its write are one step (the last word of
`assertCurrent` is read in the same turn of the event loop as the socket is
written) is part of the model and no property.

The module also proves, of `Discussion` for any participants and outputs
(`TalkOk`: at least two participants): `ShownOnce`, and that no output whose message
is in doubt is handed to the outbox again.  Where an output stands is on record
in two tables that are written one after the other; `TalkInv` says how far they may
be apart: what nobody tried to show has no row in the outbox, what was refused a
refused one, and what is between the two writes is marked *sending* in the first.

Of `Planning`, for any messages, documents and edits (`PlanOk`: the default document
is one of the documents, the code is none): `ObligationsKept` and `SourceKept`.  A
draft is weighed against the messages of one moment and accepted several awaits,
or a restart, later, and the latest message is another one by then.  `Weighed`
therefore states what the weighing found in terms of the revision of the version
it was weighed for, which no later message changes, and `RunWeighed` and
`PassedWeighed` carry it in the run and in the stored plan.  `SourceInv` does the same
for the files: a measured tree is of the past and versions only grow, so what
lies between two measurements that agree did not change.

`TurnsProofs`, for any messages, chats, sessions, tools and bounds
(`TurnsAssumption`; 0 is no message): types, `EffectOnce`, `NothingPastUnknown`,
`SettledIsInert`.  Per message, `RowSound`: only a row that is being processed has
a running reply, and a waiting one has an attempt left; `TurnSound`: effects
belong to a turn with a receipt; `JournalSound`: a tool that runs is pending and
has not acted, one that never ran or was refused has not acted; `DoubtSound`: a
model that is not in doubt has every effect confirmed but the one that runs.

The module also proves `LeaderEffectOnce` of `Leader`, for any rows and calls
(`LeaderOk`: a call belongs to a row, sending is not choosing, there is an attempt).
`Once` relates the receipt of a call, the record of the system it acts on and the
call itself: a call under way took no effect and nothing has settled it, one that
is refused or failed took none, a retired delivery can never be performed, and
one marked as done by a decision is done.  So whatever lets an activation call
again is evidence that nothing happened.

Of `Approvals`, for any questions, approvals and moves of the terminal
(`ApprovalsOk`: the bounds are numbers, there is a question): `OneKeyEach`.
`ApprInv`: an approval is in the hands of one caller at most (`OneUser`) and
consumed while it is, before and after its key, and a caller that has not written
yet holds one that let no key through (`Consumed`); trust is under way in the hook
alone and has its receipt, and where its key went out the receipt is not free
(`Trusted`).  Approvals are only ever added, none changes the sight it was given
for, and a consumed one stays so.

`ExecutionProofs`, for any participants and inputs, generations, controls and
troubles (`ExecutionAssumption`, and `InputsAssumption`: an input's id is none of
the ids of a workspace, start or close, which the suffixes in `provision.ts` and
`restart.ts` guarantee): types, `InputOnce`, `OneAgent`, `ProofFitsPlace`.
`OnceSound` adds up arrivals, requests that may still land and attempts that may
still leave, and never exceeds the decisions; a receipt that is free again must
have seen nothing leave.  `AgentSound` says that only the pane the participant
names may be live or become so, through a start that is repeated, late or lost;
`RowSound` where a row, a receipt and a proof of delivery agree; `RestartSound`
that a journal names a participant that keeps its pane; `PlaceSound` again what
is certain at each await.

`WorkflowProofs`, for any plan, participants and bounds (`WorkflowAssumption`: the
kinds of nodes are kinds of nodes, a reviewer does not implement, one node
reports, `authorship.ts:9`, `workflow.ts:301`): types, `Alone`, `OneAtWork` and
`DeliveredIsProved`.  When the policy starts the project's command it does not
ask who is at work: it relies on the agreement of its event, the plan, the receipt of
the last input and the participants.  `NodeSound` is that agreement (a node that is
out is the event's, unless the user has spoken since and nothing was begun
again), `InputSound` gives every input a number of its own, `WorkSound` ties
whoever works to a node that is out, `ReceiptSound` holds the event as long as an
input may arrive late, and `DirectorySound` then says who may be in the directory.

`DeliveredIsProved` stands on layers above this invariant, each proved from the
ones before (`Evidence`): `BookSound` (while a receipt waits to be saved, authors
and proofs do not move), `RanSound` (what is on record as proved passed),
`HandsSound` (whoever may hold a node that implements is on record as an author),
`ChosenSound` and `ReportSound` (a report on record is of the nodes as they stand),
`DeliverySound` (what is on its way has passed the contract), `OpenSound` (what is
chosen is not settled already, and no reviewer that validates has been when the
command is run) and `GivenSound` (the record of a reader says what it was given and
what its output was checked against; if the command has passed on that, it had
before the reviewer was asked).  `OpenSound` is why a proof that comes late
does not count for a review that came early.  TLC checked all of them on the run's
instance.

The last part is about `Questions`, for any requirements and attempts
(`QuestionsOk`: there is an attempt, `NoQ` is no question): `AskedOnce` and
`AskedIsCurrent`.  Two processes may ask.  `AskInv` says that a question of a
committed wait only goes out through the row of its event, and one of a deferral
only through the notice, so that each has one row; that a row which may have
reached the chat is never sent again; and that what a step read of the project is
so when it sends, unless the files changed within that step (`RunFresh`, `ViewFits`).

Every strengthened invariant was checked by TLC as well.  The proofs changed the
models in a few places: `Workflow` asks a pending decision of the leader again as the
code does, `Discussion` captures the records of a reading one by one, the arms of
`CASE`s that overlapped are exclusive now, `Approvals` starts at a question,
assumptions that TLC had met by chance have names (`None` is no id of the outbox, for
one), and the starts of the pages and the next calls of a model are stated as a
function and a set the prover can unfold.

Only model-checked, and why:

* Liveness under fairness, and ENABLED, which the prover does not reach:
  `CallsReturn`, `ClosingEnds`, `AcceptedSettles`, `OutputsScheduled`, `PlanningEnds`,
  `EveryTaskServed` and `FinalShown`.
* Induction over data in general: a theorem of the library that takes a predicate
  as a parameter cannot be used.  Where a theorem needs one fact about a recursive
  function or a fold, the least number at which it fails is taken and refuted
  (`Least`, `StartsExist`, `JoinsExist`, `FlattenedWhole`); that a text costs what its
  characters do together is not needed and not shown.  No module uses a RECURSIVE
  operator.
* The neighbours listed as model-checked in section 3.  Those worth a proof
  first are `OnePatch` of `Service`, `KeepIsKept` and `NoOppositeWrite` of `TaskClosing` (receipts of the
  opposite request are settled before the next one begins) and `OneSpeaker` of
  `Discussion` (a hand-over is settled before the next is chosen).

## 5. Not modelled, and why

* `storage/store.ts`: SQLite's atomic, durable transactions are assumed
  everywhere.
* What language models write, and how it is checked as text (`policy`, `templates`,
  prompts, claims of evidence, plan validation as a graph): data without control
  of its own.  A model's answer is any answer that passes the checks.
* The parsers of transcripts, screens and echoes, the herdr socket protocol, the
  Feishu client: formats and input and output.  Their promise, that a refusal is
  told apart from an unknown outcome, is what the models assume, and a model
  lets every outcome be lost.
* A request of the leader whose answer was lost and that lands later: `Leader` lets
  it land before the crash or the answer only; `Operations` and `Execution` have it.
* The creation of a task (row, group, remote task, first pane): a sequence of
  operations of the kind `Operations` has, and the pane is in `Execution`.
* Attachments and interrupts of a participant; readiness probing; `actions.ts` and
  `legacy.ts`; the orchestrator's choice of four tasks a tick; the admission limits
  of messages; the decision log; workflows of versions 1 and 2; changes of a
  project outside the agreed documents.  None changes the control modelled here.
* Views and notices (wording and layout), command line, configuration,
  onboarding, migration and the web console.
