------------------------------ MODULE Execution ------------------------------
(***************************************************************************)
(* The executors of one automatically scheduled task and the inputs that   *)
(* reach them: tasks/send.ts, input-delivery.ts, input-guard.ts,           *)
(* input-recovery.ts, execution-recovery.ts, restart.ts and provision.ts,  *)
(* with the calls of tasks/service.ts that drive them.  They all run under *)
(* the mutex of the task and are one process here: `pc` is the await the   *)
(* holder of the mutex stands at.  Lifecycle events, waiting users, lost   *)
(* panes, late requests, decisions and crashes come in between.            *)
(*                                                                         *)
(* A participant has one pane per generation (executionRecovery), so a     *)
(* pane is a pair <<participant, generation>>.  Requests travel on `wire`  *)
(* and land when they like.  Different inputs have different texts, and    *)
(* the end of the task is left to TaskClosing.tla.                         *)
(***************************************************************************)
EXTENDS Integers, FiniteSets

CONSTANTS
    People,         \* participant numbers, the ones added later included
    Inputs,         \* operation ids of inputs
    UserInputs,     \* those that a user's message sends
    Discussion,     \* whether the task is one: several may work at a time
    MaxInputs,      \* bound: inputs that are sent
    MaxGeneration,  \* bound: repairs of one participant
    MaxTroubles,    \* bound: lost panes, refused or lost requests, events, crashes
    MaxControls     \* bound: controls of the user other than messages

ASSUME ExecutionAssumption ==
    /\ People = 1..Cardinality(People)
    /\ IsFiniteSet(People) /\ IsFiniteSet(Inputs)
    /\ UserInputs \subseteq Inputs /\ Discussion \in BOOLEAN
    /\ MaxInputs \in Nat /\ MaxGeneration \in Nat /\ MaxTroubles \in Nat /\ MaxControls \in Nat

VARIABLES
    task,       \* status, discussion.paused, how it is marked, and the user's last word
    part,       \* participant -> its record
    op,         \* input -> its receipt
    row,        \* input -> its row in input_deliveries
    to,         \* input -> the participant its id names
    tries,      \* input -> input_retry_counts
    applied,    \* task_input_applied
    awaits,     \* participant -> the input whose reply it awaits
    space, boot,\* pane -> receipts of :workspace and :start
    shut,       \* participant -> receipt of `${participant}:close`
    restart,    \* the row of task_restarts
    event,      \* a lifecycle event waits in the inbox
    ask,        \* a user's control waits for the mutex
    pc, cur, inp, via, was,   \* the holder
    moved,      \* an event arrived since its guard was captured
    pane,       \* the other side: what is in each pane
    seen,       \* <<input, pane>>: texts in native transcripts
    landed,     \* input -> how often its text arrived
    again,      \* input -> how often somebody decided to send it again
    wire,       \* requests that may still take effect
    luck, words

book    == <<row, to, tries, applied>>
effects == <<space, boot, shut, restart>>
rows    == <<task, part, op, book, awaits, effects>>
outer   == <<event, ask>>
holder  == <<pc, cur, inp, via, was, moved>>
world   == <<pane, seen, landed, again, wire>>
bounds  == <<luck, words>>
vars    == <<rows, outer, holder, world, bounds>>

Gens  == 0..MaxGeneration
Panes == People \X Gens
None  == 0
NoInput == "none"

\* Inputs have ids of their own beside `:workspace`, `:start` and `:close`.
ASSUME InputsAssumption == Inputs \cap {NoInput, "space", "boot", "close"} = {}

Receipts == [state : {"none", "pending", "done", "vetoed", "transient", "refused", "uncertain"},
             choice : {"none", "proven", "treat_done", "retry", "abandon"}, again : BOOLEAN]
NoReceipt == [state |-> "none", choice |-> "none", again |-> FALSE]
Failed(r)  == r.state \in {"vetoed", "transient", "refused"}
Unknown(r) == r.state \in {"pending", "uncertain"} /\ r.choice = "none"
Runs(r)    == r.state = "none" \/ (~Failed(r) /\ r.state # "done" /\ r.choice = "retry")
Given(r)   == r.state = "done" \/ (~Failed(r) /\ r.choice \in {"proven", "treat_done"})
Pending(r) == [NoReceipt EXCEPT !.state = "pending", !.again = r.again \/ r.choice = "retry"]

People0 == [st : {"absent", "pending", "idle", "working", "gone", "removed"},
            started : BOOLEAN, sent : BOOLEAN, due : BOOLEAN,  \* initialSent, recoveryPending
            gen : Gens, at : Gens \cup {-1},    \* executionRecovery, execution
            held : BOOLEAN, journal : {"none", "building", "ready"}]
Fresh == [st |-> "pending", started |-> FALSE, sent |-> FALSE, due |-> FALSE,
          gen |-> 0, at |-> -1, held |-> FALSE, journal |-> "none"]
Absent == [Fresh EXCEPT !.st = "absent"]
Ready  == [Fresh EXCEPT !.st = "idle", !.started = TRUE, !.at = 0]

Rows  == [gen : Gens, at : Gens, initial : BOOLEAN,
          paused : BOOLEAN, now : BOOLEAN]   \* discussionWasPaused, pauseRevision is current
NoRow == [gen |-> 0, at |-> -1, initial |-> FALSE, paused |-> FALSE, now |-> FALSE]

States == {"none", "pending", "done", "vetoed", "refused", "uncertain"}

Places == {"free", "baseline", "screen", "echo", "settled", "evidence",
           "look", "space", "making", "swap", "launch", "boot", "booting", "readback",
           "removing", "history", "close", "closing", "material"}

TypeOK ==
    /\ task \in [st : {"open", "attention", "paused"}, paused : BOOLEAN,
                 mark : BOOLEAN, byUser : BOOLEAN, asked : {"no", "yes", "retried"}]
    /\ part \in [People -> People0]
    /\ op \in [Inputs -> Receipts]
    /\ row \in [Inputs -> Rows \cup {NoRow}]
    /\ to \in [Inputs -> People \cup {None}]
    /\ tries \in [Inputs -> 0..2]
    /\ applied \subseteq Inputs
    /\ awaits \in [People -> Inputs \cup {NoInput}]
    /\ space \in [Panes -> States] /\ boot \in [Panes -> States]
    /\ shut \in [People -> Receipts]
    /\ restart \in [st : {"none", "closing", "done"}, who : People \cup {None},
                    ops : SUBSET Inputs, close : States]
    /\ event \in BOOLEAN /\ moved \in BOOLEAN /\ ask \in BOOLEAN
    /\ pc \in Places /\ cur \in People \cup {None} /\ inp \in Inputs \cup {NoInput}
    /\ via \in {"none", "repair", "provision"} /\ was \in BOOLEAN
    /\ pane \in [Panes -> {"none", "shell", "live", "lost"}]
    /\ seen \subseteq Inputs \X Panes
    /\ landed \in [Inputs -> Nat] /\ again \in [Inputs -> Nat]
    /\ wire \subseteq {"space", "boot", "close"} \X Panes \cup Inputs \X Panes
    /\ luck \in 0..MaxTroubles /\ words \in 0..MaxControls

Here(p)  == part[p].st \notin {"absent", "removed"}
Place(p) == <<p, part[p].at>>       \* the pane its execution names
Own(p)   == <<p, part[p].gen>>      \* the pane its generation is to have

Init ==
    /\ task = [st |-> "open", paused |-> FALSE, mark |-> FALSE, byUser |-> FALSE, asked |-> "no"]
    /\ \E n \in People : part = [p \in People |-> IF p <= n THEN Ready ELSE Absent]
    /\ op = [i \in Inputs |-> NoReceipt] /\ row = [i \in Inputs |-> NoRow]
    /\ to = [i \in Inputs |-> None] /\ tries = [i \in Inputs |-> 0]
    /\ applied = {} /\ awaits = [p \in People |-> NoInput]
    /\ space = [k \in Panes |-> IF part[k[1]].at = k[2] THEN "done" ELSE "none"] /\ boot = space
    /\ shut = [p \in People |-> NoReceipt]
    /\ restart = [st |-> "none", who |-> None, ops |-> {}, close |-> "none"]
    /\ event = FALSE /\ moved = FALSE /\ ask = FALSE
    /\ pc = "free" /\ cur = None /\ inp = NoInput /\ via = "none" /\ was = FALSE
    /\ pane = [k \in Panes |-> IF part[k[1]].at = k[2] THEN "live" ELSE "none"] /\ seen = {}
    /\ landed = [i \in Inputs |-> 0] /\ again = landed /\ wire = {}
    /\ luck = MaxTroubles /\ words = MaxControls

Trouble == luck > 0 /\ luck' = luck - 1
Word    == words > 0 /\ words' = words - 1 /\ UNCHANGED luck
Enough  == UNCHANGED bounds

\* The holder goes on to a place, or gives the mutex back.
Go(place) == pc' = place /\ UNCHANGED <<cur, inp, via, was, moved>>
Leave     ==
    /\ pc' = "free" /\ cur' = None /\ inp' = NoInput
    /\ via' = "none" /\ was' = FALSE /\ moved' = FALSE

\* An operation of the task without an outcome that nobody decided about.
AnyUnknown(o, s, b) ==
    \/ \E i \in Inputs : Unknown(o[i]) /\ ~(restart.st = "done" /\ i \in restart.ops)
    \/ \E k \in Panes : {s[k], b[k]} \cap {"pending", "uncertain"} # {}
    \/ \E p \in People : Unknown(shut[p])
    \/ restart.close \in {"pending", "uncertain"}

\* What the catch of reconcile() writes.  The revision of the pause stays.
Caught(o, s, b) ==
    IF ~AnyUnknown(o, s, b) THEN task
    ELSE [task EXCEPT !.paused = TRUE, !.st = IF @ = "paused" THEN @ ELSE "attention"]

\* Every new pause makes older deliveries' pauseRevision stale.
Stale(r) == [i \in Inputs |-> [r[i] EXCEPT !.now = FALSE]]
-----------------------------------------------------------------------------
(* sendParticipant *)

MaySend(i, p) ==
    /\ part[p].at # -1 /\ part[p].started
    /\ task.st # "paused"
    /\ Discussion \/ \A q \in People \ {p} : part[q].st # "working"
    /\ part[p].due => i \in UserInputs

\* Mutant: the generation and the place of the delivery are not compared.
SamePlaceAnywhere(i, p) == row[i] # NoRow
\* A rebuilt executor takes an old attempt up only in its own generation and place.
SamePlace(i, p) ==
    /\ row[i] # NoRow
    /\ row[i].gen = part[p].gen /\ row[i].at = part[p].at
Belongs(i, p) ==
    (part[p].gen > 0 /\ op[i].state # "none" /\ ~Failed(op[i])) => SamePlace(i, p)

\* Mutant: an attempt without an outcome is forgotten like a refused one.
AgainUnknown(i) == op[i].state \in {"vetoed", "transient", "uncertain"} /\ tries[i] < 2
\* retryUnsentInput: a definite refusal is forgotten, a transient one three times.
Again(i) == op[i].state = "vetoed" \/ (op[i].state = "transient" /\ tries[i] < 2)

Chosen(i, p) ==
    \/ to[i] = p
    \/ to[i] = None /\ Cardinality({j \in Inputs : to[j] # None}) < MaxInputs

Send(i, p) ==
    /\ pc = "free" /\ Here(p) /\ Chosen(i, p)
    /\ MaySend(i, p) /\ Belongs(i, p)
    /\ \/ /\ Runs(op[i]) \/ Again(i)
          /\ op' = [op EXCEPT ![i] = IF Again(i) THEN Pending(NoReceipt) ELSE Pending(@)]
          /\ tries' = [tries EXCEPT ![i] = IF op[i].state = "transient" THEN @ + 1 ELSE @]
          /\ pc' = "baseline"
       \/ /\ Given(op[i])
          /\ pc' = "settled" /\ UNCHANGED <<op, tries>>
    /\ cur' = p /\ inp' = i /\ was' = part[p].due /\ moved' = FALSE
    /\ to' = [to EXCEPT ![i] = p]
    /\ part' = [part EXCEPT ![p].held = @ /\ i \notin UserInputs]
    /\ ask' = (ask /\ i \notin UserInputs)
    /\ UNCHANGED <<task, row, applied, awaits, effects, event, via, world, luck, words>>

\* A user's message that is turned down has lifted the hold all the same.
SendTurnedDown(i, p) ==
    /\ pc = "free" /\ Here(p) /\ Chosen(i, p) /\ i \in UserInputs
    /\ ~(MaySend(i, p) /\ Belongs(i, p))
    /\ part' = [part EXCEPT ![p].held = FALSE]
    /\ ask' = FALSE
    /\ UNCHANGED <<task, op, book, awaits, effects, event, holder, world, luck, words>>

InputOpen == ~event /\ ~moved /\ ~part[cur].held

\* The attempt ends without an effect.
Refuse(why) ==
    /\ op' = [op EXCEPT ![inp].state = why]
    /\ Leave
    /\ UNCHANGED <<task, part, book, awaits, effects, outer, world>>

SendVetoed ==
    /\ pc \in {"baseline", "screen"} /\ ~InputOpen
    /\ Refuse(IF part[cur].held THEN "refused" ELSE "vetoed") /\ Enough
SendHindered == pc \in {"baseline", "screen"} /\ Trouble /\ Refuse("transient") /\ UNCHANGED words

\* The first input and the first one after a repair carry the participant's
\* own receipt, which is new in every generation.
Initial(p) == ~part[p].sent \/ part[p].due
SamePrompt(i, p) ==
    row[i] = NoRow \/ (row[i].initial = Initial(p) /\ (Initial(p) => row[i].gen = part[p].gen))

SendConflicts == pc = "baseline" /\ InputOpen /\ ~SamePrompt(inp, cur) /\ Refuse("refused") /\ Enough

Prepare ==
    /\ pc = "baseline" /\ InputOpen /\ SamePrompt(inp, cur)
    /\ row' = [row EXCEPT ![inp] = [gen |-> part[cur].gen, at |-> part[cur].at,
                                    initial |-> Initial(cur), paused |-> task.paused, now |-> TRUE]]
    /\ Go("screen")
    /\ UNCHANGED <<task, part, op, to, tries, applied, awaits, effects, outer, world>> /\ Enough

TargetGone == pc = "screen" /\ pane[Place(cur)] # "live" /\ Refuse("refused") /\ Enough

Write ==
    /\ pc = "screen" /\ InputOpen /\ pane[Place(cur)] = "live"
    /\ wire' = wire \cup {<<inp, Place(cur)>>}
    /\ Go("echo")
    /\ UNCHANGED <<rows, outer, pane, seen, landed, again>> /\ Enough

Echoed ==
    /\ pc = "echo" /\ <<inp, Place(cur)>> \in seen \ wire
    /\ op' = [op EXCEPT ![inp].state = "done"]
    /\ Go("settled")
    /\ UNCHANGED <<task, part, book, awaits, effects, outer, world>> /\ Enough

NotEchoed == pc = "echo" /\ Trouble /\ Refuse("uncertain") /\ UNCHANGED words

\* releaseExecutionRecoveryPause
UserPaused(t) == t.paused /\ (t.st = "paused" \/ t.mark \/ t.byUser)
\* Mutant: the release does not ask who paused.
ReleasedAlways(t, ps) ==
    IF t.paused /\ \A q \in People : ps[q].st \notin {"absent", "removed"} => ~ps[q].due
    THEN [t EXCEPT !.paused = FALSE, !.mark = FALSE] ELSE t
Released(t, ps) ==
    IF /\ t.paused /\ ~UserPaused(t)
       /\ \A q \in People : ps[q].st \notin {"absent", "removed"} => ~ps[q].due
    THEN [t EXCEPT !.paused = FALSE, !.mark = FALSE] ELSE t

Apply ==
    /\ pc = "settled"
    /\ IF inp \in applied THEN UNCHANGED <<task, part, applied, awaits>>
       ELSE /\ applied' = applied \cup {inp}
            /\ awaits' = [awaits EXCEPT ![cur] = inp]
            /\ part' = [part EXCEPT ![cur].sent = TRUE, ![cur].due = FALSE, ![cur].st = "working"]
            /\ task' = LET t == [task EXCEPT !.st = "open"]
                       IN IF was /\ inp \in UserInputs THEN Released(t, part') ELSE t
    /\ Leave
    /\ UNCHANGED <<op, row, to, tries, effects, outer, world>> /\ Enough
-----------------------------------------------------------------------------
(* recoverPreparedInputs *)

Unapplied(i) == Given(op[i]) /\ i \notin applied
Provable(i) ==
    /\ to[i] # None /\ Here(to[i]) /\ part[to[i]].started
    /\ SamePlace(i, to[i])

\* What the proof of an input writes; o are the receipts after it.  A reply
\* that settled later than the input leaves nothing to wait for.
TakeProof(i, p, o) ==
    /\ applied' = applied \cup {i}
    /\ \/ awaits' = [awaits EXCEPT ![p] = i]
       \/ <<i, Place(p)>> \in seen /\ UNCHANGED awaits
    /\ part' = [part EXCEPT ![p].sent = TRUE, ![p].due = FALSE]
    /\ task' = IF part[p].due
               THEN IF row[i].gen > 0 /\ row[i].now THEN Released(task, part') ELSE task
               ELSE IF /\ ~AnyUnknown(o, space, boot) /\ ~row[i].paused
                       /\ task.st = "attention" /\ row[i].now
                    THEN [task EXCEPT !.paused = FALSE] ELSE task
    /\ UNCHANGED <<row, to, tries, effects, outer, world>> /\ Enough

ApplyDecided(i) ==
    /\ pc = "free" /\ Provable(i) /\ Unapplied(i)
    /\ TakeProof(i, to[i], op)
    /\ UNCHANGED <<op, holder>>

LookForProof(i) ==
    /\ pc = "free" /\ Provable(i) /\ Unknown(op[i])
    /\ pc' = "evidence" /\ inp' = i /\ cur' = to[i]
    /\ UNCHANGED <<rows, outer, via, was, moved, world>> /\ Enough

Proved ==
    /\ pc = "evidence" /\ Unknown(op[inp]) /\ <<inp, Place(cur)>> \in seen
    /\ op' = [op EXCEPT ![inp].choice = "proven"]
    /\ TakeProof(inp, cur, op')
    /\ Leave

NotProved ==
    /\ pc = "evidence" /\ Leave
    /\ UNCHANGED <<rows, outer, world>> /\ Enough

ProofUnread ==
    /\ pc = "evidence" /\ Trouble
    /\ task' = Caught(op, space, boot) /\ Leave
    /\ UNCHANGED <<part, op, book, awaits, effects, outer, world, words>>
-----------------------------------------------------------------------------
(* recoverMissingExecutions *)

\* The catch of reconcile() ends what the holder was doing.
ReconcileFails(s, b) ==
    /\ space' = s /\ boot' = b
    /\ task' = Caught(op, s, b)
    /\ Leave
    /\ UNCHANGED <<part, op, book, awaits, shut, restart, outer, world>>

MayRepair == ~ask /\ ~event /\ restart.st # "closing"
Unmoved   == ~ask /\ ~event /\ ~moved         \* guard()
Repairable(p) ==
    /\ Here(p) /\ part[p].at # -1 /\ ~part[p].held /\ shut[p].state = "none"

Replaced(p) == part[p].at = part[p].gen /\ part[p].gen > 0 /\ boot[Own(p)] = "done"

\* A repair whose executor took a fresh input has served its purpose.
FinishRepair(p) ==
    /\ pc = "free" /\ MayRepair /\ Repairable(p)
    /\ part[p].journal = "building" /\ ~part[p].due
    /\ part' = [part EXCEPT ![p].journal = "ready"]
    /\ UNCHANGED <<task, op, book, awaits, effects, outer, holder, world>> /\ Enough

StartRepair(p, place) ==
    /\ pc = "free" /\ MayRepair /\ Repairable(p)
    /\ pc' = place /\ cur' = p /\ via' = "repair" /\ moved' = FALSE
    /\ UNCHANGED <<rows, event, ask, inp, was, world>> /\ Enough

Inspect(p) ==
    /\ part[p].journal # "building" \/ (part[p].due /\ Replaced(p))
    /\ part[p].started \/ Replaced(p)
    /\ StartRepair(p, "look")

\* An unfinished replacement keeps its receipts and goes on.
ResumeRepair(p) ==
    /\ part[p].journal = "building" /\ part[p].due /\ ~Replaced(p)
    /\ StartRepair(p, "space")

SeesAgent ==
    /\ pc = "look" /\ Unmoved /\ pane[Place(cur)] = "live"
    /\ IF part[cur].journal = "building" THEN Go("space") ELSE Leave
    /\ UNCHANGED <<rows, outer, world>> /\ Enough

\* setExecutionRecoveryPause: a pause the user asked for is remembered as one.
RepairPaused(t) ==
    [t EXCEPT !.mark = @ \/ UserPaused(t), !.paused = TRUE, !.byUser = FALSE,
              !.st = IF t.paused \/ @ = "paused" THEN @ ELSE "attention"]

\* Mutant: any failure to read the agent counts as its absence.
UnreadIsAbsence ==
    /\ pc = "look" /\ Unmoved
    /\ part[cur].gen < MaxGeneration
    /\ part' = [part EXCEPT ![cur].gen = @ + 1, ![cur].due = TRUE, ![cur].st = "gone",
                            ![cur].journal = "building"]
    /\ task' = RepairPaused(task)
    /\ row' = Stale(row) /\ Go("space")
    /\ UNCHANGED <<op, to, tries, applied, awaits, effects, outer, world>> /\ Enough
\* Only a definite absence opens a new generation.
SeesNoAgent ==
    /\ pc = "look" /\ Unmoved /\ pane[Place(cur)] # "live"
    /\ \/ /\ part[cur].gen < MaxGeneration
          /\ part' = [part EXCEPT ![cur].gen = @ + 1, ![cur].due = TRUE, ![cur].st = "gone",
                                  ![cur].journal = "building"]
          /\ task' = RepairPaused(task)
          /\ row' = Stale(row)
          /\ Go("space")
       \/ /\ part[cur].due \/ part[cur].gen = MaxGeneration  \* repaired less than a minute ago
          /\ Leave /\ UNCHANGED <<part, task, row>>
    /\ UNCHANGED <<op, to, tries, applied, awaits, effects, outer, world>> /\ Enough

Unread == pc \in {"look", "space"} /\ Trouble /\ ReconcileFails(space, boot) /\ UNCHANGED words

RepairDeferred ==
    /\ pc \in {"look", "space", "readback"} /\ via = "repair" /\ ~Unmoved
    /\ ReconcileFails(space, boot) /\ Enough

\* retryRefused, or in provision() a refusal that only an admission guard gave.
MayRetry(state) ==
    state = "none" \/ state = "vetoed" \/ (via = "repair" /\ state = "refused")

Request(kind, k) == wire' = wire \cup {<<kind, k>>} /\ UNCHANGED <<pane, seen, landed, again>>
Unsent(kind, k)  == wire' = wire \ {<<kind, k>>} /\ UNCHANGED <<pane, seen, landed, again>>

MakeSpace ==
    /\ pc = "space" /\ (via = "repair" => Unmoved)
    /\ IF space[Own(cur)] = "done"
       THEN Go("swap") /\ UNCHANGED <<space, world>>
       ELSE /\ MayRetry(space[Own(cur)])
            /\ space' = [space EXCEPT ![Own(cur)] = "pending"]
            /\ Request("space", Own(cur)) /\ Go("making")
    /\ UNCHANGED <<task, part, op, book, awaits, boot, shut, restart, outer>> /\ Enough

SpaceHeld ==
    /\ pc = "space" /\ space[Own(cur)] # "done" /\ ~MayRetry(space[Own(cur)])
    /\ ReconcileFails(space, boot) /\ Enough

SpaceMade ==
    /\ pc = "making" /\ <<"space", Own(cur)>> \notin wire
    /\ space' = [space EXCEPT ![Own(cur)] = "done"]
    /\ Go("swap")
    /\ UNCHANGED <<task, part, op, book, awaits, boot, shut, restart, outer, world>> /\ Enough

SpaceFails(state) ==
    /\ pc = "making" /\ Trouble
    /\ state = "refused" => <<"space", Own(cur)>> \in wire
    /\ space' = [space EXCEPT ![Own(cur)] = state] /\ UNCHANGED boot
    /\ task' = Caught(op, space', boot) /\ Leave
    /\ IF state = "refused" THEN Unsent("space", Own(cur)) ELSE UNCHANGED world
    /\ UNCHANGED <<part, op, book, awaits, shut, restart, outer, words>>

\* The reference changes to the new pane, and what waited for the old one goes.
Swap ==
    /\ pc = "swap"
    /\ IF part[cur].at = part[cur].gen THEN UNCHANGED <<part, awaits>>
       ELSE /\ part' = [part EXCEPT ![cur].at = part[cur].gen, ![cur].started = FALSE]
            /\ awaits' = [awaits EXCEPT ![cur] = NoInput]
    /\ Go("launch")
    /\ UNCHANGED <<task, op, book, effects, outer, world>> /\ Enough

LaunchOpen == ~ask /\ ~event /\ (via = "repair" => ~moved)

Launch ==
    /\ pc = "launch" /\ LaunchOpen
    /\ IF boot[Own(cur)] = "done" THEN Go("readback") /\ UNCHANGED boot
       ELSE /\ MayRetry(boot[Own(cur)])
            /\ boot' = [boot EXCEPT ![Own(cur)] = "pending"] /\ Go("boot")
    /\ UNCHANGED <<task, part, op, book, awaits, space, shut, restart, outer, world>> /\ Enough

LaunchHeld ==
    /\ pc = "launch"
    /\ ~LaunchOpen \/ (boot[Own(cur)] # "done" /\ ~MayRetry(boot[Own(cur)]))
    /\ ReconcileFails(space, boot) /\ Enough

\* The directories are checked before the request leaves.
Boot ==
    /\ pc = "boot" /\ LaunchOpen
    /\ Request("boot", Own(cur)) /\ Go("booting")
    /\ UNCHANGED <<rows, outer>> /\ Enough

BootVetoed ==
    /\ pc = "boot" /\ ~LaunchOpen
    /\ ReconcileFails(space, [boot EXCEPT ![Own(cur)] = "vetoed"]) /\ Enough

Booted ==
    /\ pc = "booting" /\ <<"boot", Own(cur)>> \notin wire
    /\ boot' = [boot EXCEPT ![Own(cur)] = "done"]
    /\ Go("readback")
    /\ UNCHANGED <<task, part, op, book, awaits, space, shut, restart, outer, world>> /\ Enough

BootFails(state) ==
    /\ pc = "booting" /\ Trouble
    /\ state = "refused" => <<"boot", Own(cur)>> \in wire
    /\ boot' = [boot EXCEPT ![Own(cur)] = state] /\ UNCHANGED space
    /\ task' = Caught(op, space, boot') /\ Leave
    /\ IF state = "refused" THEN Unsent("boot", Own(cur)) ELSE UNCHANGED world
    /\ UNCHANGED <<part, op, book, awaits, shut, restart, outer, words>>

\* Readiness comes from a fresh reading and never from the receipt of the start.
Readback(st, ready) ==
    /\ pc = "readback" /\ (via = "repair" => Unmoved)
    /\ st = "idle" => pane[Place(cur)] = "live"
    /\ st = "gone" => pane[Place(cur)] # "live" /\ via = "repair"
    /\ ready => st = "idle"
    /\ part' = [part EXCEPT ![cur].started = TRUE,
                            ![cur].st = IF st = "unread" THEN @ ELSE st,
                            ![cur].journal = IF via # "repair" THEN @
                                             ELSE IF ready THEN "ready" ELSE "building"]
    /\ Leave
    /\ UNCHANGED <<task, op, book, awaits, effects, outer, world>>

ReadBack ==
    /\ Enough
    /\ \E ready \in BOOLEAN : Readback("idle", ready) \/ Readback("gone", FALSE)
NotReadBack == via = "repair" /\ Readback("unread", FALSE) /\ Trouble /\ UNCHANGED words

\* provisionParticipant: the first executor of a participant.
Provision(p) ==
    /\ pc = "free" /\ Here(p) /\ part[p].gen = 0 /\ ~part[p].held /\ ~part[p].started
    /\ pc' = (IF part[p].at = -1 THEN "space" ELSE "launch") /\ cur' = p /\ via' = "provision"
    /\ UNCHANGED <<rows, outer, inp, was, moved, world>> /\ Enough
-----------------------------------------------------------------------------
(* restartParticipants: a participant is closed and another takes its place. *)

\* Unknown inputs of the participant are archived; any other unknown effect
\* of the task forbids to close anything.
UnknownInputs(p) == {i \in Inputs : Unknown(op[i]) /\ to[i] = p}
OnlyInputs(p) ==
    /\ \A i \in Inputs : Unknown(op[i]) => to[i] = p
    /\ \A k \in Panes : {space[k], boot[k]} \cap {"pending", "uncertain"} = {}
    /\ \A q \in People : ~Unknown(shut[q])
    /\ restart.close \notin {"pending", "uncertain"}

Restart(p) ==
    /\ pc = "free" /\ Here(p) /\ ~event /\ OnlyInputs(p)
    /\ restart.st = "none" \/ (restart.st = "closing" /\ restart.who = p)
    /\ \E q \in People : part[q].st = "absent"
    /\ restart' = IF restart.st = "closing" THEN restart
                  ELSE [restart EXCEPT !.st = "closing", !.who = p, !.ops = UnknownInputs(p)]
    /\ task' = [task EXCEPT !.paused = TRUE, !.st = "paused", !.byUser = FALSE, !.asked = "yes"]
    /\ row' = Stale(row) /\ ask' = FALSE
    /\ pc' = "history" /\ cur' = p
    /\ UNCHANGED <<part, op, to, tries, applied, awaits, space, boot, shut, event, inp, via, was, moved, world>> /\ Word

RestartStops ==
    /\ pc \in {"history", "close", "material"} /\ (event \/ moved)
    /\ Leave /\ UNCHANGED <<rows, outer, world>> /\ Enough

\* The conversation is read before the close makes it unreadable.
TakeHistory ==
    /\ pc = "history" /\ ~event /\ ~moved
    /\ Go(IF part[cur].at = -1 THEN "material" ELSE "close")
    /\ UNCHANGED <<rows, outer, world>> /\ Enough

CloseOld ==
    /\ pc = "close" /\ ~event /\ ~moved
    /\ IF restart.close = "done" THEN Go("material") /\ UNCHANGED <<restart, world>>
       ELSE /\ restart' = [restart EXCEPT !.close = "pending"]
            /\ Request("close", Place(cur)) /\ Go("closing")
    /\ UNCHANGED <<task, part, op, book, awaits, space, boot, shut, outer>> /\ Enough

OldClosed ==
    /\ pc = "closing" /\ <<"close", Place(cur)>> \notin wire
    /\ restart' = [restart EXCEPT !.close = "done"]
    /\ Go("material")
    /\ UNCHANGED <<task, part, op, book, awaits, space, boot, shut, outer, world>> /\ Enough

OldCloseFails(state) ==
    /\ pc = "closing" /\ Trouble
    /\ state = "refused" => <<"close", Place(cur)>> \in wire
    /\ restart' = [restart EXCEPT !.close = state]
    /\ IF state = "refused" THEN Unsent("close", Place(cur)) ELSE UNCHANGED world
    /\ Leave
    /\ UNCHANGED <<task, part, op, book, awaits, space, boot, shut, outer, words>>

\* The material is written; the old participant leaves and the new one waits
\* to be provisioned.
Replace(q) ==
    /\ pc = "material" /\ ~event /\ ~moved /\ part[q].st = "absent"
    /\ part' = [part EXCEPT ![cur].st = "removed", ![q] = Fresh]
    /\ awaits' = [awaits EXCEPT ![cur] = NoInput]
    /\ restart' = [restart EXCEPT !.st = "done"]
    /\ task' = [task EXCEPT !.paused = FALSE, !.st = "open", !.asked = "no"]
    /\ Leave
    /\ UNCHANGED <<op, book, space, boot, shut, outer, world>> /\ Enough
-----------------------------------------------------------------------------
(* Other controls of the user *)

\* A control that changes the task and perhaps its participants at once.
Control(t, ps) ==
    /\ pc = "free"
    /\ task' = t /\ part' = ps /\ ask' = FALSE
    /\ UNCHANGED <<op, book, awaits, effects, event, holder, world>> /\ Word

ByUser(t) == [t EXCEPT !.paused = TRUE, !.byUser = TRUE, !.asked = "yes"]

Pause ==
    /\ pc = "free" /\ task' = [ByUser(task) EXCEPT !.st = "paused"]
    /\ row' = Stale(row) /\ ask' = FALSE
    /\ UNCHANGED <<part, op, to, tries, applied, awaits, effects, event, holder, world>> /\ Word

Resume ==
    Control([task EXCEPT !.st = "open", !.paused = FALSE, !.mark = FALSE, !.asked = "no"],
            [p \in People |-> [part[p] EXCEPT !.held = FALSE]])

\* A retry forgets every refusal of the task.
Forgiven(s) == [k \in Panes |-> IF s[k] \in {"vetoed", "refused"} THEN "none" ELSE s[k]]
RetryTask ==
    /\ pc = "free"
    /\ op' = [i \in Inputs |-> IF Failed(op[i]) THEN NoReceipt ELSE op[i]]
    /\ space' = Forgiven(space) /\ boot' = Forgiven(boot)
    /\ shut' = [p \in People |-> IF Failed(shut[p]) THEN NoReceipt ELSE shut[p]]
    /\ restart' = [restart EXCEPT !.close = IF @ = "refused" THEN "none" ELSE @]
    /\ task' = [task EXCEPT !.st = "open", !.asked = IF @ = "yes" THEN "retried" ELSE @]
    /\ ask' = FALSE
    /\ UNCHANGED <<part, book, awaits, event, holder, world>> /\ Word

Interrupt(p) ==
    /\ pc = "free" /\ Here(p)
    /\ task' = [ByUser(task) EXCEPT !.mark = TRUE]
    /\ part' = [part EXCEPT ![p].held = TRUE]
    /\ row' = Stale(row) /\ ask' = FALSE
    /\ UNCHANGED <<op, to, tries, applied, awaits, effects, event, holder, world>>
    /\ Word

Add(p) ==
    /\ \A q \in People : part[q].st = "absent" => p <= q
    /\ part[p].st = "absent"
    /\ Control(task, [part EXCEPT ![p] = Fresh])

\* removeParticipant closes the pane and keeps the receipt of that.
Remove(p) ==
    /\ pc = "free" /\ Here(p)
    /\ task' = [ByUser(task) EXCEPT !.mark = TRUE]
    /\ row' = Stale(row) /\ ask' = FALSE
    /\ \/ /\ part[p].at = -1 \/ Given(shut[p])
          /\ part' = [part EXCEPT ![p].held = TRUE, ![p].st = "removed"]
          /\ UNCHANGED <<shut, holder, world>>
       \/ /\ part[p].at # -1 /\ Runs(shut[p])
          /\ part' = [part EXCEPT ![p].held = TRUE]
          /\ shut' = [shut EXCEPT ![p] = Pending(@)]
          /\ Request("close", Place(p))
          /\ pc' = "removing" /\ cur' = p /\ UNCHANGED <<inp, via, was, moved>>
       \/ /\ part[p].at # -1 /\ ~Given(shut[p]) /\ ~Runs(shut[p])
          /\ part' = [part EXCEPT ![p].held = TRUE]
          /\ UNCHANGED <<shut, holder, world>>
    /\ UNCHANGED <<op, to, tries, applied, awaits, space, boot, restart, event>> /\ Word

Removed ==
    /\ pc = "removing" /\ <<"close", Place(cur)>> \notin wire
    /\ shut' = [shut EXCEPT ![cur].state = "done"]
    /\ part' = [part EXCEPT ![cur].st = "removed"]
    /\ Leave
    /\ UNCHANGED <<task, op, book, awaits, space, boot, restart, outer, world>> /\ Enough

RemoveFails(state) ==
    /\ pc = "removing" /\ Trouble
    /\ state = "refused" => <<"close", Place(cur)>> \in wire
    /\ shut' = [shut EXCEPT ![cur].state = state]
    /\ IF state = "refused" THEN Unsent("close", Place(cur)) ELSE UNCHANGED world
    /\ Leave
    /\ UNCHANGED <<task, part, op, book, awaits, space, boot, restart, outer, words>>
-----------------------------------------------------------------------------
(* Decisions about unknown outcomes, and the world *)

InFlight(i) == pc \in {"baseline", "screen", "echo"} /\ inp = i
Choices(r) == {"treat_done", "abandon"} \cup (IF r.again THEN {} ELSE {"retry"})

\* applyUncertainResolution, or reconcileUncertain when a reading proves it.
Decide(i) ==
    /\ Unknown(op[i]) /\ ~InFlight(i) /\ i \notin restart.ops
    /\ \E c \in Choices(op[i]) \cup {"proven"} :
          /\ c = "proven" => Provable(i) /\ <<i, Place(to[i])>> \in seen
          /\ c = "retry" => again[i] = 0    \* bound: a deleted receipt forgets the retry
          /\ op' = [op EXCEPT ![i].choice = c]
          /\ again' = [again EXCEPT ![i] = IF c = "retry" THEN @ + 1 ELSE @]
    /\ UNCHANGED <<task, part, book, awaits, effects, outer, holder, pane, seen, landed, wire>> /\ Enough

DecideClose(p) ==
    /\ Unknown(shut[p]) /\ pc # "removing"
    /\ \E c \in Choices(shut[p]) : shut' = [shut EXCEPT ![p].choice = c]
    /\ UNCHANGED <<task, part, op, book, awaits, space, boot, restart, outer, holder, world>> /\ Enough

\* A request reaches the other side; its answer may still get lost.
Land(m) ==
    /\ m \in wire /\ wire' = wire \ {m} /\ UNCHANGED again
    /\ LET k == m[2] IN
       \/ /\ m[1] = "space" /\ pane' = [pane EXCEPT ![k] = IF @ = "none" THEN "shell" ELSE @]
          /\ UNCHANGED <<seen, landed>>
       \/ /\ m[1] = "boot" /\ pane' = [pane EXCEPT ![k] = IF @ = "shell" THEN "live" ELSE @]
          /\ UNCHANGED <<seen, landed>>
       \/ /\ m[1] = "close" /\ pane' = [pane EXCEPT ![k] = "lost"]
          /\ UNCHANGED <<seen, landed>>
       \/ /\ m[1] \in Inputs /\ pane[k] = "live"
          /\ seen' = seen \cup {m} /\ landed' = [landed EXCEPT ![m[1]] = @ + 1]
          /\ UNCHANGED pane
    /\ UNCHANGED <<rows, outer, holder>> /\ Enough

LosePane(k) ==
    /\ pane[k] = "live" /\ Trouble /\ pane' = [pane EXCEPT ![k] = "lost"]
    /\ UNCHANGED <<rows, outer, holder, seen, landed, again, wire, words>>

Event ==
    /\ Trouble
    /\ event' = TRUE /\ moved' = (pc # "free")
    /\ UNCHANGED <<rows, ask, pc, cur, inp, via, was, world, words>>
EventHandled == event /\ event' = FALSE /\ UNCHANGED <<rows, ask, holder, world>> /\ Enough

\* A user's control starts to wait for the mutex, and may be refused later.
Ask == words > 0 /\ ask' = ~ask /\ UNCHANGED <<rows, event, holder, world>> /\ Enough

\* observeTask: an executor that is gone pauses the scheduling, the reply to
\* an input is recorded, and the status shows whether something needs attention.
SeesGone(p) ==
    /\ pc = "free" /\ Here(p) /\ part[p].started /\ part[p].st # "gone"
    /\ pane[Place(p)] # "live"
    /\ part' = [part EXCEPT ![p].st = "gone"]
    /\ task' = [task EXCEPT !.paused = TRUE, !.st = IF @ = "paused" THEN @ ELSE "attention"]
    /\ UNCHANGED <<op, book, awaits, effects, outer, holder, world>> /\ Enough

SeesReply(p) ==
    /\ pc = "free" /\ part[p].st = "working"
    /\ part' = [part EXCEPT ![p].st = "idle"] /\ awaits' = [awaits EXCEPT ![p] = NoInput]
    /\ UNCHANGED <<task, op, book, effects, outer, holder, world>> /\ Enough

Realign ==
    /\ pc = "free" /\ task.st # "paused"
    /\ \E p \in People : Here(p) /\ ~part[p].due
    /\ task' = [task EXCEPT !.st = IF \/ AnyUnknown(op, space, boot)
                                      \/ \E p \in People : Here(p) /\ (part[p].due \/ part[p].st = "gone")
                                   THEN "attention" ELSE "open"]
    /\ UNCHANGED <<part, op, book, awaits, effects, outer, holder, world>> /\ Enough

Crash ==
    /\ Trouble /\ Leave /\ ask' = FALSE
    /\ UNCHANGED <<rows, event, world, words>>

Outside ==
    \/ \E i \in Inputs : Decide(i)
    \/ \E p \in People : DecideClose(p)
    \/ \E m \in wire : Land(m)
    \/ \E k \in Panes : LosePane(k)
    \/ Event \/ EventHandled \/ Ask \/ Crash

Sending ==
    \/ \E i \in Inputs, p \in People : Send(i, p) \/ SendTurnedDown(i, p)
    \/ SendVetoed \/ SendHindered \/ SendConflicts \/ Prepare \/ TargetGone \/ Write
    \/ Echoed \/ NotEchoed \/ Apply

Proving ==
    \/ \E i \in Inputs : ApplyDecided(i) \/ LookForProof(i)
    \/ Proved \/ NotProved \/ ProofUnread

Repairing ==
    \/ \E p \in People : FinishRepair(p) \/ Inspect(p) \/ ResumeRepair(p) \/ Provision(p)
    \/ SeesAgent \/ SeesNoAgent \/ Unread \/ RepairDeferred
    \/ MakeSpace \/ SpaceHeld \/ SpaceMade \/ Swap \/ Launch \/ LaunchHeld
    \/ Boot \/ BootVetoed \/ Booted \/ ReadBack \/ NotReadBack
    \/ \E state \in {"refused", "uncertain"} : SpaceFails(state) \/ BootFails(state)

Restarting ==
    \/ \E p \in People : Restart(p) \/ Replace(p)
    \/ RestartStops \/ TakeHistory \/ CloseOld \/ OldClosed
    \/ \E state \in {"refused", "uncertain"} : OldCloseFails(state)

Controls ==
    \/ Pause \/ Resume \/ RetryTask
    \/ \E p \in People : Interrupt(p) \/ Add(p) \/ Remove(p)
    \/ Removed \/ \E state \in {"refused", "uncertain"} : RemoveFails(state)

Observing == Realign \/ \E p \in People : SeesGone(p) \/ SeesReply(p)

Next == Outside \/ Observing \/ Sending \/ Proving \/ Repairing \/ Restarting \/ Controls
Spec == Init /\ [][Next]_vars
-----------------------------------------------------------------------------
\* An input arrives once, and once more for each decision to send it again:
\* refusals that are forgotten, generations and crashes never repeat it.
InputOnce == \A i \in Inputs : landed[i] <= 1 + again[i]

\* A live agent sits in the pane its participant names, and a participant
\* that left has none unless somebody decided about its close: repairs,
\* restarts and late starts never leave two agents of one participant.
OneAgent ==
    \A p \in People, g \in Gens : pane[<<p, g>>] = "live" =>
        /\ part[p].at = g
        /\ part[p].st = "removed" => shut[p].choice # "none"

\* An input counts as delivered to the executor that is there now only if its
\* text is in the record of that executor, or somebody decided so: an answer
\* or a proof of a retired generation never passes for one of the new.
ProofFitsPlace ==
    [][\A i \in applied' \ applied :
          <<i, Place(to[i])>> \in seen \/ op[i].choice = "treat_done"]_vars

\* A pause the user asked for ends only by the user's word.
PauseStays == task.asked = "yes" => task.paused

\* Only the user's word makes a pause the user's ("a lifecycle repair pause
\* does not mean the user paused the task", tasks/pause.ts).
OnlyUserPauses == UserPaused(task) => task.asked # "no"
=============================================================================
