------------------------------- MODULE Service -------------------------------
(***************************************************************************)
(* The background reconciliation of the tasks: tasks/service.ts queues the *)
(* tasks of a poll and starts at most maxConcurrentTasks of them; one      *)
(* reconciliation holds its task's mutex, works on the row it read at its  *)
(* start and saves it at its end; tasks/remote-poll.ts says what may be    *)
(* asked of Feishu again, and tasks/description.ts keeps the description   *)
(* of the remote task.  Closing a task is TaskClosing.tla, sending to its  *)
(* participants is Execution.tla, the order of the mutex is KeyedMutex.tla.*)
(***************************************************************************)
EXTENDS Integers, Sequences, SequencesExt, FiniteSets

CONSTANTS
    Tasks, Texts,   \* tasks, and what their rows can read as in Feishu
    First,          \* the text of a new task
    MaxRunning,     \* config.runtime.maxConcurrentTasks
    MaxControls,    \* bound: events and controls of users
    Changing,       \* bound: the tasks whose rows change
    MaxChanges,     \* bound: changes of a row
    MaxTroubles     \* bound: refused, lost or failed requests, crashes

ASSUME ServiceAssumption ==
    /\ First \in Texts /\ IsFiniteSet(Tasks) /\ MaxRunning \in Nat \ {0}
    /\ Changing \subseteq Tasks /\ {MaxControls, MaxChanges, MaxTroubles} \subseteq Nat

Kinds == {"task", "final_description"}

VARIABLES
    row,        \* tasks: status, the text the row reads as, the alert of the orchestrator
    poll,       \* remote_poll: the polls that are due
    sync,       \* description_sync: text and state
    final,      \* final_description_sync
    queued, running, begun, \* TaskService.queued in order, running, and those of running that hold the mutex
    at, mine, snap, force,  \* a reconciliation: its place, its copy of the row, what GET answered, forceRemote
    signal,     \* control.signal.aborted
    blocked,    \* tasks an event of the orchestrator holds up
    remote, wire,           \* Feishu: the description shown, the PATCHes under way
    luck, controls, changes

store == <<row, poll, sync, final>>
queue == <<queued, running, begun, signal>>
own   == <<at, mine, snap, force>>
side  == <<remote, wire>>
budget == <<luck, controls, changes>>
vars  == <<store, queue, own, blocked, side, budget>>

Row     == [st : {"open", "completed", "destroyed"}, text : Texts, alert : BOOLEAN]
Answers == Texts \cup {"none", "error"}
Places  == {"off", "read", "work", "describe", "answer", "save", "failed", "stopped"}

TypeOK ==
    /\ row \in [Tasks -> Row] /\ mine \in [Tasks -> Row]
    /\ poll \in [Tasks -> SUBSET Kinds]
    /\ sync \in [Tasks -> [text : Texts, st : {"none", "sending", "uncertain", "done", "not_executed"}]]
    /\ final \in [Tasks -> {"none", "pending", "done"}]
    /\ queued \in Seq(Tasks) /\ running \subseteq Tasks /\ begun \subseteq running /\ signal \in BOOLEAN
    /\ at \in [Tasks -> Places] /\ snap \in [Tasks -> Answers] /\ force \in [Tasks -> BOOLEAN]
    /\ blocked \subseteq Tasks
    /\ remote \in [Tasks -> Texts] /\ wire \in [Tasks -> Seq(Texts)]
    /\ luck \in 0..MaxTroubles /\ controls \in 0..MaxControls /\ changes \in 0..MaxChanges

NewRow == [st |-> "open", text |-> First, alert |-> FALSE]
Init ==
    /\ row = [t \in Tasks |-> NewRow] /\ mine = row
    /\ poll = [t \in Tasks |-> Kinds]
    /\ sync = [t \in Tasks |-> [text |-> First, st |-> "none"]]
    /\ final = [t \in Tasks |-> "none"]
    /\ queued = <<>> /\ running = {} /\ begun = {} /\ signal = FALSE
    /\ at = [t \in Tasks |-> "off"] /\ snap = [t \in Tasks |-> "none"] /\ force = [t \in Tasks |-> FALSE]
    /\ blocked = {}
    /\ remote = [t \in Tasks |-> First] /\ wire = [t \in Tasks |-> <<>>]
    /\ luck = MaxTroubles /\ controls = MaxControls /\ changes = MaxChanges

Trouble == luck > 0 /\ luck' = luck - 1 /\ UNCHANGED <<controls, changes>>
Control == controls > 0 /\ controls' = controls - 1 /\ UNCHANGED <<luck, changes>>
Change(t) == t \in Changing /\ changes > 0 /\ changes' = changes - 1
Smooth  == UNCHANGED budget
Go(t, place) == at' = [at EXCEPT ![t] = place]
-----------------------------------------------------------------------------
(* The queue *)

\* Mutant: a destroyed task does not come back.
WantedOpen(t) == row[t].st # "destroyed"
\* A destroyed task comes back only for its last description; its group is
\* gone with it here.
Wanted(t) == row[t].st # "destroyed" \/ final[t] = "pending"
InQueue(t) == \E i \in DOMAIN queued : queued[i] = t

\* schedule(): the queue is taken from its head while there is room.
Schedule(q, r) ==
    LET n == IF MaxRunning - Cardinality(r) < Len(q) THEN MaxRunning - Cardinality(r) ELSE Len(q)
    IN [queued |-> SubSeq(q, n + 1, Len(q)), running |-> r \cup Range(SubSeq(q, 1, n))]
TakeUp(s) == queued' = s.queued /\ running' = s.running

Added == SelectSeq(SetToSeq(Tasks), LAMBDA t : Wanted(t) /\ t \notin running /\ ~InQueue(t))
Tick ==
    /\ ~signal /\ Added # <<>>
    /\ TakeUp(Schedule(queued \o Added, running))
    /\ UNCHANGED <<store, own, begun, signal, blocked, side>> /\ Smooth

\* The mutex: `at` is "off" exactly while nobody holds it.
Take(t, f) ==
    /\ at[t] = "off" /\ Go(t, "read")
    /\ mine' = [mine EXCEPT ![t] = row[t]]
    /\ snap' = [snap EXCEPT ![t] = "none"] /\ force' = [force EXCEPT ![t] = f]
    /\ UNCHANGED <<store, queued, running, signal, blocked, side>>
Start(t) == t \in running \ begun /\ ~signal /\ begun' = begun \cup {t} /\ Take(t, FALSE) /\ Smooth
\* An event or a manual refresh reconciles outside the queue.
Ask(t)   == ~signal /\ Control /\ UNCHANGED begun /\ Take(t, TRUE)

\* What a reconciliation held is gone with it.
Forget(S) ==
    /\ mine' = [t \in Tasks |-> IF t \in S THEN NewRow ELSE mine[t]]
    /\ snap' = [t \in Tasks |-> IF t \in S THEN "none" ELSE snap[t]]
    /\ force' = [t \in Tasks |-> IF t \in S THEN FALSE ELSE force[t]]

\* Mutant: only a round without an error makes room for the next task.
LeaveWell(t, r) ==
    /\ row' = [row EXCEPT ![t] = r] /\ Go(t, "off")
    /\ IF ~force[t] /\ at[t] = "save"
       THEN TakeUp(Schedule(queued, running \ {t})) /\ begun' = begun \ {t}
       ELSE UNCHANGED <<queued, running, begun>>
    /\ Forget({t}) /\ UNCHANGED <<signal, blocked, side>>
\* The row goes back as this reconciliation holds it; the queue moves on.
Leave(t, r) ==
    /\ row' = [row EXCEPT ![t] = r] /\ Go(t, "off")
    /\ IF force[t] THEN UNCHANGED <<queued, running, begun>>
       ELSE TakeUp(Schedule(queued, running \ {t})) /\ begun' = begun \ {t}
    /\ Forget({t}) /\ UNCHANGED <<signal, blocked, side>>
-----------------------------------------------------------------------------
(* One reconciliation *)

Due(t, k) == force[t] \/ k \in poll[t]
Polled(t, k) == poll' = [poll EXCEPT ![t] = @ \ {k}]
Save(t, r) == row' = [row EXCEPT ![t] = r] /\ mine' = [mine EXCEPT ![t] = r]

\* readRemote: the answer is kept for the description; a failure lets the
\* local work go on and ends the round after it.  The state of the group is
\* polled before it and may end the round at once.
Read(t) ==
    LET k == IF mine[t].st = "destroyed" THEN "final_description" ELSE "task" IN
    /\ at[t] = "read"
    /\ mine[t].st = "destroyed" => final[t] = "pending"
    /\ \/ Due(t, k) /\ Polled(t, k) /\ Smooth
          /\ snap' = [snap EXCEPT ![t] = remote[t]] /\ Go(t, IF k = "task" THEN "work" ELSE "describe")
       \/ Due(t, k) /\ Polled(t, k) /\ Trouble
          /\ snap' = [snap EXCEPT ![t] = "error"] /\ Go(t, IF k = "task" THEN "work" ELSE "failed")
       \/ ~Due(t, k) /\ UNCHANGED <<poll, snap>> /\ Smooth
          /\ Go(t, IF k = "task" THEN "work" ELSE "save")
       \/ k = "task" /\ UNCHANGED <<poll, snap>> /\ Trouble /\ Go(t, "failed")
    /\ UNCHANGED <<row, sync, final, queue, mine, force, blocked, side>>
\* Nothing is left to describe.
ReadNothing(t) ==
    /\ at[t] = "read" /\ mine[t].st = "destroyed" /\ final[t] # "pending" /\ Go(t, "save")
    /\ UNCHANGED <<store, queue, mine, snap, force, blocked, side>> /\ Smooth

\* Closing, provisioning, repairing and observing: the row reads differently,
\* the task ends, which its description tells as well, and asks for the last one,
\* or the step fails.
Work(t) ==
    /\ at[t] = "work"
    /\ \/ /\ UNCHANGED <<row, mine, final>> /\ Smooth
          /\ Go(t, IF signal THEN "stopped"
                   ELSE CASE snap[t] = "error" -> "failed" [] snap[t] = "none" -> "save"
                          [] OTHER -> "describe")
       \/ /\ Change(t) /\ UNCHANGED <<luck, controls, final>>
          /\ \E x \in Texts : Save(t, [mine[t] EXCEPT !.text = x])
          /\ UNCHANGED at
       \/ /\ Change(t) /\ UNCHANGED <<luck, controls>>
          /\ \E x \in Texts : Save(t, [mine[t] EXCEPT !.st = "destroyed", !.text = x])
          /\ final' = [final EXCEPT ![t] = "pending"]
          /\ Go(t, "read") 
       \/ /\ Trouble /\ Go(t, "failed") /\ UNCHANGED <<row, mine, final>>
    /\ UNCHANGED <<poll, sync, queue, snap, force, blocked, side>>

\* Mutant: a write without an answer counts as done.
SettledAlways(t) == TRUE
\* An answer that was lost is settled by what GET shows, never by writing again.
Settled(t) == sync[t].st \in {"sending", "uncertain"} => snap[t] = sync[t].text
Write(t, s, x) == sync' = [sync EXCEPT ![t] = [text |-> x, st |-> s]]

Unconfirmed(t) ==
    /\ at[t] = "describe" /\ ~Settled(t) /\ Go(t, "failed")
    /\ UNCHANGED <<row, poll, sync, final, queue, mine, snap, force, blocked, side>> /\ Smooth
Shown(t) ==
    /\ at[t] = "describe" /\ Settled(t) /\ snap[t] = mine[t].text /\ Go(t, "save")
    /\ sync' = IF sync[t].st = "none" THEN sync ELSE [sync EXCEPT ![t].st = "done"]
    /\ final' = IF mine[t].st = "destroyed" THEN [final EXCEPT ![t] = "done"] ELSE final
    /\ UNCHANGED <<row, poll, queue, mine, snap, force, blocked, side>> /\ Smooth

Patch(t) ==
    /\ at[t] = "describe" /\ Settled(t) /\ snap[t] # mine[t].text
    /\ IF ~signal
       THEN /\ Write(t, "sending", mine[t].text) /\ Go(t, "answer")
            /\ wire' = [wire EXCEPT ![t] = Append(@, mine[t].text)]
       ELSE Go(t, "stopped") /\ UNCHANGED <<sync, wire>>
    /\ UNCHANGED <<row, poll, final, queue, mine, snap, force, blocked, remote>> /\ Smooth
Applied(t) ==
    /\ at[t] = "answer" /\ wire[t] = <<>> /\ Write(t, "done", sync[t].text) /\ Go(t, "save")
    /\ final' = IF mine[t].st = "destroyed" THEN [final EXCEPT ![t] = "done"] ELSE final
    /\ UNCHANGED <<row, poll, queue, mine, snap, force, blocked, side>> /\ Smooth
Refused(t) ==
    /\ at[t] = "answer" /\ wire[t] # <<>> /\ Trouble
    /\ Write(t, "not_executed", sync[t].text) /\ wire' = [wire EXCEPT ![t] = <<>>]
    /\ Go(t, "failed")
    /\ UNCHANGED <<row, poll, final, queue, mine, snap, force, blocked, remote>>
\* Mutant: no answer counts as an answer.
LostIsApplied(t) ==
    /\ at[t] = "answer" /\ Trouble /\ Write(t, "done", sync[t].text) /\ Go(t, "save")
    /\ final' = IF mine[t].st = "destroyed" THEN [final EXCEPT ![t] = "done"] ELSE final
    /\ UNCHANGED <<row, poll, queue, mine, snap, force, blocked, side>>
\* No answer: the PATCH may still arrive, or never.
Lost(t) ==
    /\ at[t] = "answer" /\ Trouble /\ Write(t, "uncertain", sync[t].text) /\ Go(t, "failed")
    /\ UNCHANGED <<row, poll, final, queue, mine, snap, force, blocked, side>>

\* The two ways out: the row as it was held; an error goes to syncError.
End(t) ==
    /\ at[t] \in {"save", "failed", "stopped"}
    /\ Leave(t, IF at[t] = "stopped" THEN row[t] ELSE mine[t])
    /\ UNCHANGED <<poll, sync, final>> /\ Smooth
Stopped(t) ==
    /\ t \in running \ begun /\ signal /\ running' = running \ {t}
    /\ UNCHANGED <<store, queued, begun, signal, own, blocked, side>> /\ Smooth
-----------------------------------------------------------------------------
(* Others *)

\* TaskOrchestrator: an event that waits for the user is shown in the row,
\* outside the mutex, at every one of its own polls.
Hold(t) ==
    /\ t \notin blocked /\ row[t].st = "open" /\ Control /\ blocked' = blocked \cup {t}
    /\ UNCHANGED <<store, queue, own, side>>
\* Mutant: the row is written once.
AlertsOnce(t) == t \in blocked /\ ~row[t].alert /\ ~mine[t].alert /\ at[t] # "off"
Alerts(t) == t \in blocked /\ ~row[t].alert /\ row[t].st = "open"
Alert(t) ==
    /\ Alerts(t) /\ ~signal /\ row' = [row EXCEPT ![t].alert = TRUE]
    /\ UNCHANGED <<poll, sync, final, queue, own, blocked, side>> /\ Smooth

Arrive(t) ==
    /\ wire[t] # <<>> /\ remote' = [remote EXCEPT ![t] = Head(wire[t])]
    /\ wire' = [wire EXCEPT ![t] = Tail(@)]
    /\ UNCHANGED <<store, queue, own, blocked>> /\ Smooth
\* A request whose answer was lost never arrived.
Vanish(t) ==
    /\ wire[t] # <<>> /\ at[t] # "answer" /\ wire' = [wire EXCEPT ![t] = Tail(@)]
    /\ UNCHANGED <<store, queue, own, blocked, remote>> /\ Smooth
\* pollIntervalMs have gone by, or the clock went back.
Again(t, k) ==
    /\ k \notin poll[t] /\ poll' = [poll EXCEPT ![t] = @ \cup {k}]
    /\ UNCHANGED <<row, sync, final, queue, own, blocked, side>> /\ Smooth

Stop ==
    /\ ~signal /\ Control /\ signal' = TRUE /\ queued' = <<>>
    /\ UNCHANGED <<store, running, begun, own, blocked, side>>
Crash ==
    /\ Trouble /\ queued' = <<>> /\ running' = {} /\ begun' = {} /\ signal' = FALSE
    /\ at' = [t \in Tasks |-> "off"] /\ Forget(Tasks) /\ UNCHANGED <<store, blocked, side>>

Reconcile(t) ==
    \/ Start(t) \/ Read(t) \/ ReadNothing(t) \/ Work(t)
    \/ Unconfirmed(t) \/ Shown(t) \/ Patch(t) \/ Applied(t) \/ Refused(t) \/ Lost(t) \/ End(t) \/ Stopped(t)
Next ==
    \/ Tick \/ Stop \/ Crash
    \/ \E t \in Tasks : Reconcile(t) \/ Arrive(t) \/ (\E k \in Kinds : Again(t, k)) \/ Alert(t) \/ Ask(t) \/ Hold(t) \/ Vanish(t)

Spec == Init /\ [][Next]_vars
Fairness ==
    /\ WF_vars(Tick)
    /\ \A t \in Tasks : WF_vars(Reconcile(t)) /\ WF_vars(Arrive(t)) /\ WF_vars(Alert(t))
                       /\ \A k \in Kinds : WF_vars(Again(t, k))
FairSpec == Spec /\ Fairness
-----------------------------------------------------------------------------
\* Two descriptions of a task are never under way at once, and one that is on
\* its way is what the receipt says is not known.
OnePatch ==
    \A t \in Tasks :
        /\ Len(wire[t]) <= 1
        /\ wire[t] # <<>> => sync[t].st \in {"sending", "uncertain"} /\ wire[t] = <<sync[t].text>>

\* Every task that is wanted is reconciled again and again, however slow or
\* many the others are.
EveryTaskServed == \A t \in Tasks : []<>(at[t] # "off" \/ ~Wanted(t) \/ signal)

\* An event that waits for the user shows in the row in spite of rows that
\* were read before and are saved after it.
AlertShows == \A t \in Tasks : t \in blocked ~> (row[t].alert \/ row[t].st # "open" \/ signal)

\* What the last row reads as is what Feishu shows in the end, unless a write
\* never arrived and its answer was lost: that one is never written again.
Vanished(t) ==
    /\ sync[t].st \in {"sending", "uncertain"} /\ wire[t] = <<>> /\ remote[t] # sync[t].text
FinalShown ==
    \A t \in Tasks :
        final[t] = "pending" ~>
            (remote[t] = row[t].text /\ wire[t] = <<>> /\ final[t] = "done") \/ Vanished(t) \/ signal
=============================================================================
