---------------------------- MODULE Orchestration ----------------------------
(***************************************************************************)
(* The continuous scheduler of a task in `model` mode, app/task-           *)
(* orchestrator.ts: outputs and revisions become durable events, a model   *)
(* run per event sends inputs and records one decision, and the decision   *)
(* is told to the user.  It runs outside the task's mutex: messages,       *)
(* pauses, replies of participants, decisions about unknown inputs and     *)
(* crashes come at any step.  One task; `active` lets one run of it live,  *)
(* so `pc` is the await that run stands at.                                *)
(*                                                                         *)
(* How an input is sent is Execution.tla, how a message is posted is       *)
(* Outbox.tla; here each has one request that may be refused or lost.      *)
(***************************************************************************)
EXTENDS Integers, Sequences, FiniteSets

CONSTANTS
    People,         \* participants
    Nobody,         \* no participant
    MaxEvents,      \* bound: scheduling events
    MaxOutputs,     \* bound: final outputs of participants
    MaxMessages,    \* bound: messages and controls of the user
    MaxTroubles     \* bound: refused or lost requests, failed model runs, crashes

ASSUME OrchestrationAssumption ==
    /\ People # {} /\ IsFiniteSet(People) /\ Nobody \notin People
    /\ {MaxEvents, MaxOutputs, MaxMessages, MaxTroubles} \subseteq Nat

MaxAttempts == 3                        \* MAX_ATTEMPTS
Events == 1..MaxEvents

VARIABLES
    task,       \* status, discussion.paused and the code of task.error
    part,       \* participant -> status, participant_awaiting_output, initialSent
    outs,       \* task_settled_outputs: who said what, in order
    rev,        \* the revision of the user's requirements
    ingress,    \* rows of the inbox that concern the task: how many, and whether one is open
    ev,         \* task_orchestration_events in order
    op,         \* <<event, participant>> -> receipt of the input
    box,        \* event -> outbox row of its reply
    pc, cur, who, mark, back,   \* the run: place, event, participant, ingress revision, where to return
    wire, landed, shown,        \* the other side: inputs under way, inputs that arrived, replies shown
    luck

book  == <<task, part, outs, rev, ingress>>
store == <<ev, op, box>>
run   == <<pc, cur, who, mark, back>>
world == <<wire, landed, shown>>
vars  == <<book, store, run, world, luck>>

Inputs   == Events \X People
EventSet == [outs : SUBSET (1..MaxOutputs), rev : 0..MaxMessages,
             st : {"pending", "processing", "done", "attention", "superseded"},
             tries : Nat,
             disp : [People -> {"none", "pending", "sent", "failed", "uncertain"}],
             dec : {"none", "continue", "wait", "deliver"},
             note : {"none", "sending", "uncertain", "retryable", "sent"}, notes : Nat,
             told : BOOLEAN, err : {"none", "delivery", "notice", "other"}]
Receipts == [state : {"none", "pending", "done", "failed", "uncertain"},
             choice : {"none", "treat_done", "retry", "abandon"}]

TypeOK ==
    /\ task \in [st : {"open", "attention"}, paused : BOOLEAN, err : {"none", "delivery", "notice", "other"}]
    /\ part \in [People -> [busy : BOOLEAN, awaits : BOOLEAN, sent : BOOLEAN]]
    /\ outs \in Seq(People) /\ Len(outs) <= MaxOutputs
    /\ rev \in 0..MaxMessages /\ ingress \in [n : 0..MaxMessages, open : BOOLEAN]
    /\ ev \in Seq(EventSet) /\ Len(ev) <= MaxEvents
    /\ op \in [Inputs -> Receipts]
    /\ box \in [Events -> {"none", "sending", "uncertain", "retryable", "delivered"}]
    /\ pc \in {"off", "events", "choose", "think", "sending", "leaving", "echo", "marked",
               "notify", "reply", "posted", "replied", "alert"}
    /\ cur \in 0..(MaxEvents + 1) /\ who \in People \cup {Nobody}
    /\ mark \in 0..MaxMessages /\ back \in {"off", "events"}
    /\ wire \subseteq Inputs /\ landed \in [Inputs -> Nat] /\ shown \in [Events -> Nat]
    /\ luck \in 0..MaxTroubles

Init ==
    /\ task = [st |-> "open", paused |-> FALSE, err |-> "none"]
    /\ part = [p \in People |-> [busy |-> FALSE, awaits |-> FALSE, sent |-> FALSE]]
    /\ outs = <<>> /\ rev = 0 /\ ingress = [n |-> 0, open |-> FALSE]
    /\ ev = <<>> /\ op = [i \in Inputs |-> [state |-> "none", choice |-> "none"]]
    /\ box = [e \in Events |-> "none"]
    /\ pc = "off" /\ cur = 0 /\ who = Nobody /\ mark = 0 /\ back = "off"
    /\ wire = {} /\ landed = [i \in Inputs |-> 0] /\ shown = [e \in Events |-> 0]
    /\ luck = MaxTroubles

Trouble == luck > 0 /\ luck' = luck - 1
Smooth  == UNCHANGED luck
Go(place) == pc' = place /\ UNCHANGED <<cur, who, mark, back>>
Off     == pc' = "off" /\ cur' = 0 /\ who' = Nobody /\ mark' = 0 /\ back' = "off"
Return  == IF back = "events" THEN pc' = "events" /\ cur' = cur + 1 /\ UNCHANGED <<who, mark, back>> ELSE Off
Save(e) == ev' = [ev EXCEPT ![cur] = e]

E == ev[cur]
Unknown(i) == op[i].state \in {"pending", "uncertain"} /\ op[i].choice = "none"
Open(e)    == \E p \in People : e.disp[p] \in {"pending", "uncertain"}
Sent(e)    == \E p \in People : e.disp[p] = "sent"

\* assertCurrent: the task goes on, the requirements are those of the event,
\* and nothing of the inbox is open or new since the run began.
Same(e)    == ~task.paused /\ e.rev = rev
Calm       == ~ingress.open /\ ingress.n = mark
Current(e) == Same(e) /\ Calm

\* Mutant: a receipt that is still open counts as never sent.
DispatchedIfDone(r, d) ==
    IF d \in {"none", "sent", "failed"} THEN d
    ELSE IF r.state = "done" \/ r.choice = "treat_done" THEN "sent" ELSE "failed"
\* Mutant: an input that was given up counts as never sent.
DispatchedIfKept(r, d) ==
    IF d \in {"none", "sent", "failed"} THEN d
    ELSE IF r.state = "done" \/ r.choice = "treat_done" THEN "sent"
    ELSE IF r.state \in {"none", "failed"} \/ r.choice = "abandon" THEN "failed" ELSE "uncertain"
\* Mutant: every receipt there is counts as sent.
DispatchedIfKnown(r, d) ==
    IF d \in {"none", "sent", "failed"} THEN d
    ELSE IF r.state \in {"none", "failed"} THEN "failed" ELSE "sent"
\* reconcileDispatches: what the receipts say about what was sent.
Dispatched(r, d) ==
    IF d \in {"none", "sent", "failed"} THEN d
    ELSE IF r.state = "done" \/ r.choice = "treat_done" THEN "sent"
    ELSE IF r.state \in {"none", "failed"} THEN "failed" ELSE "uncertain"
Reconciled(k) ==
    LET e == [ev[k] EXCEPT !.disp = [p \in People |-> Dispatched(op[<<k, p>>], ev[k].disp[p])]]
    IN IF \E p \in People : e.disp[p] = "uncertain" THEN [e EXCEPT !.st = "attention", !.err = "delivery"]
       ELSE IF Sent(e)
       THEN [e EXCEPT !.st = "done", !.err = "none", !.dec = IF @ = "none" THEN "continue" ELSE @]
       ELSE IF e.dec # "none" THEN [e EXCEPT !.st = "done"]
       ELSE CASE e.st = "processing" -> [e EXCEPT !.st = "pending"]
              [] e.st = "attention" /\ e.err = "delivery" -> [e EXCEPT !.st = "pending", !.err = "none"]
              [] OTHER -> e
-----------------------------------------------------------------------------
(* processTask: every event is looked at first *)

Tick ==
    /\ pc = "off" /\ ~task.paused /\ ~ingress.open
    /\ pc' = "events" /\ cur' = 1 /\ mark' = ingress.n /\ UNCHANGED <<who, back>>
    /\ UNCHANGED <<book, store, world>> /\ Smooth

\* recoverNotification: a reply without an outcome is read from the outbox.
Confirmed(k) == ev[k].dec = "deliver" /\ box[k] = "delivered"
Resumable(k) == box[k] \in {"none", "retryable", "delivered"}
Recovers(k)  ==
    /\ ev[k].dec \in {"wait", "deliver"} /\ ~ev[k].told /\ ev[k].note \in {"sending", "uncertain"}
    /\ Confirmed(k) \/ Resumable(k)
Recovered(k) ==
    IF ~Recovers(k) THEN ev[k]
    ELSE [ev[k] EXCEPT !.told = Confirmed(k), !.note = IF Confirmed(k) THEN "sent" ELSE "retryable",
                       !.st = IF @ = "superseded" THEN @ ELSE "done",
                       !.err = IF @ = "notice" THEN "none" ELSE @]
\* Mutant: a run that a crash ended is not looked at.
ReconcilableIfSent(e) == e.err = "delivery" \/ Open(e)
Reconcilable(e) == e.st = "processing" \/ e.err = "delivery" \/ Open(e)

Review ==
    LET r == Recovered(cur)
        c == IF Reconcilable(r) THEN Reconciled(cur) ELSE r
        d == IF c.rev # rev /\ ~Open(c) /\ c.st # "done" THEN [c EXCEPT !.st = "superseded"] ELSE c
    IN
    /\ pc = "events" /\ cur <= Len(ev)
    /\ Save(d)
    /\ task' = IF Recovers(cur) /\ E.err = "notice" /\ task.err = "notice" /\ ~task.paused
               THEN [task EXCEPT !.st = "open", !.err = "none"] ELSE task
    /\ IF d.st = "done" /\ d.dec \in {"wait", "deliver"} /\ ~d.told /\ d.rev = rev
       THEN pc' = "notify" /\ back' = "events" /\ UNCHANGED <<cur, who, mark>>
       ELSE pc' = "events" /\ cur' = cur + 1 /\ UNCHANGED <<who, mark, back>>
    /\ UNCHANGED <<part, outs, rev, ingress, op, box, world>> /\ Smooth

Blocked == {k \in DOMAIN ev : ev[k].st = "attention"}
Least(S) == CHOOSE x \in S : \A y \in S : x <= y

Reviewed == pc = "events" /\ cur > Len(ev)

ToAlert ==
    /\ Reviewed /\ Blocked # {}
    /\ pc' = "alert" /\ cur' = Least(Blocked) /\ back' = "off" /\ UNCHANGED <<who, mark>>
    /\ UNCHANGED <<book, store, world>> /\ Smooth

Rested  == \A p \in People : ~part[p].busy /\ ~part[p].awaits
Pending == {k \in DOMAIN ev : ev[k].st = "pending"}
NoWork  ==
    /\ Reviewed /\ Blocked = {} /\ ~(Rested /\ \A i \in Inputs : ~Unknown(i)) /\ Off
    /\ UNCHANGED <<book, store, world>> /\ Smooth
ToChoose ==
    /\ Reviewed /\ Blocked = {} /\ Rested /\ \A i \in Inputs : ~Unknown(i)
    /\ Go("choose") /\ UNCHANGED <<book, store, world>> /\ Smooth

\* Mutant: a finished event gives its outputs free.
ConsumedByOpen == UNION {ev[k].outs : k \in {j \in DOMAIN ev : ev[j].st \notin {"superseded", "done"}}}
\* An output belongs to the first event that took it up and was not superseded.
Consumed == UNION {ev[k].outs : k \in {j \in DOMAIN ev : ev[j].st # "superseded"}}
Fresh    == (DOMAIN outs) \ Consumed
Ready    == \A p \in People : ~part[p].sent
Revised  == ev # <<>> /\ ~\E k \in DOMAIN ev : ev[k].rev = rev /\ ev[k].st # "superseded"
\* Mutant: the id is a digest of the outputs alone.
KnownByOutputs == \E k \in DOMAIN ev : ev[k].outs = Fresh
\* The id is a digest of trigger, revision and outputs.
Known    == \E k \in DOMAIN ev : ev[k].rev = rev /\ ev[k].outs = Fresh

NewEvent == [outs |-> Fresh, rev |-> rev, st |-> "pending", tries |-> 0,
             disp |-> [p \in People |-> "none"], dec |-> "none", note |-> "none", notes |-> 0,
             told |-> FALSE, err |-> "none"]

\* A stale pending event gives way; a new one is saved before the model runs.
Choose ==
    LET k     == IF Pending = {} THEN 0 ELSE Least(Pending)
        stale == k # 0 /\ ev[k].rev # rev
        kept  == IF stale THEN [ev EXCEPT ![k].st = "superseded"] ELSE ev
        make  == (k = 0 \/ stale) /\ (Fresh # {} \/ Ready \/ Revised) /\ ~Known /\ Len(ev) < MaxEvents
        next  == IF make THEN Len(ev) + 1 ELSE IF k # 0 /\ ~stale THEN k ELSE 0
        rows  == IF make THEN Append(kept, NewEvent) ELSE kept
    IN
    /\ pc = "choose"
    /\ IF next # 0 /\ ~task.paused
       THEN /\ ev' = [rows EXCEPT ![next].st = "processing", ![next].tries = @ + 1]
            /\ pc' = "think" /\ cur' = next /\ back' = "off" /\ UNCHANGED <<who, mark>>
       ELSE ev' = rows /\ Off
    /\ UNCHANGED <<book, op, box, world>> /\ Smooth
-----------------------------------------------------------------------------
(* run: the model and its tools *)

Decide(d) ==
    /\ pc = "think" /\ Current(E) /\ E.dec = "none" /\ ~Open(E)
    /\ (d = "continue") = Sent(E)
    /\ d = "deliver" => outs # <<>>
    /\ Save([E EXCEPT !.dec = d])
    /\ UNCHANGED <<book, op, box, run, world>> /\ Smooth

Dispatch(p) ==
    /\ pc = "think" /\ Current(E) /\ E.dec = "none" /\ E.disp[p] \in {"none", "failed"}
    /\ Save([E EXCEPT !.disp[p] = "pending"])
    /\ pc' = "sending" /\ who' = p /\ UNCHANGED <<cur, mark, back>>
    /\ UNCHANGED <<book, op, box, world>> /\ Smooth

\* TaskService.send takes the task's mutex and writes the receipt.
Receipt ==
    /\ pc = "sending"
    /\ op' = [op EXCEPT ![<<cur, who>>] = [state |-> "pending", choice |-> "none"]]
    /\ Go("leaving") /\ UNCHANGED <<book, ev, box, world>> /\ Smooth

\* The callback is asked again right before the request leaves.
Leaves ==
    /\ pc = "leaving" /\ Current(E)
    /\ wire' = wire \cup {<<cur, who>>} /\ Go("echo")
    /\ UNCHANGED <<book, store, landed, shown>> /\ Smooth

SendFails(state) ==
    /\ op' = [op EXCEPT ![<<cur, who>>].state = state]
    /\ Save([E EXCEPT !.disp[who] = state])
    /\ pc' = "think" /\ who' = Nobody /\ UNCHANGED <<cur, mark, back>>
    /\ UNCHANGED <<book, box, world>>
Vetoed  == pc = "leaving" /\ ~Current(E) /\ SendFails("failed") /\ Smooth
Refused == pc = "leaving" /\ Trouble /\ SendFails("failed")
Lost    == pc = "echo" /\ Trouble /\ SendFails("uncertain")

\* The verified input is applied to the participant under the task's mutex.
Working(p) == part' = [part EXCEPT ![p] = [busy |-> @.busy, awaits |-> TRUE, sent |-> TRUE]]
Echoed ==
    /\ pc = "echo" /\ landed[<<cur, who>>] > 0 /\ <<cur, who>> \notin wire
    /\ op' = [op EXCEPT ![<<cur, who>>].state = "done"]
    /\ Working(who)
    /\ Go("marked") /\ UNCHANGED <<task, outs, rev, ingress, ev, box, world>> /\ Smooth
Marked ==
    /\ pc = "marked" /\ Save([E EXCEPT !.disp[who] = "sent"])
    /\ pc' = "think" /\ who' = Nobody /\ UNCHANGED <<cur, mark, back, book, op, box, world>> /\ Smooth

\* The model ends its turn.
Finish ==
    LET e == [Reconciled(cur) EXCEPT !.st = IF @ = "attention" THEN @ ELSE "done"] IN
    /\ pc = "think" /\ (E.dec # "none" \/ Sent(E))
    /\ Save(e) /\ Go(IF e.st = "attention" THEN "alert" ELSE "notify")
    /\ UNCHANGED <<book, op, box, world>> /\ Smooth

\* The run ends with an error: a check that failed, the model or a tool, or a
\* refusal of the leader (a budget, a write that is in doubt), which no retry cures.
Causes == {"superseded", "deferred", "failure", "refusal"}
Failed(e, cause) ==
    IF e.st \in {"attention", "done"} THEN e
    ELSE IF task.paused \/ cause = "superseded" THEN [e EXCEPT !.st = "superseded"]
    ELSE IF cause = "deferred" THEN [e EXCEPT !.st = "pending", !.tries = @ - 1]
    ELSE IF e.tries >= MaxAttempts \/ cause = "refusal" THEN [e EXCEPT !.st = "attention", !.err = "other"]
    ELSE [e EXCEPT !.st = "pending"]
RunFails(cause) ==
    LET e == Failed(Reconciled(cur), cause) IN
    /\ pc = "think" /\ Save(e)
    /\ IF e.st = "attention" THEN Go("alert") ELSE Off
    /\ CASE cause = "superseded" -> ~Same(E) /\ Smooth
         [] cause = "deferred" -> Same(E) /\ ~Calm /\ Smooth
         [] OTHER -> IF Open(E) THEN Smooth ELSE Trouble
    /\ UNCHANGED <<book, op, box, world>>

\* attention: the task shows the error and the chat is told once.
Alert ==
    /\ pc = "alert"
    /\ task' = IF task.paused \/ E.err = "none" THEN task ELSE [task EXCEPT !.st = "attention", !.err = E.err]
    /\ \/ Save([E EXCEPT !.told = @ \/ ~(task.paused \/ E.err = "none" \/ E.note = "uncertain" \/ E.notes >= MaxAttempts)])
          /\ Smooth
       \/ Trouble /\ UNCHANGED ev
    /\ IF back = "events" THEN Return ELSE Off
    /\ UNCHANGED <<part, outs, rev, ingress, op, box, world>>
-----------------------------------------------------------------------------
(* notify: the decision is told to the user *)

Notify ==
    LET silent == E.dec \in {"none", "continue"} \/ E.told \/ E.note = "uncertain" IN
    /\ pc = "notify"
    /\ CASE silent -> Return /\ UNCHANGED ev
         [] ~silent /\ ~Current(E) -> Off /\ UNCHANGED ev
         [] ~silent /\ Current(E) /\ E.note = "sending" ->
               /\ Save([E EXCEPT !.note = "uncertain", !.st = "attention", !.err = "notice"])
               /\ Go("alert")
         [] OTHER ->
               /\ Save([E EXCEPT !.note = "sending", !.notes = @ + 1])
               /\ Go("reply")
    /\ UNCHANGED <<book, op, box, world>> /\ Smooth

Admits(k) == box[k] \in {"none", "retryable"}       \* Outbox.send
Reply ==
    /\ pc = "reply" /\ Admits(cur)
    /\ box' = [box EXCEPT ![cur] = "sending"] /\ shown' = [shown EXCEPT ![cur] = @ + 1]
    /\ Go("posted") /\ UNCHANGED <<book, ev, op, wire, landed>> /\ Smooth
Known2 ==
    /\ pc = "reply" /\ box[cur] = "delivered" /\ Go("replied")
    /\ UNCHANGED <<book, store, world>> /\ Smooth
Posted ==
    /\ pc = "posted" /\ box' = [box EXCEPT ![cur] = "delivered"] /\ Go("replied")
    /\ UNCHANGED <<book, ev, op, world>> /\ Smooth
Replied ==
    /\ pc = "replied" /\ Save([E EXCEPT !.told = TRUE, !.note = "sent", !.err = "none"])
    /\ Return /\ UNCHANGED <<book, op, box, world>> /\ Smooth

ReplyFails(state) ==
    LET unknown == state = "uncertain"
        e == [E EXCEPT !.note = state, !.err = "notice",
                       !.st = IF unknown \/ E.notes >= MaxAttempts THEN "attention" ELSE @]
    IN
    /\ \/ pc = "reply" /\ Admits(cur) /\ Trouble
       \/ pc = "posted" /\ unknown /\ Trouble
       \/ pc = "reply" /\ box[cur] \in {"sending", "uncertain"} /\ unknown /\ Smooth
    /\ box' = [box EXCEPT ![cur] = state]
    /\ Save(e)
    /\ IF e.st = "attention" THEN Go("alert") ELSE Return
    /\ UNCHANGED <<book, op, world>>
-----------------------------------------------------------------------------
(* The participants, the user and the process *)

Land(i) ==
    /\ i \in wire /\ wire' = wire \ {i}
    /\ landed' = [landed EXCEPT ![i] = @ + 1]
    /\ part' = [part EXCEPT ![i[2]].busy = TRUE]
    /\ UNCHANGED <<task, outs, rev, ingress, store, run, shown>> /\ Smooth

\* The turn of a participant ends and its output is settled.
Answer(p) ==
    /\ part[p].busy /\ part[p].sent
    /\ part' = [part EXCEPT ![p].busy = FALSE, ![p].awaits = FALSE]
    /\ outs' = IF Len(outs) < MaxOutputs THEN Append(outs, p) ELSE outs
    /\ UNCHANGED <<task, rev, ingress, store, run, world>> /\ Smooth

\* recoverPreparedInputs, or somebody's choice about the unknown input.
Settle(i, choice) ==
    /\ Unknown(i) /\ ~(pc \in {"leaving", "echo"} /\ i = <<cur, who>>)
    /\ op' = [op EXCEPT ![i].choice = choice]
    /\ IF choice = "treat_done" THEN Working(i[2]) ELSE UNCHANGED part
    /\ UNCHANGED <<task, outs, rev, ingress, ev, box, run, world>> /\ Smooth
Prove(i) == landed[i] > 0 /\ Settle(i, "treat_done")

Message ==
    /\ ingress.n < MaxMessages /\ ~ingress.open
    /\ ingress' = [n |-> ingress.n + 1, open |-> TRUE]
    /\ UNCHANGED <<task, part, outs, rev, store, run, world>> /\ Smooth

\* A handled message is a new requirement, a pause, a resume, or nothing.
Handle(paused, revised) ==
    /\ ingress.open /\ ingress' = [ingress EXCEPT !.open = FALSE]
    /\ paused # task.paused => revised = task.paused
    /\ task' = [task EXCEPT !.paused = paused]
    /\ rev' = IF revised THEN rev + 1 ELSE rev
    /\ UNCHANGED <<part, outs, store, run, world>> /\ Smooth

Crash == pc # "off" /\ Trouble /\ Off /\ UNCHANGED <<book, store, world>>

Run ==
    \/ Tick \/ Review \/ ToAlert \/ NoWork \/ ToChoose \/ Choose
    \/ Receipt \/ Leaves \/ Vetoed \/ Echoed \/ Marked \/ Finish
    \/ ((\E cause \in Causes : RunFails(cause)) /\ Smooth) \/ (Alert /\ Smooth)
    \/ (\E d \in {"continue", "wait", "deliver"} : Decide(d)) \/ (\E p \in People : Dispatch(p))
    \/ Notify \/ Reply \/ Known2 \/ Posted \/ Replied
Troubles ==
    \/ Refused \/ Lost \/ (\E cause \in Causes : RunFails(cause)) \/ Alert \/ Crash
    \/ \E state \in {"retryable", "uncertain"} : ReplyFails(state)
Users ==
    \/ Message \/ \E i \in Inputs, c \in {"treat_done", "retry", "abandon"} : Settle(i, c)
Handling == \E paused, revised \in BOOLEAN : Handle(paused, revised)
Native == \E p \in People : Answer(p)
Arrive == \E i \in Inputs : Land(i) \/ Prove(i)

Next == Run \/ Troubles \/ Users \/ Handling \/ Native \/ Arrive
Spec == Init /\ [][Next]_vars
FairSpec == Spec /\ WF_vars(Run) /\ WF_vars(Native) /\ WF_vars(Handling) /\ WF_vars(Arrive)
-----------------------------------------------------------------------------
\* A participant is given the work of one event at most once, through lost
\* answers, retries of the run, crashes and decisions about unknown inputs.
InputOnce == \A i \in Inputs : landed[i] <= 1

\* What the user is told is so: where an event was decided to wait or to deliver,
\* none of its participants was given work, and no lost request still can.
DecisionIsTrue ==
    \A k \in DOMAIN ev : ev[k].dec \in {"wait", "deliver"} =>
        \A p \in People : <<k, p>> \notin wire /\ landed[<<k, p>>] = 0

\* One output drives one decision: no two events that count hold it.
OutputsUsedOnce ==
    \A j, k \in DOMAIN ev :
        j # k /\ "superseded" \notin {ev[j].st, ev[k].st} => ev[j].outs \cap ev[k].outs = {}

\* A finished event that says the work goes on has given work to somebody.
ContinueIsTrue ==
    \A k \in DOMAIN ev :
        ev[k].st = "done" /\ ev[k].dec = "continue" =>
            \E p \in People : op[<<k, p>>].state = "done" \/ op[<<k, p>>].choice = "treat_done"

\* An input of the scheduler that somebody decided to try once more is sent
\* again, or proves to have arrived.
RetryIsTaken ==
    \A i \in Inputs :
        (op[i].choice = "retry") ~> (op[i].choice # "retry" \/ op[i].state = "done" \/ task.paused)

\* Every output ends in an event that was finished, unless the user paused
\* the task, an event or an input waits for the user, or somebody declared
\* an input done that its participant never got.
Finished == UNION {ev[k].outs : k \in {j \in DOMAIN ev : ev[j].st = "done"}}
OutputsScheduled ==
    (~(DOMAIN outs \subseteq Finished)) ~>
        \/ DOMAIN outs \subseteq Finished \/ task.paused \/ Blocked # {} \/ Len(ev) = MaxEvents
        \/ (\E i \in Inputs : Unknown(i)) \/ \E p \in People : part[p].awaits /\ ~part[p].busy
=============================================================================
