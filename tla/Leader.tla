------------------------------- MODULE Leader -------------------------------
(* The durable leader session of a task: orchestration/leader-session*.ts,   *)
(* leader-receipts.ts, leader-policy.ts and the action tools of              *)
(* leader-tools.ts.                                                          *)
(*                                                                           *)
(* A scheduling event is put to the model in an activation of the task's one *)
(* session.  The activation calls write tools: it sends input to an agent,   *)
(* or commits the event to one candidate of the plan.  Each call has a       *)
(* receipt of the leader's own and, behind it, a record of the system it     *)
(* acts on (an input delivery, an action record); when the process dies or   *)
(* an answer is lost, the leader's receipt is settled from that record.  The *)
(* transcript is abstracted: a resumed model may call anything again.        *)
EXTENDS Naturals, Sequences, FiniteSets

CONSTANTS Rows,        \* inbox rows: pairs of an event and one of its revisions
          Sends,       \* calls of participant_send
          Choices,     \* candidates an event may be committed to
          Ops,         \* the calls a row's tools allow: pairs of a row and a write
          MaxTries,    \* activations of a row (LEADER_MAX_ATTEMPTS)
          MaxTrouble   \* failures of any kind

LeaderAssumption ==
    /\ Ops \subseteq Rows \X (Sends \cup Choices) /\ Sends \cap Choices = {}
    /\ MaxTries \in Nat \ {0}

VARIABLES inbox,    \* per row, its receipt
          known,    \* per event, its revisions in order of arrival
          op,       \* the leader's receipts of its write calls
          native,   \* what the system acted on has on record of each call
          action,   \* the action record of a row
          picked,   \* the candidate on the orchestration event
          fresh,    \* events the user's input has not overtaken
          pc, active, call, doubt,  \* the running activation and its call
          flying,   \* calls whose tool has not returned
          asked, applied,     \* inferences per row; effects in the world
          trouble

sheet == <<op, native, action, picked>>
run == <<pc, active, call, doubt>>
vars == <<inbox, known, sheet, fresh, run, flying, asked, applied, trouble>>

Outward == Sends \cup Choices
Events == {row[1] : row \in Rows}
Of(e) == {row \in Rows : row[1] = e}
Nothing == "nothing"
NoRow == <<>>
Untouched == [st |-> "none", by |-> "none"]

TypeOK ==
    /\ inbox \in [Rows -> [st : {"none", "pending", "active", "recorded", "failed", "superseded"},
                           tries : 0 .. MaxTries]]
    /\ \A e \in Events : known[e] \in Seq({row[2] : row \in Of(e)})
    /\ op \in [Ops -> [st : {"none", "pending", "complete", "unknown", "refused"},
                       by : {"none", "treat_done", "abandon"}]]
    /\ native \in [Ops -> {"none", "open", "done", "failed", "retired"}]
    /\ action \in [Rows -> Choices \cup {Nothing}] /\ picked \in [Events -> Choices \cup {Nothing}]
    /\ fresh \subseteq Events /\ doubt \in BOOLEAN
    /\ pc \in {"idle", "thinking", "calling"} 
    /\ active \in Rows \cup {NoRow} /\ call \in Outward \cup {Nothing}
    /\ flying \in [Ops -> {"no", "out", "back"}]
    /\ asked \in [Rows -> Nat] /\ applied \in [Ops -> Nat]

Init ==
    /\ inbox = [row \in Rows |-> [st |-> "none", tries |-> 0]]
    /\ known = [e \in Events |-> <<>>]
    /\ op = [o \in Ops |-> Untouched] /\ native = [o \in Ops |-> "none"]
    /\ action = [row \in Rows |-> Nothing] /\ picked = [e \in Events |-> Nothing]
    /\ fresh = Events
    /\ pc = "idle" /\ active = NoRow /\ call = Nothing /\ doubt = FALSE
    /\ flying = [o \in Ops |-> "no"]
    /\ asked = [row \in Rows |-> 0] /\ applied = [o \in Ops |-> 0]
    /\ trouble = MaxTrouble

Trouble == trouble > 0 /\ trouble' = trouble - 1
Arrived(row) == \E i \in DOMAIN known[row[1]] : known[row[1]][i] = row[2]

----------------------------------------------------------------------------
(* The event comes in *)

\* Mutant: only an activation that still runs keeps newer revisions out.
AnsweredActive(e) == \E row \in Of(e) : inbox[row].st = "active"
\* recordedActivation: a revision of the event has, or may have, an answer.
Answered(e) == \E row \in Of(e) : inbox[row].st \in {"recorded", "active"}

\* recordEvent: a new revision supersedes the waiting ones, unless the event
\* has an answer.
Moves(row) == ~Arrived(row) /\ ~Answered(row[1])
Known(row) == IF Moves(row) THEN [known EXCEPT ![row[1]] = Append(@, row[2])] ELSE known
Received(row) ==
    [k \in Rows |->
        IF k = row /\ inbox[k].st = "none" THEN [st |-> "pending", tries |-> 0]
        ELSE IF Moves(row) /\ k # row /\ k[1] = row[1] /\ inbox[k].st = "pending"
             THEN [inbox[k] EXCEPT !.st = "superseded"]
             ELSE inbox[k]]

\* Mutant: a pending call is taken for one that is still under way.
UnclearUnknown(o) == op[o].by = "none" /\ op[o].st = "unknown"
\* operationBlocks
Unclear(o) == op[o].by = "none" /\ op[o].st \in {"pending", "unknown"}
Blocked == \E o \in Ops : Unclear(o)

Started(row) == [Received(row) EXCEPT ![row].st = "active", ![row].tries = @ + 1]

\* The row is put to the model: the activation is on record before the model is
\* asked.  An event the user has overtaken fails before that.
Activate(row) ==
    LET e == row[1]
        now == Known(row)[e]
        newest == now # <<>> /\ now[Len(now)] = row[2] IN
    /\ pc = "idle" /\ action[row] = Nothing
    /\ inbox[row].st \notin {"recorded", "superseded"}
    /\ newest /\ Received(row)[row].tries < MaxTries /\ ~Blocked
    /\ known' = Known(row)
    /\ IF e \in fresh
       THEN /\ inbox' = Started(row) /\ pc' = "thinking" /\ active' = row
            /\ asked' = [asked EXCEPT ![row] = @ + 1]
       ELSE /\ inbox' = [Started(row) EXCEPT ![row].st = "failed"]
            /\ UNCHANGED <<pc, active, asked>>
    /\ UNCHANGED <<sheet, fresh, call, doubt, flying, applied, trouble>>

\* The row comes in and is not put to the model: an older revision is
\* superseded; one of an answered event, one with no attempts left, and any row
\* of a task with an unclear write is refused.
TurnAway(row) ==
    LET now == Known(row)[row[1]]
        newest == now # <<>> /\ now[Len(now)] = row[2]
        older == Arrived(row) /\ ~newest IN
    /\ pc = "idle" /\ action[row] = Nothing
    /\ inbox[row].st \notin {"recorded", "superseded"}
    /\ ~newest \/ Received(row)[row].tries = MaxTries \/ Blocked
    /\ known' = Known(row)
    /\ inbox' = IF older THEN [Received(row) EXCEPT ![row].st = "superseded"] ELSE Received(row)
    /\ UNCHANGED <<sheet, fresh, run, flying, asked, applied, trouble>>

----------------------------------------------------------------------------
(* The model calls write tools *)

\* Mutant: an abandoned call is one that was not executed.
SettledUnlessDone(o) == op[o].st \in {"pending", "unknown", "complete"}
\* wrapTool: these receipts answer the call by themselves.
Settled(o) == op[o].by = "abandon" \/ op[o].st \in {"pending", "unknown", "complete"}

\* After an answer that left a write unclear the run's other writes are refused.
Call(w) ==
    LET o == <<active, w>> IN
    /\ pc = "thinking" /\ ~doubt /\ o \in Ops
    /\ IF Settled(o)
       THEN /\ op[o].st \in {"pending", "unknown"} /\ doubt' = TRUE
            /\ UNCHANGED <<op, flying, pc, call>>
       ELSE /\ active[1] \in fresh
            /\ op' = [op EXCEPT ![o] = [st |-> "pending", by |-> "none"]]
            /\ flying' = [flying EXCEPT ![o] = "out"] /\ pc' = "calling" /\ call' = w
            /\ UNCHANGED doubt
    /\ UNCHANGED <<inbox, known, native, action, picked, fresh, active, asked, applied, trouble>>

Back(o) == flying' = [flying EXCEPT ![o] = "back"]
Leaves(o, st) == native' = [native EXCEPT ![o] = st]
Happens(o) == applied' = [applied EXCEPT ![o] = @ + 1]

\* participant_send: the delivery has its own receipt, and fails untried when
\* the event was overtaken.  Its answer may be lost.
Deliver(o) ==
    /\ flying[o] = "out" /\ o[2] \in Sends /\ Back(o)
    /\ \/ o[1][1] \in fresh /\ Leaves(o, "done") /\ Happens(o) /\ UNCHANGED trouble
       \/ o[1][1] \notin fresh /\ Leaves(o, "failed") /\ UNCHANGED <<applied, trouble>>
       \/ o[1][1] \in fresh /\ Trouble /\ Leaves(o, "failed") /\ UNCHANGED applied
       \/ /\ o[1][1] \in fresh /\ Trouble /\ Leaves(o, "open")
          /\ Happens(o) \/ UNCHANGED applied
    /\ UNCHANGED <<inbox, known, op, action, picked, fresh, run, asked>>

\* commit: neither the record nor the event holds another candidate.
Free(row, c) == action[row] = Nothing /\ picked[row[1]] \in {Nothing, c}

\* A candidate is committed: the record and the event in one transaction.
Commit(o) ==
    LET row == o[1] IN
    /\ flying[o] = "out" /\ o[2] \in Choices /\ Back(o)
    /\ IF row[1] \in fresh /\ Free(row, o[2])
       THEN /\ action' = [action EXCEPT ![row] = o[2]]
            /\ picked' = [picked EXCEPT ![row[1]] = o[2]]
            /\ Leaves(o, "done") /\ Happens(o)
       ELSE Leaves(o, "failed") /\ UNCHANGED <<action, picked, applied>>
    /\ UNCHANGED <<inbox, known, op, fresh, run, asked, trouble>>

Outcome(o) == CASE native[o] = "done" -> "complete"
                [] native[o] = "failed" -> "refused"
                [] OTHER -> "unknown"

\* The tool returns, also to an activation that has ended: the receipt is
\* written before anything else is checked.
Return(o) ==
    LET mine == pc = "calling" /\ o = <<active, call>> IN
    /\ flying[o] = "back"
    /\ flying' = [flying EXCEPT ![o] = "no"]
    /\ op' = [op EXCEPT ![o].st = Outcome(o)]
    /\ pc' = IF mine THEN "thinking" ELSE pc
    /\ call' = IF mine THEN Nothing ELSE call
    /\ doubt' = (doubt \/ (mine /\ Outcome(o) = "unknown"))
    /\ UNCHANGED <<inbox, known, native, action, picked, fresh, active, asked, applied, trouble>>

----------------------------------------------------------------------------
(* The activation ends *)

Home == pc' = "idle" /\ active' = NoRow /\ call' = Nothing /\ doubt' = FALSE

\* recordResult: answer, row, event and activation in one transaction, unless
\* the event was overtaken.
Record ==
    /\ pc = "thinking" /\ active[1] \in fresh
    /\ inbox' = [inbox EXCEPT ![active].st = "recorded"] /\ Home
    /\ UNCHANGED <<known, sheet, fresh, flying, asked, applied, trouble>>

\* The model, its transport or the checkpoint fails, the time is up, or the
\* event was overtaken; a tool that is out goes on.
GiveUp ==
    /\ pc \in {"thinking", "calling"}
    /\ IF active[1] \in fresh THEN Trouble ELSE UNCHANGED trouble
    /\ inbox' = [inbox EXCEPT ![active].st = "failed"] /\ Home
    /\ UNCHANGED <<known, sheet, fresh, flying, asked, applied>>

\* The process dies; a delivery under way may have been opened or not.  It is
\* not opened later: that a lost request may still land is Execution's and
\* Operations' matter.
Crash ==
    /\ pc # "idle" \/ \E o \in Ops : flying[o] # "no"
    /\ Trouble /\ Home /\ flying' = [o \in Ops |-> "no"]
    /\ \E reached \in SUBSET {o \in Ops : flying[o] = "out" /\ o[2] \in Sends} :
          native' = [o \in Ops |-> IF o \in reached THEN "open" ELSE native[o]]
    /\ UNCHANGED <<inbox, known, op, action, picked, fresh, asked, applied>>

----------------------------------------------------------------------------
(* What the records behind the calls say *)

\* participantSendResolution: the delivery's own receipt, or the screen that
\* shows its text.
SendProved(o) == o[2] \in Sends /\ native[o] = "done"
\* decisionResolution, workflowActionResolution: the committed candidate.
ChoiceProved(o) == o[2] \in Choices /\ native[o] = "done"
\* explicitNativeDisposition, completedRestartOf: the delivery failed, was given
\* up, or its task was restarted.
Retired(o) == native[o] \in {"failed", "retired"}

\* reconcileLeaderReceipts: an unclear receipt is settled by a record that
\* proves its outcome; a retired or failed delivery is abandoned.
Reconcile(o) ==
    /\ Unclear(o) /\ flying[o] # "out"
    /\ \/ /\ SendProved(o) \/ ChoiceProved(o)
          /\ op' = [op EXCEPT ![o] = [st |-> "complete", by |-> "treat_done"]]
       \/ Retired(o) /\ op' = [op EXCEPT ![o] = [st |-> "refused", by |-> "abandon"]]
    /\ UNCHANGED <<inbox, known, native, action, picked, fresh, run, flying, asked, applied,
                   trouble>>

\* External: the observed screen settles an open delivery, or the owner's
\* abandonment of it or a restart of the task retires it.
Learn(o) ==
    /\ native[o] = "open" /\ flying[o] = "no"
    /\ \/ applied[o] > 0 /\ Leaves(o, "done")
       \/ Leaves(o, "retired")
    /\ UNCHANGED <<inbox, known, op, action, picked, fresh, run, flying, asked, applied, trouble>>

\* External: the user says something new; events of the old revision are done.
Overtake(e) ==
    /\ e \in fresh /\ fresh' = fresh \ {e}
    /\ UNCHANGED <<inbox, known, sheet, run, flying, asked, applied, trouble>>

Next == \/ \E row \in Rows : Activate(row) \/ TurnAway(row)
        \/ \E w \in Outward : Call(w)
        \/ \E o \in Ops : Deliver(o) \/ Commit(o) \/ Return(o) \/ Reconcile(o) \/ Learn(o)
        \/ Record \/ GiveUp \/ Crash
        \/ \E e \in Events : Overtake(e)

Spec == Init /\ [][Next]_vars

----------------------------------------------------------------------------
(* Properties *)

\* A write of the leader takes effect at most once, over every activation that
\* asks for it, every lost answer and every crash; and an abandoned one takes
\* no effect any more.
EffectOnce == [][\A o \in Ops : applied'[o] # applied[o] => applied[o] = 0 /\ op[o].by = "none"]_vars

\* While the fate of a write of the task is unknown and nothing has settled it,
\* no activation of any event starts another one.
NothingPastUnknown ==
    [][\A o \in Ops : flying[o] = "no" /\ flying'[o] = "out" =>
          \A p \in Ops : op[p].st \in {"pending", "unknown"} => op[p].by # "none"]_vars

\* An event is answered in one revision only and committed to one candidate
\* only, and the model is asked for it a bounded number of times.
AnsweredOnce ==
    /\ \A e \in Events : Cardinality({row \in Of(e) : inbox[row].st = "recorded"}) <= 1
    /\ \A e \in Events : Cardinality({o \in Ops : o[1][1] = e /\ o[2] \in Choices
                                                   /\ applied[o] > 0 /\ o[2] # picked[e]}) = 0
    /\ \A row \in Rows : asked[row] <= MaxTries
=============================================================================
