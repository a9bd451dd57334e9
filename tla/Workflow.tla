------------------------------ MODULE Workflow ------------------------------
(***************************************************************************)
(* The workflow policy (orchestration/runner.ts, settlement.ts, state.ts,  *)
(* verify.ts, workspace.ts): a task's plan is a graph of nodes that are    *)
(* sent to participants one at a time; their receipts are settled against  *)
(* the revision of the files they worked on; the project's command is run  *)
(* on a revision; and the report is delivered when all of it holds for one *)
(* revision.  Another task works in the same directory.                    *)
(*                                                                         *)
(* One task, one configured command, no documents and no consensus.  A     *)
(* revision of the files stands for their contents (workspaceRevision is a *)
(* hash of them): it comes back when an edit is undone.  The leader's      *)
(* choice is any candidate.                                                *)
(***************************************************************************)
EXTENDS Naturals, FiniteSets

CONSTANTS Nodes,       \* of the plan, with
          Needs,       \* the nodes each depends on,
          Writers,     \* those that implement,
          Checks,      \* that validate: a review after the command has passed,
          Reviews,     \* that review (Checks among them), and
          Reports,     \* the one that reports
          People, Crew,\* all participants, and those the task starts with
          MaxRev,      \* contents the files may have, 0 among them
          MaxUser,     \* what the user says
          MaxInputs,   \* inputs sent to participants
          MaxTries,    \* attempts at an event
          MaxPlans,    \* versions of the plan
          MaxTrouble   \* crashes, failed calls and bad receipts

ASSUME WorkflowAssumption ==
    /\ Needs \in [Nodes -> SUBSET Nodes] /\ Crew \subseteq People
    /\ Writers \subseteq Nodes /\ Reviews \subseteq Nodes /\ Checks \subseteq Reviews
    /\ Reports \subseteq Nodes /\ MaxTries \in Nat \ {0}
    \* authorship.ts: a reviewer does not implement; workflow.ts: one node reports.
    /\ Reviews \cap Writers = {} /\ \A m, n \in Reports : m = n
    /\ {MaxRev, MaxUser, MaxInputs, MaxPlans, MaxTrouble} \subseteq Nat

VARIABLES rev, user,   \* the files and the user's requirements
          crew,        \* the task's participants
          worker,      \* what each is doing
          plan,        \* the saved workflow state
          ev,          \* the live scheduling event
          receipt,     \* of the last input's operation
          runs,        \* per revision, its verification records
          pc, look, held,      \* the tick under way
          other,       \* the other task in the directory
          alive,       \* revisions whose command's processes may be running
          given, found,\* the files when a reader's input was prepared and its output read,
          proved,      \* the nodes prepared for files whose command had passed, and
          hands,       \* who was ever given a node that implements
          inputs, trouble

files == <<rev, given, found, proved, hands>>
tick == <<pc, look, held>>
vars == <<files, user, crew, worker, plan, ev, receipt, runs, tick, other, alive, inputs, trouble>>

Revs == 0 .. MaxRev
Nobody == "nobody"
Never == MaxRev + 1
NoEvent == [st |-> "none", kind |-> "none", node |-> "none", who |-> Nobody, rev |-> Never,
            user |-> 0, version |-> 0, nth |-> 0, disp |-> "none", tries |-> 0]
Blank == [st |-> "pending", who |-> Nobody, rev |-> Never, input |-> 0]
Idle == [st |-> "idle", input |-> 0]
NoInput == [st |-> "none", who |-> Nobody, node |-> "none"]

Kinds == {"plan", "decide", "dispatch", "rework", "verify", "deliver", "replan", "wait", "add"}
NodeSet == [st : {"pending", "dispatched", "completed", "blocked"}, who : People \cup {Nobody},
            rev : 0 .. Never, input : Nat]
PlanSet == [version : Nat, user : Nat, needed : BOOLEAN, accepted : BOOLEAN,
            authors : SUBSET People, node : [Nodes -> NodeSet], report : 0 .. Never,
            proof : SUBSET Revs, issue : BOOLEAN]
EventSet == [st : {"none", "pending", "processing", "done", "attention"}, kind : Kinds \cup {"none"},
             node : Nodes \cup {"none"}, who : People \cup {Nobody}, rev : 0 .. Never, user : Nat,
             version : Nat, nth : Nat, disp : {"none", "pending", "sent", "failed", "uncertain"},
             tries : Nat]
TypeOK ==
    /\ rev \in Revs /\ user \in Nat /\ crew \subseteq People /\ inputs \in Nat
    /\ worker \in [People -> [st : {"idle", "working", "done"}, input : Nat]]
    /\ plan \in PlanSet /\ ev \in EventSet
    /\ receipt \in [st : {"none", "pending", "done", "failed", "uncertain"},
                    who : People \cup {Nobody}, node : Nodes \cup {"none"}]
    /\ runs \in [Revs -> [cancelled : Nat, st : {"none", "running", "passed", "failed", "unknown"}]]
    /\ pc \in {"idle", "planning", "choosing", "executing", "sending", "running", "judging",
               "delivering", "settling"}
    /\ look \in 0 .. Never /\ other \in {"free", "reading", "writing"} /\ alive \subseteq Revs
    /\ given \in [Nodes \ Writers -> 0 .. Never] /\ found \in [Nodes \ Writers -> 0 .. Never]
    /\ proved \subseteq Nodes /\ hands \subseteq People
    /\ trouble \in 0 .. MaxTrouble

Init ==
    /\ rev = 0 /\ user = 0 /\ crew = Crew
    /\ worker = [p \in People |-> Idle]
    /\ plan = [version |-> 1, user |-> 0, needed |-> TRUE, accepted |-> FALSE, authors |-> {},
               node |-> [n \in Nodes |-> Blank], report |-> Never, proof |-> {}, issue |-> FALSE]
    /\ ev = NoEvent /\ receipt = NoInput
    /\ runs = [r \in Revs |-> [cancelled |-> 0, st |-> "none"]]
    /\ pc = "idle" /\ look = Never /\ held = {}
    /\ other = "free" /\ alive = {}
    /\ given = [n \in Nodes \ Writers |-> Never] /\ found = given /\ proved = {} /\ hands = {}
    /\ inputs = 0 /\ trouble = MaxTrouble

\* n's entry of given or found, for a node that reads.
Noted(f, n, r) == [m \in Nodes \ Writers |-> IF m = n THEN r ELSE f[m]]
Trouble == trouble > 0 /\ trouble' = trouble - 1

----------------------------------------------------------------------------
(* What the plan and the directory allow *)

Ready == {n \in Nodes : plan.node[n].st = "pending" /\ \A m \in Needs[n] : plan.node[m].st = "completed"}
With(st) == {n \in Nodes : plan.node[n].st = st}

\* The nodes whose work rests on n's.
After(n) ==
    LET Grow(S) == S \cup {m \in Nodes : Needs[m] \cap S # {}}
        F[k \in 0 .. Cardinality(Nodes)] == IF k = 0 THEN {n} ELSE Grow(F[k - 1])
    IN F[Cardinality(Nodes)]

\* invalidateFrom: the node and what rests on it start over; the report is void.
Invalidated(pl, n) ==
    [pl EXCEPT !.node = [m \in Nodes |-> IF m \in After(n) THEN Blank ELSE pl.node[m]],
               !.report = Never]

Current(e) == e.user = user /\ e.version = plan.version
Compatible(n, p) == p \in crew /\ (n \in Reviews => p \notin plan.authors)
Eligible(n) == {p \in crew : Compatible(n, p) /\ worker[p].st # "working"}

\* Mutant: a command whose end is not known does not hold the directory.
BlocksRunning(r) == runs[r].st = "running"
\* blockingDirectories: a command under way or of unknown end holds the directory.
Blocks(r) == runs[r].st \in {"running", "unknown"}

\* workspaceAvailable, for this task.
Available(writes) ==
    /\ \A r \in Revs : ~Blocks(r)
    /\ other = "free" \/ (~writes /\ other = "reading")

Access(n) == n \in Writers

\* reportContract at revision r.
Contract(r) ==
    /\ ~plan.issue /\ With("completed") = Nodes
    /\ \A n \in Reviews : plan.node[n].who \notin plan.authors /\ plan.node[n].rev = r
    /\ r \in plan.proof /\ plan.report = r

\* candidates: a new run of the command is offered after confirmed
\* cancellations only; a passed one may lack its evidence.
Verifiable == Ready \cap Checks # {} /\ rev \notin plan.proof /\ runs[rev].st \in {"none", "passed"}

Offer(kind, ns) == {[kind |-> kind, node |-> n, who |-> p] : n \in ns, p \in People}
Just(kind) == [kind |-> kind, node |-> "none", who |-> Nobody]
Candidates ==
    LET stuck == With("blocked") # {} \/ plan.issue
        fix == {n \in Writers : plan.issue /\ n \notin With("dispatched")}
        toSend == {n \in Ready : /\ n \in Reports => ~plan.issue
                                 /\ n \in Checks => ~Verifiable}
    IN {c \in Offer("dispatch", toSend) \cup Offer("rework", With("blocked") \cup fix) :
           c.who \in Eligible(c.node) /\ Available(Access(c.node))}
       \cup {c \in {Just("verify")} : Verifiable /\ Available(TRUE)}
       \cup {c \in {Just("deliver")} : Contract(rev) /\ Available(FALSE)}
       \cup {c \in {Just("replan"), Just("wait")} : stuck}
       \cup {c \in {Just("add")} : \E n \in Ready \cap Reviews : ~\E p \in crew : Compatible(n, p)}

----------------------------------------------------------------------------
(* The tick: what is left of the last one, and what has changed *)

\* failed: attempts are counted; an overtaken event is superseded.
AfterFailure == IF ~Current(ev) THEN NoEvent
                ELSE [ev EXCEPT !.st = IF ev.tries >= MaxTries THEN "attention" ELSE "pending"]

\* reconcileDispatches, for a receipt in state r.
Reconciled(r) ==
    LET disp == IF ev.disp \in {"none", "sent", "failed"} THEN ev.disp
                ELSE CASE r = "done" -> "sent"
                       [] r \in {"none", "failed"} -> "failed"
                       [] OTHER -> "uncertain"
    IN [ev EXCEPT !.disp = disp,
                  !.st = IF disp = "uncertain" THEN "attention"
                         ELSE IF ev.st = "done" THEN "done" ELSE "pending"]

Leftover == ev # NoEvent /\ (ev.st = "processing" \/ ev.disp \in {"pending", "uncertain"})
            /\ Reconciled(receipt.st) # ev
\* Mutant: an event with an unconfirmed input gives way to the user as well.
OvertakenAlways == ev.st \in {"pending", "processing", "attention"} /\ ~Current(ev)
\* An event for other requirements or another plan, unless its input may
\* still arrive.
Overtaken == ev.st \in {"pending", "processing", "attention"} /\ ~Current(ev) /\ ev.disp # "uncertain"
Quiet == pc = "idle" /\ ~Leftover /\ ~Overtaken

Recover ==
    /\ pc = "idle" /\ Leftover
    /\ ev' = Reconciled(receipt.st)
    /\ UNCHANGED <<files, user, crew, worker, plan, receipt, runs, tick, other, alive, inputs,
                   trouble>>

Supersede ==
    /\ pc = "idle" /\ ~Leftover /\ Overtaken
    /\ ev' = NoEvent
    /\ UNCHANGED <<files, user, crew, worker, plan, receipt, runs, tick, other, alive, inputs,
                   trouble>>

\* New requirements void the plan, once nobody works on the old ones.
Reset ==
    /\ Quiet /\ ev.st # "attention" /\ plan.user # user
    /\ \A p \in crew : worker[p].st # "working"
    /\ plan' = [plan EXCEPT !.user = user, !.version = @ + 1, !.needed = TRUE, !.report = Never,
                            !.node = [n \in Nodes |-> Blank], !.accepted = FALSE, !.issue = FALSE]
    /\ ev' = NoEvent
    /\ UNCHANGED <<files, user, crew, worker, receipt, runs, tick, other, alive, inputs, trouble>>

Calm == Quiet /\ ev.st # "attention" /\ plan.user = user /\ ~plan.accepted

\* A plan is asked of the leader, and kept if nothing has changed meanwhile.
AskPlan ==
    /\ Calm /\ plan.needed /\ ev.st \in {"none", "pending", "done"}
    /\ pc' = "planning"
    /\ ev' = [NoEvent EXCEPT !.st = "processing", !.kind = "plan", !.user = user,
                             !.version = plan.version,
                             !.tries = (IF ev.kind = "plan" THEN ev.tries ELSE 0) + 1]
    /\ UNCHANGED <<files, user, crew, worker, plan, receipt, runs, look, held, other, alive, inputs,
                   trouble>>

Plan ==
    /\ pc = "planning" /\ pc' = "idle"
    /\ \/ /\ Current(ev)
          /\ plan' = [plan EXCEPT !.needed = FALSE, !.node = [n \in Nodes |-> Blank]]
          /\ ev' = NoEvent /\ UNCHANGED trouble
       \/ /\ IF Current(ev) THEN Trouble ELSE UNCHANGED trouble
          /\ ev' = AfterFailure /\ UNCHANGED plan
    /\ UNCHANGED <<files, user, crew, worker, receipt, runs, look, held, other, alive, inputs>>

----------------------------------------------------------------------------
(* A participant's output is settled *)

Working == Calm /\ ~plan.needed /\ ~(ev.st = "pending" /\ ev.kind \notin {"plan", "decide"})
Settles(n) ==
    LET p == plan.node[n].who IN
    /\ plan.node[n].st = "dispatched" /\ p \in crew
    /\ worker[p] = [st |-> "done", input |-> plan.node[n].input]

\* What a reader found holds for the files it was given only, and a reviewer
\* has no part in them.
Sound(n) ==
    /\ n \notin Writers => plan.node[n].rev = rev
    /\ n \in Reviews => plan.node[n].who \notin plan.authors

\* The output is read and checked against the files; whoever had a node while
\* they changed counts as an author.
ReadOutput(n) ==
    LET p == plan.node[n].who
        wrote == [plan EXCEPT !.authors = @ \cup IF plan.node[n].rev # rev THEN {p} ELSE {}]
        done == [wrote EXCEPT !.node[n].st = "completed", !.node[n].rev = rev,
                              !.report = IF n \in Reports THEN rev ELSE @] IN
    /\ Working /\ Settles(n) /\ pc' = "settling" /\ plan' = wrote /\ look' = rev
    /\ \/ Sound(n) /\ held' = {done} /\ UNCHANGED trouble
       \/ /\ IF Sound(n) THEN Trouble ELSE UNCHANGED trouble
          /\ held' = {[wrote EXCEPT !.node[n].st = "blocked"]}
    /\ found' = Noted(found, n, rev)
    /\ UNCHANGED <<rev, given, proved, hands, user, crew, worker, ev, receipt, runs, other, alive,
                   inputs>>

\* The receipt, accepted or refused, is saved with the state it was checked in.
Settle ==
    /\ pc = "settling" /\ plan' \in held
    /\ pc' = "idle" /\ look' = Never /\ held' = {}
    /\ UNCHANGED <<files, user, crew, worker, ev, receipt, runs, other, alive, inputs, trouble>>

----------------------------------------------------------------------------
(* A step is chosen *)

Free == Working /\ With("dispatched") = {} /\ ~(ev.st = "done" /\ Current(ev) /\ ev.kind \in {"wait", "deliver"})
Unproved == {n \in Checks : plan.node[n].st = "completed" /\ rev \notin plan.proof}
Outdated == {n \in Reviews : plan.node[n].st = "completed" /\ plan.node[n].rev # rev}

\* Evidence of another revision is void before anything new is chosen.
Invalidate(n) ==
    /\ Free /\ n \in IF Unproved # {} THEN Unproved ELSE Outdated
    /\ plan' = Invalidated(plan, n)
    /\ UNCHANGED <<files, user, crew, worker, ev, receipt, runs, tick, other, alive, inputs,
                   trouble>>

\* The leader is asked, with the candidates of this revision.
Ask ==
    /\ Free /\ Unproved = {} /\ Outdated = {} /\ Candidates # {}
    /\ pc' = "choosing" /\ look' = rev /\ held' = Candidates
    /\ ev' = [NoEvent EXCEPT !.st = "processing", !.kind = "decide", !.user = user,
                             !.version = plan.version, !.rev = rev,
                             !.tries = (IF ev.kind = "decide" THEN ev.tries ELSE 0) + 1]
    /\ UNCHANGED <<files, user, crew, worker, plan, receipt, runs, other, alive, inputs, trouble>>

\* The choice is on record with the event, or the event has been overtaken.
Choose ==
    /\ pc = "choosing" /\ look' = Never /\ held' = {}
    /\ \/ /\ Current(ev) /\ pc' = "executing" /\ UNCHANGED trouble
          /\ \E c \in held : ev' = [ev EXCEPT !.kind = c.kind, !.node = c.node, !.who = c.who,
                                              !.nth = runs[ev.rev].cancelled]
       \/ /\ IF Current(ev) THEN Trouble ELSE UNCHANGED trouble
          /\ ev' = AfterFailure /\ pc' = "idle"
    /\ UNCHANGED <<files, user, crew, worker, plan, receipt, runs, other, alive, inputs>>

\* A recorded choice that was not carried out is taken up again.
Resume ==
    /\ Calm /\ ev.st = "pending" /\ ev.kind \notin {"plan", "decide"}
    /\ pc' = "executing" /\ ev' = [ev EXCEPT !.st = "processing", !.tries = @ + 1]
    /\ UNCHANGED <<files, user, crew, worker, plan, receipt, runs, look, held, other, alive, inputs,
                   trouble>>

----------------------------------------------------------------------------
(* The step is carried out *)

\* assertWorkspace, and the revision the step was chosen for.
Fits == Current(ev) /\ (ev.disp = "none" => ev.rev = rev)
Home == pc' = "idle" /\ look' = Never /\ held' = {}
Done == ev' = [ev EXCEPT !.st = "done"]

\* Overtaken, or chosen for files that are no more.
Drop ==
    /\ pc \in {"executing", "sending"} /\ ~(IF pc = "executing" THEN Fits ELSE Current(ev))
    /\ receipt.st # "pending" /\ Home /\ ev' = NoEvent
    /\ UNCHANGED <<files, user, crew, worker, plan, receipt, runs, other, alive, inputs, trouble>>

Doing(kind) == pc = "executing" /\ ev.kind = kind /\ Fits
Sends == pc = "executing" /\ ev.kind \in {"dispatch", "rework"} /\ Fits
Postponed == ev' = [ev EXCEPT !.st = "pending", !.tries = @ - 1]

\* The directory is taken: the step waits, and the attempt does not count.
Postpone ==
    /\ \/ Sends /\ ~Available(Access(ev.node))
       \/ Doing("verify") /\ ~Available(TRUE)
    /\ Postponed /\ Home
    /\ UNCHANGED <<files, user, crew, worker, plan, receipt, runs, other, alive, inputs, trouble>>

\* Under the admission mutex the input is on record, with the revision it is
\* given, before it is sent.  An input that is on record already is used.
Prepare ==
    /\ Sends /\ Available(Access(ev.node)) /\ pc' = "sending"
    /\ IF ev.disp = "none"
       THEN /\ inputs < MaxInputs /\ inputs' = inputs + 1 /\ receipt' = NoInput
            /\ ev' = [ev EXCEPT !.disp = "pending", !.rev = rev]
            /\ plan' = IF ev.kind = "rework" THEN Invalidated(plan, ev.node) ELSE plan
            /\ given' = Noted(given, ev.node, rev) /\ found' = Noted(found, ev.node, Never)
            /\ proved' = (proved \ {ev.node}) \cup IF rev \in plan.proof THEN {ev.node} ELSE {}
       ELSE UNCHANGED <<inputs, receipt, ev, plan, given, found, proved>>
    /\ UNCHANGED <<rev, hands, user, crew, worker, runs, look, held, other, alive, trouble>>

\* Mutant: only who changed the files is an author.
AuthoredByChange(n, p) == {}
\* Whoever is given a node that implements is an author from then on.
Authored(n, p) == IF n \in Writers THEN {p} ELSE {}

\* dispatch: the node is marked before the input leaves.
Mark ==
    LET n == ev.node IN
    /\ pc = "sending" /\ Current(ev) /\ receipt.st # "pending" /\ ev.disp # "sent"
    /\ plan' = [plan EXCEPT !.node[n] = [st |-> "dispatched", who |-> ev.who, rev |-> ev.rev,
                                         input |-> inputs],
                            !.authors = @ \cup Authored(n, ev.who)]
    /\ receipt' = [st |-> "pending", who |-> ev.who, node |-> n]
    /\ ev' = [ev EXCEPT !.disp = "pending"]
    /\ UNCHANGED <<files, user, crew, worker, runs, tick, other, alive, inputs, trouble>>

\* External: the input arrives.
Arrives ==
    /\ worker' = [worker EXCEPT ![receipt.who] = [st |-> "working", input |-> inputs]]
    /\ hands' = hands \cup IF receipt.node \in Writers THEN {receipt.who} ELSE {}
Keep(st) == receipt' = [receipt EXCEPT !.st = st]

\* tasks.send: the input arrives, is refused, or nobody can tell.
Send ==
    /\ pc = "sending" /\ receipt.st = "pending" /\ Home
    /\ \/ /\ Current(ev) /\ Arrives /\ Keep("done")
          /\ ev' = [ev EXCEPT !.disp = "sent", !.st = "done"] /\ UNCHANGED trouble
       \/ /\ IF Current(ev) THEN Trouble ELSE UNCHANGED trouble
          /\ Keep("failed") /\ UNCHANGED <<worker, hands>>
          /\ ev' = IF Current(ev) THEN [AfterFailure EXCEPT !.disp = "failed"] ELSE NoEvent
       \/ /\ Current(ev) /\ Trouble /\ Keep("uncertain")
          /\ ev' = [ev EXCEPT !.disp = "uncertain", !.st = "attention"]
          /\ UNCHANGED <<worker, hands>>
    /\ UNCHANGED <<rev, given, found, proved, user, crew, plan, runs, other, alive, inputs>>

\* A resumed event whose input was confirmed meanwhile.
SentBefore ==
    /\ pc = "sending" /\ Current(ev) /\ ev.disp = "sent" /\ Done /\ Home
    /\ UNCHANGED <<files, user, crew, worker, plan, receipt, runs, other, alive, inputs, trouble>>

\* run: the record is reserved under the mutex, and the command starts; a
\* record that is there already is what the run returns.
RunCommand ==
    LET r == ev.rev IN
    /\ Doing("verify") /\ Available(TRUE)
    /\ IF ev.nth = runs[r].cancelled /\ runs[r].st = "none"
       THEN /\ runs' = [runs EXCEPT ![r].st = "running"] /\ alive' = alive \cup {r}
            /\ pc' = "running"
       ELSE pc' = "judging" /\ UNCHANGED <<runs, alive>>
    /\ UNCHANGED <<files, user, crew, worker, plan, ev, receipt, look, held, other, inputs, trouble>>

\* The command ends: passed, failed or timed out, stopped because its inputs
\* are void, or with processes nobody can account for.
EndCommand ==
    LET r == ev.rev IN
    /\ pc = "running" /\ pc' = "judging"
    /\ \/ /\ \E st \in {"passed", "failed"} : runs' = [runs EXCEPT ![r].st = st]
          /\ alive' = alive \ {r} /\ UNCHANGED trouble
       \/ /\ ~Current(ev) /\ alive' = alive \ {r} /\ UNCHANGED trouble
          /\ runs' = [runs EXCEPT ![r] = [cancelled |-> @.cancelled + 1, st |-> "none"]]
       \/ Trouble /\ runs' = [runs EXCEPT ![r].st = "unknown"] /\ UNCHANGED alive
    /\ UNCHANGED <<files, user, crew, worker, plan, ev, receipt, look, held, other, inputs>>

\* The result is evidence for the revision it was asked for, if the files are
\* still that; nothing is recorded once the inputs are void.
Judge ==
    LET r == ev.rev
        st == IF ev.nth < runs[r].cancelled THEN "cancelled" ELSE runs[r].st
        good == st = "passed" /\ rev = r IN
    /\ pc = "judging" /\ Home
    /\ IF st = "unknown" THEN ev' = [ev EXCEPT !.st = "attention"] /\ UNCHANGED plan
       ELSE IF ~Current(ev) THEN ev' = NoEvent /\ UNCHANGED plan
       ELSE /\ Done
            /\ plan' = [plan EXCEPT !.proof = IF good THEN @ \cup {r} ELSE @, !.issue = ~good]
    /\ UNCHANGED <<files, user, crew, worker, receipt, runs, other, alive, inputs, trouble>>

\* replan, wait and add_reviewer.
Replan ==
    /\ Doing("replan") /\ plan.version < MaxPlans /\ Home /\ ev' = NoEvent
    /\ plan' = [plan EXCEPT !.version = @ + 1, !.needed = TRUE, !.report = Never]
    /\ UNCHANGED <<files, user, crew, worker, receipt, runs, other, alive, inputs, trouble>>

Wait ==
    /\ Doing("wait") /\ Home /\ Done
    /\ UNCHANGED <<files, user, crew, worker, plan, receipt, runs, other, alive, inputs, trouble>>

AddReviewer(p) ==
    /\ Doing("add") /\ p \in People \ crew /\ user < MaxUser
    /\ crew' = crew \cup {p} /\ user' = user + 1
    /\ plan' = [plan EXCEPT !.user = user + 1] /\ ev' = NoEvent /\ Home
    /\ UNCHANGED <<files, worker, receipt, runs, other, alive, inputs, trouble>>

\* assertDelivery at the revision the files have now; then the report goes out.
CheckReport ==
    /\ Doing("deliver")
    /\ IF Contract(rev) THEN pc' = "delivering" /\ look' = rev /\ UNCHANGED <<ev, held>>
       ELSE Home /\ ev' = [ev EXCEPT !.st = "attention"]
    /\ UNCHANGED <<files, user, crew, worker, plan, receipt, runs, other, alive, inputs, trouble>>

Deliver ==
    /\ pc = "delivering" /\ Home
    /\ IF Current(ev) THEN plan' = [plan EXCEPT !.accepted = TRUE] /\ Done
       ELSE ev' = NoEvent /\ UNCHANGED plan
    /\ UNCHANGED <<files, user, crew, worker, receipt, runs, other, alive, inputs, trouble>>

----------------------------------------------------------------------------
(* The participants, the user, the other task, and crashes *)

\* A participant, the user's editor or a command changes the files, perhaps
\* back to what they were.
Edit ==
    /\ rev' \in Revs \ {rev}
    /\ UNCHANGED <<given, found, proved, hands, user, crew, worker, plan, ev, receipt, runs, tick, other,
                   alive, inputs, trouble>>

\* External: the participant's turn ends and its output is on record.
Answer(p) ==
    /\ worker[p].st = "working" /\ receipt.st # "pending"
    /\ worker' = [worker EXCEPT ![p].st = "done"]
    /\ UNCHANGED <<files, user, crew, plan, ev, receipt, runs, tick, other, alive, inputs, trouble>>

Arrived == worker[receipt.who].st # "idle" /\ worker[receipt.who].input = inputs

\* An input of unknown fate arrives late.
Late ==
    /\ receipt.st = "uncertain" /\ ~Arrived /\ Arrives
    /\ UNCHANGED <<rev, given, found, proved, user, crew, plan, ev, receipt, runs, tick, other, alive,
                   inputs, trouble>>

\* The delivery of an input is confirmed by what the participant shows.
Confirm ==
    /\ receipt.st = "uncertain" /\ Arrived /\ Keep("done")
    /\ UNCHANGED <<files, user, crew, worker, plan, ev, runs, tick, other, alive, inputs, trouble>>

UserSpeaks ==
    /\ user < MaxUser /\ user' = user + 1
    /\ UNCHANGED <<files, crew, worker, plan, ev, receipt, runs, tick, other, alive, inputs,
                   trouble>>

\* workspaceAvailable, for the other task: who works here, and which input
\* may still be at work.
Here == {n \in Nodes : \E p \in crew : worker[p].st = "working" /\ plan.node[n].who = p
                                       /\ plan.node[n].input = worker[p].input}
Sent == {"pending", "uncertain"}
OtherMay(writes) ==
    /\ \A r \in Revs : ~Blocks(r)
    /\ writes => ~(\E p \in crew : worker[p].st = "working") /\ receipt.st \notin Sent
    /\ Here \cap Writers = {}
    /\ receipt.st \in Sent => receipt.node \notin Writers

OtherStarts(work) ==
    /\ other = "free" /\ pc # "sending" /\ OtherMay(work = "writing") /\ other' = work
    /\ UNCHANGED <<files, user, crew, worker, plan, ev, receipt, runs, tick, alive, inputs, trouble>>

OtherEnds ==
    /\ other # "free" /\ other' = "free"
    /\ UNCHANGED <<files, user, crew, worker, plan, ev, receipt, runs, tick, alive, inputs, trouble>>

\* Mutant: a command that ran when the service died counts as stopped.
LostCancelled(r) == IF r.st = "running" THEN [cancelled |-> r.cancelled + 1, st |-> "none"] ELSE r
\* VerificationRunner: after a restart nobody knows whether the command ended.
Lost(r) == IF r.st = "running" THEN [r EXCEPT !.st = "unknown"] ELSE r

\* The service dies and starts again; a command's processes go on.
Crash ==
    /\ pc # "idle" /\ Trouble /\ Home
    /\ runs' = [r \in Revs |-> Lost(runs[r])]
    /\ Keep(IF receipt.st = "pending" THEN "uncertain" ELSE receipt.st)
    /\ UNCHANGED <<files, user, crew, worker, plan, ev, other, alive, inputs>>

Tick == \/ Recover \/ Supersede \/ Reset \/ AskPlan \/ Plan \/ Settle \/ Ask \/ Choose \/ Resume
        \/ \E n \in Nodes : ReadOutput(n) \/ Invalidate(n)
        \/ Drop \/ Postpone \/ Prepare \/ Mark \/ Send \/ SentBefore
        \/ RunCommand \/ EndCommand \/ Judge \/ Replan \/ Wait \/ CheckReport \/ Deliver
        \/ \E p \in People : AddReviewer(p)
World == \/ Edit \/ Late \/ Confirm \/ UserSpeaks \/ OtherEnds \/ Crash
         \/ \E p \in People : Answer(p)
         \/ \E work \in {"reading", "writing"} : OtherStarts(work)

Next == Tick \/ World
Spec == Init /\ [][Next]_vars
\* The tick is scheduled as long as the service runs.
FairSpec == Spec /\ WF_vars(Tick)

----------------------------------------------------------------------------
(* Properties *)

\* A report goes out for one revision of the files (settlement.ts, report.ts,
\* runner.ts): its author and every reviewer were given those contents, and
\* the files had them again when the output was read; the command passed on
\* them, before the reviewer that validates was asked; and no reviewer was
\* ever given a node that implements, however the plan was redone in between.
\* (The contents are compared at both ends of a node: an edit that is undone
\* meanwhile is not seen.  A plan may have its author implement as well: what
\* that participant was given changed under its own hands.)
DeliveredIsProved ==
    [][plan'.accepted /\ ~plan.accepted
         => /\ \A n \in Reviews \cup (Reports \ Writers) : given[n] = look /\ found[n] = look
            /\ runs[look].st = "passed" /\ Checks \subseteq proved
            /\ \A n \in Reviews : plan.node[n].who \notin hands]_vars

\* One directory, one writer (workspace.ts, verify.ts): while the project's
\* command may still have processes no participant implements and no other
\* task writes, and a participant implements alone; across crashes, inputs of
\* unknown fate, and a user who speaks at any time.
Implements == \E p \in crew, n \in Writers : worker[p].st = "working" /\ plan.node[n].who = p
                                               /\ plan.node[n].input = worker[p].input
Alone ==
    /\ Cardinality(alive) <= 1
    /\ alive # {} => ~Implements /\ other # "writing"
    /\ Implements => other = "free"

\* The participants of a plan work one at a time, although an input may
\* arrive long after its sender has given up on it (runner.ts: an event with
\* an unconfirmed input stays).
OneAtWork == \A p, q \in People : worker[p].st = "working" /\ worker[q].st = "working" => p = q

\* runner.ts:867: a command whose end is not known is raised for attention.
UnknownIsRaised == \A r \in Revs : runs[r].st = "unknown" /\ ev.kind = "verify" /\ ev.rev = r
                                    ~> ev.st = "attention" \/ ~Current(ev)
=============================================================================
