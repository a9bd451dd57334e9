------------------------------ MODULE Planning ------------------------------
(* How a discussion task gets its plan (runner.ts plan, plan-selection.ts,        *)
(* planner.ts, leader-planning.ts, contract-change.ts, document-source.ts).       *)
(* A plan carries obligations: documents to deliver and, perhaps, the agreement   *)
(* of every participant.  The user's inputs are numbered in the order the program *)
(* admitted them (0 is the request); only one a turn used as task input counts as *)
(* a revision.  Each revision needs a plan: the task's leader picks a template or *)
(* drafts one, a restricted model checks what it withdraws and what it writes,    *)
(* and the source tree outside the authorized documents is kept as a baseline.    *)
EXTENDS Integers, Sequences, FiniteSets, FiniteSetsExt

CONSTANTS
  Paths,       \* documents a plan may name
  Default,     \* the one the document template names
  Code,        \* the rest of the source tree, as one file
  NoPlan, NoChange, NoSource,
  MaxInputs,   \* messages of the user
  MaxLuck      \* crashes, failed model calls and unauthorized edits

VARIABLES
  inputs,   \* the user's messages: "queued", or what a turn used each for
  flow,     \* the stored workflow: plan, version, revision, planning, baseline, wait
  ev,       \* the planning event of this version: its state and attempts
  told,     \* what the leader's activation for this version is recorded to have led to
  draft,    \* the plan it accepted, stored
  passed,   \* by version: the plan that was authorized, stored
  files,    \* the version of each file
  run,      \* the running step: place, draft, revision and messages seen, new baseline
  luck
rows == <<told, draft, passed>>
vars == <<inputs, flow, ev, told, draft, passed, files, run, luck>>

Versions == 1..(1 + MaxInputs)
Changes == [src : 0..MaxInputs, docs : BOOLEAN, agree : BOOLEAN, proved : BOOLEAN]
Plans == [docs : SUBSET Paths, agree : BOOLEAN, change : Changes \cup {NoChange}]
Bare == [docs |-> {}, agree |-> FALSE, change |-> NoChange]

PlanningAssumption ==
  /\ Default \in Paths /\ Code \notin Paths
  /\ {MaxInputs, MaxLuck} \subseteq Nat
  /\ NoChange \notin Changes

(* A revision: the messages a turn used as input and those that ended a pause (a  *)
(* pause needs one).  The newest input is the last admitted one.                  *)
Used == {i \in 1..Len(inputs) : inputs[i] = "input"}
Revision == {i \in 1..Len(inputs) : inputs[i] \in {"input", "resume"}}
\* Mutant: the newest message is the last one that was sorted, whatever was admitted after it.
LatestIsAny(i) == i \in Used
Latest(i) == Used # {} /\ i = Max(Used)

Queued == \E i \in 1..Len(inputs) : inputs[i] = "queued"

(* The run may go on: no revision came, and no message was admitted since the     *)
(* step began.                                                                    *)
Settled == ~Queued /\ Len(inputs) = run.seen

Revised == flow.revision # Revision
Current == ~Revised /\ Settled

Away == [at |-> "idle", plan |-> NoPlan, seen |-> 0, base |-> NoSource]
Fresh == [state |-> "pending", attempts |-> 0]

Init ==
  /\ inputs = <<>>
  /\ flow = [plan |-> Bare, version |-> 1, revision |-> {},
             planning |-> "needed", source |-> NoSource, waits |-> FALSE]
  /\ ev = Fresh /\ told = "no" /\ draft = NoPlan /\ passed = [v \in Versions |-> NoPlan]
  /\ files = [f \in Paths \cup {Code} |-> 0]
  /\ run = Away /\ luck = MaxLuck

Trouble == luck > 0 /\ luck' = luck - 1
Go(place) == run' = [run EXCEPT !.at = place]
With(place, p) == run' = [run EXCEPT !.at = place, !.plan = p]

-----------------------------------------------------------------------------
(* The user and the files.                                                        *)
Admit ==
  /\ Len(inputs) < MaxInputs
  /\ inputs' = Append(inputs, "queued")
  /\ UNCHANGED <<flow, ev, rows, files, run, luck>>

Sort(i) ==
  /\ inputs[i] = "queued"
  /\ \E use \in {"input", "resume", "passive"} : inputs' = [inputs EXCEPT ![i] = use]
  /\ UNCHANGED <<flow, ev, rows, files, run, luck>>

(* A participant or somebody else changes a file, authorized or not. *)
Edit(f) ==
  /\ Trouble
  /\ files' = [files EXCEPT ![f] = @ + 1]
  /\ UNCHANGED <<inputs, flow, ev, rows, run>>

(* New outputs, issues or files end a silent wait for evidence. *)
Evidence ==
  /\ flow.waits /\ run.at = "idle"
  /\ flow' = [flow EXCEPT !.waits = FALSE]
  /\ UNCHANGED <<inputs, ev, rows, files, run, luck>>

-----------------------------------------------------------------------------
(* A failed step: a step superseded or deferred by the user's own messages does   *)
(* not use up an attempt; the third other failure asks for attention, and some do   *)
(* so at once: documents changed out of their scope, a context that is too large,  *)
(* a model whose outcome is unknown.                                               *)
\* Mutant: a failed attempt is given back like a deferred one.
CountedNot(code) == FALSE
Counted(code) == code \notin {"superseded", "deferred"}

Incurable == {"scope", "budget", "unknown"}
Fails(code) ==
  /\ ev' = [state    |-> IF code \in Incurable \/ (Counted(code) /\ ev.attempts >= 3) THEN "attention"
                         ELSE IF code = "superseded" THEN "superseded" ELSE "pending",
            attempts |-> IF Counted(code) \/ code = "superseded" \/ ev.attempts = 0
                         THEN ev.attempts ELSE ev.attempts - 1]
  /\ run' = Away
Failed(code) == Fails(code) /\ UNCHANGED <<inputs, flow, rows, files>>

(* Every await is followed by the same guard. *)
Stopped ==
  /\ run.at \notin {"idle", "told", "measure", "recheck"} /\ ~Current
  /\ Failed(IF Revised THEN "superseded" ELSE "deferred")
  /\ UNCHANGED luck

(* A new revision replaces the version; the plan it had is what the next inherits. *)
Revise ==
  /\ run.at = "idle" /\ ~Queued /\ flow.revision # Revision
  /\ flow' = [flow EXCEPT !.version = @ + 1, !.revision = Revision,
                          !.planning = "needed", !.waits = FALSE]
  /\ ev' = Fresh /\ told' = "no" /\ draft' = NoPlan
  /\ UNCHANGED <<inputs, passed, files, run, luck>>

(* An authorized plan of this very event, revision and version is taken up again. *)
Passed(v) == passed[v]

Start ==
  /\ run.at = "idle" /\ ~Queued /\ flow.revision = Revision
  /\ flow.planning = "needed" /\ ev.state # "attention" /\ ~flow.waits
  /\ ev' = [state |-> "pending", attempts |-> ev.attempts + 1]
  /\ LET p == Passed(flow.version)
     IN  run' = [at |-> IF p = NoPlan THEN "choose" ELSE "check",
                 plan |-> p, seen |-> Len(inputs), base |-> NoSource]
  /\ UNCHANGED <<inputs, flow, rows, files, luck>>

-----------------------------------------------------------------------------
(* What a draft may be: what it does not mention it inherits, and a withdrawal is *)
(* spelled out.  Agreement is about documents; withdrawing them withdraws it too. *)
Inherits(prev, p) == prev.docs \subseteq p.docs /\ (prev.agree => p.agree)
Withdraws(prev, p) ==
  /\ p.change.docs \/ p.change.agree
  /\ ~p.change.proved
  /\ p.change.docs => prev.docs # {} /\ p.docs = {}
  /\ p.change.agree => prev.agree /\ ~p.agree
  /\ ~p.change.docs => prev.docs \subseteq p.docs
  /\ ~p.change.agree => (prev.agree => p.agree)
  /\ p.change.src \in 0..Len(inputs)
Drafts(prev) ==
  {p \in Plans : /\ p.agree => p.docs # {}
                 /\ IF p.change = NoChange THEN Inherits(prev, p) ELSE Withdraws(prev, p)}

(* Withdrawing: what the plan lost must be exactly what its change lists, by the  *)
(* newest input, and the restricted model must find it there.                     *)
Lost(p) == \/ p.change # NoChange
           \/ flow.plan.agree /\ ~p.agree
           \/ flow.plan.docs # {} /\ p.docs = {}

Listed(p) ==
  /\ p.change # NoChange
  /\ p.change.agree = (flow.plan.agree /\ ~p.agree)
  /\ p.change.docs = (flow.plan.docs # {} /\ p.docs = {})

(* It follows the draft without a pause. *)
Weigh(p) ==
  IF \/ p.docs # {} /\ ~(flow.plan.docs \subseteq p.docs)
     \/ Lost(p) /\ ~(Listed(p) /\ Latest(p.change.src))
  THEN Fails("contract")
  ELSE With(IF Lost(p) THEN "vet" ELSE "document", p) /\ UNCHANGED ev

(* The ways to plan: the template as it is, with the obligations there are; in    *)
(* the first version perhaps with the default document, with or without           *)
(* agreement; or a draft of the leader.                                           *)
Ways == {"use_template", "request_pi"} \cup
        (IF flow.version = 1 THEN {"use_document_template", "use_consensus_document_template"} ELSE {})
Template(way) ==
  IF way = "use_template" THEN [flow.plan EXCEPT !.change = NoChange]
  ELSE [docs |-> {Default}, agree |-> way = "use_consensus_document_template", change |-> NoChange]

(* The leader's choice of a way to plan; a failed choice waits for evidence, and  *)
(* its attempt is given back.                                                     *)
Choose ==
  /\ run.at = "choose" /\ Current
  /\ \E way \in Ways : IF way = "request_pi" THEN Go("ask") /\ UNCHANGED ev
                        ELSE Weigh(Template(way))
  /\ UNCHANGED <<inputs, flow, rows, files, luck>>

Defer ==
  /\ run.at = "choose" /\ Current /\ Trouble
  /\ flow' = [flow EXCEPT !.waits = TRUE]
  /\ ev' = [ev EXCEPT !.attempts = @ - 1]
  /\ run' = Away
  /\ UNCHANGED <<inputs, rows, files>>

(* The leader's draft: a stored one is used again; otherwise the activation runs  *)
(* once for this event and revision, with or without a draft, and a later attempt *)
(* is answered by its receipt.                                                    *)
Recall ==
  /\ run.at = "ask" /\ Current /\ draft # NoPlan
  /\ Weigh(draft)
  /\ UNCHANGED <<inputs, flow, rows, files, luck>>

Draft ==
  /\ run.at = "ask" /\ Current /\ draft = NoPlan /\ told = "no"
  /\ told' = "plan"
  /\ \E p \in Drafts(flow.plan) : With("told", p)
  /\ UNCHANGED <<inputs, flow, ev, draft, passed, files, luck>>

NoDraft ==
  /\ run.at = "ask" /\ Current /\ draft = NoPlan
  /\ \/ told # "no" /\ UNCHANGED <<told, luck>> /\ Fails("plan")
     \/ /\ told = "no" /\ Trouble /\ told' \in {"no", "empty"}
        /\ \E code \in {"plan", "budget", "unknown"} : Fails(code)
  /\ UNCHANGED <<inputs, flow, draft, passed, files>>

(* The draft is stored after the activation ended; the guard comes after it. *)
Record ==
  /\ run.at = "told"
  /\ draft' = run.plan
  /\ IF Current THEN Weigh(run.plan) ELSE Fails(IF Revised THEN "superseded" ELSE "deferred")
  /\ UNCHANGED <<inputs, flow, told, passed, files, luck>>

-----------------------------------------------------------------------------
(* The restricted model finds the withdrawal in the newest input. *)
Vet ==
  /\ run.at = "vet" /\ Current
  /\ With("document", [run.plan EXCEPT !.change.proved = TRUE])
  /\ UNCHANGED <<inputs, flow, ev, rows, files, luck>>

(* The documents are authorized by the user's words; then the plan is kept as     *)
(* authorized for this event, revision and version.                               *)
Authorize ==
  /\ run.at = "document" /\ Current
  /\ passed' = [passed EXCEPT ![flow.version] = run.plan]
  /\ Go("check")
  /\ UNCHANGED <<inputs, flow, ev, told, draft, files, luck>>

(* The restricted model says no, says nothing, or cannot be reached. *)
Refuse ==
  /\ run.at \in {"vet", "document"} /\ Current
  /\ run.at = "document" => run.plan.docs # {}
  /\ \E code \in {"authorization", "budget", "unknown"} : Failed(code)
  /\ UNCHANGED luck

-----------------------------------------------------------------------------
(* The baseline: all files outside the authorized documents, and the documents    *)
(* whose authorization was withdrawn, stay what they were.  It is checked, the    *)
(* next one is read, and it is checked again before the plan is accepted.         *)
Outside(docs) == [f \in (DOMAIN files) \ docs |-> files[f]]
Holds(base, p) ==
  /\ Outside(base.docs) = base.tree
  /\ \A f \in DOMAIN base.kept : files[f] = base.kept[f]
  /\ base.docs \subseteq p.docs \/ (p.change # NoChange /\ p.change.proved)

Check ==
  /\ run.at = "check" /\ Current
  /\ IF flow.source = NoSource \/ Holds(flow.source, run.plan)
     THEN Go("measure") /\ UNCHANGED <<inputs, flow, ev, rows, files, luck>>
     ELSE Failed("scope") /\ UNCHANGED luck

Measure ==
  /\ run.at = "measure"
  /\ LET old == flow.source
         docs == run.plan.docs
         gone == IF old = NoSource THEN {} ELSE (old.docs \cup DOMAIN old.kept) \ docs
         base == IF old # NoSource /\ old.docs = docs THEN old
                 ELSE [docs |-> docs, tree |-> Outside(docs),
                       kept |-> [f \in gone |-> IF f \in DOMAIN old.kept THEN old.kept[f] ELSE files[f]]]
     IN  run' = [run EXCEPT !.at = "recheck", !.base = base]
  /\ UNCHANGED <<inputs, flow, ev, rows, files, luck>>

\* Mutant: the old baseline is not checked again after the new one was read.
HoldsOnce(base, p) == TRUE
HoldsAgain(base, p) == Holds(base, p)

Recheck ==
  /\ run.at = "recheck"
  /\ IF flow.source = NoSource \/ HoldsAgain(flow.source, run.plan)
     THEN Go("accept") /\ UNCHANGED <<inputs, flow, ev, rows, files, luck>>
     ELSE Failed("scope") /\ UNCHANGED luck

(* One transaction: the frozen plan of the version, the workflow and the event. *)
Accept ==
  /\ run.at = "accept" /\ Current
  /\ flow' = [flow EXCEPT !.plan = run.plan, !.planning = "ready", !.source = run.base]
  /\ ev' = [ev EXCEPT !.state = "done"]
  /\ run' = Away
  /\ UNCHANGED <<inputs, rows, files, luck>>

Crash ==
  /\ run.at # "idle" /\ Trouble
  /\ run' = Away
  /\ UNCHANGED <<inputs, flow, ev, rows, files>>

-----------------------------------------------------------------------------
Step == \/ Revise \/ Start \/ Choose \/ Recall \/ Draft \/ Record \/ Vet \/ Refuse
        \/ Authorize \/ Check \/ Measure \/ Recheck \/ Accept \/ Stopped
Next ==
  \/ Step \/ NoDraft \/ Admit \/ \E i \in 1..Len(inputs) : Sort(i)
  \/ \E f \in DOMAIN files : Edit(f)
  \/ Evidence \/ Defer \/ Crash
Spec == Init /\ [][Next]_vars

(* Every tick runs the step that waits, and every admitted message is sorted. *)
FairSpec == /\ Spec /\ WF_vars(Step \/ NoDraft)
            /\ \A i \in 1..MaxInputs : WF_vars(i \in 1..Len(inputs) /\ Sort(i))

-----------------------------------------------------------------------------
TypeOK ==
  /\ inputs \in Seq({"queued", "input", "resume", "passive"})
  /\ flow.plan \in Plans /\ flow.version \in Versions
  /\ ev.attempts \in Nat /\ run.plan \in Plans \cup {NoPlan}

(* An obligation the task accepted is only ever given up by a plan whose change   *)
(* names it, was authorized, and cites a message after which the user had said    *)
(* nothing more when the plan was accepted: no later input, sorted or waiting.    *)
(* (contract-change.ts authorizeContractChange, plan-selection.ts)                *)
ObligationsKept ==
  [][LET p == flow.plan  q == flow'.plan IN
     ~(p.docs \subseteq q.docs) \/ (p.agree /\ ~q.agree) =>
        /\ q.change # NoChange /\ q.change.proved
        /\ ~(p.docs \subseteq q.docs) => q.change.docs
        /\ (p.agree /\ ~q.agree) => q.change.agree
        /\ inputs[q.change.src] = "input"
        /\ \A i \in (q.change.src + 1)..Len(inputs) : inputs[i] \in {"passive", "resume"}]_flow

(* No accepted plan takes an unauthorized change of the source tree into its      *)
(* baseline, however it races the measuring: a file neither plan may write is the *)
(* same in both, a withdrawn document included.  (document-source.ts              *)
(* prepareDocumentSource)                                                         *)
SourceKept ==
  [][flow.source # NoSource =>
       \A f \in DOMAIN files \ (flow.source.docs \cup flow'.source.docs) :
         flow'.source.tree[f] = flow.source.tree[f]]_flow

Planned == flow.planning = "ready" \/ ev.state = "attention" \/ flow.waits

(* A task that needs a plan gets one, or asks for attention, or waits for         *)
(* evidence: attempts that came to nothing are counted.  (runner.ts plan, failed) *)
PlanningEnds ==
  flow.planning = "needed" ~> Planned

(* A plan the leader's activation accepted is there for the next attempt, as      *)
(* leader-planning.ts:195 says: recreating the callback for the same event and    *)
(* revision recovers the accepted plan.                                           *)
PlanKept == told = "plan" /\ run.at = "idle" => draft # NoPlan
=============================================================================
