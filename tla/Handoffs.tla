------------------------------ MODULE Handoffs ------------------------------
(***************************************************************************)
(* How a workflow node's work is handed over and taken back                *)
(* (orchestration/handoff.ts, status-block.ts, receipt-recovery.ts,        *)
(* receipt-dispatch.ts, consensus.ts, settlement.ts, report.ts): the       *)
(* request and the notes live in files of the operation, the participant   *)
(* answers with a receipt file, a receipt that is not accepted is repaired *)
(* by the same participant, and a document is delivered only when each     *)
(* participant has confirmed its contents.                                 *)
(*                                                                         *)
(* The plan is a chain: a confirmation by each participant, then the       *)
(* report; no node may change project files.  Two documents are agreed on: *)
(* a tracked one, whose content is the revision "files", and one version   *)
(* control ignores, whose content is "doc".  A revision never comes back.  *)
(* Nothing else of the project changes (document-source.ts then holds the  *)
(* task until it is restored).  Every receipt lists the documents.  One    *)
(* message is one event, one operation; sending it is modelled in Workflow *)
(* and Execution, and is one step here.                                    *)
(***************************************************************************)
EXTENDS Naturals, Sequences

CONSTANTS Chain,       \* the participants in the order of their confirmations
          MaxPlans,    \* versions of the plan
          MaxInputs,   \* operations
          MaxTries,    \* attempts at an event
          MaxLuck      \* changes of the files, the document or the user's mind, and crashes

HandoffsAssumption ==
    /\ Chain \in Seq({Chain[i] : i \in DOMAIN Chain}) \ {<< >>} /\ MaxTries \in Nat \ {0}
    /\ MaxPlans \in Nat /\ MaxInputs \in Nat /\ MaxLuck \in Nat

VARIABLES files, doc,  \* the two agreed documents
          user,
          flow,        \* the saved workflow state
          ev,          \* the live event
          dir,         \* the files of the last operation's directory
          work,        \* what the participant asked is doing
          pc, look, fault,   \* the settlement under way
          base,        \* the files when a node's work was last ordered anew,
          past,        \* the last rejection of a node, and whether it was one
                       \* the same as the receipt-only work was ordered for,
          agreed,      \* what each participant has read and approved, and
          delivered,   \* the deliveries made
          ops, luck

outside == <<files, doc, user>>
settling == <<pc, look, fault>>
history == <<base, past, agreed>>
vars == <<outside, flow, ev, dir, work, settling, history, delivered, ops, luck>>

People == {Chain[i] : i \in DOMAIN Chain}
Report == Len(Chain) + 1
Nodes == 1 .. Report
Nobody == "nobody"

NoNotes == [who |-> Nobody, op |-> 0]
NoRepair == [print |-> <<"none", 0>>, times |-> 0, ok |-> FALSE, who |-> Nobody, rev |-> 0,
             input |-> 0, version |-> 0, notes |-> NoNotes]
Blank == [st |-> "pending", who |-> Nobody, op |-> 0, rev |-> 0, input |-> 0, repair |-> NoRepair]
NoEvent == [st |-> "none", node |-> 0, who |-> Nobody, rule |-> FALSE, op |-> 0, user |-> 0,
            version |-> 0, rev |-> 0, sent |-> FALSE, tries |-> 0]
NoFiles == [op |-> 0, docs |-> <<0, 0>>, prior |-> NoNotes, said |-> "nothing", claim |-> <<0, 0>>]
NoWork == [st |-> "idle", who |-> Nobody, saw |-> <<0, 0>>]
NoPast == [about |-> <<"none", 0, 0, 0, Nobody>>, vain |-> FALSE]

Init ==
    /\ files = 0 /\ doc = 0 /\ user = 0
    /\ flow = [user |-> 0, version |-> 1, node |-> [n \in Nodes |-> Blank],
               approvals |-> {}, artifact |-> [rev |-> 0, docs |-> <<0, 0>>, some |-> FALSE],
               report |-> [some |-> FALSE, rev |-> 0, docs |-> <<0, 0>>]]
    /\ ev = NoEvent /\ dir = NoFiles /\ work = NoWork
    /\ pc = "idle" /\ look = 0 /\ fault = "none"
    /\ base = [n \in Nodes |-> 0] /\ past = [n \in Nodes |-> NoPast] /\ agreed = {}
    /\ delivered = 0
    /\ ops = 0 /\ luck = MaxLuck

----------------------------------------------------------------------------
(* What has been agreed, and what may be done next *)

\* consensusDocuments: what the documents hold now.
Documents == <<files, doc>>

Node(n) == flow.node[n]
Completed(n) == Node(n).st = "completed"
Ready(n) == Node(n).st = "pending" /\ \A m \in 1 .. n - 1 : Completed(m)

\* The approval that counts is that of the node's accepted operation, at the revision.
Approval(fl, n, rev, content) ==
    [who |-> Chain[n], op |-> fl.node[n].op, rev |-> rev, docs |-> content] \in fl.approvals

\* assertConsensusDocuments: read again, the document is what each approved.
AllApproved(fl, rev, content) == \A n \in 1 .. Len(Chain) : Approval(fl, n, rev, content)

\* consensusMissing is empty: approvals of the latest artifact of this revision.
Consensus(rev) ==
    /\ flow.artifact.some /\ flow.artifact.rev = rev
    /\ \A n \in 1 .. Len(Chain) : Completed(n) /\ Approval(flow, n, rev, flow.artifact.docs)

\* reportContract.
Contract(rev) == Consensus(rev) /\ (\A n \in Nodes : Completed(n)) /\ flow.report.some /\ flow.report.rev = rev

\* Mutant: the diagnostic names the operation's own directory.
DiagnosisOfOperation(kind, op) == <<kind, op>>
\* The fingerprint of a rejection: a new directory does not make it a new defect.
Diagnosis(kind, op) == <<kind, 0>>

\* The repair is still about these files, this input and this plan, and by the same participant.
StillCurrent(r, input, version, rev) == r.ok /\ r.input = input /\ r.version = version /\ r.rev = rev

\* receiptRepairRule: a blocked node whose rejected receipt can be repaired.
RuleFor(n) ==
    /\ Node(n).st = "blocked" /\ Node(n).repair.who = Node(n).who
    /\ StillCurrent(Node(n).repair, user, flow.version, files)
Ruled == {n \in Nodes : RuleFor(n)}

Dispatched == {n \in Nodes : Node(n).st = "dispatched"}
MaySay(n) == IF n = Report THEN People ELSE {Chain[n]}

\* invalidateFrom, then the repair that was selected for the node, if any.
Restarted(fl, n, repair) ==
    [fl EXCEPT !.node = [m \in Nodes |-> IF m < n THEN fl.node[m]
                                         ELSE IF m = n THEN [Blank EXCEPT !.repair = repair] ELSE Blank],
               !.report.some = FALSE]

Afresh(fl) == [fl EXCEPT !.node = [n \in Nodes |-> Blank], !.version = @ + 1, !.report.some = FALSE]

----------------------------------------------------------------------------
(* Outside: the user, the files, the participant *)

Trouble == luck > 0 /\ luck' = luck - 1
Rest == UNCHANGED <<flow, ev, dir, work, settling, history, delivered, ops>>
Says == Trouble /\ user' = user + 1 /\ UNCHANGED <<files, doc>> /\ Rest
EditFiles == Trouble /\ files' = files + 1 /\ UNCHANGED <<doc, user>> /\ Rest
EditDocument == Trouble /\ doc' = doc + 1 /\ UNCHANGED <<files, user>> /\ Rest

Read ==
    /\ work.st = "asked"
    /\ work' = [work EXCEPT !.st = "read", !.saw = Documents]
    /\ UNCHANGED <<outside, flow, ev, dir, settling, history, delivered, ops, luck>>

\* The receipt and the chat message.  "fine" approves what was read; "doubt"
\* is a sound receipt that raises an issue; "path" forgets where the notes
\* are; "fields" is malformed; "foreign" has another operation's identity.
Answer ==
    /\ work.st = "read"
    /\ \E said \in {"fine", "doubt", "path", "fields", "foreign"} :
           /\ dir' = [dir EXCEPT !.said = said, !.claim = work.saw]
           /\ agreed' = IF said \in {"fine", "path"} THEN agreed \cup {<<work.who, work.saw, ev.user>>}
                        ELSE agreed
    /\ work' = [NoWork EXCEPT !.st = "said"]
    /\ UNCHANGED <<outside, flow, ev, settling, base, past, delivered, ops, luck>>

----------------------------------------------------------------------------
(* The event: selected, its files frozen, sent *)

Free == pc = "idle"
Overtaken == ev.st # "none" /\ ev.user # user

\* process: a new requirement supersedes the event and, when nobody works,
\* makes a new plan.
Supersede ==
    /\ Free /\ Overtaken /\ ~(ev.sent /\ work.st # "idle")
    /\ ev' = NoEvent
    /\ UNCHANGED <<outside, flow, dir, work, settling, history, delivered, ops, luck>>

Reset ==
    /\ Free /\ flow.user # user /\ work.st \in {"idle", "said"} /\ flow.version < MaxPlans
    /\ flow' = [Afresh(flow) EXCEPT !.user = user]
    /\ work' = NoWork /\ ev' = NoEvent
    /\ UNCHANGED <<outside, dir, settling, history, delivered, ops, luck>>

Idle == Free /\ flow.user = user /\ ev = NoEvent /\ Dispatched = {}

\* The rule takes the choice; without it the leader takes any candidate.
Select ==
    /\ Idle /\ ops < MaxInputs
    /\ dir' = NoFiles /\ look' = 0   \* what is left of the last operation
    /\ \E n \in Nodes : \E p \in MaySay(n) :
           /\ IF Ruled # {} THEN n \in Ruled /\ p = Node(n).who /\ Node(n).repair.times < 2
              ELSE Ready(n) \/ Node(n).st = "blocked"
           /\ ev' = [NoEvent EXCEPT !.st = "pending", !.node = n, !.who = p, !.rule = n \in Ruled,
                                    !.op = ops + 1, !.user = user, !.version = flow.version, !.rev = files]
    /\ ops' = ops + 1
    /\ UNCHANGED <<outside, flow, work, pc, fault, history, delivered, luck>>

\* A repair that was answered with the same defect is not ordered again.
NoProgress ==
    /\ Idle /\ \E n \in Ruled : Node(n).repair.times >= 2
    /\ ev' = [NoEvent EXCEPT !.st = "attention", !.user = user]
    /\ UNCHANGED <<outside, flow, dir, work, settling, history, delivered, ops, luck>>

Replan ==
    /\ Idle /\ Ruled = {} /\ flow.version < MaxPlans
    /\ \/ \E n \in Nodes : Node(n).st = "blocked"
       \/ (\A n \in Nodes : Completed(n)) /\ ~Contract(files)
    /\ flow' = Afresh(flow)
    /\ UNCHANGED <<outside, ev, dir, work, settling, history, delivered, ops, luck>>

\* selectedReceiptRepair, at both its calls: anything else is selected anew.
Fits == ev.rule => StillCurrent(Node(ev.node).repair, ev.user, flow.version, ev.rev) /\ ev.rev = files

Failed(e) == [e EXCEPT !.st = IF e.tries >= MaxTries THEN "attention" ELSE "pending"]

\* prepareHandoff: the request for a confirmation holds the documents as they
\* are; what an earlier attempt froze must be the same.
Freeze ==
    /\ Free /\ ev.st = "pending" /\ ~Overtaken /\ ~ev.sent
    /\ LET prior == IF ev.rule THEN Node(ev.node).repair.notes ELSE NoNotes
           mine == [NoFiles EXCEPT !.op = ev.op, !.prior = prior,
                                   !.docs = IF ev.node = Report THEN @ ELSE Documents]
           tried == [ev EXCEPT !.tries = @ + 1]
       IN IF ev.rev # files \/ ~Fits THEN ev' = NoEvent /\ UNCHANGED <<dir, pc>>
          ELSE IF dir.op = ev.op /\ dir # mine THEN ev' = Failed(tried) /\ UNCHANGED <<dir, pc>>
          ELSE dir' = mine /\ ev' = tried /\ pc' = "frozen"
    /\ UNCHANGED <<outside, flow, work, look, fault, history, delivered, ops, luck>>

\* The dispatch is saved with its event, checked once more, and sent.
Send ==
    /\ pc = "frozen" /\ pc' = "idle"
    /\ LET repair == IF ev.rule THEN Node(ev.node).repair ELSE NoRepair
           given == Restarted(flow, ev.node, repair)
       IN IF Overtaken \/ ~Fits THEN ev' = NoEvent /\ UNCHANGED <<flow, work, base>>
          ELSE /\ flow' = [given EXCEPT !.node[ev.node] =
                              [@ EXCEPT !.st = "dispatched", !.who = ev.who, !.op = ev.op,
                                        !.rev = ev.rev, !.input = ev.user]]
               /\ work' = [NoWork EXCEPT !.st = "asked", !.who = ev.who]
               /\ ev' = [ev EXCEPT !.sent = TRUE]
               /\ base' = IF ev.rule THEN base ELSE [base EXCEPT ![ev.node] = files]
    /\ UNCHANGED <<outside, dir, look, fault, past, agreed, delivered, ops, luck>>

----------------------------------------------------------------------------
(* Settlement: the node's limits, the receipt, the document, the transaction *)

\* parseStatusBlock: the receipt's identity and its fields.
StatusFault == IF dir.said \in {"fields", "foreign"} THEN dir.said ELSE "none"
\* readHandoff: the chat names the notes, the files are there, the receipt parses.
ReceiptFault == IF dir.said = "path" THEN "path" ELSE StatusFault

\* The files are what the node was given, and what a receipt-only order repairs.
Untouched(n) == Node(n).rev = files /\ (ev.rule => Node(n).repair.rev = files)

\* Mutant: the receipt is parsed before what the node may change is checked.
FaultLate(n) == IF ReceiptFault # "none" THEN ReceiptFault
                ELSE IF Untouched(n) THEN "none" ELSE "changed"
\* Permissions are validated before the receipt is parsed.
Fault(n) == IF Untouched(n) THEN ReceiptFault ELSE "changed"

Settle ==
    /\ Free /\ work.st = "said" /\ flow.user = user
    /\ \E n \in Dispatched :
           /\ fault' = Fault(n)
           /\ look' = files
           /\ pc' = IF Fault(n) = "none" THEN "take" ELSE "reject"
    /\ UNCHANGED <<outside, flow, ev, dir, work, history, delivered, ops, luck>>

\* Mutant: the approval is compared with the request instead of the document.
ClaimsRequest(content) == dir.claim = dir.docs
\* captureConsensus: what is approved must be what the program reads now.
Claims(content) == dir.claim = content

\* The document is read; the confirmation, or the report, must be about it.
Take ==
    /\ pc = "take"
    /\ \E n \in Dispatched :
           LET sound == IF dir.said = "doubt" THEN TRUE
                        ELSE IF n = Report THEN AllApproved(flow, look, Documents)
                        ELSE Claims(Documents)
           IN IF ~sound THEN fault' = "consensus" /\ pc' = "reject" /\ UNCHANGED <<flow, ev, work>>
              ELSE /\ flow' = [flow EXCEPT
                         !.node[n] = [@ EXCEPT !.st = IF dir.said = "doubt" THEN "blocked" ELSE "completed",
                                               !.rev = look, !.repair = NoRepair],
                         !.approvals = IF n = Report \/ dir.said = "doubt" THEN @
                                       ELSE @ \cup {[who |-> Chain[n], op |-> ev.op, rev |-> look, docs |-> Documents]},
                         !.artifact = [rev |-> look, docs |-> Documents, some |-> TRUE],
                         !.report = IF n = Report /\ dir.said = "fine"
                                    THEN [some |-> TRUE, rev |-> look, docs |-> Documents] ELSE @]
                   /\ pc' = "idle" /\ fault' = "none" /\ ev' = NoEvent /\ work' = NoWork
    /\ UNCHANGED <<outside, dir, look, history, delivered, ops, luck>>

\* recordWorkflowRejection: recoverable when the receipt was the only defect
\* and the files are still those observed; a receipt-only order that met the
\* same defect in the same context counts.
Reject ==
    /\ pc = "reject" /\ pc' = "idle" /\ fault' = "none"
    /\ \E n \in Dispatched :
           LET was == Node(n).repair
               rev == IF fault = "changed" THEN Node(n).rev ELSE look
               print == Diagnosis(fault, ev.op)
               same == /\ ev.rule /\ was.who = ev.who /\ was.print = print
                       /\ was.input = Node(n).input /\ was.rev = rev /\ was.version = flow.version
               ok == fault \in {"path", "fields"} /\ look = files
               about == <<fault, Node(n).input, rev, flow.version, ev.who>>
           IN /\ flow' = [flow EXCEPT !.node[n] =
                      [@ EXCEPT !.st = "blocked",
                                !.repair = [print |-> print, times |-> IF same THEN was.times + 1 ELSE 1,
                                            ok |-> ok, who |-> ev.who, rev |-> rev, input |-> Node(n).input,
                                            version |-> flow.version,
                                            notes |-> IF ok THEN [who |-> ev.who, op |-> ev.op] ELSE NoNotes]]]
              /\ past' = [past EXCEPT ![n] = [about |-> about, vain |-> ev.rule /\ @.about = about]]
    /\ ev' = NoEvent /\ work' = NoWork
    /\ UNCHANGED <<outside, dir, look, base, agreed, delivered, ops, luck>>

\* assertDelivery reads the files and the document once more.
Deliver ==
    /\ Idle /\ Contract(files)
    /\ IF AllApproved(flow, files, Documents)
       THEN delivered' = delivered + 1 /\ ev' = [NoEvent EXCEPT !.st = "delivered", !.user = user]
       ELSE ev' = [NoEvent EXCEPT !.st = "attention", !.user = user] /\ UNCHANGED delivered
    /\ UNCHANGED <<outside, flow, dir, work, settling, history, ops, luck>>

\* A dispatch that was frozen and not saved is prepared again; a settlement
\* that was not saved is made again.
Crash ==
    /\ ~Free /\ Trouble
    /\ pc' = "idle" /\ fault' = "none"
    /\ UNCHANGED <<outside, flow, ev, dir, work, look, history, delivered, ops>>

Next ==
    \/ Says \/ EditFiles \/ EditDocument \/ Read \/ Answer
    \/ Supersede \/ Reset \/ Select \/ NoProgress \/ Replan \/ Freeze \/ Send
    \/ Settle \/ Take \/ Reject \/ Deliver \/ Crash

Spec == Init /\ [][Next]_vars

----------------------------------------------------------------------------
(* Properties *)

\* The report that is delivered holds documents each participant has read
\* and approved in those very contents, whatever changed while they were asked
\* one after the other and while their receipts were settled.
DeliveredIsAgreed ==
    [][delivered' # delivered => \A p \in People : <<p, flow.report.docs, user>> \in agreed]_vars

\* A receipt that cannot be read hides no change of the project: what is
\* accepted, after any number of repairs, is work during which the files
\* stayed as they were when it was ordered.
AcceptedIsUntouched ==
    [][\A n \in Nodes : (Node(n).st = "dispatched" /\ Completed(n)') => flow'.node[n].rev = base[n]]_vars

\* A repair that was answered with the same defect in the same context is not
\* ordered a second time.
NoVainRepair ==
    [][(ev'.sent /\ ~ev.sent /\ ev.rule) => ~past[ev.node].vain]_vars

\* Types.
TypeOK ==
    /\ files + doc + user + luck <= MaxLuck
    /\ pc \in {"idle", "frozen", "take", "reject"}
    /\ fault \in {"none", "changed", "path", "fields", "foreign", "consensus"}
    /\ ev.node \in 0 .. Report /\ ops \in 0 .. MaxInputs
=============================================================================
