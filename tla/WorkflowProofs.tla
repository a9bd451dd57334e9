---------------------------- MODULE WorkflowProofs ----------------------------
(***************************************************************************)
(* One directory, one writer: what the workflow policy of Workflow.tla     *)
(* keeps, for any plan, any participants and any bounds.  The policy never *)
(* asks who is at work when it starts the project's command: it relies on  *)
(* what its event, the plan, the receipt of the last input and the         *)
(* participants say of each other.  The invariant states that agreement.   *)
(* The last part is about Questions, beside it in MCWorkflows: what is     *)
(* asked of the owner, and how often.                                      *)
(***************************************************************************)
EXTENDS MCWorkflows, FiniteSetTheorems, Integers, TLAPS

Sending == {"dispatch", "rework"}

(* A tick that waits for something works on an event of its own kind.      *)
PlaceSound ==
    /\ pc \notin {"idle", "settling"} => ev.st = "processing" /\ ev.tries > 0
    /\ pc = "planning" => ev.kind = "plan"
    /\ pc = "choosing" => ev.kind = "decide"
    /\ pc = "executing" => ev.kind \notin {"none", "plan", "decide"}
    /\ pc = "sending" => ev.kind \in Sending /\ ev.disp # "none"
    /\ pc \in {"running", "judging"} => ev.kind = "verify"
    /\ pc = "delivering" => ev.kind = "deliver"
    /\ pc = "running" => runs[ev.rev].st = "running"

(* An event belongs to the plan there is, and says what it was chosen for. *)
EventSound ==
    /\ ev.st # "none" => ev.user = plan.user /\ ev.version = plan.version
    /\ ev.st = "none" <=> ev.kind = "none"
    /\ plan.user <= user
    /\ ev.kind \notin {"none", "plan"} => ev.rev \in Revs /\ ~plan.needed
    /\ ev.kind \in Sending => ev.node \in Nodes /\ ev.who \in crew
    /\ ev.kind \notin Sending => ev.disp = "none"
    /\ ev.kind \in Sending /\ ev.st = "done" => ev.disp = "sent"

(* What the leader is offered can be carried out; what is about to be      *)
(* settled ends the one node that is out.                                  *)
HeldSound ==
    /\ pc = "choosing" =>
          \A c \in held : /\ c.kind \in Kinds \ {"plan", "decide"}
                          /\ c.node \in Nodes \cup {"none"} /\ c.who \in People \cup {Nobody}
                          /\ c.kind \in Sending => c.node \in Nodes /\ c.who \in crew
    /\ pc = "settling" =>
          /\ \A p \in People : worker[p].st # "working"
          /\ \A h \in held :
                /\ h \in PlanSet
                /\ h.version = plan.version /\ h.user = plan.user /\ h.needed = plan.needed
                /\ \A n \in Nodes : h.node[n].st # "dispatched" /\ h.node[n].input = plan.node[n].input

(* A node that is out is the event's, or the user has spoken since.        *)
Adrift == ev.st = "none" /\ plan.user # user /\ pc = "idle"
NodeSound ==
    /\ \A n \in Nodes : plan.node[n].st = "dispatched" =>
          \/ /\ ev.kind \in Sending /\ ev.node = n /\ ev.disp # "none"
             /\ plan.node[n].who = ev.who /\ plan.node[n].input = inputs
          \/ Adrift
    /\ \A m, n \in Nodes :
          plan.node[m].st = "dispatched" /\ plan.node[n].st = "dispatched" => m = n

(* Every input has a number of its own.                                    *)
InputSound ==
    /\ \A n \in Nodes : plan.node[n].input <= inputs
    /\ \A m, n \in Nodes :
          plan.node[m].input = plan.node[n].input /\ plan.node[m].input # 0 => m = n
    /\ ev.kind \in Sending /\ ev.disp # "none" =>
          inputs > 0 /\ \A n \in Nodes : plan.node[n].input = inputs => n = ev.node

(* Whoever works has a node that is out.                                   *)
WorkSound ==
    \A p \in People : worker[p].st = "working" =>
        /\ p \in crew
        /\ \E n \in Nodes : /\ plan.node[n].st = "dispatched" /\ plan.node[n].who = p
                            /\ plan.node[n].input = worker[p].input /\ worker[p].input # 0

(* An input that may still arrive is the event's, and holds it.            *)
Blocking == \E r \in Revs : Blocks(r)
ReceiptSound ==
    /\ receipt.st \in Sent =>
          /\ ev.kind \in Sending /\ receipt.node = ev.node /\ receipt.who = ev.who
          /\ plan.node[ev.node].st = "dispatched"
          /\ plan.node[ev.node].who = ev.who /\ plan.node[ev.node].input = inputs
          /\ ~Blocking
    /\ receipt.st = "pending" => pc = "sending" /\ ev.disp = "pending"
    /\ receipt.st = "uncertain" =>
          /\ pc = "idle"
          /\ \/ ev.st = "attention" /\ ev.disp = "uncertain"
             \/ ev.st = "processing" /\ ev.disp = "pending"

(* The directory: one command, nobody beside it, and a writer alone.       *)
DirectorySound ==
    /\ \A r \in alive : Blocks(r)
    /\ \A r, s \in alive : r = s
    /\ Blocking => /\ other # "writing" /\ pc # "sending"
                   /\ \A p \in People : worker[p].st # "working"
    /\ pc = "sending" /\ ev.node \in Writers => other = "free"
    /\ receipt.st \in Sent /\ receipt.node \in Writers => other = "free"
    /\ \A p \in People, n \in Writers :
          worker[p].st = "working" /\ plan.node[n].st = "dispatched" => other = "free"

IInv == /\ TypeOK /\ PlaceSound /\ EventSound /\ HeldSound /\ NodeSound /\ InputSound
        /\ WorkSound /\ ReceiptSound /\ DirectorySound

(***************************************************************************)
(* Events: what an edit of one leaves alone                                *)
(***************************************************************************)
States == {"none", "pending", "processing", "done", "attention"}
Fates  == {"none", "pending", "sent", "failed", "uncertain"}

Alike(e, f) ==
    /\ f \in EventSet /\ f.kind = e.kind /\ f.node = e.node /\ f.who = e.who /\ f.rev = e.rev
    /\ f.user = e.user /\ f.version = e.version

\* The edits the actions make, by name.
StateSet(e, st) == [e EXCEPT !.st = st]
FateSet(e, d) == [e EXCEPT !.disp = d]
BothSet(e, d, st) == [e EXCEPT !.disp = d, !.st = st]
TriesSet(e, st, t) == [e EXCEPT !.st = st, !.tries = t]
Chosen(e, k, n, p, t) == [e EXCEPT !.kind = k, !.node = n, !.who = p, !.nth = t]
Given(e, r) == [e EXCEPT !.disp = "pending", !.rev = r]
ToPlan(u, v, t) ==
    [NoEvent EXCEPT !.st = "processing", !.kind = "plan", !.user = u, !.version = v, !.tries = t]
ToDecide(u, v, r, t) ==
    [NoEvent EXCEPT !.st = "processing", !.kind = "decide", !.user = u, !.version = v, !.rev = r,
                    !.tries = t]

LEMMA StateEdit ==
  ASSUME NEW e \in EventSet, NEW st \in States
  PROVE  LET f == StateSet(e, st)
         IN  Alike(e, f) /\ f.st = st /\ f.disp = e.disp /\ f.tries = e.tries
  BY DEF EventSet, Alike, States, StateSet

LEMMA FateEdit ==
  ASSUME NEW e \in EventSet, NEW d \in Fates
  PROVE  LET f == FateSet(e, d)
         IN  Alike(e, f) /\ f.st = e.st /\ f.disp = d /\ f.tries = e.tries
  BY DEF EventSet, Alike, Fates, FateSet

LEMMA BothEdit ==
  ASSUME NEW e \in EventSet, NEW d \in Fates, NEW st \in States
  PROVE  LET f == BothSet(e, d, st)
         IN  Alike(e, f) /\ f.st = st /\ f.disp = d /\ f.tries = e.tries
  <1>1. BothSet(e, d, st) = StateSet(FateSet(e, d), st)
    BY DEF EventSet, BothSet, StateSet, FateSet
  <1>2. LET g == FateSet(e, d) IN Alike(e, g) /\ g.st = e.st /\ g.disp = d /\ g.tries = e.tries
    BY FateEdit
  <1> QED
    BY <1>1, <1>2, StateEdit DEF Alike

LEMMA TriesEdit ==
  ASSUME NEW e \in EventSet, NEW st \in States, NEW t \in Nat
  PROVE  LET f == TriesSet(e, st, t)
         IN  Alike(e, f) /\ f.st = st /\ f.disp = e.disp /\ f.tries = t
  BY DEF EventSet, Alike, States, TriesSet

LEMMA ChoiceEdit ==
  ASSUME NEW e \in EventSet, NEW k \in Kinds, NEW n \in Nodes \cup {"none"},
         NEW p \in People \cup {Nobody}, NEW t \in Nat
  PROVE  LET f == Chosen(e, k, n, p, t)
         IN  /\ f \in EventSet /\ f.kind = k /\ f.node = n /\ f.who = p /\ f.st = e.st
             /\ f.disp = e.disp /\ f.tries = e.tries /\ f.rev = e.rev
             /\ f.user = e.user /\ f.version = e.version
  BY DEF EventSet, Chosen

LEMMA GivenEdit ==
  ASSUME NEW e \in EventSet, NEW r \in 0 .. Never
  PROVE  LET f == Given(e, r)
         IN  /\ f \in EventSet /\ f.kind = e.kind /\ f.node = e.node /\ f.who = e.who /\ f.st = e.st
             /\ f.disp = "pending" /\ f.tries = e.tries /\ f.rev = r
             /\ f.user = e.user /\ f.version = e.version
  BY DEF EventSet, Given

LEMMA NoEventTyped ==
  /\ NoEvent \in EventSet /\ NoEvent.st = "none" /\ NoEvent.kind = "none" /\ NoEvent.disp = "none"
  /\ MaxRev \in Nat /\ Revs \subseteq 0 .. Never /\ Never \in 0 .. Never
  BY WorkflowAssumption DEF NoEvent, EventSet, Never, Nobody, Revs

LEMMA NewEventTyped ==
  ASSUME NEW u \in Nat, NEW v \in Nat, NEW t \in Nat
  PROVE  /\ LET f == ToPlan(u, v, t)
            IN  /\ f \in EventSet /\ f.st = "processing" /\ f.kind = "plan" /\ f.user = u
                /\ f.version = v /\ f.tries = t /\ f.disp = "none"
         /\ \A r \in 0 .. Never :
              LET f == ToDecide(u, v, r, t)
              IN  /\ f \in EventSet /\ f.st = "processing" /\ f.kind = "decide" /\ f.user = u
                  /\ f.version = v /\ f.tries = t /\ f.disp = "none" /\ f.rev = r
  BY NoEventTyped DEF NoEvent, EventSet, Nobody, Kinds, ToPlan, ToDecide

(***************************************************************************)
(* Who is out                                                              *)
(***************************************************************************)
NobodyWorks == \A p \in People : worker[p].st # "working"
NoneOut == \A n \in Nodes : plan.node[n].st # "dispatched"

LEMMA NoneOutNoneWorks ==
  ASSUME IInv, NoneOut
  PROVE  NobodyWorks /\ receipt.st \notin Sent
  BY DEF IInv, NoneOut, NobodyWorks, WorkSound, ReceiptSound, EventSound

(* An event that sends nothing, or has not prepared its input, finds no    *)
(* node out.                                                               *)
LEMMA OutIsSent ==
  ASSUME IInv, ev.st # "none" \/ plan.user = user \/ pc # "idle",
         ev.kind \notin Sending \/ ev.disp = "none"
  PROVE  NoneOut
  BY DEF IInv, NodeSound, NoneOut, Adrift

LEMMA SettlingNobodyWorks ==
  ASSUME IInv, pc = "settling"
  PROVE  NobodyWorks /\ receipt.st \notin Sent
  BY DEF IInv, HeldSound, NobodyWorks, ReceiptSound, Sent

(* What a receipt says of an event whose input was cut off.                *)
LEMMA ReconciledIs ==
  ASSUME ev \in EventSet, NEW r \in {"none", "pending", "done", "failed", "uncertain"}
  PROVE  LET f == Reconciled(r)
         IN  /\ Alike(ev, f) /\ f.tries = ev.tries
             /\ ev.disp \in {"none", "sent", "failed"} => f.disp = ev.disp
             /\ ev.disp \in {"pending", "uncertain"} =>
                   /\ r = "done" => f.disp = "sent"
                   /\ r \in {"none", "failed"} => f.disp = "failed"
                   /\ r \in Sent => f.disp = "uncertain"
             /\ f.disp = "uncertain" => f.st = "attention"
             /\ f.disp # "uncertain" => f.st = IF ev.st = "done" THEN "done" ELSE "pending"
  <1> DEFINE d == IF ev.disp \in {"none", "sent", "failed"} THEN ev.disp
                  ELSE CASE r = "done" -> "sent"
                         [] r \in {"none", "failed"} -> "failed"
                         [] OTHER -> "uncertain"
             st == IF d = "uncertain" THEN "attention"
                   ELSE IF ev.st = "done" THEN "done" ELSE "pending"
  <1>1. ev.disp \in {"none", "sent", "failed"} => d = ev.disp
    OBVIOUS
  <1>2. ev.disp \in {"pending", "uncertain"} =>
          /\ r = "done" => d = "sent"
          /\ r \in {"none", "failed"} => d = "failed"
          /\ r \in Sent => d = "uncertain"
    BY DEF Sent
  <1>3. ev.disp \in Fates
    BY DEF EventSet, Fates
  <1>4. d \in Fates /\ st \in States
    BY <1>1, <1>2, <1>3 DEF Fates, States, Sent
  <1>5. Reconciled(r) = BothSet(ev, d, st)
    BY DEF Reconciled, BothSet
  <1> HIDE DEF d
  <1>6. /\ d = "uncertain" => st = "attention"
        /\ d # "uncertain" => st = IF ev.st = "done" THEN "done" ELSE "pending"
    OBVIOUS
  <1> HIDE DEF st
  <1> QED
    BY <1>1, <1>2, <1>4, <1>5, <1>6, BothEdit

(* A tick that chooses finds no input that may still arrive.               *)
LEMMA NothingUnderWay ==
  ASSUME IInv, pc = "idle", ~Leftover, ev.st # "attention" \/ ev.disp # "uncertain"
  PROVE  receipt.st \notin Sent
  <1>1. CASE receipt.st = "uncertain"
    <2>1. ev.st = "processing" /\ ev.disp = "pending"
      BY <1>1 DEF IInv, ReceiptSound
    <2>2. ev # NoEvent /\ ev \in EventSet
      BY <2>1, NoEventTyped DEF IInv, TypeOK
    <2>3. Reconciled(receipt.st).st = "attention"
      BY <1>1, <2>1, <2>2, ReconciledIs DEF Sent
    <2> QED
      BY <2>1, <2>2, <2>3 DEF Leftover
  <1>2. CASE receipt.st = "pending"
    BY <1>2 DEF IInv, ReceiptSound
  <1> QED
    BY <1>1, <1>2 DEF Sent

LEMMA CalmIsQuiet ==
  ASSUME IInv, Calm
  PROVE  receipt.st \notin Sent /\ pc = "idle" /\ plan.user = user /\ ~Leftover
  BY NothingUnderWay DEF Calm, Quiet

(***************************************************************************)
(* Plans                                                                   *)
(***************************************************************************)
\* q is p with other outcomes; with other nodes, too.
OfPlan(p, q) == q \in PlanSet /\ q.version = p.version /\ q.user = p.user /\ q.needed = p.needed
SameNodes(p, q) == OfPlan(p, q) /\ q.node = p.node

LEMMA BlankTyped ==
  /\ Blank \in NodeSet /\ Blank.st = "pending" /\ Blank.input = 0
  /\ [n \in Nodes |-> Blank] \in [Nodes -> NodeSet]
  BY WorkflowAssumption, NoEventTyped DEF Blank, NodeSet, Never, Nobody

\* The edits the actions make, by name.
NodesSet(p, f, r) == [p EXCEPT !.node = f, !.report = r]
PlannedSet(p, f) == [p EXCEPT !.needed = FALSE, !.node = f]
ResetSet(p, f, u, v) ==
    [p EXCEPT !.user = u, !.version = v, !.needed = TRUE, !.report = Never, !.node = f,
              !.accepted = FALSE, !.issue = FALSE]
ReplanSet(p, v, r) == [p EXCEPT !.version = v, !.needed = TRUE, !.report = r]
UserSet(p, u) == [p EXCEPT !.user = u]
AcceptedSet(p) == [p EXCEPT !.accepted = TRUE]
ProofSet(p, R, b) == [p EXCEPT !.proof = R, !.issue = b]
AuthorSet(p, A) == [p EXCEPT !.authors = A]
ReportSet(p, r) == [p EXCEPT !.report = r]
NodeStSet(p, n, st) == [p EXCEPT !.node[n].st = st]
NodeRevSet(p, n, r) == [p EXCEPT !.node[n].rev = r]
NodeIs(p, n, x) == [p EXCEPT !.node[n] = x]

LEMMA NodesEdit ==
  ASSUME NEW p \in PlanSet, NEW f \in [Nodes -> NodeSet], NEW r \in 0 .. Never
  PROVE  LET q == NodesSet(p, f, r) IN OfPlan(p, q) /\ q.node = f
  BY DEF PlanSet, OfPlan, NodesSet

LEMMA PlannedEdit ==
  ASSUME NEW p \in PlanSet, NEW f \in [Nodes -> NodeSet]
  PROVE  LET q == PlannedSet(p, f)
         IN  q \in PlanSet /\ q.version = p.version /\ q.user = p.user /\ ~q.needed /\ q.node = f
  BY DEF PlanSet, PlannedSet

LEMMA ResetEdit ==
  ASSUME NEW p \in PlanSet, NEW f \in [Nodes -> NodeSet], NEW u \in Nat, NEW v \in Nat
  PROVE  LET q == ResetSet(p, f, u, v) IN q \in PlanSet /\ q.user = u /\ q.node = f
  <1>1. Never \in 0 .. Never
    BY NoEventTyped
  <1> QED
    BY <1>1 DEF PlanSet, ResetSet

LEMMA ReplanEdit ==
  ASSUME NEW p \in PlanSet, NEW v \in Nat, NEW r \in 0 .. Never
  PROVE  LET q == ReplanSet(p, v, r) IN q \in PlanSet /\ q.user = p.user /\ q.node = p.node
  BY DEF PlanSet, ReplanSet

LEMMA UserEdit ==
  ASSUME NEW p \in PlanSet, NEW u \in Nat
  PROVE  LET q == UserSet(p, u) IN q \in PlanSet /\ q.user = u /\ q.node = p.node
  BY DEF PlanSet, UserSet

LEMMA OutcomeEdits ==
  ASSUME NEW p \in PlanSet
  PROVE  /\ SameNodes(p, AcceptedSet(p))
         /\ \A R \in SUBSET Revs, b \in BOOLEAN : SameNodes(p, ProofSet(p, R, b))
         /\ \A A \in SUBSET People : SameNodes(p, AuthorSet(p, A))
         /\ \A r \in 0 .. Never : SameNodes(p, ReportSet(p, r))
  BY DEF PlanSet, SameNodes, OfPlan, AcceptedSet, ProofSet, AuthorSet, ReportSet

LEMMA NodeEdit ==
  ASSUME NEW p \in PlanSet, NEW n \in Nodes, NEW x \in NodeSet
  PROVE  LET q == NodeIs(p, n, x)
         IN  /\ OfPlan(p, q) /\ q.node[n] = x
             /\ \A m \in Nodes \ {n} : q.node[m] = p.node[m]
  BY DEF PlanSet, OfPlan, NodeIs

LEMMA NodeStEdit ==
  ASSUME NEW p \in PlanSet, NEW n \in Nodes, NEW st \in {"completed", "blocked"}
  PROVE  LET q == NodeStSet(p, n, st)
         IN  /\ OfPlan(p, q) /\ q.node[n].st = st
             /\ \A m \in Nodes : q.node[m].input = p.node[m].input
             /\ \A m \in Nodes \ {n} : q.node[m] = p.node[m]
  <1> DEFINE x == [p.node[n] EXCEPT !.st = st]
  <1>1. p.node[n] \in NodeSet
    BY DEF PlanSet
  <1>2. x \in NodeSet /\ x.st = st /\ x.input = p.node[n].input
    BY <1>1 DEF NodeSet
  <1>3. NodeStSet(p, n, st) = NodeIs(p, n, x)
    BY DEF NodeStSet, NodeIs
  <1> HIDE DEF x
  <1> QED
    BY <1>2, <1>3, NodeEdit

LEMMA NodeRevEdit ==
  ASSUME NEW p \in PlanSet, NEW n \in Nodes, NEW r \in 0 .. Never
  PROVE  LET q == NodeRevSet(p, n, r)
         IN  /\ OfPlan(p, q)
             /\ \A m \in Nodes : q.node[m].input = p.node[m].input /\ q.node[m].st = p.node[m].st
  <1> DEFINE x == [p.node[n] EXCEPT !.rev = r]
  <1>1. p.node[n] \in NodeSet
    BY DEF PlanSet
  <1>2. x \in NodeSet /\ x.st = p.node[n].st /\ x.input = p.node[n].input
    BY <1>1 DEF NodeSet
  <1>3. NodeRevSet(p, n, r) = NodeIs(p, n, x)
    BY DEF NodeRevSet, NodeIs
  <1> HIDE DEF x
  <1> QED
    BY <1>2, <1>3, NodeEdit

(***************************************************************************)
(* What a step leaves standing                                             *)
(***************************************************************************)
LEMMA Typed ==
  ASSUME IInv
  PROVE  /\ plan \in PlanSet /\ ev \in EventSet /\ rev \in Revs /\ user \in Nat /\ inputs \in Nat
         /\ crew \subseteq People /\ plan.user \in Nat /\ plan.version \in Nat
         /\ plan.node \in [Nodes -> NodeSet] /\ \A n \in Nodes : plan.node[n] \in NodeSet
         /\ ev.st \in States /\ ev.disp \in Fates /\ ev.tries \in Nat /\ ev.rev \in 0 .. Never
         /\ receipt.st \in {"none", "pending", "done", "failed", "uncertain"}
         /\ receipt.who \in People \cup {Nobody} /\ receipt.node \in Nodes \cup {"none"}
         /\ ev.who \in People \cup {Nobody}
         /\ trouble \in Nat
  BY WorkflowAssumption DEF IInv, TypeOK, PlanSet, EventSet, States, Fates

(* An entry of what is noted of the nodes that read.                       *)
LEMMA NotedIs ==
  ASSUME NEW f \in [Nodes \ Writers -> 0 .. Never], NEW n, NEW r \in 0 .. Never
  PROVE  LET g == Noted(f, n, r)
         IN  /\ g \in [Nodes \ Writers -> 0 .. Never]
             /\ \A m \in Nodes \ Writers : g[m] = IF m = n THEN r ELSE f[m]
  BY DEF Noted

(* Where nothing is out, nothing was going on, and nothing begins.         *)
LEMMA AfreshNodes ==
  ASSUME IInv, NobodyWorks, receipt.st \notin Sent, UNCHANGED <<worker, receipt, inputs>>,
         \A n \in Nodes : /\ plan'.node[n].st # "dispatched"
                          /\ plan'.node[n].input \in {0, plan.node[n].input},
         ev'.kind \notin Sending \/ ev'.disp = "none" \/ ev' = ev
  PROVE  NodeSound' /\ InputSound' /\ WorkSound' /\ ReceiptSound'
  <1>1. NodeSound'
    BY DEF NodeSound
  <1>2. InputSound'
    BY Typed DEF IInv, InputSound
  <1>3. WorkSound'
    BY DEF NobodyWorks, WorkSound
  <1>4. ReceiptSound'
    BY DEF ReceiptSound, Sent
  <1> QED
    BY <1>1, <1>2, <1>3, <1>4

LEMMA Afresh ==
  ASSUME IInv, NobodyWorks, receipt.st \notin Sent,
         UNCHANGED <<worker, receipt, runs, other, alive, inputs>>,
         \A n \in Nodes : /\ plan'.node[n].st # "dispatched"
                          /\ plan'.node[n].input \in {0, plan.node[n].input},
         ev'.kind \notin Sending \/ ev'.disp = "none" \/ ev' = ev, pc' # "sending"
  PROVE  NodeSound' /\ InputSound' /\ WorkSound' /\ ReceiptSound' /\ DirectorySound'
  <1>1. NodeSound' /\ InputSound' /\ WorkSound' /\ ReceiptSound'
    BY AfreshNodes
  <1>2. DirectorySound'
    BY DEF IInv, DirectorySound, NobodyWorks, Blocking, Blocks, Sent
  <1> QED
    BY <1>1, <1>2

(* A step of the tick that only has to do with the event.                  *)
LEMMA SamePlan ==
  ASSUME IInv, UNCHANGED <<user, crew, worker, plan, receipt, runs, other, alive, inputs>>,
         pc' # "sending",
         \/ /\ ev'.kind = ev.kind /\ ev'.node = ev.node /\ ev'.who = ev.who /\ ev.st # "none"
            /\ ev'.disp = "none" <=> ev.disp = "none"
         \/ ev'.kind = "none" /\ ev'.st = "none" /\ pc' = "idle" /\ (plan.user # user \/ NoneOut)
  PROVE  NodeSound' /\ InputSound' /\ WorkSound' /\ DirectorySound'
  <1>1. NodeSound'
    BY DEF IInv, NodeSound, Adrift, NoneOut, Sending
  <1>2. InputSound'
    BY DEF IInv, InputSound, Sending
  <1>3. WorkSound'
    BY DEF IInv, WorkSound
  <1>4. DirectorySound'
    BY DEF IInv, DirectorySound, Blocking, Blocks
  <1> QED
    BY <1>1, <1>2, <1>3, <1>4

(* Out of the tick: what the places of the tick say holds.                 *)
LEMMA AtHome ==
  ASSUME pc' = "idle"
  PROVE  PlaceSound' /\ HeldSound'
  BY DEF PlaceSound, HeldSound

LEMMA NoReceipt ==
  ASSUME receipt.st \notin Sent, receipt' = receipt
  PROVE  ReceiptSound'
  BY DEF ReceiptSound, Sent

Places == {"idle", "planning", "choosing", "executing", "sending", "running", "judging",
           "delivering", "settling"}

\* Steps that touch the event, the plan and the tick only.
LEMMA TickTyped ==
  ASSUME IInv, UNCHANGED <<files, user, crew, worker, receipt, runs, other, alive, inputs>>,
         ev' \in EventSet, plan' \in PlanSet, pc' \in Places, look' \in 0 .. Never,
         trouble' = trouble \/ Trouble
  PROVE  TypeOK'
  <1>1. trouble' \in 0 .. MaxTrouble
    BY WorkflowAssumption DEF IInv, TypeOK, Trouble
  <1> QED
    BY <1>1 DEF IInv, TypeOK, files, Places

(***************************************************************************)
(* Steps that have to do with the event only                               *)
(***************************************************************************)
(* What is left of the last tick is settled by the receipt.                *)
LEMMA RecoverStep ==
  ASSUME IInv, Recover
  PROVE  IInv'
  <1> DEFINE f == Reconciled(receipt.st)
  <1>1. /\ Alike(ev, f) /\ f.tries = ev.tries
        /\ ev.disp \in {"none", "sent", "failed"} => f.disp = ev.disp
        /\ ev.disp \in {"pending", "uncertain"} =>
              /\ receipt.st = "done" => f.disp = "sent"
              /\ receipt.st \in {"none", "failed"} => f.disp = "failed"
              /\ receipt.st \in Sent => f.disp = "uncertain"
        /\ f.disp = "uncertain" => f.st = "attention"
        /\ f.disp # "uncertain" => f.st = IF ev.st = "done" THEN "done" ELSE "pending"
    BY Typed, ReconciledIs
  <1>2. ev' = f /\ pc = "idle" /\ pc' = "idle"
    BY DEF Recover, tick
  <1> HIDE DEF f
  <1>3. UNCHANGED <<rev, user, crew, worker, plan, receipt, runs, look, held, other, alive, inputs>>
    BY DEF Recover, tick, files
  <1>4. ev.st # "none"
    BY DEF Recover, Leftover, IInv, EventSound, Sending
  <1>5. ev'.st # "none" /\ (ev'.disp = "none" <=> ev.disp = "none")
        /\ (ev'.st = "done" => ev.st = "done") /\ (ev.disp = "sent" => ev'.disp = "sent")
    BY <1>1, <1>2, Typed DEF Fates, Sent
  <1>6. TypeOK'
    <2>1. ev' \in EventSet
      BY <1>1, <1>2 DEF Alike
    <2> QED
      BY <2>1, TickTyped, Typed DEF Recover, tick, Places, IInv, TypeOK
  <1>7. PlaceSound' /\ HeldSound'
    BY <1>2, AtHome
  <1>8. EventSound'
    BY <1>1, <1>2, <1>3, <1>4, <1>5 DEF Alike, IInv, EventSound
  <1>9. NodeSound' /\ InputSound' /\ WorkSound' /\ DirectorySound'
    BY <1>1, <1>2, <1>3, <1>4, <1>5, SamePlan DEF Alike
  <1>10. ReceiptSound'
    <2>1. receipt.st \in Sent => ev.disp \in {"pending", "uncertain"}
      BY DEF IInv, ReceiptSound, Sent
    <2>2. receipt.st \in Sent => ev'.disp = "uncertain" /\ ev'.st = "attention"
      BY <1>1, <1>2, <2>1
    <2> QED
      BY <1>1, <1>2, <1>3, <2>2 DEF Alike, IInv, ReceiptSound, Sent, Blocking, Blocks
  <1> QED
    BY <1>6, <1>7, <1>8, <1>9, <1>10 DEF IInv

(* An event that is not of now belongs to requirements the user has left.  *)
LEMMA NotCurrent ==
  ASSUME IInv, ev.st # "none", ~Current(ev)
  PROVE  plan.user # user
  BY DEF IInv, EventSound, Current

(* The event is dropped where nothing may still arrive.                    *)
LEMMA DroppedStep ==
  ASSUME IInv, receipt.st \notin Sent, plan.user # user \/ NoneOut, ev' = NoEvent, pc' = "idle",
         look' \in 0 .. Never,
         UNCHANGED <<files, user, crew, worker, plan, receipt, runs, other, alive, inputs, trouble>>
  PROVE  IInv'
  <1>1. TypeOK'
    BY NoEventTyped, Typed, TickTyped DEF Places
  <1>2. PlaceSound' /\ HeldSound'
    BY AtHome
  <1>3. EventSound'
    BY NoEventTyped DEF IInv, EventSound, Sending
  <1>4. NodeSound' /\ InputSound' /\ WorkSound' /\ DirectorySound'
    BY NoEventTyped, SamePlan
  <1>5. ReceiptSound'
    BY NoReceipt
  <1> QED
    BY <1>1, <1>2, <1>3, <1>4, <1>5 DEF IInv

LEMMA SupersedeStep ==
  ASSUME IInv, Supersede
  PROVE  IInv'
  <1>1. receipt.st \notin Sent
    BY NothingUnderWay DEF Supersede, Overtaken
  <1>2. plan.user # user
    BY NotCurrent DEF Supersede, Overtaken
  <1> QED
    BY <1>1, <1>2, DroppedStep DEF Supersede, tick, IInv, TypeOK

LEMMA DropStep ==
  ASSUME IInv, Drop
  PROVE  IInv'
  <1>1. ev.st = "processing" /\ receipt.st \notin Sent /\ pc # "idle"
    BY DEF IInv, PlaceSound, ReceiptSound, Drop, Sent
  <1>2. CASE ~Current(ev)
    BY <1>1, <1>2, NotCurrent, DroppedStep, NoEventTyped DEF Drop, Home
  <1>3. CASE Current(ev)
    <2>1. ev.disp = "none"
      BY <1>3 DEF Drop, Fits
    <2> QED
      BY <1>1, <2>1, OutIsSent, DroppedStep, NoEventTyped DEF Drop, Home
  <1> QED
    BY <1>2, <1>3

(* The event moves on; its choice and its input stay.                      *)
LEMMA MovedStep ==
  ASSUME IInv, receipt.st \notin Sent, Alike(ev, ev'), ev.st # "none", ev'.st # "none",
         ev'.disp = ev.disp, ev'.st = "done" => ev.kind \notin Sending \/ ev.disp = "sent",
         pc' \in {"idle", "executing"}, look' \in 0 .. Never,
         pc' = "executing" => /\ ev'.st = "processing" /\ ev'.tries > 0
                              /\ ev.kind \notin {"none", "plan", "decide"},
         UNCHANGED <<files, user, crew, worker, plan, receipt, runs, other, alive, inputs, trouble>>
  PROVE  IInv'
  <1>1. TypeOK'
    BY Typed, TickTyped DEF Places, Alike
  <1>2. PlaceSound' /\ HeldSound'
    BY DEF PlaceSound, HeldSound, Alike
  <1>3. EventSound'
    BY DEF IInv, EventSound, Alike
  <1>4. NodeSound' /\ InputSound' /\ WorkSound' /\ DirectorySound'
    BY SamePlan DEF Alike
  <1>5. ReceiptSound'
    BY NoReceipt
  <1> QED
    BY <1>1, <1>2, <1>3, <1>4, <1>5 DEF IInv

LEMMA PostponeStep ==
  ASSUME IInv, Postpone
  PROVE  IInv'
  <1>1. pc = "executing" /\ ev.st = "processing" /\ ev.tries > 0
    BY DEF IInv, PlaceSound, Postpone, Sends, Doing
  <1>2. receipt.st \notin Sent
    BY <1>1 DEF IInv, ReceiptSound, Sent
  <1>3. ev' = TriesSet(ev, "pending", ev.tries - 1)
    BY DEF Postpone, Postponed, TriesSet
  <1>4. ev.tries - 1 \in Nat /\ "pending" \in States
    BY <1>1, Typed DEF States
  <1>5. Alike(ev, ev') /\ ev'.st = "pending" /\ ev'.disp = ev.disp
    BY <1>3, <1>4, Typed, TriesEdit
  <1> QED
    BY <1>1, <1>2, <1>5, MovedStep, NoEventTyped DEF Postpone, Home

LEMMA ResumeStep ==
  ASSUME IInv, Resume
  PROVE  IInv'
  <1>1. receipt.st \notin Sent
    BY CalmIsQuiet DEF Resume
  <1>2. ev' = TriesSet(ev, "processing", ev.tries + 1)
    BY DEF Resume, TriesSet
  <1>3. ev.tries + 1 \in Nat /\ ev.tries + 1 > 0 /\ "processing" \in States
    BY Typed DEF States
  <1>4. Alike(ev, ev') /\ ev'.st = "processing" /\ ev'.disp = ev.disp /\ ev'.tries > 0
    BY <1>2, <1>3, Typed, TriesEdit
  <1>5. ev.st = "pending" /\ ev.kind \notin {"none", "plan", "decide"}
    BY DEF Resume, IInv, EventSound
  <1>6. look' \in 0 .. Never
    BY DEF Resume, IInv, TypeOK
  <1> QED
    BY <1>1, <1>4, <1>5, <1>6, MovedStep DEF Resume

LEMMA SentBeforeStep ==
  ASSUME IInv, SentBefore
  PROVE  IInv'
  <1>1. pc = "sending" /\ ev.st = "processing"
    BY DEF IInv, PlaceSound, SentBefore
  <1>2. receipt.st \notin Sent
    BY <1>1 DEF IInv, ReceiptSound, Sent, SentBefore
  <1>3. ev' = StateSet(ev, "done")
    BY DEF SentBefore, Done, StateSet
  <1>4. Alike(ev, ev') /\ ev'.st = "done" /\ ev'.disp = ev.disp
    BY <1>3, Typed, StateEdit DEF States
  <1> QED
    BY <1>1, <1>2, <1>4, MovedStep, NoEventTyped DEF SentBefore, Home

(***************************************************************************)
(* Steps while nothing is out                                              *)
(***************************************************************************)
\* No node of the plan p is out, and none has an input it did not have.
Still(p) == \A n \in Nodes : p.node[n].st # "dispatched" /\ p.node[n].input \in {0, plan.node[n].input}

LEMMA StillPlan ==
  ASSUME NoneOut
  PROVE  Still(plan) /\ \A p : p.node = plan.node => Still(p)
  BY DEF NoneOut, Still

LEMMA FreshStep ==
  ASSUME IInv, NoneOut, plan' \in PlanSet, Still(plan'), ev' \in EventSet,
         ev'.kind \notin Sending \/ ev'.disp = "none" \/ ev' = ev, pc' \in Places \ {"sending"},
         look' \in 0 .. Never, trouble' = trouble \/ Trouble,
         UNCHANGED <<files, user, crew, worker, receipt, runs, other, alive, inputs>>,
         PlaceSound', EventSound', HeldSound'
  PROVE  IInv'
  <1>1. TypeOK'
    BY TickTyped
  <1>2. NobodyWorks /\ receipt.st \notin Sent
    BY NoneOutNoneWorks
  <1>3. NodeSound' /\ InputSound' /\ WorkSound' /\ ReceiptSound' /\ DirectorySound'
    BY <1>2, Afresh DEF Still
  <1> QED
    BY <1>1, <1>3 DEF IInv

LEMMA AfterFailureIs ==
  ASSUME IInv, ev.st # "none"
  PROVE  \/ AfterFailure = NoEvent /\ ~Current(ev)
         \/ /\ Alike(ev, AfterFailure) /\ AfterFailure.disp = ev.disp /\ Current(ev)
            /\ AfterFailure.st \in {"attention", "pending"} /\ AfterFailure.tries = ev.tries
  <1>1. CASE Current(ev)
    <2>1. \/ AfterFailure = StateSet(ev, "attention")
          \/ AfterFailure = StateSet(ev, "pending")
      BY <1>1 DEF AfterFailure, StateSet
    <2> QED
      BY <1>1, <2>1, Typed, StateEdit DEF States
  <1>2. CASE ~Current(ev)
    BY <1>2 DEF AfterFailure
  <1> QED
    BY <1>1, <1>2

LEMMA AskPlanStep ==
  ASSUME IInv, AskPlan
  PROVE  IInv'
  <1>1. plan.user = user /\ plan.needed /\ NoneOut
    BY OutIsSent DEF AskPlan, Calm, IInv, EventSound, Sending
  <1> DEFINE t == (IF ev.kind = "plan" THEN ev.tries ELSE 0) + 1
  <1>2. t \in Nat /\ t > 0 /\ user \in Nat /\ plan.version \in Nat
    BY Typed
  <1>3. ev' = ToPlan(user, plan.version, t)
    BY DEF AskPlan, ToPlan
  <1> HIDE DEF t
  <1>4. /\ ev' \in EventSet /\ ev'.st = "processing" /\ ev'.kind = "plan" /\ ev'.user = user
        /\ ev'.version = plan.version /\ ev'.tries = t /\ ev'.disp = "none"
    BY <1>2, <1>3, NewEventTyped
  <1>5. pc' = "planning" /\ UNCHANGED <<user, crew, worker, plan, runs, held, look>>
    BY DEF AskPlan
  <1>6. PlaceSound' /\ HeldSound'
    BY <1>2, <1>4, <1>5 DEF PlaceSound, HeldSound
  <1>7. EventSound'
    BY <1>1, <1>4, <1>5 DEF IInv, EventSound, Sending
  <1> QED
    BY <1>1, <1>4, <1>5, <1>6, <1>7, FreshStep, StillPlan, Typed
       DEF AskPlan, Sending, Places, IInv, TypeOK

LEMMA PlanStep ==
  ASSUME IInv, Plan
  PROVE  IInv'
  <1>1. ev.kind = "plan" /\ ev.st = "processing" /\ ev.disp = "none"
    BY DEF Plan, IInv, PlaceSound, EventSound, Sending
  <1>2. NoneOut
    BY <1>1, OutIsSent
  <1>3. PlaceSound' /\ HeldSound' /\ pc' = "idle"
    BY AtHome DEF Plan
  <1>4. look' \in 0 .. Never /\ (trouble' = trouble \/ Trouble)
    BY DEF Plan, IInv, TypeOK
  <1>5. CASE ev' = NoEvent /\ plan' = [plan EXCEPT !.needed = FALSE, !.node = [n \in Nodes |-> Blank]]
    <2>1. plan' = PlannedSet(plan, [n \in Nodes |-> Blank])
      BY <1>5 DEF PlannedSet
    <2>2. plan' \in PlanSet /\ plan'.user = plan.user /\ plan'.node = [n \in Nodes |-> Blank]
      BY <2>1, PlannedEdit, BlankTyped, Typed
    <2>3. Still(plan')
      BY <2>2, BlankTyped DEF Still
    <2>4. EventSound'
      BY <1>5, <2>2, NoEventTyped DEF Plan, IInv, EventSound, Sending
    <2> QED
      BY <1>2, <1>3, <1>4, <1>5, <2>2, <2>3, <2>4, FreshStep, NoEventTyped DEF Plan, Places
  <1>6. CASE ev' = AfterFailure /\ plan' = plan
    <2>1. \/ ev' = NoEvent
          \/ Alike(ev, ev') /\ ev'.disp = ev.disp /\ ev'.st \in {"attention", "pending"}
      BY <1>1, <1>6, AfterFailureIs
    <2>2. ev' \in EventSet /\ ev'.disp = "none"
      BY <1>1, <2>1, NoEventTyped DEF Alike
    <2>3. EventSound'
      BY <1>1, <1>6, <2>1, NoEventTyped DEF Alike, Plan, IInv, EventSound, Sending
    <2> QED
      BY <1>2, <1>3, <1>4, <1>6, <2>2, <2>3, FreshStep, StillPlan, Typed DEF Plan, Places
  <1> QED
    BY <1>5, <1>6 DEF Plan

LEMMA CandidatesSound ==
  ASSUME IInv, NEW c \in Candidates
  PROVE  /\ c.kind \in Kinds \ {"plan", "decide"}
         /\ c.node \in Nodes \cup {"none"} /\ c.who \in People \cup {Nobody}
         /\ c.kind \in Sending => c.node \in Nodes /\ c.who \in crew
  <1>1. \/ \E k \in Sending, ns \in SUBSET Nodes : c \in Offer(k, ns) /\ c.who \in crew
        \/ \E k \in {"verify", "deliver", "replan", "wait", "add"} : c = Just(k)
    <2> DEFINE send == {n \in Ready : /\ n \in Reports => ~plan.issue
                                      /\ n \in Checks => ~Verifiable}
               fix == {n \in Writers : plan.issue /\ n \notin With("dispatched")}
               redo == With("blocked") \cup fix
    <2>1. send \in SUBSET Nodes /\ redo \in SUBSET Nodes
      BY WorkflowAssumption DEF Ready, With
    <2>2. \/ c \in Offer("dispatch", send) /\ c.who \in Eligible(c.node)
          \/ c \in Offer("rework", redo) /\ c.who \in Eligible(c.node)
          \/ c \in {Just("verify"), Just("deliver"), Just("replan"), Just("wait"), Just("add")}
      BY DEF Candidates
    <2> HIDE DEF send, redo
    <2> QED
      BY <2>1, <2>2 DEF Eligible, Sending
  <1>2. CASE \E k \in Sending, ns \in SUBSET Nodes : c \in Offer(k, ns) /\ c.who \in crew
    BY <1>2 DEF Sending, Kinds, Offer
  <1>3. CASE \E k \in {"verify", "deliver", "replan", "wait", "add"} : c = Just(k)
    BY <1>3 DEF Sending, Kinds, Just
  <1> QED
    BY <1>1, <1>2, <1>3

LEMMA AskStep ==
  ASSUME IInv, Ask
  PROVE  IInv'
  <1>1. plan.user = user /\ ~plan.needed /\ NoneOut
    BY DEF Ask, Free, Working, Calm, With, NoneOut
  <1> DEFINE t == (IF ev.kind = "decide" THEN ev.tries ELSE 0) + 1
  <1>2. t \in Nat /\ t > 0 /\ user \in Nat /\ plan.version \in Nat /\ rev \in Revs
    BY Typed
  <1>a. rev \in 0 .. Never
    BY <1>2, NoEventTyped
  <1>3. ev' = ToDecide(user, plan.version, rev, t)
    BY DEF Ask, ToDecide
  <1> HIDE DEF t
  <1>4. /\ ev' \in EventSet /\ ev'.st = "processing" /\ ev'.kind = "decide" /\ ev'.user = user
        /\ ev'.version = plan.version /\ ev'.tries = t /\ ev'.disp = "none" /\ ev'.rev = rev
    BY <1>2, <1>a, <1>3, NewEventTyped
  <1>5. /\ pc' = "choosing" /\ held' = Candidates /\ look' = rev
        /\ UNCHANGED <<user, crew, worker, plan, runs>>
    BY DEF Ask
  <1>6. PlaceSound'
    BY <1>2, <1>4, <1>5 DEF PlaceSound
  <1>7. HeldSound'
    BY <1>5, CandidatesSound DEF HeldSound
  <1>8. EventSound'
    BY <1>1, <1>2, <1>4, <1>5 DEF IInv, EventSound, Sending
  <1> QED
    BY <1>1, <1>a, <1>4, <1>5, <1>6, <1>7, <1>8, FreshStep, StillPlan, Typed
       DEF Ask, Sending, Places

LEMMA ChooseStep ==
  ASSUME IInv, Choose
  PROVE  IInv'
  <1>1. ev.kind = "decide" /\ ev.st = "processing" /\ ev.disp = "none" /\ ev.rev \in Revs
        /\ ev.tries > 0 /\ pc = "choosing"
    BY DEF Choose, IInv, PlaceSound, EventSound, Sending
  <1>2. NoneOut
    BY <1>1, OutIsSent DEF Sending
  <1>3. look' = Never /\ (trouble' = trouble \/ Trouble)
    BY DEF Choose
  <1>4. ASSUME NEW c \in held, pc' = "executing",
               ev' = [ev EXCEPT !.kind = c.kind, !.node = c.node, !.who = c.who,
                                !.nth = runs[ev.rev].cancelled]
        PROVE  IInv'
    <2>1. /\ c.kind \in Kinds /\ c.kind \notin {"plan", "decide"}
          /\ c.node \in Nodes \cup {"none"} /\ c.who \in People \cup {Nobody}
          /\ c.kind \in Sending => c.node \in Nodes /\ c.who \in crew
      BY <1>1 DEF IInv, HeldSound
    <2>2. runs[ev.rev].cancelled \in Nat /\ ev \in EventSet
      BY <1>1 DEF IInv, TypeOK
    <2>3. ev' = Chosen(ev, c.kind, c.node, c.who, runs[ev.rev].cancelled)
      BY <1>4 DEF Chosen
    <2>4. /\ ev' \in EventSet /\ ev'.kind = c.kind /\ ev'.node = c.node /\ ev'.who = c.who
          /\ ev'.st = ev.st /\ ev'.disp = ev.disp /\ ev'.tries = ev.tries /\ ev'.rev = ev.rev
          /\ ev'.user = ev.user /\ ev'.version = ev.version
      <3> DEFINE k == c.kind
                 n == c.node
                 p == c.who
                 t == runs[ev.rev].cancelled
      <3>1. /\ k \in Kinds /\ n \in Nodes \cup {"none"} /\ p \in People \cup {Nobody} /\ t \in Nat
            /\ ev \in EventSet /\ ev' = Chosen(ev, k, n, p, t)
        BY <2>1, <2>2, <2>3
      <3> HIDE DEF k, n, p, t
      <3>2. /\ ev' \in EventSet /\ ev'.kind = k /\ ev'.node = n /\ ev'.who = p
            /\ ev'.st = ev.st /\ ev'.disp = ev.disp /\ ev'.tries = ev.tries /\ ev'.rev = ev.rev
            /\ ev'.user = ev.user /\ ev'.version = ev.version
        BY <3>1, ChoiceEdit
      <3> QED
        BY <3>2 DEF k, n, p
    <2>5. c.kind # "none"
      BY <2>1 DEF Kinds
    <2>6. PlaceSound' /\ HeldSound'
      BY <1>1, <1>4, <2>1, <2>4, <2>5 DEF PlaceSound, HeldSound
    <2>7. EventSound'
      BY <1>1, <2>1, <2>4, <2>5 DEF Choose, IInv, EventSound
    <2> QED
      BY <1>1, <1>2, <1>3, <1>4, <2>4, <2>6, <2>7, FreshStep, StillPlan, Typed, NoEventTyped
         DEF Choose, Places
  <1>5. CASE ev' = AfterFailure /\ pc' = "idle"
    <2>1. \/ ev' = NoEvent
          \/ Alike(ev, ev') /\ ev'.disp = ev.disp /\ ev'.st \in {"attention", "pending"}
      BY <1>1, <1>5, AfterFailureIs
    <2>2. ev' \in EventSet /\ ev'.disp = "none"
      BY <1>1, <2>1, NoEventTyped DEF Alike
    <2>3. EventSound'
      BY <1>1, <1>5, <2>1, NoEventTyped DEF Alike, Choose, IInv, EventSound, Sending
    <2> QED
      BY <1>2, <1>3, <1>5, <2>2, <2>3, AtHome, FreshStep, StillPlan, Typed, NoEventTyped
         DEF Choose, Places
  <1> QED
    BY <1>4, <1>5 DEF Choose

(* A step that sends nothing ends, with its outcome in the plan.           *)
LEMMA EndedStep ==
  ASSUME IInv, pc # "idle", ev.st # "none", ev.kind \notin Sending, SameNodes(plan, plan'),
         \/ ev' = NoEvent
         \/ Alike(ev, ev') /\ ev'.st # "none" /\ ev'.disp = ev.disp,
         pc' = "idle", look' \in 0 .. Never,
         UNCHANGED <<files, user, crew, worker, receipt, runs, other, alive, inputs, trouble>>
  PROVE  IInv'
  <1>1. NoneOut
    BY OutIsSent
  <1>2. ev' \in EventSet /\ (ev'.kind \notin Sending \/ ev'.disp = "none")
    BY NoEventTyped DEF Alike, IInv, EventSound
  <1>3. EventSound'
    BY NoEventTyped DEF IInv, EventSound, SameNodes, OfPlan, Alike, Sending
  <1>4. plan' \in PlanSet /\ Still(plan')
    BY <1>1, StillPlan DEF SameNodes, OfPlan
  <1> QED
    BY <1>1, <1>2, <1>3, <1>4, AtHome, FreshStep DEF Places

LEMMA SameNodesAsItIs ==
  ASSUME IInv, UNCHANGED plan
  PROVE  SameNodes(plan, plan')
  BY Typed DEF SameNodes, OfPlan

LEMMA JudgeStep ==
  ASSUME IInv, Judge
  PROVE  IInv'
  <1>1. pc = "judging" /\ ev.kind = "verify" /\ ev.st = "processing" /\ ev.rev \in Revs
        /\ ev.kind \notin Sending
    BY DEF Judge, IInv, PlaceSound, EventSound, Sending
  <1>2. \/ ev' = NoEvent
        \/ ev' = StateSet(ev, "attention")
        \/ ev' = StateSet(ev, "done")
    BY DEF Judge, Done, StateSet
  <1>3. \/ ev' = NoEvent
        \/ Alike(ev, ev') /\ ev'.st # "none" /\ ev'.disp = ev.disp
    BY <1>2, Typed, StateEdit DEF States
  <1>4. SameNodes(plan, plan')
    <2>1. CASE plan' = plan
      BY <2>1, SameNodesAsItIs
    <2>2. CASE \E good \in BOOLEAN :
                  plan' = [plan EXCEPT !.proof = IF good THEN @ \cup {ev.rev} ELSE @, !.issue = ~good]
      <3>1. PICK good \in BOOLEAN :
                  plan' = [plan EXCEPT !.proof = IF good THEN @ \cup {ev.rev} ELSE @, !.issue = ~good]
        BY <2>2
      <3> DEFINE R == IF good THEN plan.proof \cup {ev.rev} ELSE plan.proof
                 b == ~good
      <3>2. R \in SUBSET Revs /\ b \in BOOLEAN
        BY <1>1, Typed DEF PlanSet
      <3>3. plan' = ProofSet(plan, R, b)
        BY <3>1 DEF ProofSet
      <3> HIDE DEF R, b
      <3> QED
        BY <3>2, <3>3, Typed, OutcomeEdits
    <2> QED
      BY <2>1, <2>2 DEF Judge
  <1> QED
    BY <1>1, <1>3, <1>4, EndedStep, NoEventTyped DEF Judge, Home

LEMMA WaitStep ==
  ASSUME IInv, Wait
  PROVE  IInv'
  <1>1. pc = "executing" /\ ev.st = "processing" /\ ev.kind \notin Sending
    BY DEF Wait, Doing, IInv, PlaceSound, Sending
  <1>2. ev' = StateSet(ev, "done")
    BY DEF Wait, Done, StateSet
  <1>3. Alike(ev, ev') /\ ev'.st = "done" /\ ev'.disp = ev.disp
    BY <1>2, Typed, StateEdit DEF States
  <1> QED
    BY <1>1, <1>3, SameNodesAsItIs, EndedStep, NoEventTyped DEF Wait, Home

LEMMA CheckReportStep ==
  ASSUME IInv, CheckReport
  PROVE  IInv'
  <1>1. pc = "executing" /\ ev.kind = "deliver" /\ ev.st = "processing" /\ ev.tries > 0
        /\ ev.kind \notin Sending
    BY DEF CheckReport, Doing, IInv, PlaceSound, Sending
  <1>2. CASE pc' = "delivering" /\ look' = rev /\ ev' = ev
    <2>1. NoneOut
      BY <1>1, OutIsSent
    <2>2. PlaceSound' /\ HeldSound'
      BY <1>1, <1>2 DEF PlaceSound, HeldSound
    <2>3. EventSound'
      BY <1>2 DEF CheckReport, IInv, EventSound
    <2>4. look' \in 0 .. Never
      BY <1>2, Typed, NoEventTyped
    <2>5. plan' \in PlanSet /\ Still(plan') /\ ev' \in EventSet
      BY <1>2, <2>1, Typed, StillPlan DEF CheckReport
    <2> QED
      BY <1>2, <2>1, <2>2, <2>3, <2>4, <2>5, FreshStep DEF CheckReport, Places
  <1>3. CASE Home /\ ev' = [ev EXCEPT !.st = "attention"]
    <2>1. ev' = StateSet(ev, "attention")
      BY <1>3 DEF StateSet
    <2>2. Alike(ev, ev') /\ ev'.st = "attention" /\ ev'.disp = ev.disp
      BY <2>1, Typed, StateEdit DEF States
    <2> QED
      BY <1>1, <1>3, <2>2, SameNodesAsItIs, EndedStep, NoEventTyped DEF CheckReport, Home
  <1> QED
    BY <1>2, <1>3 DEF CheckReport

LEMMA DeliverStep ==
  ASSUME IInv, Deliver
  PROVE  IInv'
  <1>1. pc = "delivering" /\ ev.kind = "deliver" /\ ev.st = "processing" /\ ev.kind \notin Sending
    BY DEF Deliver, IInv, PlaceSound, Sending
  <1>2. CASE plan' = [plan EXCEPT !.accepted = TRUE] /\ ev' = [ev EXCEPT !.st = "done"]
    <2>1. plan' = AcceptedSet(plan) /\ ev' = StateSet(ev, "done")
      BY <1>2 DEF AcceptedSet, StateSet
    <2>2. Alike(ev, ev') /\ ev'.st = "done" /\ ev'.disp = ev.disp
      BY <2>1, Typed, StateEdit DEF States
    <2>3. SameNodes(plan, plan')
      BY <2>1, Typed, OutcomeEdits
    <2> QED
      BY <1>1, <2>2, <2>3, EndedStep, NoEventTyped DEF Deliver, Home
  <1>3. CASE ev' = NoEvent /\ plan' = plan
    BY <1>1, <1>3, SameNodesAsItIs, EndedStep, NoEventTyped DEF Deliver, Home
  <1> QED
    BY <1>2, <1>3 DEF Deliver, Done

LEMMA ReplanStep ==
  ASSUME IInv, Replan
  PROVE  IInv'
  <1>1. pc = "executing" /\ ev.st = "processing" /\ ev.kind \notin Sending
    BY DEF Replan, Doing, IInv, PlaceSound, Sending
  <1>2. NoneOut
    BY <1>1, OutIsSent
  <1>3. plan' = ReplanSet(plan, plan.version + 1, Never)
    BY DEF Replan, ReplanSet
  <1>4. plan.version + 1 \in Nat /\ Never \in 0 .. Never
    BY Typed, NoEventTyped
  <1>5. plan' \in PlanSet /\ plan'.user = plan.user /\ plan'.node = plan.node
    BY <1>3, <1>4, Typed, ReplanEdit
  <1>6. EventSound'
    BY <1>5, NoEventTyped DEF Replan, IInv, EventSound, Sending
  <1>7. Still(plan')
    BY <1>2, <1>5, StillPlan
  <1> QED
    BY <1>2, <1>5, <1>6, <1>7, AtHome, FreshStep, NoEventTyped DEF Replan, Home, Places

LEMMA AddReviewerStep ==
  ASSUME IInv, NEW p \in People, AddReviewer(p)
  PROVE  IInv'
  <1>1. pc = "executing" /\ ev.st = "processing" /\ ev.kind \notin Sending
    BY DEF AddReviewer, Doing, IInv, PlaceSound, Sending
  <1>2. NoneOut
    BY <1>1, OutIsSent
  <1>3. NobodyWorks /\ receipt.st \notin Sent
    BY <1>2, NoneOutNoneWorks
  <1>4. plan' = UserSet(plan, user + 1) /\ user' = user + 1 /\ user' \in Nat /\ pc' = "idle"
    BY Typed DEF AddReviewer, UserSet, Home
  <1>5. plan' \in PlanSet /\ plan'.user = user + 1 /\ plan'.node = plan.node
    BY <1>4, Typed, UserEdit
  <1>6. TypeOK'
    BY <1>4, <1>5, NoEventTyped DEF AddReviewer, Home, IInv, TypeOK, files
  <1>7. PlaceSound' /\ HeldSound'
    BY <1>4, AtHome
  <1>8. EventSound'
    BY <1>4, <1>5, NoEventTyped DEF AddReviewer, EventSound, Sending
  <1>9. Still(plan')
    BY <1>2, <1>5, StillPlan
  <1>10. NodeSound' /\ InputSound' /\ WorkSound' /\ ReceiptSound' /\ DirectorySound'
    BY <1>3, <1>4, <1>9, Afresh, NoEventTyped DEF AddReviewer, Still
  <1> QED
    BY <1>6, <1>7, <1>8, <1>10 DEF IInv

(* Evidence of other files is void, and what rests on it starts over.      *)
LEMMA InvalidatedIs ==
  ASSUME IInv, NEW n \in Nodes
  PROVE  LET q == Invalidated(plan, n)
         IN  OfPlan(plan, q) /\ \A m \in Nodes : q.node[m] = Blank \/ q.node[m] = plan.node[m]
  <1> DEFINE f == [m \in Nodes |-> IF m \in After(n) THEN Blank ELSE plan.node[m]]
  <1>1. f \in [Nodes -> NodeSet] /\ \A m \in Nodes : f[m] = Blank \/ f[m] = plan.node[m]
    BY Typed, BlankTyped
  <1>2. Invalidated(plan, n) = NodesSet(plan, f, Never)
    BY DEF Invalidated, NodesSet
  <1> HIDE DEF f
  <1>3. LET q == NodesSet(plan, f, Never) IN OfPlan(plan, q) /\ q.node = f
    BY <1>1, Typed, NoEventTyped, NodesEdit
  <1> QED
    BY <1>1, <1>2, <1>3

LEMMA InvalidateStep ==
  ASSUME IInv, NEW n \in Nodes, Invalidate(n)
  PROVE  IInv'
  <1>1. NoneOut /\ pc = "idle" /\ pc' = "idle"
    BY DEF Invalidate, Free, Working, Calm, Quiet, With, NoneOut, tick
  <1>2. OfPlan(plan, plan') /\ \A m \in Nodes : plan'.node[m] = Blank \/ plan'.node[m] = plan.node[m]
    BY InvalidatedIs DEF Invalidate
  <1>3. Still(plan')
    BY <1>1, <1>2, BlankTyped DEF Still, NoneOut
  <1>4. EventSound'
    BY <1>2 DEF Invalidate, OfPlan, IInv, EventSound
  <1>5. plan' \in PlanSet /\ ev' \in EventSet /\ ev' = ev /\ look' \in 0 .. Never
    BY <1>2, Typed DEF OfPlan, Invalidate, tick, IInv, TypeOK
  <1> QED
    BY <1>1, <1>3, <1>4, <1>5, AtHome, FreshStep DEF Invalidate, tick, Places

(* New requirements, and nobody at work on the old ones.                   *)
LEMMA ResetStep ==
  ASSUME IInv, Reset
  PROVE  IInv'
  <1>1. NobodyWorks
    BY DEF Reset, IInv, WorkSound, NobodyWorks
  <1>2. receipt.st \notin Sent
    BY NothingUnderWay DEF Reset, Quiet
  <1>3. pc = "idle" /\ pc' = "idle" /\ look' \in 0 .. Never
    BY DEF Reset, Quiet, tick, IInv, TypeOK
  <1> DEFINE blank == [n \in Nodes |-> Blank]
             next == plan.version + 1
  <1>4. plan' = ResetSet(plan, blank, user, next)
    BY DEF Reset, ResetSet
  <1>5. next \in Nat /\ Never \in 0 .. Never /\ user \in Nat /\ plan \in PlanSet
    BY Typed, NoEventTyped
  <1>a. blank \in [Nodes -> NodeSet] /\ \A n \in Nodes : blank[n] = Blank
    BY BlankTyped
  <1> HIDE DEF blank, next
  <1>6. plan' \in PlanSet /\ plan'.user = user /\ plan'.node = blank
    <2>1. LET q == ResetSet(plan, blank, user, next)
          IN  q \in PlanSet /\ q.user = user /\ q.node = blank
      BY <1>5, <1>a, ResetEdit
    <2> QED
      BY <1>4, <2>1
  <1>7. TypeOK'
    BY <1>3, <1>6, TickTyped, NoEventTyped DEF Reset, Places
  <1>8. PlaceSound' /\ HeldSound'
    BY <1>3, AtHome
  <1>9. EventSound'
    BY <1>5, <1>6, NoEventTyped DEF Reset, EventSound, Sending
  <1>10. Still(plan')
    BY <1>6, <1>a, BlankTyped DEF Still
  <1>11. NodeSound' /\ InputSound' /\ WorkSound' /\ ReceiptSound' /\ DirectorySound'
    BY <1>1, <1>2, <1>3, <1>10, Afresh, NoEventTyped DEF Reset, Still
  <1> QED
    BY <1>7, <1>8, <1>9, <1>11 DEF IInv

(* A receipt is settled: the node is out no longer.                        *)
LEMMA SettleStep ==
  ASSUME IInv, Settle
  PROVE  IInv'
  <1>1. NobodyWorks /\ receipt.st \notin Sent
    BY SettlingNobodyWorks DEF Settle
  <1>2. /\ OfPlan(plan, plan')
        /\ \A n \in Nodes : plan'.node[n].st # "dispatched" /\ plan'.node[n].input = plan.node[n].input
    BY DEF Settle, IInv, HeldSound, OfPlan
  <1>3. pc' = "idle" /\ look' = Never /\ ev' = ev
    BY DEF Settle
  <1>4. TypeOK'
    BY <1>2, <1>3, TickTyped, NoEventTyped, Typed DEF Settle, Places, OfPlan
  <1>5. PlaceSound' /\ HeldSound'
    BY <1>3, AtHome
  <1>6. EventSound'
    BY <1>2, <1>3 DEF Settle, OfPlan, IInv, EventSound
  <1>7. NodeSound' /\ InputSound' /\ WorkSound' /\ ReceiptSound' /\ DirectorySound'
    BY <1>1, <1>2, <1>3, Afresh DEF Settle
  <1> QED
    BY <1>4, <1>5, <1>6, <1>7 DEF IInv

(* The output of the node that is out is read; its participant rests.      *)
LEMMA ReadOutputStep ==
  ASSUME IInv, NEW n \in Nodes, ReadOutput(n)
  PROVE  IInv'
  <1> DEFINE p == plan.node[n].who
             A == plan.authors \cup IF plan.node[n].rev # rev THEN {p} ELSE {}
             wrote == AuthorSet(plan, A)
             blocked == NodeStSet(wrote, n, "blocked")
             ended == NodeStSet(wrote, n, "completed")
             dated == NodeRevSet(ended, n, rev)
             done == ReportSet(dated, IF n \in Reports THEN rev ELSE dated.report)
  <1>1. /\ plan.node[n].st = "dispatched" /\ p \in crew /\ p \in People /\ worker[p].st = "done"
        /\ plan.user = user /\ pc = "idle" /\ receipt.st \notin Sent /\ rev \in Revs
    BY CalmIsQuiet, Typed DEF ReadOutput, Settles, Working
  <1>2. \A m \in Nodes \ {n} : plan.node[m].st # "dispatched"
    BY <1>1 DEF IInv, NodeSound
  <1>3. NobodyWorks
    <2>1. SUFFICES ASSUME NEW q \in People, worker[q].st = "working"
                   PROVE  FALSE
      BY DEF NobodyWorks
    <2>2. plan.node[n].who = q
      BY <1>2, <2>1 DEF IInv, WorkSound
    <2> QED
      BY <1>1, <2>1, <2>2
  <1>4. A \in SUBSET People /\ plan \in PlanSet
    BY <1>1, Typed DEF PlanSet
  <1>5. /\ plan' = wrote /\ pc' = "settling" /\ look' = rev /\ ev' = ev
        /\ held' = {done} \/ held' = {blocked}
        /\ worker' = worker /\ (trouble' = trouble \/ Trouble)
    BY DEF ReadOutput, AuthorSet, NodeStSet, NodeRevSet, ReportSet
  <1> HIDE DEF A
  <1>6. SameNodes(plan, wrote)
    BY <1>4, OutcomeEdits
  <1> HIDE DEF wrote
  <1>7. /\ OfPlan(wrote, blocked) /\ blocked.node[n].st = "blocked"
        /\ \A m \in Nodes : blocked.node[m].input = wrote.node[m].input
        /\ \A m \in Nodes \ {n} : blocked.node[m] = wrote.node[m]
    BY <1>6, NodeStEdit DEF SameNodes, OfPlan
  <1>8. /\ OfPlan(wrote, ended) /\ ended.node[n].st = "completed"
        /\ \A m \in Nodes : ended.node[m].input = wrote.node[m].input
        /\ \A m \in Nodes \ {n} : ended.node[m] = wrote.node[m]
    BY <1>6, NodeStEdit DEF SameNodes, OfPlan
  <1> HIDE DEF blocked, ended
  <1>9. rev \in 0 .. Never
    BY <1>1, NoEventTyped
  <1>10. /\ OfPlan(ended, dated)
         /\ \A m \in Nodes : dated.node[m].input = ended.node[m].input
                            /\ dated.node[m].st = ended.node[m].st
    BY <1>8, <1>9, NodeRevEdit DEF OfPlan
  <1> HIDE DEF dated
  <1>11. (IF n \in Reports THEN rev ELSE dated.report) \in 0 .. Never
    BY <1>9, <1>10 DEF OfPlan, PlanSet
  <1>12. SameNodes(dated, done)
    BY <1>10, <1>11, OutcomeEdits DEF OfPlan
  <1> HIDE DEF done
  <1>13. /\ OfPlan(wrote, blocked) /\ OfPlan(wrote, done)
         /\ \A m \in Nodes : blocked.node[m].st # "dispatched" /\ done.node[m].st # "dispatched"
         /\ \A m \in Nodes : blocked.node[m].input = wrote.node[m].input
                            /\ done.node[m].input = wrote.node[m].input
    BY <1>2, <1>6, <1>7, <1>8, <1>10, <1>12 DEF SameNodes, OfPlan
  <1>14. \A q \in People : worker'[q].st # "working"
    BY <1>3, <1>5 DEF NobodyWorks
  <1>15. TypeOK'
    <2>1. found' \in [Nodes \ Writers -> 0 .. Never]
      BY <1>9, NotedIs DEF ReadOutput, IInv, TypeOK
    <2>2. trouble' \in 0 .. MaxTrouble
      BY <1>5, WorkflowAssumption DEF IInv, TypeOK, Trouble
    <2>3. plan' \in PlanSet
      BY <1>5, <1>6 DEF SameNodes, OfPlan
    <2> QED
      BY <1>5, <1>9, <2>1, <2>2, <2>3 DEF ReadOutput, IInv, TypeOK, files
  <1>16. PlaceSound'
    BY <1>5 DEF PlaceSound
  <1>17. EventSound'
    BY <1>5, <1>6 DEF SameNodes, OfPlan, ReadOutput, IInv, EventSound
  <1>18. HeldSound'
    BY <1>5, <1>13, <1>14 DEF HeldSound, OfPlan
  <1>19. NodeSound'
    BY <1>1, <1>5, <1>6 DEF SameNodes, ReadOutput, IInv, NodeSound, Adrift
  <1>20. InputSound'
    BY <1>5, <1>6 DEF SameNodes, ReadOutput, IInv, InputSound
  <1>21. WorkSound' /\ ReceiptSound'
    BY <1>1, <1>14, NoReceipt DEF WorkSound, ReadOutput
  <1>22. DirectorySound'
    BY <1>5, <1>14 DEF ReadOutput, IInv, DirectorySound, Blocking, Blocks
  <1> QED
    BY <1>15, <1>16, <1>17, <1>18, <1>19, <1>20, <1>21, <1>22 DEF IInv

(***************************************************************************)
(* An input is sent                                                        *)
(***************************************************************************)
LEMMA SendingIsSound ==
  ASSUME IInv, pc \in {"executing", "sending"}, ev.kind \in Sending
  PROVE  /\ ev.st = "processing" /\ ev.tries > 0 /\ ev.node \in Nodes /\ ev.who \in crew
         /\ ev.who \in People /\ ev.rev \in Revs /\ ev.user = plan.user
         /\ \A n \in Nodes : plan.node[n].st = "dispatched" =>
               ev.node = n /\ ev.disp # "none" /\ plan.node[n].who = ev.who /\ plan.node[n].input = inputs
         /\ receipt.st # "uncertain"
  BY Typed DEF IInv, PlaceSound, EventSound, NodeSound, Adrift, ReceiptSound, Sending

LEMMA PrepareStep ==
  ASSUME IInv, Prepare
  PROVE  IInv'
  <1>1. pc = "executing" /\ pc' = "sending" /\ ev.kind \in Sending
    BY DEF Prepare, Sends, Sending
  <1>2. /\ ~Blocking
        /\ ev.node \in Writers => other = "free"
    BY DEF Prepare, Available, Access, Blocking
  <1>3. receipt.st \notin Sent
    BY <1>1 DEF IInv, ReceiptSound, Sent
  <1>4. UNCHANGED <<rev, hands, user, crew, worker, runs, look, held, other, alive, trouble>>
    BY DEF Prepare
  <1>5. CASE ev.disp = "none"
    <2>1. NoneOut
      BY <1>5, <1>1, SendingIsSound DEF NoneOut
    <2>2. NobodyWorks
      BY <2>1, NoneOutNoneWorks
    <2>3. inputs' = inputs + 1 /\ receipt' = NoInput /\ ev' = Given(ev, rev)
      BY <1>5 DEF Prepare, Given
    <2>4. rev \in Revs /\ ev \in EventSet
      BY Typed
    <2>5. rev \in 0 .. Never
      BY <2>4, NoEventTyped
    <2>6. /\ ev' \in EventSet /\ ev'.kind = ev.kind /\ ev'.node = ev.node /\ ev'.who = ev.who
          /\ ev'.st = ev.st /\ ev'.disp = "pending" /\ ev'.tries = ev.tries /\ ev'.rev = rev
          /\ ev'.user = ev.user /\ ev'.version = ev.version
      BY <2>3, <2>4, <2>5, GivenEdit
    <2>7. ev.node \in Nodes
      BY <1>1, SendingIsSound
    <2>8. OfPlan(plan, plan') /\ Still(plan')
      <3>1. CASE plan' = plan
        BY <3>1, <2>1, StillPlan, Typed DEF OfPlan
      <3>2. CASE plan' = Invalidated(plan, ev.node)
        BY <3>2, <2>1, <2>7, InvalidatedIs, BlankTyped DEF NoneOut, Still
      <3> QED
        BY <1>5, <3>1, <3>2 DEF Prepare
    <2>9. TypeOK'
      <3>1. given' = Noted(given, ev.node, rev) /\ found' = Noted(found, ev.node, Never)
        BY <1>5 DEF Prepare
      <3>2. /\ given' \in [Nodes \ Writers -> 0 .. Never]
            /\ found' \in [Nodes \ Writers -> 0 .. Never]
        BY <2>5, <3>1, NotedIs, NoEventTyped DEF IInv, TypeOK
      <3>3. proved' \subseteq Nodes
        BY <1>5, <2>7 DEF Prepare, IInv, TypeOK
      <3> QED
        BY <1>1, <1>4, <2>3, <2>6, <2>8, <3>2, <3>3 DEF OfPlan, NoInput, Nobody, IInv, TypeOK
    <2>10. PlaceSound' /\ HeldSound'
      BY <1>1, <2>6, SendingIsSound DEF PlaceSound, HeldSound
    <2>11. EventSound'
      BY <1>1, <1>4, <2>4, <2>6, <2>8, SendingIsSound DEF OfPlan, IInv, EventSound
    <2>12. NodeSound' /\ WorkSound' /\ ReceiptSound'
      BY <1>4, <2>2, <2>3, <2>8 DEF Still, NodeSound, WorkSound, NobodyWorks, ReceiptSound, NoInput, Sent
    <2>13. InputSound'
      BY <2>3, <2>8, Typed DEF Still, IInv, InputSound, NodeSet
    <2>14. DirectorySound'
      BY <1>2, <1>4, <2>2, <2>3, <2>6 DEF IInv, DirectorySound, Blocking, Blocks, NobodyWorks, NoInput, Sent
    <2> QED
      BY <2>9, <2>10, <2>11, <2>12, <2>13, <2>14 DEF IInv
  <1>6. CASE ev.disp # "none"
    <2>1. UNCHANGED <<inputs, receipt, ev, plan, given, found, proved>>
      BY <1>6 DEF Prepare
    <2>2. TypeOK'
      BY <1>1, <1>4, <2>1 DEF IInv, TypeOK
    <2>3. PlaceSound' /\ HeldSound'
      BY <1>1, <1>6, <2>1, SendingIsSound DEF PlaceSound, HeldSound
    <2>4. EventSound' /\ InputSound' /\ WorkSound' /\ ReceiptSound'
      BY <1>3, <1>4, <2>1, NoReceipt DEF IInv, EventSound, InputSound, WorkSound
    <2>5. NodeSound'
      BY <1>1, <1>6, <2>1, SendingIsSound DEF IInv, NodeSound
    <2>6. DirectorySound'
      BY <1>2, <1>4, <2>1 DEF IInv, DirectorySound, Blocking, Blocks
    <2> QED
      BY <2>2, <2>3, <2>4, <2>5, <2>6 DEF IInv
  <1> QED
    BY <1>5, <1>6

(* The node is marked, and its input leaves.                               *)
LEMMA MarkStep ==
  ASSUME IInv, Mark
  PROVE  IInv'
  <1> DEFINE n == ev.node
             x == [st |-> "dispatched", who |-> ev.who, rev |-> ev.rev, input |-> inputs]
             A == plan.authors \cup Authored(n, ev.who)
             p == NodeIs(plan, n, x)
  <1>1. pc = "sending" /\ pc' = "sending" /\ ev.kind \in Sending /\ ev.disp # "none"
    BY DEF Mark, tick, IInv, PlaceSound
  <1>2. /\ ev.st = "processing" /\ ev.tries > 0 /\ n \in Nodes /\ ev.who \in crew
        /\ ev.who \in People /\ ev.rev \in Revs
        /\ \A m \in Nodes : plan.node[m].st = "dispatched" =>
              n = m /\ plan.node[m].who = ev.who /\ plan.node[m].input = inputs
        /\ receipt.st # "uncertain"
    BY <1>1, SendingIsSound
  <1>3. UNCHANGED <<files, user, crew, worker, runs, tick, other, alive, inputs, trouble>>
    BY DEF Mark
  <1>4. inputs > 0 /\ \A m \in Nodes : plan.node[m].input = inputs => m = n
    BY <1>1 DEF IInv, InputSound
  <1>5. ev' = FateSet(ev, "pending")
    BY DEF Mark, FateSet
  <1>6. Alike(ev, ev') /\ ev'.st = ev.st /\ ev'.disp = "pending" /\ ev'.tries = ev.tries
    BY <1>5, Typed, FateEdit DEF Fates
  <1>7. receipt' = [st |-> "pending", who |-> ev.who, node |-> n]
    BY DEF Mark
  <1>8. /\ OfPlan(plan, plan') /\ plan'.node[n] = x
        /\ \A m \in Nodes \ {n} : plan'.node[m] = plan.node[m]
    <2>1. x \in NodeSet
      BY <1>2, Typed, NoEventTyped DEF NodeSet
    <2>2. A \in SUBSET People
      BY <1>2, Typed DEF PlanSet, Authored
    <2>3. plan' = AuthorSet(p, A)
      BY Typed DEF Mark, AuthorSet, NodeIs
    <2> HIDE DEF A, x
    <2>4. OfPlan(plan, p) /\ p.node[n] = x /\ \A m \in Nodes \ {n} : p.node[m] = plan.node[m]
      BY <1>2, <2>1, Typed, NodeEdit
    <2> HIDE DEF p
    <2>5. SameNodes(p, AuthorSet(p, A))
      BY <2>2, <2>4, OutcomeEdits DEF OfPlan
    <2> QED
      BY <2>3, <2>4, <2>5 DEF SameNodes, OfPlan
  <1>9. /\ plan'.node[n].st = "dispatched" /\ plan'.node[n].who = ev.who
        /\ plan'.node[n].input = inputs
    BY <1>8
  <1>10. \A m \in Nodes \ {n} : plan'.node[m].st # "dispatched"
    BY <1>2, <1>8
  <1>11. TypeOK'
    <2>1. receipt' \in [st : {"none", "pending", "done", "failed", "uncertain"},
                        who : People \cup {Nobody}, node : Nodes \cup {"none"}]
      BY <1>2, <1>7
    <2> QED
      BY <1>3, <1>6, <1>8, <2>1 DEF Alike, OfPlan, IInv, TypeOK, files, tick
  <1>12. PlaceSound' /\ HeldSound'
    BY <1>1, <1>2, <1>6 DEF PlaceSound, HeldSound, Alike
  <1>13. EventSound'
    <2>1. plan'.user = plan.user /\ plan'.version = plan.version /\ plan'.needed = plan.needed
      BY <1>8 DEF OfPlan
    <2>2. /\ ev'.kind = ev.kind /\ ev'.node = ev.node /\ ev'.who = ev.who /\ ev'.rev = ev.rev
          /\ ev'.user = ev.user /\ ev'.version = ev.version /\ ev'.st = "processing"
      BY <1>2, <1>6 DEF Alike
    <2> QED
      BY <1>1, <1>2, <1>3, <2>1, <2>2 DEF IInv, EventSound
  <1>14. NodeSound'
    BY <1>1, <1>3, <1>6, <1>9, <1>10 DEF Alike, NodeSound
  <1>15. InputSound'
    BY <1>3, <1>4, <1>6, <1>8, <1>9, Typed DEF Alike, IInv, InputSound
  <1>16. WorkSound'
    BY <1>2, <1>3, <1>9 DEF IInv, WorkSound
  <1>17. ~Blocking
    BY <1>1 DEF IInv, DirectorySound
  <1>18. ReceiptSound'
    BY <1>1, <1>3, <1>6, <1>7, <1>9, <1>17 DEF Alike, ReceiptSound, Sent, Blocking, Blocks
  <1>19. DirectorySound'
    <2>1. ev'.node = n /\ receipt'.node = n
      BY <1>6, <1>7 DEF Alike
    <2>2. UNCHANGED <<runs, worker, other, alive>> /\ ~Blocking'
      BY <1>3, <1>17 DEF Blocking, Blocks
    <2>3. n \in Writers => other' = "free"
      BY <1>1, <2>2 DEF IInv, DirectorySound
    <2>4. \A r \in alive' : Blocks(r)'
      BY <2>2 DEF IInv, DirectorySound, Blocks
    <2>5. \A r, t \in alive' : r = t
      BY <2>2 DEF IInv, DirectorySound
    <2>6. \A q \in People, m \in Writers :
             worker'[q].st = "working" /\ plan'.node[m].st = "dispatched" => other' = "free"
      BY <1>10, <2>3, WorkflowAssumption
    <2> QED
      BY <2>1, <2>2, <2>3, <2>4, <2>5, <2>6 DEF DirectorySound
  <1> QED
    BY <1>11, <1>12, <1>13, <1>14, <1>15, <1>16, <1>18, <1>19 DEF IInv

LEMMA SentIsSound ==
  ASSUME IInv, receipt.st \in Sent
  PROVE  /\ ev.kind \in Sending /\ ev.node \in Nodes /\ ev.who \in crew /\ ev.who \in People
         /\ receipt.node = ev.node /\ receipt.who = ev.who
         /\ plan.node[ev.node].st = "dispatched" /\ plan.node[ev.node].who = ev.who
         /\ plan.node[ev.node].input = inputs /\ inputs > 0 /\ ~Blocking /\ ev.disp # "none"
         /\ \A n \in Nodes : plan.node[n].st = "dispatched" => n = ev.node
  <1>1. /\ ev.kind \in Sending /\ receipt.node = ev.node /\ receipt.who = ev.who
        /\ plan.node[ev.node].st = "dispatched" /\ plan.node[ev.node].who = ev.who
        /\ plan.node[ev.node].input = inputs /\ ~Blocking /\ ev.disp # "none"
    BY DEF IInv, ReceiptSound, Sent
  <1>2. ev.node \in Nodes /\ ev.who \in crew /\ ev.who \in People
    BY <1>1, Typed DEF IInv, EventSound
  <1>3. inputs > 0
    BY <1>1 DEF IInv, InputSound
  <1>4. \A n \in Nodes : plan.node[n].st = "dispatched" => n = ev.node
    BY <1>1, <1>2 DEF IInv, NodeSound
  <1> QED
    BY <1>1, <1>2, <1>3, <1>4

(* The input arrives, in time or late.                                     *)
LEMMA ArrivesSound ==
  ASSUME IInv, receipt.st \in Sent, Arrives, pc' = "idle", receipt'.node = receipt.node,
         UNCHANGED <<crew, plan, runs, other, alive, inputs>>
  PROVE  /\ worker' \in [People -> [st : {"idle", "working", "done"}, input : Nat]]
         /\ hands' \subseteq People /\ WorkSound' /\ DirectorySound'
  <1> DEFINE p == receipt.who
             n == receipt.node
  <1>1. /\ n = ev.node /\ p = ev.who /\ n \in Nodes /\ p \in crew /\ p \in People
        /\ plan.node[n].st = "dispatched" /\ plan.node[n].who = p /\ plan.node[n].input = inputs
        /\ inputs > 0 /\ ~Blocking
        /\ \A m \in Nodes : plan.node[m].st = "dispatched" => m = n
    BY SentIsSound
  <1>2. worker' = [worker EXCEPT ![p] = [st |-> "working", input |-> inputs]]
    BY DEF Arrives
  <1>3. /\ worker \in [People -> [st : {"idle", "working", "done"}, input : Nat]]
        /\ hands \subseteq People /\ inputs \in Nat
    BY DEF IInv, TypeOK
  <1>4. hands' = hands \cup IF n \in Writers THEN {p} ELSE {}
    BY DEF Arrives
  <1> HIDE DEF n, p
  <1>5. worker' \in [People -> [st : {"idle", "working", "done"}, input : Nat]]
    BY <1>1, <1>2, <1>3
  <1>6. hands' \subseteq People
    BY <1>1, <1>3, <1>4
  <1>7. /\ worker'[p].st = "working" /\ worker'[p].input = inputs
        /\ \A q \in People \ {p} : worker'[q] = worker[q]
    BY <1>1, <1>2, <1>3
  <1>8. WorkSound'
    <2>1. SUFFICES ASSUME NEW q \in People, worker'[q].st = "working"
                   PROVE  /\ q \in crew
                          /\ \E m \in Nodes : /\ plan.node[m].st = "dispatched" /\ plan.node[m].who = q
                                              /\ plan.node[m].input = worker'[q].input
                                              /\ worker'[q].input # 0
      BY DEF WorkSound
    <2>2. CASE q = p
      BY <1>1, <1>3, <1>7, <2>2
    <2>3. CASE q # p
      BY <1>7, <2>1, <2>3 DEF IInv, WorkSound
    <2> QED
      BY <2>2, <2>3
  <1>9. DirectorySound'
    <2>1. n \in Writers => other' = "free"
      BY DEF IInv, DirectorySound, n
    <2>2. ~Blocking' /\ UNCHANGED <<runs, other, alive, plan>>
      BY <1>1 DEF Blocking, Blocks
    <2>3. \A q \in People, m \in Writers :
             worker'[q].st = "working" /\ plan'.node[m].st = "dispatched" => other' = "free"
      BY <1>1, <2>1, <2>2, WorkflowAssumption
    <2>4. /\ \A r \in alive' : Blocks(r)'
          /\ \A r, t \in alive' : r = t
      BY <2>2 DEF IInv, DirectorySound, Blocks
    <2>5. receipt'.node = n
      BY DEF n
    <2> QED
      BY <2>1, <2>2, <2>3, <2>4, <2>5 DEF DirectorySound
  <1> QED
    BY <1>5, <1>6, <1>8, <1>9

LEMMA LateStep ==
  ASSUME IInv, Late
  PROVE  IInv'
  <1>1. receipt.st = "uncertain" /\ receipt.st \in Sent /\ pc = "idle"
    BY DEF Late, Sent, IInv, ReceiptSound
  <1>2. /\ Arrives
        /\ UNCHANGED <<rev, given, found, proved, user, crew, plan, ev, receipt, runs, tick, other, alive,
                       inputs, trouble>>
    BY DEF Late
  <1>3. /\ worker' \in [People -> [st : {"idle", "working", "done"}, input : Nat]]
        /\ hands' \subseteq People /\ WorkSound' /\ DirectorySound'
    BY <1>1, <1>2, ArrivesSound DEF tick
  <1>4. TypeOK'
    BY <1>2, <1>3 DEF IInv, TypeOK, tick
  <1>5. PlaceSound' /\ HeldSound'
    BY <1>1, <1>2, AtHome DEF tick
  <1>6. EventSound' /\ NodeSound' /\ InputSound'
    BY <1>2 DEF tick, IInv, EventSound, NodeSound, Adrift, InputSound
  <1>7. ReceiptSound'
    BY <1>2 DEF tick, IInv, ReceiptSound, Blocking, Blocks
  <1> QED
    BY <1>3, <1>4, <1>5, <1>6, <1>7 DEF IInv

(* The receipt's new state; whose input it is stays.                       *)
LEMMA ReceiptEdit ==
  ASSUME IInv, NEW st \in {"none", "pending", "done", "failed", "uncertain"}, Keep(st)
  PROVE  /\ receipt' \in [st : {"none", "pending", "done", "failed", "uncertain"},
                          who : People \cup {Nobody}, node : Nodes \cup {"none"}]
         /\ receipt'.st = st /\ receipt'.who = receipt.who /\ receipt'.node = receipt.node
  BY DEF Keep, IInv, TypeOK

LEMMA SendStep ==
  ASSUME IInv, Send
  PROVE  IInv'
  <1>1. /\ pc = "sending" /\ pc' = "idle" /\ look' = Never /\ held' = {} /\ receipt.st = "pending"
        /\ receipt.st \in Sent
        /\ UNCHANGED <<rev, given, found, proved, user, crew, plan, runs, other, alive, inputs>>
    BY DEF Send, Home, Sent
  <1>2. /\ ev.kind \in Sending /\ ev.st = "processing" /\ ev.disp # "none"
    BY <1>1 DEF IInv, PlaceSound
  <1>3. PlaceSound' /\ HeldSound'
    BY <1>1, AtHome
  <1>4. CASE Arrives /\ Keep("done") /\ ev' = [ev EXCEPT !.disp = "sent", !.st = "done"]
             /\ UNCHANGED trouble
    <2>1. ev' = BothSet(ev, "sent", "done")
      BY <1>4 DEF BothSet
    <2>2. Alike(ev, ev') /\ ev'.st = "done" /\ ev'.disp = "sent"
      BY <2>1, Typed, BothEdit DEF States, Fates
    <2>3. /\ receipt' \in [st : {"none", "pending", "done", "failed", "uncertain"},
                           who : People \cup {Nobody}, node : Nodes \cup {"none"}]
          /\ receipt'.st = "done" /\ receipt'.node = receipt.node
      BY <1>4, ReceiptEdit
    <2>4. /\ worker' \in [People -> [st : {"idle", "working", "done"}, input : Nat]]
          /\ hands' \subseteq People /\ WorkSound' /\ DirectorySound'
      BY <1>1, <1>4, <2>3, ArrivesSound
    <2>5. TypeOK'
      BY <1>1, <1>4, <2>2, <2>3, <2>4, NoEventTyped DEF Alike, IInv, TypeOK
    <2>6. EventSound'
      BY <1>1, <1>2, <2>2 DEF Alike, IInv, EventSound
    <2>7. NodeSound' /\ InputSound'
      BY <1>1, <1>2, <2>2 DEF Alike, IInv, NodeSound, Adrift, InputSound
    <2>8. ReceiptSound'
      BY <2>3 DEF ReceiptSound, Sent
    <2> QED
      BY <1>3, <2>4, <2>5, <2>6, <2>7, <2>8 DEF IInv
  <1>5. CASE /\ Keep("failed") /\ UNCHANGED <<worker, hands>> /\ (trouble' = trouble \/ Trouble)
             /\ ev' = IF Current(ev) THEN [AfterFailure EXCEPT !.disp = "failed"] ELSE NoEvent
    <2>1. /\ receipt' \in [st : {"none", "pending", "done", "failed", "uncertain"},
                           who : People \cup {Nobody}, node : Nodes \cup {"none"}]
          /\ receipt'.st = "failed" /\ receipt'.node = receipt.node
      BY <1>5, ReceiptEdit
    <2>2. \/ ev' = NoEvent /\ plan.user # user
          \/ /\ Alike(ev, ev') /\ ev'.disp = "failed" /\ ev'.st \in {"attention", "pending"}
      <3>1. CASE ~Current(ev)
        BY <1>2, <1>5, <3>1, NotCurrent
      <3>2. CASE Current(ev)
        <4>1. /\ Alike(ev, AfterFailure) /\ AfterFailure.st \in {"attention", "pending"}
          BY <1>2, <3>2, AfterFailureIs
        <4>2. ev' = FateSet(AfterFailure, "failed")
          BY <1>5, <3>2 DEF FateSet
        <4>3. AfterFailure \in EventSet /\ "failed" \in Fates
          BY <4>1 DEF Alike, Fates
        <4>4. /\ Alike(AfterFailure, ev') /\ ev'.st = AfterFailure.st /\ ev'.disp = "failed"
          BY <4>2, <4>3, FateEdit
        <4> QED
          BY <4>1, <4>4 DEF Alike
      <3> QED
        BY <3>1, <3>2
    <2>3. TypeOK'
      <3>1. ev' \in EventSet
        BY <2>2, NoEventTyped DEF Alike
      <3>2. trouble' \in 0 .. MaxTrouble
        BY <1>5, WorkflowAssumption DEF IInv, TypeOK, Trouble
      <3> QED
        BY <1>1, <1>5, <2>1, <3>1, <3>2, NoEventTyped DEF IInv, TypeOK
    <2>4. EventSound'
      BY <1>1, <1>2, <2>2, NoEventTyped DEF Alike, IInv, EventSound, Sending
    <2>5. NodeSound' /\ InputSound'
      BY <1>1, <1>2, <2>2, NoEventTyped DEF Alike, IInv, NodeSound, Adrift, InputSound, Sending
    <2>6. WorkSound' /\ ReceiptSound'
      BY <1>1, <1>5, <2>1 DEF IInv, WorkSound, ReceiptSound, Sent
    <2>7. DirectorySound'
      BY <1>1, <1>5, <2>1 DEF IInv, DirectorySound, Sent, Blocking, Blocks
    <2> QED
      BY <1>3, <2>3, <2>4, <2>5, <2>6, <2>7 DEF IInv
  <1>6. CASE /\ Trouble /\ Keep("uncertain") /\ UNCHANGED <<worker, hands>>
             /\ ev' = [ev EXCEPT !.disp = "uncertain", !.st = "attention"]
    <2>1. ev' = BothSet(ev, "uncertain", "attention")
      BY <1>6 DEF BothSet
    <2>2. Alike(ev, ev') /\ ev'.st = "attention" /\ ev'.disp = "uncertain"
      BY <2>1, Typed, BothEdit DEF States, Fates
    <2>3. /\ receipt' \in [st : {"none", "pending", "done", "failed", "uncertain"},
                           who : People \cup {Nobody}, node : Nodes \cup {"none"}]
          /\ receipt'.st = "uncertain" /\ receipt'.node = receipt.node /\ receipt'.who = receipt.who
      BY <1>6, ReceiptEdit
    <2>4. TypeOK'
      <3>1. trouble' \in 0 .. MaxTrouble
        BY <1>6, WorkflowAssumption DEF IInv, TypeOK, Trouble
      <3> QED
        BY <1>1, <1>6, <2>2, <2>3, <3>1, NoEventTyped DEF Alike, IInv, TypeOK
    <2>5. EventSound'
      BY <1>1, <1>2, <2>2 DEF Alike, IInv, EventSound
    <2>6. NodeSound' /\ InputSound'
      BY <1>1, <1>2, <2>2 DEF Alike, IInv, NodeSound, Adrift, InputSound
    <2>7. WorkSound'
      BY <1>1, <1>6 DEF IInv, WorkSound
    <2>8. ReceiptSound'
      BY <1>1, <2>2, <2>3, SentIsSound DEF Alike, ReceiptSound, Blocking, Blocks
    <2>9. DirectorySound'
      BY <1>1, <1>6, <2>3 DEF IInv, DirectorySound, Blocking, Blocks
    <2> QED
      BY <1>3, <2>4, <2>5, <2>6, <2>7, <2>8, <2>9 DEF IInv
  <1> QED
    BY <1>4, <1>5, <1>6 DEF Send

(***************************************************************************)
(* The project's command                                                   *)
(***************************************************************************)
RunSet == [cancelled : Nat, st : {"none", "running", "passed", "failed", "unknown"}]

RunIs(f, r, st) == [f EXCEPT ![r].st = st]
RunStopped(f, r) == [f EXCEPT ![r] = [cancelled |-> @.cancelled + 1, st |-> "none"]]

LEMMA RunEdits ==
  ASSUME NEW f \in [Revs -> RunSet], NEW r \in Revs
  PROVE  /\ \A st \in {"none", "running", "passed", "failed", "unknown"} :
              LET g == RunIs(f, r, st)
              IN  g \in [Revs -> RunSet] /\ g[r].st = st /\ \A t \in Revs \ {r} : g[t] = f[t]
         /\ LET g == RunStopped(f, r)
            IN  g \in [Revs -> RunSet] /\ g[r].st = "none" /\ \A t \in Revs \ {r} : g[t] = f[t]
  BY DEF RunSet, RunIs, RunStopped

LEMMA RunCommandStep ==
  ASSUME IInv, RunCommand
  PROVE  IInv'
  <1> DEFINE r == ev.rev
  <1>1. /\ pc = "executing" /\ ev.kind = "verify" /\ ev.st = "processing" /\ ev.tries > 0
        /\ r \in Revs /\ ev.kind \notin Sending
    BY DEF RunCommand, Doing, IInv, PlaceSound, EventSound, Sending
  <1>2. ~Blocking /\ other = "free"
    BY DEF RunCommand, Available, Blocking
  <1>3. NoneOut
    BY <1>1, OutIsSent
  <1>4. NobodyWorks /\ receipt.st \notin Sent
    BY <1>3, NoneOutNoneWorks
  <1>5. UNCHANGED <<files, user, crew, worker, plan, ev, receipt, look, held, other, inputs, trouble>>
    BY DEF RunCommand
  <1>6. \/ /\ runs' = [runs EXCEPT ![r].st = "running"] /\ alive' = alive \cup {r}
           /\ pc' = "running"
        \/ pc' = "judging" /\ UNCHANGED <<runs, alive>>
    BY DEF RunCommand
  <1>7. /\ runs' \in [Revs -> RunSet] /\ alive' \subseteq Revs
        /\ pc' = "running" => runs'[r].st = "running"
        /\ \A s \in alive' : Blocks(s)'
        /\ \A s, t \in alive' : s = t
    <2>1. CASE pc' = "judging" /\ UNCHANGED <<runs, alive>>
      BY <2>1 DEF IInv, TypeOK, RunSet, DirectorySound, Blocks
    <2>2. CASE /\ runs' = [runs EXCEPT ![r].st = "running"] /\ alive' = alive \cup {r}
               /\ pc' = "running"
      <3>1. alive = {}
        BY <1>2 DEF IInv, TypeOK, DirectorySound, Blocking
      <3>a. runs \in [Revs -> RunSet] /\ runs' = RunIs(runs, r, "running")
        BY <2>2 DEF RunIs, IInv, TypeOK, RunSet
      <3>2. runs' \in [Revs -> RunSet] /\ runs'[r].st = "running"
        BY <1>1, <3>a, RunEdits
      <3> QED
        BY <1>1, <2>2, <3>1, <3>2 DEF Blocks
    <2> QED
      BY <1>6, <2>1, <2>2
  <1>8. TypeOK'
    BY <1>5, <1>6, <1>7 DEF IInv, TypeOK, RunSet, files
  <1>9. PlaceSound' /\ HeldSound'
    BY <1>1, <1>5, <1>6, <1>7 DEF PlaceSound, HeldSound
  <1>10. EventSound'
    BY <1>5 DEF IInv, EventSound
  <1>11. NodeSound' /\ InputSound' /\ WorkSound' /\ ReceiptSound'
    BY <1>3, <1>4, <1>5, AfreshNodes DEF NoneOut
  <1>12. DirectorySound'
    BY <1>2, <1>4, <1>5, <1>6, <1>7 DEF DirectorySound, NobodyWorks
  <1> QED
    BY <1>8, <1>9, <1>10, <1>11, <1>12 DEF IInv

LEMMA EndCommandStep ==
  ASSUME IInv, EndCommand
  PROVE  IInv'
  <1> DEFINE r == ev.rev
  <1>1. /\ pc = "running" /\ pc' = "judging" /\ ev.kind = "verify" /\ ev.st = "processing"
        /\ ev.tries > 0 /\ r \in Revs /\ ev.kind \notin Sending /\ runs[r].st = "running"
    BY DEF EndCommand, IInv, PlaceSound, EventSound, Sending
  <1>2. Blocking /\ other # "writing"
    BY <1>1 DEF Blocking, Blocks, IInv, DirectorySound
  <1>3. NoneOut
    BY <1>1, OutIsSent
  <1>4. NobodyWorks /\ receipt.st \notin Sent
    BY <1>3, NoneOutNoneWorks
  <1>5. UNCHANGED <<files, user, crew, worker, plan, ev, receipt, look, held, other, inputs>>
    BY DEF EndCommand
  <1>6. /\ runs' \in [Revs -> RunSet] /\ alive' \subseteq alive
        /\ \A s \in alive' : Blocks(s)'
        /\ trouble' = trouble \/ Trouble
    <2>1. alive \subseteq Revs /\ \A s \in alive : Blocks(s)
      BY DEF IInv, TypeOK, DirectorySound
    <2>2. runs \in [Revs -> RunSet]
      BY DEF IInv, TypeOK, RunSet
    <2>3. /\ runs' \in [Revs -> RunSet] /\ \A t \in Revs \ {r} : runs'[t] = runs[t]
          /\ alive' = alive \ {r} \/ (alive' = alive /\ runs'[r].st = "unknown")
          /\ trouble' = trouble \/ Trouble
      <3>1. ASSUME NEW st \in {"passed", "failed"}, runs' = [runs EXCEPT ![r].st = st],
                   alive' = alive \ {r}, UNCHANGED trouble
            PROVE  <2>3
        <4>1. runs' = RunIs(runs, r, st)
          BY <3>1 DEF RunIs
        <4> QED
          BY <1>1, <2>2, <3>1, <4>1, RunEdits
      <3>2. ASSUME runs' = [runs EXCEPT ![r] = [cancelled |-> @.cancelled + 1, st |-> "none"]],
                   alive' = alive \ {r}, UNCHANGED trouble
            PROVE  <2>3
        <4>1. runs' = RunStopped(runs, r)
          BY <3>2 DEF RunStopped
        <4> QED
          BY <1>1, <2>2, <3>2, <4>1, RunEdits
      <3>3. ASSUME runs' = [runs EXCEPT ![r].st = "unknown"], UNCHANGED alive, Trouble
            PROVE  <2>3
        <4>1. runs' = RunIs(runs, r, "unknown")
          BY <3>3 DEF RunIs
        <4> QED
          BY <1>1, <2>2, <3>3, <4>1, RunEdits
      <3> QED
        BY <3>1, <3>2, <3>3 DEF EndCommand
    <2> QED
      BY <2>1, <2>3 DEF Blocks
  <1>7. trouble' \in 0 .. MaxTrouble
    BY <1>6, WorkflowAssumption DEF IInv, TypeOK, Trouble
  <1>8. TypeOK'
    BY <1>1, <1>5, <1>6, <1>7 DEF IInv, TypeOK, RunSet, files
  <1>9. PlaceSound' /\ HeldSound'
    BY <1>1, <1>5 DEF PlaceSound, HeldSound
  <1>10. EventSound'
    BY <1>5 DEF IInv, EventSound
  <1>11. NodeSound' /\ InputSound' /\ WorkSound' /\ ReceiptSound'
    BY <1>3, <1>4, <1>5, AfreshNodes DEF NoneOut
  <1>12. DirectorySound'
    BY <1>1, <1>2, <1>4, <1>5, <1>6 DEF IInv, DirectorySound, NobodyWorks
  <1> QED
    BY <1>8, <1>9, <1>10, <1>11, <1>12 DEF IInv

(* The service dies: its command goes on, its input may still arrive.      *)
LEMMA CrashStep ==
  ASSUME IInv, Crash
  PROVE  IInv'
  <1>1. /\ pc # "idle" /\ pc' = "idle" /\ look' = Never /\ held' = {} /\ Trouble
        /\ UNCHANGED <<files, user, crew, worker, plan, ev, other, alive, inputs>>
    BY DEF Crash, Home
  <1>2. runs' \in [Revs -> RunSet] /\ \A r \in Revs : Blocks(r)' <=> Blocks(r)
    <2>1. runs \in [Revs -> RunSet] /\ runs' = [r \in Revs |-> Lost(runs[r])]
      BY DEF IInv, TypeOK, RunSet, Crash
    <2>2. \A r \in Revs : Lost(runs[r]) \in RunSet
      BY <2>1 DEF Lost, RunSet
    <2>3. \A r \in Revs : Lost(runs[r]).st \in {"running", "unknown"} <=> Blocks(r)
      BY <2>1 DEF Lost, RunSet, Blocks
    <2>4. \A r \in Revs : runs'[r] = Lost(runs[r])
      BY <2>1
    <2> QED
      BY <2>1, <2>2, <2>3, <2>4 DEF Blocks
  <1>3. Blocking' <=> Blocking
    BY <1>2 DEF Blocking
  <1> DEFINE st == IF receipt.st = "pending" THEN "uncertain" ELSE receipt.st
  <1>4. st \in {"none", "pending", "done", "failed", "uncertain"} /\ Keep(st)
    BY Typed DEF Crash
  <1> HIDE DEF st
  <1>5. /\ receipt' \in [st : {"none", "pending", "done", "failed", "uncertain"},
                         who : People \cup {Nobody}, node : Nodes \cup {"none"}]
        /\ receipt'.st = st /\ receipt'.who = receipt.who /\ receipt'.node = receipt.node
    BY <1>4, ReceiptEdit
  <1>6. TypeOK'
    <2>1. trouble' \in 0 .. MaxTrouble
      BY <1>1, WorkflowAssumption DEF IInv, TypeOK, Trouble
    <2> QED
      BY <1>1, <1>2, <1>5, <2>1, NoEventTyped DEF IInv, TypeOK, RunSet, files
  <1>7. PlaceSound' /\ HeldSound'
    BY <1>1, AtHome
  <1>8. EventSound' /\ InputSound' /\ WorkSound'
    BY <1>1 DEF IInv, EventSound, InputSound, WorkSound
  <1>9. NodeSound'
    BY <1>1 DEF IInv, NodeSound, Adrift
  <1>10. ReceiptSound'
    <2>1. receipt.st # "uncertain"
      BY <1>1 DEF IInv, ReceiptSound
    <2>2. receipt'.st = "uncertain" \/ receipt'.st \notin Sent
      BY <1>5, <2>1 DEF st, Sent
    <2>3. receipt'.st = "uncertain" => receipt.st = "pending"
      BY <1>5, <2>1 DEF st
    <2>4. receipt.st = "pending" =>
             /\ ev.kind \in Sending /\ receipt.node = ev.node /\ receipt.who = ev.who
             /\ plan.node[ev.node].st = "dispatched"
             /\ plan.node[ev.node].who = ev.who /\ plan.node[ev.node].input = inputs
             /\ ~Blocking /\ ev.disp = "pending" /\ ev.st = "processing"
      BY DEF IInv, ReceiptSound, Sent, PlaceSound
    <2> QED
      BY <1>1, <1>3, <1>5, <2>2, <2>3, <2>4 DEF ReceiptSound, Sent
  <1>11. DirectorySound'
    <2>1. receipt'.st \in Sent => receipt.st \in Sent
      BY <1>5 DEF st, Sent
    <2>2. \A r \in alive' : Blocks(r)'
      BY <1>1, <1>2 DEF IInv, TypeOK, DirectorySound
    <2> QED
      BY <1>1, <1>3, <1>5, <2>1, <2>2 DEF IInv, DirectorySound
  <1> QED
    BY <1>6, <1>7, <1>8, <1>9, <1>10, <1>11 DEF IInv

(***************************************************************************)
(* The world beside the tick                                               *)
(***************************************************************************)
LEMMA EditStep ==
  ASSUME IInv, Edit
  PROVE  IInv'
  <1>1. UNCHANGED <<user, crew, worker, plan, ev, receipt, runs, tick, other, alive, inputs, trouble>>
    BY DEF Edit
  <1>2. TypeOK'
    BY <1>1 DEF Edit, IInv, TypeOK, tick
  <1>3. PlaceSound' /\ EventSound' /\ HeldSound'
    BY <1>1 DEF tick, IInv, PlaceSound, EventSound, HeldSound
  <1>4. NodeSound' /\ InputSound' /\ WorkSound'
    BY <1>1 DEF tick, IInv, NodeSound, Adrift, InputSound, WorkSound
  <1>5. ReceiptSound' /\ DirectorySound'
    BY <1>1 DEF tick, IInv, ReceiptSound, DirectorySound, Blocking, Blocks
  <1> QED
    BY <1>2, <1>3, <1>4, <1>5 DEF IInv

LEMMA AnswerStep ==
  ASSUME IInv, NEW p \in People, Answer(p)
  PROVE  IInv'
  <1>1. /\ worker' = [worker EXCEPT ![p].st = "done"]
        /\ UNCHANGED <<files, user, crew, plan, ev, receipt, runs, tick, other, alive, inputs, trouble>>
    BY DEF Answer
  <1>2. /\ worker' \in [People -> [st : {"idle", "working", "done"}, input : Nat]]
        /\ \A q \in People : worker'[q].st = "working" => worker'[q] = worker[q]
    BY <1>1 DEF IInv, TypeOK
  <1>3. TypeOK'
    BY <1>1, <1>2 DEF IInv, TypeOK, tick, files
  <1>4. PlaceSound' /\ EventSound' /\ HeldSound'
    BY <1>1, <1>2 DEF tick, IInv, PlaceSound, EventSound, HeldSound
  <1>5. NodeSound' /\ InputSound' /\ ReceiptSound'
    BY <1>1 DEF tick, IInv, NodeSound, Adrift, InputSound, ReceiptSound, Blocking, Blocks
  <1>6. WorkSound'
    BY <1>1, <1>2 DEF IInv, WorkSound
  <1>7. DirectorySound'
    BY <1>1, <1>2, WorkflowAssumption DEF tick, IInv, DirectorySound, Blocking, Blocks
  <1> QED
    BY <1>3, <1>4, <1>5, <1>6, <1>7 DEF IInv

LEMMA ConfirmStep ==
  ASSUME IInv, Confirm
  PROVE  IInv'
  <1>1. UNCHANGED <<files, user, crew, worker, plan, ev, runs, tick, other, alive, inputs, trouble>>
    BY DEF Confirm
  <1>2. /\ receipt' \in [st : {"none", "pending", "done", "failed", "uncertain"},
                         who : People \cup {Nobody}, node : Nodes \cup {"none"}]
        /\ receipt'.st = "done"
    BY ReceiptEdit DEF Confirm
  <1>3. TypeOK'
    BY <1>1, <1>2 DEF IInv, TypeOK, tick, files
  <1>4. PlaceSound' /\ EventSound' /\ HeldSound'
    BY <1>1 DEF tick, IInv, PlaceSound, EventSound, HeldSound
  <1>5. NodeSound' /\ InputSound' /\ WorkSound'
    BY <1>1 DEF tick, IInv, NodeSound, Adrift, InputSound, WorkSound
  <1>6. ReceiptSound'
    BY <1>2 DEF ReceiptSound, Sent
  <1>7. DirectorySound'
    BY <1>1, <1>2 DEF tick, IInv, DirectorySound, Blocking, Blocks, Sent
  <1> QED
    BY <1>3, <1>4, <1>5, <1>6, <1>7 DEF IInv

LEMMA UserSpeaksStep ==
  ASSUME IInv, UserSpeaks
  PROVE  IInv'
  <1>1. /\ user' = user + 1
        /\ UNCHANGED <<files, crew, worker, plan, ev, receipt, runs, tick, other, alive, inputs, trouble>>
    BY DEF UserSpeaks
  <1>2. user' \in Nat /\ plan.user <= user /\ plan.user <= user' /\ plan.user # user'
    BY <1>1, Typed DEF IInv, EventSound
  <1>3. TypeOK'
    BY <1>1, <1>2 DEF IInv, TypeOK, tick, files
  <1>4. PlaceSound' /\ EventSound' /\ HeldSound'
    BY <1>1, <1>2 DEF tick, IInv, PlaceSound, EventSound, HeldSound
  <1>5. NodeSound' /\ InputSound' /\ WorkSound'
    BY <1>1, <1>2 DEF tick, IInv, NodeSound, Adrift, InputSound, WorkSound
  <1>6. ReceiptSound' /\ DirectorySound'
    BY <1>1 DEF tick, IInv, ReceiptSound, DirectorySound, Blocking, Blocks
  <1> QED
    BY <1>3, <1>4, <1>5, <1>6 DEF IInv

(* The other task starts where it sees nobody it could disturb.            *)
LEMMA OtherStartsStep ==
  ASSUME IInv, NEW work \in {"reading", "writing"}, OtherStarts(work)
  PROVE  IInv'
  <1>1. /\ other' = work /\ pc # "sending"
        /\ UNCHANGED <<files, user, crew, worker, plan, ev, receipt, runs, tick, alive, inputs, trouble>>
    BY DEF OtherStarts
  <1>2. ~Blocking /\ Here \cap Writers = {} /\ (receipt.st \in Sent => receipt.node \notin Writers)
    BY DEF OtherStarts, OtherMay, Blocking
  <1>3. TypeOK'
    BY <1>1 DEF IInv, TypeOK, tick, files
  <1>4. PlaceSound' /\ EventSound' /\ HeldSound'
    BY <1>1 DEF tick, IInv, PlaceSound, EventSound, HeldSound
  <1>5. NodeSound' /\ InputSound' /\ WorkSound'
    BY <1>1 DEF tick, IInv, NodeSound, Adrift, InputSound, WorkSound
  <1>6. ReceiptSound'
    BY <1>1 DEF tick, IInv, ReceiptSound, Blocking, Blocks
  <1>7. \A p \in People, n \in Writers : ~(worker[p].st = "working" /\ plan.node[n].st = "dispatched")
    <2>1. SUFFICES ASSUME NEW p \in People, NEW n \in Writers, worker[p].st = "working",
                          plan.node[n].st = "dispatched"
                   PROVE  FALSE
      OBVIOUS
    <2>2. n \in Nodes
      BY WorkflowAssumption
    <2>3. p \in crew /\ plan.node[n].who = p /\ plan.node[n].input = worker[p].input
      BY <2>1, <2>2 DEF IInv, WorkSound, NodeSound
    <2> QED
      BY <1>2, <2>1, <2>2, <2>3 DEF Here
  <1>8. DirectorySound'
    BY <1>1, <1>2, <1>7 DEF tick, IInv, DirectorySound, Blocking, Blocks
  <1> QED
    BY <1>3, <1>4, <1>5, <1>6, <1>8 DEF IInv

LEMMA OtherEndsStep ==
  ASSUME IInv, OtherEnds
  PROVE  IInv'
  <1>1. /\ other' = "free"
        /\ UNCHANGED <<files, user, crew, worker, plan, ev, receipt, runs, tick, alive, inputs, trouble>>
    BY DEF OtherEnds
  <1>2. TypeOK'
    BY <1>1 DEF IInv, TypeOK, tick, files
  <1>3. PlaceSound' /\ EventSound' /\ HeldSound'
    BY <1>1 DEF tick, IInv, PlaceSound, EventSound, HeldSound
  <1>4. NodeSound' /\ InputSound' /\ WorkSound'
    BY <1>1 DEF tick, IInv, NodeSound, Adrift, InputSound, WorkSound
  <1>5. ReceiptSound' /\ DirectorySound'
    BY <1>1 DEF tick, IInv, ReceiptSound, DirectorySound, Blocking, Blocks
  <1> QED
    BY <1>2, <1>3, <1>4, <1>5 DEF IInv

(***************************************************************************)
(* The theorems                                                            *)
(***************************************************************************)
LEMMA Initially == Init => IInv
  <1> SUFFICES ASSUME Init PROVE IInv
    OBVIOUS
  <1>1. plan.node = [n \in Nodes |-> Blank] /\ plan.user = 0 /\ plan.version = 1
    BY DEF Init
  <1>2. plan \in PlanSet
    BY BlankTyped, NoEventTyped, WorkflowAssumption DEF Init, PlanSet
  <1>3. TypeOK
    <2>1. crew \subseteq People /\ rev \in Revs /\ trouble \in 0 .. MaxTrouble /\ look \in 0 .. Never
      BY WorkflowAssumption, NoEventTyped DEF Init, Revs
    <2>2. ev \in EventSet /\ worker \in [People -> [st : {"idle", "working", "done"}, input : Nat]]
      BY NoEventTyped DEF Init, Idle
    <2>a. given \in [Nodes \ Writers -> 0 .. Never] /\ found \in [Nodes \ Writers -> 0 .. Never]
      BY NoEventTyped DEF Init
    <2>3. /\ receipt \in [st : {"none", "pending", "done", "failed", "uncertain"},
                          who : People \cup {Nobody}, node : Nodes \cup {"none"}]
          /\ runs \in [Revs -> RunSet]
      BY DEF Init, NoInput, RunSet
    <2> QED
      BY <1>2, <2>1, <2>2, <2>3, <2>a DEF Init, TypeOK, RunSet
  <1>4. PlaceSound /\ HeldSound
    BY DEF Init, PlaceSound, HeldSound
  <1>5. EventSound
    BY <1>1, NoEventTyped DEF Init, EventSound, Sending
  <1>6. NodeSound /\ InputSound
    BY <1>1, BlankTyped, NoEventTyped DEF Init, NodeSound, InputSound, Sending
  <1>7. WorkSound /\ ReceiptSound
    BY DEF Init, Idle, NoInput, WorkSound, ReceiptSound, Sent
  <1>8. DirectorySound
    BY DEF Init, Idle, NoInput, DirectorySound, Blocking, Blocks, Sent
  <1> QED
    BY <1>3, <1>4, <1>5, <1>6, <1>7, <1>8 DEF IInv

LEMMA Inductive == IInv /\ [Next]_vars => IInv'
  <1> SUFFICES ASSUME IInv, [Next]_vars PROVE IInv'
    OBVIOUS
  <1>1. CASE Tick
    <2>1. CASE Recover \/ Supersede \/ Reset \/ AskPlan \/ Plan \/ Settle \/ Ask \/ Choose \/ Resume
      BY <2>1, RecoverStep, SupersedeStep, ResetStep, AskPlanStep, PlanStep, SettleStep, AskStep,
         ChooseStep, ResumeStep
    <2>2. CASE \E n \in Nodes : ReadOutput(n) \/ Invalidate(n)
      BY <2>2, ReadOutputStep, InvalidateStep
    <2>3. CASE Drop \/ Postpone \/ Prepare \/ Mark \/ Send \/ SentBefore
      BY <2>3, DropStep, PostponeStep, PrepareStep, MarkStep, SendStep, SentBeforeStep
    <2>4. CASE RunCommand \/ EndCommand \/ Judge \/ Replan \/ Wait \/ CheckReport \/ Deliver
      BY <2>4, RunCommandStep, EndCommandStep, JudgeStep, ReplanStep, WaitStep, CheckReportStep,
         DeliverStep
    <2>5. CASE \E p \in People : AddReviewer(p)
      BY <2>5, AddReviewerStep
    <2> QED
      BY <1>1, <2>1, <2>2, <2>3, <2>4, <2>5 DEF Tick
  <1>2. CASE World
    <2>1. CASE Edit \/ Late \/ Confirm \/ UserSpeaks \/ OtherEnds \/ Crash
      BY <2>1, EditStep, LateStep, ConfirmStep, UserSpeaksStep, OtherEndsStep, CrashStep
    <2>2. CASE \E p \in People : Answer(p)
      BY <2>2, AnswerStep
    <2>3. CASE \E work \in {"reading", "writing"} : OtherStarts(work)
      BY <2>3, OtherStartsStep
    <2> QED
      BY <1>2, <2>1, <2>2, <2>3 DEF World
  <1>3. CASE UNCHANGED vars
    <2>1. UNCHANGED <<files, user, crew, worker, plan, ev, receipt, runs, pc, look, held, other, alive,
                      inputs, trouble>>
      BY <1>3 DEF vars, tick
    <2>2. TypeOK'
      BY <2>1 DEF IInv, TypeOK, files
    <2>3. PlaceSound' /\ EventSound' /\ HeldSound'
      BY <2>1 DEF IInv, PlaceSound, EventSound, HeldSound
    <2>4. NodeSound' /\ InputSound' /\ WorkSound'
      BY <2>1 DEF IInv, NodeSound, Adrift, InputSound, WorkSound
    <2>5. ReceiptSound' /\ DirectorySound'
      BY <2>1 DEF IInv, ReceiptSound, DirectorySound, Blocking, Blocks
    <2> QED
      BY <2>2, <2>3, <2>4, <2>5 DEF IInv
  <1> QED
    BY <1>1, <1>2, <1>3 DEF Next

LEMMA Invariance == Spec => []IInv
  BY Initially, Inductive, PTL DEF Spec

(* A plan, its event, the receipt of the last input and the commands'      *)
(* records always have their types.                                        *)
THEOREM TypeCorrect == Spec => []TypeOK
  <1>1. IInv => TypeOK
    BY DEF IInv
  <1> QED
    BY <1>1, Invariance, PTL

(* One directory, one writer (workspace.ts, verify.ts): whatever the       *)
(* crashes, the late inputs and what the user says in between, at most one *)
(* command has processes running; while it may, no participant implements  *)
(* and no other task writes; and a participant implements alone.           *)
THEOREM TheDirectoryHasOneWriter == Spec => []Alone
  <1>1. IInv => Alone
    <2> SUFFICES ASSUME IInv PROVE Alone
      OBVIOUS
    <2>1. Cardinality(alive) <= 1
      <3>1. CASE alive = {}
        BY <3>1, FS_EmptySet
      <3>2. CASE alive # {}
        <4>1. PICK r \in alive : TRUE
          BY <3>2
        <4>2. alive = {r}
          BY <4>1 DEF IInv, DirectorySound
        <4>3. Cardinality({r}) = 1
          BY FS_Singleton
        <4> QED
          BY <4>2, <4>3
      <3> QED
        BY <3>1, <3>2
    <2>2. alive # {} => Blocking
      BY DEF IInv, TypeOK, DirectorySound, Blocking
    <2>3. Blocking => ~Implements /\ other # "writing"
      BY Typed DEF IInv, DirectorySound, Implements
    <2>4. Implements => other = "free"
      <3> SUFFICES ASSUME NEW p \in crew, NEW n \in Writers, worker[p].st = "working",
                          plan.node[n].who = p, plan.node[n].input = worker[p].input
                   PROVE  other = "free"
        BY DEF Implements
      <3>1. p \in People /\ n \in Nodes
        BY Typed, WorkflowAssumption
      <3>2. PICK m \in Nodes : /\ plan.node[m].st = "dispatched" /\ plan.node[m].who = p
                              /\ plan.node[m].input = worker[p].input /\ worker[p].input # 0
        BY <3>1 DEF IInv, WorkSound
      <3>3. m = n
        BY <3>1, <3>2 DEF IInv, InputSound
      <3> QED
        BY <3>1, <3>2, <3>3 DEF IInv, DirectorySound
    <2> QED
      BY <2>1, <2>2, <2>3, <2>4 DEF Alone
  <1> QED
    BY <1>1, Invariance, PTL

(* Participants take turns (runner.ts): an input that arrives long after   *)
(* its sender gave up on it finds nobody else at work.                     *)
THEOREM ParticipantsTakeTurns == Spec => []OneAtWork
  <1>1. IInv => OneAtWork
    BY DEF IInv, WorkSound, NodeSound, OneAtWork
  <1> QED
    BY <1>1, Invariance, PTL

(***************************************************************************)
(* What is delivered is proved                                             *)
(*                                                                         *)
(* The files move under everybody's hands and may come back, and what the  *)
(* policy keeps are revisions it read at some moments.  The parts below    *)
(* say at which: what was noted of the nodes that read is what the plan    *)
(* says of them.                                                           *)
(***************************************************************************)
\* Steps of the event only, of the plan and the event, and of neither.
EventStep == \/ Recover \/ Supersede \/ AskPlan \/ Ask \/ Choose \/ Resume \/ Drop \/ Postpone
             \/ SentBefore \/ Wait \/ CheckReport
BookStep == \/ Reset \/ Plan \/ Settle \/ Judge \/ Replan \/ Deliver
            \/ \E n \in Nodes : Invalidate(n)
            \/ \E p \in People : AddReviewer(p)
Apart == UNCHANGED <<rev, given, found, proved, hands, worker, receipt, runs, alive, inputs>>
Aside == Apart /\ UNCHANGED <<plan, ev, pc, look, held>>
Others == \/ \E n \in Nodes : ReadOutput(n)
          \/ Prepare \/ Mark \/ Send \/ RunCommand \/ EndCommand
          \/ Edit \/ Late \/ Confirm \/ Crash
          \/ \E p \in People : Answer(p)

LEMMA Steps ==
  ASSUME [Next]_vars
  PROVE  \/ EventStep /\ Apart /\ plan' = plan
         \/ BookStep /\ Apart
         \/ Aside
         \/ Others
  <1>1. CASE Recover \/ Supersede \/ AskPlan \/ Resume
    BY <1>1 DEF EventStep, Apart, files, Recover, Supersede, AskPlan, Resume
  <1>a. CASE Ask
    BY <1>a DEF EventStep, Apart, files, Ask
  <1>b. CASE Choose
    <2>1. UNCHANGED <<files, user, crew, worker, plan, receipt, runs, other, alive, inputs>>
      BY <1>b, Zenon DEF Choose
    <2> QED
      BY <1>b, <2>1 DEF EventStep, Apart, files
  <1>2. CASE Drop \/ Postpone \/ SentBefore \/ Wait \/ CheckReport
    BY <1>2 DEF EventStep, Apart, files, Drop, Postpone, SentBefore, Wait, CheckReport
  <1>3. CASE Reset \/ Plan \/ Settle \/ Judge
    BY <1>3 DEF BookStep, Apart, files, Reset, Plan, Settle, Judge
  <1>4. CASE Replan \/ Deliver
    BY <1>4 DEF BookStep, Apart, files, Replan, Deliver
  <1>5. CASE \E n \in Nodes : Invalidate(n)
    BY <1>5 DEF BookStep, Apart, files, Invalidate
  <1>6. CASE \E p \in People : AddReviewer(p)
    BY <1>6 DEF BookStep, Apart, files, AddReviewer
  <1>7. CASE UserSpeaks \/ OtherEnds
    BY <1>7 DEF Aside, Apart, files, tick, UserSpeaks, OtherEnds
  <1>8. CASE \E work \in {"reading", "writing"} : OtherStarts(work)
    BY <1>8 DEF Aside, Apart, files, tick, OtherStarts
  <1>9. CASE UNCHANGED vars
    BY <1>9 DEF Aside, Apart, files, tick, vars
  <1>10. CASE Others
    BY <1>10
  <1> QED
    BY <1>1, <1>a, <1>b, <1>2, <1>3, <1>4, <1>5, <1>6, <1>7, <1>8, <1>9, <1>10
       DEF Next, Tick, World, Others

\* What a plan keeps of the commands and of who wrote, whatever its nodes.
SameBook(p, q) == q.authors = p.authors /\ q.proof = p.proof /\ q.accepted = p.accepted

\* What each edit of a plan leaves in it.
Rest(p, q) == SameBook(p, q) /\ q.report = p.report /\ q.needed = p.needed

LEMMA NodesBook ==
  ASSUME NEW p \in PlanSet, NEW f, NEW r
  PROVE  LET q == NodesSet(p, f, r) IN SameBook(p, q) /\ q.report = r /\ q.needed = p.needed
  BY DEF PlanSet, SameBook, NodesSet

LEMMA PlannedBook ==
  ASSUME NEW p \in PlanSet, NEW f
  PROVE  LET q == PlannedSet(p, f) IN SameBook(p, q) /\ q.report = p.report /\ ~q.needed
  BY DEF PlanSet, SameBook, PlannedSet

LEMMA ResetBook ==
  ASSUME NEW p \in PlanSet, NEW f, NEW u, NEW v
  PROVE  LET q == ResetSet(p, f, u, v)
         IN  q.authors = p.authors /\ q.proof = p.proof /\ ~q.accepted /\ q.report = Never
  BY DEF PlanSet, ResetSet

LEMMA ReplanBook ==
  ASSUME NEW p \in PlanSet, NEW v, NEW r
  PROVE  LET q == ReplanSet(p, v, r) IN SameBook(p, q) /\ q.report = r
  BY DEF PlanSet, SameBook, ReplanSet

LEMMA UserBook ==
  ASSUME NEW p \in PlanSet, NEW u
  PROVE  Rest(p, UserSet(p, u))
  BY DEF PlanSet, SameBook, Rest, UserSet

LEMMA AcceptedBook ==
  ASSUME NEW p \in PlanSet
  PROVE  LET q == AcceptedSet(p)
         IN  /\ q.authors = p.authors /\ q.proof = p.proof /\ q.report = p.report
             /\ q.needed = p.needed
  BY DEF PlanSet, AcceptedSet

LEMMA ProofBook ==
  ASSUME NEW p \in PlanSet, NEW R, NEW b
  PROVE  LET q == ProofSet(p, R, b)
         IN  /\ q.authors = p.authors /\ q.accepted = p.accepted /\ q.proof = R
             /\ q.report = p.report /\ q.needed = p.needed
  BY DEF PlanSet, ProofSet

LEMMA AuthorBook ==
  ASSUME NEW p \in PlanSet, NEW A
  PROVE  LET q == AuthorSet(p, A)
         IN  /\ q.authors = A /\ q.proof = p.proof /\ q.accepted = p.accepted
             /\ q.report = p.report /\ q.needed = p.needed
  BY DEF PlanSet, AuthorSet

LEMMA ReportBook ==
  ASSUME NEW p \in PlanSet, NEW r
  PROVE  LET q == ReportSet(p, r) IN SameBook(p, q) /\ q.report = r /\ q.needed = p.needed
  BY DEF PlanSet, SameBook, ReportSet

LEMMA NodeBooks ==
  ASSUME NEW p \in PlanSet, NEW n, NEW x
  PROVE  Rest(p, NodeIs(p, n, x)) /\ Rest(p, NodeStSet(p, n, x)) /\ Rest(p, NodeRevSet(p, n, x))
  BY DEF PlanSet, SameBook, Rest, NodeIs, NodeStSet, NodeRevSet

LEMMA NodeRevIs ==
  ASSUME NEW p \in PlanSet, NEW n \in Nodes, NEW r \in 0 .. Never
  PROVE  LET q == NodeRevSet(p, n, r)
         IN  q.node[n].rev = r /\ \A m \in Nodes \ {n} : q.node[m] = p.node[m]
  <1> DEFINE x == [p.node[n] EXCEPT !.rev = r]
  <1>1. p.node[n] \in NodeSet
    BY DEF PlanSet
  <1>2. x \in NodeSet /\ x.rev = r
    BY <1>1 DEF NodeSet
  <1>3. NodeRevSet(p, n, r) = NodeIs(p, n, x)
    BY DEF NodeRevSet, NodeIs
  <1> HIDE DEF x
  <1> QED
    BY <1>2, <1>3, NodeEdit

(* The command's verdict is evidence, or an issue.                         *)
Good == /\ ~(ev.nth < runs[ev.rev].cancelled) /\ runs[ev.rev].st = "passed" /\ rev = ev.rev
LEMMA VerdictIs ==
  ASSUME IInv, Judge
  PROVE  \/ plan' = plan
         \/ /\ Good /\ plan' = ProofSet(plan, plan.proof \cup {ev.rev}, FALSE)
         \/ plan' = ProofSet(plan, plan.proof, TRUE)
  <1> DEFINE r == ev.rev
             st == IF ev.nth < runs[r].cancelled THEN "cancelled" ELSE runs[r].st
             good == st = "passed" /\ rev = r
  <1>1. \/ plan' = plan
        \/ plan' = [plan EXCEPT !.proof = IF good THEN @ \cup {r} ELSE @, !.issue = ~good]
    BY DEF Judge
  <1>2. good <=> Good
    BY DEF Good
  <1>3. CASE good
    BY <1>1, <1>2, <1>3, Typed DEF ProofSet
  <1>4. CASE ~good
    BY <1>1, <1>2, <1>4, Typed DEF ProofSet
  <1> QED
    BY <1>3, <1>4

(* The node an input is sent for, marked before the input leaves.          *)
LEMMA MarkIs ==
  ASSUME IInv, Mark
  PROVE  LET n == ev.node
             x == [st |-> "dispatched", who |-> ev.who, rev |-> ev.rev, input |-> inputs]
         IN  /\ n \in Nodes /\ x \in NodeSet /\ plan'.node[n] = x
             /\ \A m \in Nodes \ {n} : plan'.node[m] = plan.node[m]
             /\ plan'.authors = plan.authors \cup Authored(n, ev.who)
             /\ plan'.proof = plan.proof /\ plan'.accepted = plan.accepted
             /\ plan'.report = plan.report /\ plan'.needed = plan.needed
  <1> DEFINE n == ev.node
             x == [st |-> "dispatched", who |-> ev.who, rev |-> ev.rev, input |-> inputs]
             A == plan.authors \cup Authored(n, ev.who)
             p == NodeIs(plan, n, x)
  <1>1. pc = "sending" /\ ev.kind \in Sending
    BY DEF Mark, IInv, PlaceSound
  <1>2. n \in Nodes /\ ev.who \in People
    BY <1>1, SendingIsSound
  <1>3. x \in NodeSet
    BY <1>2, Typed, NoEventTyped DEF NodeSet
  <1>4. A \in SUBSET People
    BY <1>2, Typed DEF PlanSet, Authored
  <1>5. plan' = AuthorSet(p, A)
    BY Typed DEF Mark, AuthorSet, NodeIs
  <1> HIDE DEF A, x
  <1>6. /\ p \in PlanSet /\ p.node[n] = x /\ \A m \in Nodes \ {n} : p.node[m] = plan.node[m]
        /\ SameBook(plan, p) /\ p.report = plan.report /\ p.needed = plan.needed
    <2>1. plan \in PlanSet
      BY Typed
    <2>2. Rest(plan, p)
      BY <2>1, NodeBooks
    <2>3. OfPlan(plan, p) /\ p.node[n] = x /\ \A m \in Nodes \ {n} : p.node[m] = plan.node[m]
      BY <1>2, <1>3, <2>1, NodeEdit
    <2> HIDE DEF p
    <2> QED
      BY <2>2, <2>3 DEF Rest, OfPlan
  <1> HIDE DEF p
  <1>7. AuthorSet(p, A).node = p.node
    BY <1>4, <1>6, OutcomeEdits DEF SameNodes
  <1> QED
    <2>1. LET q == AuthorSet(p, A)
          IN  /\ q.authors = A /\ q.proof = p.proof /\ q.accepted = p.accepted
              /\ q.report = p.report /\ q.needed = p.needed
      BY <1>6, AuthorBook
    <2>2. /\ plan'.authors = A /\ plan'.proof = plan.proof /\ plan'.accepted = plan.accepted
          /\ plan'.report = plan.report /\ plan'.needed = plan.needed /\ plan'.node = p.node
      BY <1>5, <1>6, <1>7, <2>1 DEF SameBook
    <2> QED
      BY <1>2, <1>3, <1>6, <2>2 DEF A, x

(* What reading the output of node n comes to: who had a hand in it is on  *)
(* record at once, and the receipt waits to be saved.                      *)
LEMMA OutputIs ==
  ASSUME IInv, NEW n \in Nodes, ReadOutput(n)
  PROVE  /\ plan.node[n].st = "dispatched" /\ plan.node[n].who \in People
         /\ worker[plan.node[n].who] = [st |-> "done", input |-> plan.node[n].input]
         /\ ~plan.accepted /\ ~plan.needed /\ pc' = "settling"
         /\ plan'.node = plan.node /\ plan'.report = plan.report /\ plan'.needed = plan.needed
         /\ plan.authors \subseteq plan'.authors
         /\ plan'.proof = plan.proof /\ plan'.accepted = plan.accepted
         /\ \A h \in held' :
              /\ SameBook(plan', h)
              /\ \A m \in Nodes \ {n} : h.node[m] = plan.node[m]
              /\ \/ h.node[n].st = "blocked" /\ h.report = plan.report
                 \/ /\ h.node[n].st = "completed" /\ h.node[n].rev = rev
                    /\ n \notin Writers => plan.node[n].rev = rev
                    /\ h.report = IF n \in Reports THEN rev ELSE plan.report
  <1> DEFINE p == plan.node[n].who
             A == plan.authors \cup IF plan.node[n].rev # rev THEN {p} ELSE {}
             wrote == AuthorSet(plan, A)
             blocked == NodeStSet(wrote, n, "blocked")
             ended == NodeStSet(wrote, n, "completed")
             dated == NodeRevSet(ended, n, rev)
             done == ReportSet(dated, IF n \in Reports THEN rev ELSE dated.report)
  <1>1. /\ plan.node[n].st = "dispatched" /\ p \in crew /\ p \in People
        /\ worker[p] = [st |-> "done", input |-> plan.node[n].input]
        /\ ~plan.accepted /\ ~plan.needed /\ rev \in Revs
    BY Typed DEF ReadOutput, Settles, Working, Calm
  <1>2. A \in SUBSET People /\ plan \in PlanSet
    BY <1>1, Typed DEF PlanSet
  <1>3. /\ plan' = wrote /\ pc' = "settling"
        /\ (Sound(n) /\ held' = {done}) \/ held' = {blocked}
    BY DEF ReadOutput, AuthorSet, NodeStSet, NodeRevSet, ReportSet
  <1>4. plan.authors \subseteq A
    OBVIOUS
  <1> HIDE DEF A
  <1>5. /\ SameNodes(plan, wrote) /\ wrote.authors = A /\ wrote.proof = plan.proof
        /\ wrote.accepted = plan.accepted /\ wrote.report = plan.report
        /\ wrote.needed = plan.needed
    BY <1>2, OutcomeEdits, AuthorBook
  <1> HIDE DEF wrote
  <1>a. wrote \in PlanSet /\ wrote.node = plan.node
    BY <1>5 DEF SameNodes, OfPlan
  <1>6. /\ blocked.node[n].st = "blocked" /\ SameBook(wrote, blocked)
        /\ blocked.report = wrote.report
        /\ \A m \in Nodes \ {n} : blocked.node[m] = wrote.node[m]
    <2>1. Rest(wrote, blocked)
      BY <1>a, NodeBooks
    <2>2. /\ blocked.node[n].st = "blocked"
          /\ \A m \in Nodes \ {n} : blocked.node[m] = wrote.node[m]
      BY <1>a, NodeStEdit
    <2> QED
      BY <2>1, <2>2 DEF Rest
  <1>7. /\ ended \in PlanSet /\ ended.node[n].st = "completed" /\ SameBook(wrote, ended)
        /\ ended.report = wrote.report
        /\ \A m \in Nodes \ {n} : ended.node[m] = wrote.node[m]
    <2>1. Rest(wrote, ended)
      BY <1>a, NodeBooks
    <2>2. /\ ended.node[n].st = "completed" /\ OfPlan(wrote, ended)
          /\ \A m \in Nodes \ {n} : ended.node[m] = wrote.node[m]
      BY <1>a, NodeStEdit
    <2> QED
      BY <2>1, <2>2 DEF Rest, OfPlan
  <1> HIDE DEF blocked, ended
  <1>8. rev \in 0 .. Never
    BY <1>1, NoEventTyped
  <1>9. /\ dated \in PlanSet /\ dated.node[n].st = "completed" /\ dated.node[n].rev = rev
        /\ SameBook(ended, dated) /\ dated.report = ended.report
        /\ \A m \in Nodes \ {n} : dated.node[m] = ended.node[m]
    <2>1. Rest(ended, dated)
      BY <1>7, NodeBooks
    <2>2. OfPlan(ended, dated) /\ dated.node[n].st = ended.node[n].st
      BY <1>7, <1>8, NodeRevEdit
    <2>3. /\ dated.node[n].rev = rev
          /\ \A m \in Nodes \ {n} : dated.node[m] = ended.node[m]
      BY <1>7, <1>8, NodeRevIs
    <2> QED
      BY <1>7, <2>1, <2>2, <2>3 DEF Rest, OfPlan
  <1> HIDE DEF dated
  <1>10. (IF n \in Reports THEN rev ELSE dated.report) \in 0 .. Never
    BY <1>8, <1>9 DEF PlanSet
  <1>11. /\ done.node = dated.node /\ SameBook(dated, done)
         /\ done.report = IF n \in Reports THEN rev ELSE dated.report
    <2>1. SameNodes(dated, done)
      BY <1>9, <1>10, OutcomeEdits
    <2>2. SameBook(dated, done) /\ done.report = IF n \in Reports THEN rev ELSE dated.report
      BY <1>9, ReportBook
    <2> QED
      BY <2>1, <2>2 DEF SameNodes
  <1> HIDE DEF done
  <1>12. Sound(n) => (n \notin Writers => plan.node[n].rev = rev)
    BY DEF Sound
  <1> QED
    BY <1>1, <1>3, <1>4, <1>5, <1>a, <1>6, <1>7, <1>9, <1>11, <1>12 DEF SameBook

(* While a receipt waits to be saved the plan it was read in waits too.    *)
BookSound == pc = "settling" => \A h \in held : SameBook(plan, h)

LEMMA StillSettling ==
  ASSUME IInv, [Next]_vars, pc' = "settling"
  PROVE  \/ \E n \in Nodes : ReadOutput(n)
         \/ /\ pc = "settling" /\ UNCHANGED <<plan, held, receipt, inputs>>
            /\ NobodyWorks /\ receipt.st \notin Sent
  <1>1. CASE EventStep
    <2>1. CASE Recover \/ Supersede \/ AskPlan \/ Ask \/ Choose
      BY <1>1, <2>1 DEF Recover, Supersede, AskPlan, Ask, Choose, tick
    <2>2. CASE Resume \/ Drop \/ Postpone \/ SentBefore \/ Wait \/ CheckReport
      BY <2>2 DEF Resume, Drop, Postpone, SentBefore, Wait, CheckReport, Home
    <2> QED
      BY <1>1, <2>1, <2>2 DEF EventStep
  <1>2. CASE BookStep
    <2>1. CASE Reset \/ Plan \/ Settle \/ Judge \/ Replan \/ Deliver
      BY <2>1 DEF Reset, Quiet, Plan, Settle, Judge, Replan, Deliver, Home, tick
    <2>2. CASE \E n \in Nodes : Invalidate(n)
      BY <2>2 DEF Invalidate, Free, Working, Calm, Quiet, tick
    <2>3. CASE \E p \in People : AddReviewer(p)
      BY <2>3 DEF AddReviewer, Home
    <2> QED
      BY <1>2, <2>1, <2>2, <2>3 DEF BookStep
  <1>3. CASE Aside \/ Edit \/ \E p \in People : Answer(p)
    <2>1. pc = "settling" /\ UNCHANGED <<plan, held, receipt, inputs>>
      BY <1>3 DEF Aside, Apart, Edit, Answer, tick
    <2> QED
      BY <2>1, SettlingNobodyWorks
  <1>4. CASE Prepare \/ Mark \/ Send \/ RunCommand \/ EndCommand \/ Crash
    BY <1>4 DEF Prepare, Mark, tick, Send, Home, RunCommand, EndCommand, Crash
  <1>5. CASE Late \/ Confirm
    <2>1. pc = "settling" /\ receipt.st \in Sent
      BY <1>5 DEF Late, Confirm, tick, Sent
    <2> QED
      BY <2>1, SettlingNobodyWorks
  <1>6. CASE \E n \in Nodes : ReadOutput(n)
    BY <1>6
  <1> QED
    BY <1>1, <1>2, <1>3, <1>4, <1>5, <1>6, Steps DEF Others

LEMMA BookStays ==
  ASSUME IInv, BookSound, [Next]_vars
  PROVE  BookSound'
  <1> SUFFICES ASSUME pc' = "settling" PROVE \A h \in held' : SameBook(plan', h)
    BY DEF BookSound
  <1>1. CASE \E n \in Nodes : ReadOutput(n)
    BY <1>1, OutputIs
  <1>2. CASE pc = "settling" /\ UNCHANGED <<plan, held>>
    BY <1>2 DEF BookSound
  <1> QED
    BY <1>1, <1>2, StillSettling

LEMMA InvalidatedBook ==
  ASSUME IInv, NEW n
  PROVE  LET q == Invalidated(plan, n)
         IN  SameBook(plan, q) /\ q.report = Never /\ q.needed = plan.needed
  <1> DEFINE f == [m \in Nodes |-> IF m \in After(n) THEN Blank ELSE plan.node[m]]
  <1>1. Invalidated(plan, n) = NodesSet(plan, f, Never)
    BY DEF Invalidated, NodesSet
  <1> HIDE DEF f
  <1> QED
    BY <1>1, Typed, NodesBook

(* The plan's records: authors are never forgotten, the command's proof    *)
(* comes from its verdict alone, and a report is accepted by its delivery. *)
LEMMA BookKept ==
  ASSUME IInv, BookSound, [Next]_vars
  PROVE  /\ plan.authors \subseteq plan'.authors
         /\ plan'.proof = plan.proof \/ Judge
         /\ plan'.accepted => plan.accepted \/ Deliver
  <1> USE Typed
  <1>1. CASE Reset
    BY <1>1, ResetBook DEF Reset, ResetSet
  <1>2. CASE Plan
    <2>1. plan' = plan \/ plan' = PlannedSet(plan, [n \in Nodes |-> Blank])
      BY <1>2 DEF Plan, PlannedSet
    <2> QED
      BY <2>1, PlannedBook DEF SameBook
  <1>3. CASE Settle
    BY <1>3 DEF Settle, BookSound, SameBook
  <1>4. CASE Judge
    <2>1. plan' = plan \/ \E R, b : plan' = ProofSet(plan, R, b)
      <3>1. CASE plan' = plan
        BY <3>1
      <3>2. CASE plan' = ProofSet(plan, plan.proof \cup {ev.rev}, FALSE)
        BY <3>2
      <3>3. CASE plan' = ProofSet(plan, plan.proof, TRUE)
        BY <3>3
      <3> QED
        BY <1>4, <3>1, <3>2, <3>3, VerdictIs
    <2>2. CASE plan' = plan
      BY <1>4, <2>2
    <2>3. ASSUME NEW R, NEW b, plan' = ProofSet(plan, R, b)
          PROVE  plan'.authors = plan.authors /\ plan'.accepted = plan.accepted
      BY <2>3, ProofBook
    <2> QED
      BY <1>4, <2>1, <2>2, <2>3
  <1>5. CASE Replan
    BY <1>5, ReplanBook DEF Replan, ReplanSet, SameBook
  <1>6. CASE Deliver
    <2>1. plan' = plan \/ plan' = AcceptedSet(plan)
      BY <1>6 DEF Deliver, AcceptedSet
    <2> QED
      BY <1>6, <2>1, AcceptedBook
  <1>7. CASE (\E n \in Nodes : Invalidate(n)) \/ Prepare
    <2>1. plan' = plan \/ \E n : plan' = Invalidated(plan, n)
      BY <1>7 DEF Invalidate, Prepare
    <2> QED
      BY <2>1, InvalidatedBook DEF SameBook
  <1>8. CASE \E p \in People : AddReviewer(p)
    BY <1>8, UserBook DEF AddReviewer, UserSet, SameBook, Rest
  <1>9. CASE \E n \in Nodes : ReadOutput(n)
    BY <1>9, OutputIs
  <1>10. CASE Mark
    BY <1>10, MarkIs
  <1>11. CASE plan' = plan
    BY <1>11
  <1>12. CASE Send \/ RunCommand \/ EndCommand \/ Edit \/ Late \/ Confirm \/ Crash
              \/ \E p \in People : Answer(p)
    BY <1>12, <1>11 DEF Send, RunCommand, EndCommand, Edit, Late, Confirm, Crash, Answer
  <1> QED
    BY <1>1, <1>2, <1>3, <1>4, <1>5, <1>6, <1>7, <1>8, <1>9, <1>10, <1>11, <1>12, Steps
       DEF BookStep, Aside, Others

(***************************************************************************)
(* The command                                                             *)
(***************************************************************************)
(* What is on record as proved is a command that passed.                   *)
RanSound == \A r \in plan.proof : runs[r].st = "passed"

LEMMA RanStays ==
  ASSUME IInv, BookSound, RanSound, [Next]_vars
  PROVE  RanSound'
  <1>1. runs \in [Revs -> RunSet] /\ plan.proof \subseteq Revs
    BY Typed DEF IInv, TypeOK, RunSet, PlanSet
  <1>2. CASE UNCHANGED runs /\ ~Judge
    BY <1>2, BookKept DEF RanSound
  <1>3. CASE Judge
    <2>1. UNCHANGED runs
      BY <1>3 DEF Judge
    <2>2. \/ plan'.proof = plan.proof
          \/ Good /\ plan'.proof = plan.proof \cup {ev.rev}
      <3>1. CASE plan' = plan
        BY <3>1
      <3>2. CASE Good /\ plan' = ProofSet(plan, plan.proof \cup {ev.rev}, FALSE)
        BY <3>2, Typed, ProofBook
      <3>3. CASE plan' = ProofSet(plan, plan.proof, TRUE)
        <4>1. ProofSet(plan, plan.proof, TRUE).proof = plan.proof
          BY Typed DEF PlanSet, ProofSet
        <4> QED
          BY <3>3, <4>1
      <3> QED
        BY <1>3, <3>1, <3>2, <3>3, VerdictIs
    <2> QED
      BY <2>1, <2>2 DEF RanSound, Good
  <1>4. CASE RunCommand \/ EndCommand
    <2> DEFINE r == ev.rev
    <2>1. UNCHANGED plan
      BY <1>4 DEF RunCommand, EndCommand
    <2>2. \/ UNCHANGED runs
          \/ /\ runs[r].st # "passed"
             /\ \/ \E st \in {"running", "passed", "failed", "unknown"} : runs' = RunIs(runs, r, st)
                \/ runs' = RunStopped(runs, r)
      BY <1>4 DEF RunCommand, EndCommand, RunIs, RunStopped, IInv, PlaceSound
    <2> HIDE DEF r
    <2>3. CASE UNCHANGED runs
      BY <2>1, <2>3 DEF RanSound
    <2>4. CASE runs[r].st # "passed" /\ \A s \in Revs \ {r} : runs'[s] = runs[s]
      BY <1>1, <2>1, <2>4 DEF RanSound
    <2>5. ASSUME NEW st, runs' = RunIs(runs, r, st)
          PROVE  \A s \in Revs \ {r} : runs'[s] = runs[s]
      BY <1>1, <2>5 DEF RunIs
    <2>6. runs' = RunStopped(runs, r) => \A s \in Revs \ {r} : runs'[s] = runs[s]
      BY <1>1 DEF RunStopped
    <2> QED
      BY <2>2, <2>3, <2>4, <2>5, <2>6
  <1>5. CASE Crash
    <2>1. UNCHANGED plan /\ runs' = [r \in Revs |-> Lost(runs[r])]
      BY <1>5 DEF Crash
    <2>2. \A r \in Revs : runs[r].st = "passed" => runs'[r].st = "passed"
      BY <1>1, <2>1 DEF Lost, RunSet
    <2> QED
      BY <1>1, <2>1, <2>2 DEF RanSound
  <1>6. CASE Apart
    BY <1>2, <1>3, <1>6 DEF Apart
  <1>7. CASE Prepare \/ Mark \/ \E n \in Nodes : ReadOutput(n)
    <2>1. UNCHANGED runs
      BY <1>7 DEF Prepare, Mark, ReadOutput
    <2>2. ~Judge
      BY <1>7 DEF Prepare, Sends, Mark, ReadOutput, Working, Calm, Quiet, Judge
    <2> QED
      BY <1>2, <2>1, <2>2
  <1>8. CASE Send \/ Late \/ Confirm \/ Edit \/ \E p \in People : Answer(p)
    BY <1>8 DEF Send, Late, Confirm, Edit, Answer, RanSound
  <1> QED
    BY <1>3, <1>4, <1>5, <1>6, <1>7, <1>8, Steps DEF Aside, Others

(***************************************************************************)
(* Who wrote                                                               *)
(***************************************************************************)
(* Whoever may have been given a node that implements is on record.        *)
HandsSound ==
    /\ hands \subseteq plan.authors
    /\ receipt.st \in Sent /\ receipt.node \in Writers => receipt.who \in plan.authors

LEMMA HandsStay ==
  ASSUME IInv, BookSound, HandsSound, [Next]_vars
  PROVE  HandsSound'
  <1>1. plan.authors \subseteq plan'.authors
    BY BookKept
  <1>2. CASE UNCHANGED <<hands, receipt>>
    BY <1>1, <1>2 DEF HandsSound, Sent
  <1>3. CASE Prepare
    BY <1>1, <1>3 DEF Prepare, HandsSound, NoInput, Sent
  <1>4. CASE Mark
    <2>1. plan'.authors = plan.authors \cup Authored(ev.node, ev.who)
      BY <1>4, MarkIs
    <2>2. receipt' = [st |-> "pending", who |-> ev.who, node |-> ev.node] /\ hands' = hands
      BY <1>4 DEF Mark, files
    <2> QED
      BY <2>1, <2>2 DEF HandsSound, Authored
  <1>5. CASE Send
    <2>1. receipt.st \in Sent
      BY <1>5 DEF Send, Sent
    <2>2. hands' = hands \/ hands' = hands \cup IF receipt.node \in Writers THEN {receipt.who} ELSE {}
      BY <1>5 DEF Send, Arrives
    <2>3. receipt'.node = receipt.node /\ receipt'.who = receipt.who
      BY <1>5, ReceiptEdit DEF Send
    <2> QED
      BY <1>1, <2>1, <2>2, <2>3 DEF HandsSound
  <1>6. CASE Late
    <2>1. receipt.st \in Sent /\ receipt' = receipt
      BY <1>6 DEF Late, Sent
    <2>2. hands' = hands \cup IF receipt.node \in Writers THEN {receipt.who} ELSE {}
      BY <1>6 DEF Late, Arrives
    <2> QED
      BY <1>1, <2>1, <2>2 DEF HandsSound
  <1>7. CASE Confirm
    <2>1. receipt'.st = "done" /\ hands' = hands
      BY <1>7, ReceiptEdit DEF Confirm, files
    <2> QED
      BY <1>1, <2>1 DEF HandsSound, Sent
  <1>8. CASE Crash
    <2>1. /\ receipt'.node = receipt.node /\ receipt'.who = receipt.who /\ hands' = hands
          /\ receipt'.st \in Sent => receipt.st \in Sent
      <3>1. Keep(IF receipt.st = "pending" THEN "uncertain" ELSE receipt.st) /\ hands' = hands
        BY <1>8 DEF Crash, files
      <3>2. (IF receipt.st = "pending" THEN "uncertain" ELSE receipt.st)
               \in {"none", "pending", "done", "failed", "uncertain"}
        BY Typed
      <3> QED
        BY <3>1, <3>2, ReceiptEdit DEF Sent
    <2> QED
      BY <1>1, <2>1 DEF HandsSound
  <1>9. CASE Apart
    BY <1>2, <1>9 DEF Apart
  <1>10. CASE RunCommand \/ EndCommand \/ Edit \/ \E p \in People : Answer(p)
    BY <1>2, <1>10 DEF RunCommand, EndCommand, Edit, Answer, files
  <1>11. CASE \E n \in Nodes : ReadOutput(n)
    BY <1>2, <1>11 DEF ReadOutput
  <1> QED
    BY <1>3, <1>4, <1>5, <1>6, <1>7, <1>8, <1>9, <1>10, <1>11, Steps DEF Aside, Others

(***************************************************************************)
(* The event and the nodes from step to step                               *)
(***************************************************************************)
(* What is chosen is of the kind and for the node that was offered.        *)
LEMMA ChoiceIs ==
  ASSUME IInv, Choose
  PROVE  /\ pc = "choosing" /\ ev'.disp = "none"
         /\ \/ /\ pc' = "executing" /\ ev'.st = "processing" /\ ev'.rev = ev.rev
               /\ \E c \in held : ev'.kind = c.kind /\ ev'.node = c.node
            \/ pc' = "idle" /\ ev'.kind \in {"none", "decide"} /\ (ev' = NoEvent \/ ev'.rev = ev.rev)
  <1>1. ev.kind = "decide" /\ ev.st = "processing" /\ ev.disp = "none" /\ ev.rev \in Revs
        /\ ev.tries > 0 /\ pc = "choosing"
    BY DEF Choose, IInv, PlaceSound, EventSound, Sending
  <1>2. CASE ev' = AfterFailure /\ pc' = "idle"
    BY <1>1, <1>2, AfterFailureIs, NoEventTyped DEF Alike
  <1>3. ASSUME NEW c \in held, pc' = "executing",
               ev' = [ev EXCEPT !.kind = c.kind, !.node = c.node, !.who = c.who,
                                !.nth = runs[ev.rev].cancelled]
        PROVE  /\ ev'.disp = ev.disp /\ ev'.st = ev.st /\ ev'.rev = ev.rev
               /\ ev'.kind = c.kind /\ ev'.node = c.node
    BY <1>3, Typed DEF EventSet
  <1>4. \/ ev' = AfterFailure /\ pc' = "idle"
        \/ \E c \in held : /\ pc' = "executing"
                           /\ ev' = [ev EXCEPT !.kind = c.kind, !.node = c.node, !.who = c.who,
                                               !.nth = runs[ev.rev].cancelled]
    BY DEF Choose
  <1> QED
    BY <1>1, <1>2, <1>3, <1>4

(* Apart from the choice and its preparation, an event keeps what it is.   *)
SameEvent == /\ ev'.kind = ev.kind /\ ev'.node = ev.node /\ ev'.rev = ev.rev
             /\ ev.st = "done" => ev'.st = "done"
             /\ ev.disp = "none" => ev'.disp = "none"

LEMMA EventKept ==
  ASSUME IInv, [Next]_vars
  PROVE  \/ ev' = NoEvent \/ SameEvent
         \/ AskPlan \/ Ask \/ Choose \/ Prepare
  <1>1. CASE ev' = ev
    BY <1>1 DEF SameEvent
  <1>2. CASE Recover
    <2> DEFINE f == Reconciled(receipt.st)
    <2>1. /\ Alike(ev, f) /\ (ev.disp = "none" => f.disp = "none")
          /\ ev.disp \in {"none", "sent"} /\ ev.st = "done" => f.st = "done"
      BY Typed, ReconciledIs DEF Fates
    <2>2. ev.st = "done" => ev.disp \in {"none", "sent"}
      BY DEF IInv, EventSound
    <2>3. ev' = f
      BY <1>2 DEF Recover
    <2> QED
      BY <2>1, <2>2, <2>3 DEF SameEvent, Alike
  <1>3. CASE Supersede \/ Drop \/ Reset \/ Replan \/ \E p \in People : AddReviewer(p)
    BY <1>3 DEF Supersede, Drop, Reset, Replan, AddReviewer
  <1>4. CASE Plan
    <2>1. ev.st = "processing"
      BY <1>4 DEF Plan, IInv, PlaceSound
    <2>2. ev' = NoEvent \/ ev' = AfterFailure
      BY <1>4 DEF Plan
    <2> QED
      BY <2>1, <2>2, AfterFailureIs DEF Alike, SameEvent
  <1>5. CASE Resume \/ Postpone \/ SentBefore \/ Wait
    <2>1. ev.st # "done"
      BY <1>5 DEF Resume, Postpone, SentBefore, Wait, Sends, Doing, IInv, PlaceSound
    <2> QED
      BY <1>5, <2>1, Typed DEF Resume, Postpone, Postponed, SentBefore, Wait, Done, SameEvent, EventSet
  <1>6. CASE CheckReport
    <2>1. ev.st # "done"
      BY <1>6 DEF CheckReport, Doing, IInv, PlaceSound
    <2> QED
      BY <1>6, <2>1, Typed DEF CheckReport, SameEvent, EventSet
  <1>7. CASE Judge \/ Deliver
    <2>1. ev.st # "done"
      BY <1>7 DEF Judge, Deliver, IInv, PlaceSound
    <2>2. ev' = NoEvent \/ ev' = StateSet(ev, "done") \/ ev' = StateSet(ev, "attention")
      BY <1>7 DEF Judge, Deliver, Done, StateSet
    <2>3. /\ Alike(ev, StateSet(ev, "done")) /\ StateSet(ev, "done").disp = ev.disp
          /\ Alike(ev, StateSet(ev, "attention")) /\ StateSet(ev, "attention").disp = ev.disp
      BY Typed, StateEdit DEF States
    <2> QED
      BY <2>1, <2>2, <2>3 DEF SameEvent, Alike
  <1>8. CASE Mark
    <2>1. ev' = FateSet(ev, "pending") /\ ev.disp # "none" /\ ev.st # "done"
      BY <1>8 DEF Mark, FateSet, IInv, PlaceSound
    <2>2. Alike(ev, FateSet(ev, "pending"))
      BY Typed, FateEdit DEF Fates
    <2> QED
      BY <2>1, <2>2 DEF SameEvent, Alike
  <1>9. CASE Send
    <2>1. ev.st = "processing" /\ ev.disp # "none"
      BY <1>9 DEF Send, IInv, PlaceSound
    <2>2. \/ ev' = NoEvent
          \/ ev' = BothSet(ev, "sent", "done")
          \/ Current(ev) /\ ev' = FateSet(AfterFailure, "failed")
          \/ ev' = BothSet(ev, "uncertain", "attention")
      BY <1>9 DEF Send, BothSet, FateSet
    <2>3. /\ Alike(ev, BothSet(ev, "sent", "done"))
          /\ Alike(ev, BothSet(ev, "uncertain", "attention"))
      BY Typed, BothEdit DEF Fates, States
    <2>4. Current(ev) => Alike(ev, FateSet(AfterFailure, "failed"))
      <3>1. SUFFICES ASSUME Current(ev) PROVE Alike(ev, FateSet(AfterFailure, "failed"))
        OBVIOUS
      <3>2. Alike(ev, AfterFailure)
        BY <2>1, <3>1, AfterFailureIs
      <3>3. AfterFailure \in EventSet
        BY <3>2 DEF Alike
      <3>4. Alike(AfterFailure, FateSet(AfterFailure, "failed"))
        BY <3>3, FateEdit DEF Fates
      <3> QED
        BY <3>2, <3>4 DEF Alike
    <2> QED
      BY <2>1, <2>2, <2>3, <2>4 DEF SameEvent, Alike
  <1>10. CASE Settle \/ \E n \in Nodes : Invalidate(n) \/ ReadOutput(n)
    BY <1>1, <1>10 DEF Settle, Invalidate, ReadOutput
  <1>11. CASE RunCommand \/ EndCommand \/ Edit \/ Late
    BY <1>1, <1>11 DEF RunCommand, EndCommand, Edit, Late
  <1>12. CASE Confirm \/ Crash \/ \E p \in People : Answer(p)
    BY <1>1, <1>12 DEF Confirm, Crash, Answer
  <1> QED
    BY <1>1, <1>2, <1>3, <1>4, <1>5, <1>6, <1>7, <1>8, <1>9, <1>10, <1>11, <1>12, Steps
       DEF EventStep, BookStep, Aside, Others

(* A node keeps its record, starts over, is settled, or is marked.         *)
LEMMA NodesKept ==
  ASSUME IInv, NEW n \in Nodes, [Next]_vars
  PROVE  \/ plan'.node[n] = plan.node[n]
         \/ plan'.node[n] = Blank
         \/ Settle
         \/ Mark /\ n = ev.node
  <1>1. CASE plan'.node = plan.node
    BY <1>1
  <1>2. CASE Reset \/ Plan
    <2>1. plan'.node = plan.node \/ plan'.node = [m \in Nodes |-> Blank]
      BY <1>2, Typed DEF Reset, Plan, PlanSet
    <2> QED
      BY <2>1
  <1>3. CASE Judge
    <2>1. CASE plan' = plan
      BY <2>1
    <2>2. CASE plan' = ProofSet(plan, plan.proof \cup {ev.rev}, FALSE)
      BY <2>2, Typed DEF ProofSet, PlanSet
    <2>3. CASE plan' = ProofSet(plan, plan.proof, TRUE)
      BY <2>3, Typed DEF ProofSet, PlanSet
    <2> QED
      BY <1>3, <2>1, <2>2, <2>3, VerdictIs
  <1>4. CASE Replan \/ Deliver \/ \E p \in People : AddReviewer(p)
    BY <1>1, <1>4, Typed DEF Replan, Deliver, AddReviewer, PlanSet
  <1>5. CASE \E m \in Nodes : Invalidate(m)
    BY <1>5, InvalidatedIs DEF Invalidate
  <1>6. CASE Prepare
    <2>1. plan' = plan \/ plan' = Invalidated(plan, ev.node)
      BY <1>6 DEF Prepare
    <2>2. ev.node \in Nodes
      BY <1>6, SendingIsSound DEF Prepare, Sends, Sending
    <2> QED
      BY <2>1, <2>2, InvalidatedIs
  <1>7. CASE Mark
    BY <1>7, MarkIs
  <1>8. CASE \E m \in Nodes : ReadOutput(m)
    BY <1>1, <1>8, OutputIs
  <1>9. CASE Send \/ RunCommand \/ EndCommand \/ Edit \/ Late \/ Confirm \/ Crash
             \/ \E p \in People : Answer(p)
    BY <1>1, <1>9 DEF Send, RunCommand, EndCommand, Edit, Late, Confirm, Crash, Answer
  <1>10. CASE plan' = plan \/ Settle
    BY <1>10
  <1> QED
    BY <1>2, <1>3, <1>4, <1>5, <1>6, <1>7, <1>8, <1>9, <1>10, Steps DEF BookStep, Aside, Others

(***************************************************************************)
(* What is chosen, reported and delivered                                  *)
(***************************************************************************)
(* While the tick waits for the leader, a receipt or the chat, its plan    *)
(* and its event wait too.                                                 *)
LEMMA PlaceKept ==
  ASSUME IInv, [Next]_vars
  PROVE  \/ pc' \notin {"planning", "choosing", "settling", "delivering"}
         \/ pc' = "planning" /\ AskPlan
         \/ pc' = "choosing" /\ Ask
         \/ pc' = "settling" /\ \E n \in Nodes : ReadOutput(n)
         \/ pc' = "delivering" /\ CheckReport
         \/ UNCHANGED <<pc, look, held, plan, ev>>
  <1>1. CASE EventStep
    <2>1. CASE Recover \/ Supersede
      BY <2>1 DEF Recover, Supersede, tick
    <2>2. CASE AskPlan \/ Ask \/ Choose
      BY <2>2 DEF AskPlan, Ask, Choose
    <2>3. CASE Resume \/ Drop \/ Postpone
      BY <2>3 DEF Resume, Drop, Postpone, Home
    <2>4. CASE SentBefore \/ Wait \/ CheckReport
      BY <2>4 DEF SentBefore, Wait, CheckReport, Home
    <2> QED
      BY <1>1, <2>1, <2>2, <2>3, <2>4 DEF EventStep
  <1>2. CASE BookStep
    <2>1. CASE Reset \/ Plan \/ Settle \/ Judge \/ Replan \/ Deliver
      BY <2>1 DEF Reset, Quiet, Plan, Settle, Judge, Replan, Deliver, Home, tick
    <2>2. CASE \E n \in Nodes : Invalidate(n)
      BY <2>2 DEF Invalidate, Free, Working, Calm, Quiet, tick
    <2>3. CASE \E p \in People : AddReviewer(p)
      BY <2>3 DEF AddReviewer, Home
    <2> QED
      BY <1>2, <2>1, <2>2, <2>3 DEF BookStep
  <1>3. CASE Aside \/ Edit \/ Late \/ \E p \in People : Answer(p)
    BY <1>3 DEF Aside, Edit, Late, Answer, tick
  <1>4. CASE Confirm
    BY <1>4 DEF Confirm, tick
  <1>5. CASE Prepare \/ Mark \/ Send \/ RunCommand \/ EndCommand \/ Crash
    BY <1>5 DEF Prepare, Mark, tick, Send, Home, RunCommand, EndCommand, Crash
  <1>6. CASE \E n \in Nodes : ReadOutput(n)
    <2>1. pc' = "settling"
      BY <1>6 DEF ReadOutput
    <2> QED
      BY <1>6, <2>1
  <1> QED
    BY <1>1, <1>2, <1>3, <1>4, <1>5, <1>6, Steps DEF Others

(* What is chosen is a node that waits, and it is neither started over nor *)
(* settled before its input is; what is settled is no live choice.         *)
ChosenSound ==
    /\ pc = "choosing" => \A c \in held : c.kind = "dispatch" => plan.node[c.node].st = "pending"
    /\ pc = "settling" => ev.kind \notin Sending \/ ev.st = "done"
    /\ ev.kind = "dispatch" /\ ev.st # "done" => plan.node[ev.node].st \in {"pending", "dispatched"}
    /\ ev.kind = "rework" /\ ev.st # "done" /\ ev.disp # "none" => plan.report = Never

(* A report on record is of the plan's nodes as they stand, and none is    *)
(* on record while a plan is asked for.                                    *)
Reported(p) == p.report # Never =>
                  \A n \in Reports : p.node[n].st = "completed" /\ p.node[n].rev = p.report
ReportSound ==
    /\ Reported(plan)
    /\ plan.needed \/ pc = "planning" => plan.report = Never
    /\ pc = "settling" => ~plan.needed /\ \A h \in held : Reported(h)

(* What is on its way to the chat has passed the contract.                 *)
DeliverySound == pc = "delivering" => look \in Revs /\ Contract(look)

LEMMA DeliveryStays ==
  ASSUME IInv, DeliverySound, [Next]_vars
  PROVE  DeliverySound'
  <1> SUFFICES ASSUME pc' = "delivering" PROVE look' \in Revs /\ Contract(look)'
    BY DEF DeliverySound
  <1>1. CASE CheckReport
    <2>1. Contract(rev) /\ look' = rev /\ UNCHANGED plan
      BY <1>1 DEF CheckReport, Home
    <2> QED
      BY <2>1, Typed DEF Contract, With
  <1>2. CASE UNCHANGED <<pc, look, held, plan, ev>>
    BY <1>2 DEF DeliverySound, Contract, With
  <1> QED
    BY <1>1, <1>2, PlaceKept

LEMMA CandidatesPending ==
  ASSUME NEW c \in Candidates, c.kind = "dispatch"
  PROVE  plan.node[c.node].st = "pending"
  <1> DEFINE send == {n \in Ready : /\ n \in Reports => ~plan.issue
                                    /\ n \in Checks => ~Verifiable}
             fix == {n \in Writers : plan.issue /\ n \notin With("dispatched")}
             redo == With("blocked") \cup fix
  <1>1. \A n \in send : plan.node[n].st = "pending"
    BY DEF Ready
  <1>2. \/ c \in Offer("dispatch", send)
        \/ c \in Offer("rework", redo)
        \/ c \in {Just("verify"), Just("deliver"), Just("replan"), Just("wait"), Just("add")}
    BY DEF Candidates
  <1> HIDE DEF send, redo
  <1> QED
    BY <1>1, <1>2 DEF Offer, Just

(* Where a plan's work is read, chosen or planned, no input is owed.       *)
LEMMA WorkingOwesNothing ==
  ASSUME IInv, Working
  PROVE  ev.kind \in {"none", "plan", "decide"} \/ ev.st = "done"
  <1> DEFINE f == Reconciled(receipt.st)
  <1>1. /\ ev.st # "attention" /\ ~Leftover
        /\ ev.st = "pending" => ev.kind \in {"plan", "decide"}
    BY DEF Working, Calm, Quiet
  <1>2. f.st # "processing" \/ ev.st # "processing"
    BY Typed, ReconciledIs
  <1>3. ev.st # "processing"
    <2>1. ev.st = "processing" => ev # NoEvent /\ f # ev
      BY <1>2, NoEventTyped
    <2> QED
      BY <1>1, <2>1 DEF Leftover
  <1>4. ev.st = "none" => ev.kind = "none"
    BY DEF IInv, EventSound
  <1> QED
    BY <1>1, <1>3, <1>4, Typed DEF States

(* The report on record is void, or of the nodes as they were: but for a   *)
(* receipt that is settled, a node that is sent, and a plan begun.         *)
LEMMA ReportKept ==
  ASSUME IInv, [Next]_vars
  PROVE  \/ plan'.report = Never
         \/ Settle
         \/ Plan /\ plan'.report = plan.report /\ ~plan'.needed
         \/ /\ plan'.report = plan.report /\ plan'.needed = plan.needed
            /\ plan'.node = plan.node \/ Mark
  <1> USE Typed
  <1>1. CASE Reset
    BY <1>1, ResetBook DEF Reset, ResetSet
  <1>2. CASE Plan
    <2>1. plan' = plan \/ plan' = PlannedSet(plan, [n \in Nodes |-> Blank])
      BY <1>2 DEF Plan, PlannedSet
    <2> QED
      BY <1>2, <2>1, PlannedBook
  <1>3. CASE Judge
    <2>1. CASE plan' = plan
      BY <2>1
    <2>2. CASE plan' = ProofSet(plan, plan.proof \cup {ev.rev}, FALSE)
      BY <2>2 DEF ProofSet, PlanSet
    <2>3. CASE plan' = ProofSet(plan, plan.proof, TRUE)
      BY <2>3 DEF ProofSet, PlanSet
    <2> QED
      BY <1>3, <2>1, <2>2, <2>3, VerdictIs
  <1>4. CASE Replan
    <2>1. plan' = ReplanSet(plan, plan.version + 1, Never)
      BY <1>4 DEF Replan, ReplanSet
    <2> QED
      BY <2>1, ReplanBook
  <1>5. CASE Deliver
    BY <1>5 DEF Deliver, PlanSet
  <1>6. CASE (\E n \in Nodes : Invalidate(n)) \/ Prepare
    <2>1. plan' = plan \/ \E n : plan' = Invalidated(plan, n)
      BY <1>6 DEF Invalidate, Prepare
    <2> QED
      BY <2>1, InvalidatedBook
  <1>7. CASE \E p \in People : AddReviewer(p)
    BY <1>7 DEF AddReviewer, PlanSet
  <1>8. CASE \E n \in Nodes : ReadOutput(n)
    BY <1>8, OutputIs
  <1>9. CASE Mark
    BY <1>9, MarkIs
  <1>10. CASE plan' = plan \/ Settle
    BY <1>10
  <1>11. CASE Send \/ RunCommand \/ EndCommand \/ Edit \/ Late \/ Confirm \/ Crash
              \/ \E p \in People : Answer(p)
    BY <1>11, <1>10 DEF Send, RunCommand, EndCommand, Edit, Late, Confirm, Crash, Answer
  <1> QED
    BY <1>1, <1>2, <1>3, <1>4, <1>5, <1>6, <1>7, <1>8, <1>9, <1>10, <1>11, Steps
       DEF BookStep, Aside, Others

LEMMA ChosenStays ==
  ASSUME IInv, ChosenSound, [Next]_vars
  PROVE  ChosenSound'
  <1>1. ASSUME pc' = "choosing", NEW c \in held', c.kind = "dispatch"
        PROVE  plan'.node[c.node].st = "pending"
    <2>1. CASE Ask
      BY <1>1, <2>1, CandidatesPending DEF Ask
    <2>2. CASE UNCHANGED <<pc, look, held, plan, ev>>
      BY <1>1, <2>2 DEF ChosenSound
    <2> QED
      BY <1>1, <2>1, <2>2, PlaceKept
  <1>2. ASSUME pc' = "settling" PROVE ev'.kind \notin Sending \/ ev'.st = "done"
    <2>1. CASE \E n \in Nodes : ReadOutput(n)
      BY <2>1, WorkingOwesNothing DEF ReadOutput, Sending
    <2>2. CASE UNCHANGED <<pc, look, held, plan, ev>>
      BY <1>2, <2>2 DEF ChosenSound
    <2> QED
      BY <1>2, <2>1, <2>2, PlaceKept
  <1>3. Prepare => ev'.kind = ev.kind /\ ev'.node = ev.node /\ ev.st = "processing"
    BY Typed DEF Prepare, Sends, EventSet, IInv, PlaceSound
  <1>4. ev.kind \in Sending /\ ev.st # "done" => ~Settle /\ ev.node \in Nodes
    BY DEF Settle, ChosenSound, IInv, EventSound
  <1>5. ASSUME ev'.kind = "dispatch", ev'.st # "done"
        PROVE  plan'.node[ev'.node].st \in {"pending", "dispatched"}
    <2>1. CASE ev' = NoEvent \/ AskPlan \/ Ask
      BY <1>5, <2>1, NoEventTyped DEF AskPlan, Ask, NoEvent
    <2>2. CASE Choose
      <3>1. plan' = plan
        BY <2>2, Zenon DEF Choose
      <3>2. pc = "choosing" /\ \E c \in held : c.kind = "dispatch" /\ c.node = ev'.node
        BY <1>5, <2>2, ChoiceIs, NoEventTyped
      <3> QED
        BY <3>1, <3>2 DEF ChosenSound
    <2>3. CASE SameEvent \/ Prepare
      <3>1. ev'.node = ev.node /\ ev.kind = "dispatch" /\ ev.st # "done"
        BY <1>3, <1>5, <2>3 DEF SameEvent
      <3>2. ev.node \in Nodes /\ ~Settle /\ plan.node[ev.node].st \in {"pending", "dispatched"}
        BY <1>4, <3>1 DEF Sending, ChosenSound
      <3>3. \/ plan'.node[ev.node] = plan.node[ev.node]
            \/ plan'.node[ev.node] = Blank
            \/ Mark
        BY <3>2, NodesKept
      <3> QED
        BY <3>1, <3>2, <3>3, BlankTyped, MarkIs
    <2> QED
      BY <2>1, <2>2, <2>3, EventKept
  <1>6. ASSUME ev'.kind = "rework", ev'.st # "done", ev'.disp # "none"
        PROVE  plan'.report = Never
    <2>1. CASE ev' = NoEvent \/ AskPlan \/ Ask
      BY <1>6, <2>1, NoEventTyped DEF AskPlan, Ask, NoEvent
    <2>2. CASE Choose
      BY <1>6, <2>2, ChoiceIs
    <2>3. CASE Prepare /\ ev.disp = "none"
      <3>1. plan' = Invalidated(plan, ev.node)
        BY <1>3, <1>6, <2>3 DEF Prepare
      <3> QED
        BY <3>1, InvalidatedBook
    <2>4. CASE SameEvent \/ (Prepare /\ ev.disp # "none")
      <3>1. ev.kind = "rework" /\ ev.st # "done" /\ ev.disp # "none"
        BY <1>3, <1>6, <2>4 DEF SameEvent
      <3>2. plan.report = Never /\ ~Settle
        BY <1>4, <3>1 DEF Sending, ChosenSound
      <3> QED
        BY <3>2, ReportKept
    <2> QED
      BY <2>1, <2>2, <2>3, <2>4, EventKept
  <1> QED
    BY <1>1, <1>2, <1>5, <1>6 DEF ChosenSound

(* Reading the output of the reporting node puts its revision on record.   *)
LEMMA OutputReported ==
  ASSUME IInv, Reported(plan), NEW n \in Nodes, ReadOutput(n), NEW h \in held'
  PROVE  Reported(h)
  <1>1. /\ plan.node[n].st = "dispatched"
        /\ \A m \in Nodes \ {n} : h.node[m] = plan.node[m]
        /\ \/ h.node[n].st = "blocked" /\ h.report = plan.report
           \/ /\ h.node[n].st = "completed" /\ h.node[n].rev = rev
              /\ h.report = IF n \in Reports THEN rev ELSE plan.report
    BY OutputIs
  <1>2. Reports \subseteq Nodes /\ \A m, k \in Reports : m = k
    BY WorkflowAssumption
  <1>3. CASE n \in Reports /\ h.report = rev /\ h.node[n].st = "completed" /\ h.node[n].rev = rev
    BY <1>2, <1>3 DEF Reported
  <1>4. CASE h.report = plan.report
    <2>1. SUFFICES ASSUME plan.report # Never, NEW m \in Reports
                   PROVE  h.node[m].st = "completed" /\ h.node[m].rev = plan.report
      BY <1>4 DEF Reported
    <2>2. plan.node[m].st = "completed" /\ plan.node[m].rev = plan.report
      BY <2>1 DEF Reported
    <2>3. m # n /\ m \in Nodes
      BY <1>1, <1>2, <2>2
    <2> QED
      BY <1>1, <2>2, <2>3
  <1> QED
    BY <1>1, <1>3, <1>4

LEMMA ReportStays ==
  ASSUME IInv, ChosenSound, ReportSound, [Next]_vars
  PROVE  ReportSound'
  <1>1. ASSUME plan'.report # Never, NEW n \in Reports
        PROVE  plan'.node[n].st = "completed" /\ plan'.node[n].rev = plan'.report
    <2>1. CASE Settle
      BY <1>1, <2>1 DEF Settle, ReportSound, Reported
    <2>2. CASE Plan /\ plan'.report = plan.report
      BY <1>1, <2>2 DEF Plan, ReportSound
    <2>3. CASE plan'.report = plan.report /\ plan'.node = plan.node
      BY <1>1, <2>3 DEF ReportSound, Reported
    <2>4. CASE Mark /\ plan'.report = plan.report
      <3>1. plan.node[n].st = "completed" /\ plan.node[n].rev = plan.report /\ n \in Nodes
        BY <1>1, <2>4, WorkflowAssumption DEF ReportSound, Reported
      <3>2. ev.st = "processing" /\ ev.kind \in Sending /\ ev.disp # "none"
        BY <2>4 DEF Mark, IInv, PlaceSound
      <3>3. ev.kind = "dispatch"
        BY <1>1, <2>4, <3>2 DEF Sending, ChosenSound
      <3>4. n # ev.node
        BY <3>1, <3>2, <3>3 DEF ChosenSound
      <3> QED
        BY <2>4, <3>1, <3>4, MarkIs
    <2> QED
      BY <1>1, <2>1, <2>2, <2>3, <2>4, ReportKept
  <1>2. ASSUME plan'.needed PROVE plan'.report = Never
    <2>1. CASE Settle
      BY <1>2, <2>1 DEF Settle, ReportSound, IInv, HeldSound
    <2> QED
      BY <1>2, <2>1, ReportKept DEF ReportSound
  <1>3. ASSUME pc' = "planning" PROVE plan'.report = Never
    <2>1. CASE AskPlan
      BY <2>1 DEF AskPlan, ReportSound
    <2>2. CASE UNCHANGED <<pc, look, held, plan, ev>>
      BY <1>3, <2>2 DEF ReportSound
    <2> QED
      BY <1>3, <2>1, <2>2, PlaceKept
  <1>4. ASSUME pc' = "settling" PROVE ~plan'.needed /\ \A h \in held' : Reported(h)
    <2>1. CASE \E n \in Nodes : ReadOutput(n)
      BY <2>1, OutputIs, OutputReported DEF ReportSound
    <2>2. CASE UNCHANGED <<pc, look, held, plan, ev>>
      BY <1>4, <2>2 DEF ReportSound
    <2> QED
      BY <1>4, <2>1, <2>2, PlaceKept
  <1>5. Reported(plan)'
    BY <1>1 DEF Reported
  <1> QED
    BY <1>2, <1>3, <1>4, <1>5 DEF ReportSound, Reported

(***************************************************************************)
(* What was noted of the nodes that read                                   *)
(***************************************************************************)
(* What is chosen is not settled already, and the command is run while no  *)
(* reviewer that validates has been: an open choice stays so.              *)
NoneChecked == \A n \in Checks : plan.node[n].st # "completed"
StillOpen(kind, n) ==
    /\ kind = "verify" => NoneChecked
    /\ kind \in Sending /\ n \in Nodes \ Writers => plan.node[n].st # "completed"
OpenSound ==
    /\ pc = "choosing" => \A c \in held : StillOpen(c.kind, c.node)
    /\ pc = "settling" => ev.kind \in {"none", "plan", "decide"} \/ ev.st = "done"
    /\ ev.st # "done" => StillOpen(ev.kind, ev.node)

LEMMA CandidatesOpen ==
  ASSUME IInv, Unproved = {}, NEW c \in Candidates
  PROVE  StillOpen(c.kind, c.node)
  <1> DEFINE send == {n \in Ready : /\ n \in Reports => ~plan.issue
                                    /\ n \in Checks => ~Verifiable}
             fix == {n \in Writers : plan.issue /\ n \notin With("dispatched")}
             redo == With("blocked") \cup fix
  <1>1. \A n \in send \cup redo : n \in Writers \/ plan.node[n].st \in {"pending", "blocked"}
    BY DEF Ready, With
  <1>2. \/ c \in Offer("dispatch", send)
        \/ c \in Offer("rework", redo)
        \/ c \in {Just("deliver"), Just("replan"), Just("wait"), Just("add")}
        \/ c = Just("verify") /\ Verifiable
    BY DEF Candidates
  <1> HIDE DEF send, redo
  <1>3. CASE c \in Offer("dispatch", send) \/ c \in Offer("rework", redo)
    <2>1. c.kind \in Sending /\ c.node \in send \cup redo
      BY <1>3 DEF Offer, Sending
    <2> QED
      BY <1>1, <2>1 DEF StillOpen, Sending
  <1>4. CASE c = Just("verify") /\ Verifiable
    <2>1. rev \notin plan.proof /\ Checks \subseteq Nodes
      BY <1>4, WorkflowAssumption DEF Verifiable
    <2>2. NoneChecked
      BY <2>1 DEF Unproved, NoneChecked
    <2> QED
      BY <1>4, <2>2 DEF Just, StillOpen, Sending
  <1>5. CASE c \in {Just("deliver"), Just("replan"), Just("wait"), Just("add")}
    BY <1>5 DEF Just, StillOpen, Sending
  <1> QED
    BY <1>2, <1>3, <1>4, <1>5

(* Only a receipt that is settled completes a node.                        *)
LEMMA OpenKept ==
  ASSUME IInv, [Next]_vars, ~Settle, NEW k, NEW n, StillOpen(k, n)
  PROVE  /\ k = "verify" => \A m \in Checks : plan'.node[m].st # "completed"
         /\ k \in Sending /\ n \in Nodes \ Writers => plan'.node[n].st # "completed"
  <1>1. ASSUME NEW m \in Nodes, plan.node[m].st # "completed"
        PROVE  plan'.node[m].st # "completed"
    BY <1>1, NodesKept, BlankTyped, MarkIs
  <1> QED
    BY <1>1, WorkflowAssumption DEF StillOpen, NoneChecked

LEMMA OpenStays ==
  ASSUME IInv, OpenSound, [Next]_vars
  PROVE  OpenSound'
  <1>1. ASSUME pc' = "choosing", NEW c \in held' PROVE StillOpen(c.kind, c.node)'
    <2>1. CASE Ask
      <3>1. StillOpen(c.kind, c.node) /\ plan' = plan
        BY <1>1, <2>1, CandidatesOpen DEF Ask
      <3> QED
        BY <3>1 DEF StillOpen, NoneChecked
    <2>2. CASE UNCHANGED <<pc, look, held, plan, ev>>
      BY <1>1, <2>2 DEF OpenSound, StillOpen, NoneChecked
    <2> QED
      BY <1>1, <2>1, <2>2, PlaceKept
  <1>2. ASSUME pc' = "settling" PROVE ev'.kind \in {"none", "plan", "decide"} \/ ev'.st = "done"
    <2>1. CASE \E n \in Nodes : ReadOutput(n)
      BY <2>1, WorkingOwesNothing DEF ReadOutput
    <2>2. CASE UNCHANGED <<pc, look, held, plan, ev>>
      BY <1>2, <2>2 DEF OpenSound
    <2> QED
      BY <1>2, <2>1, <2>2, PlaceKept
  <1>3. ASSUME ev'.st # "done"
        PROVE  /\ ev'.kind = "verify" => \A m \in Checks : plan'.node[m].st # "completed"
               /\ ev'.kind \in Sending /\ ev'.node \in Nodes \ Writers =>
                     plan'.node[ev'.node].st # "completed"
    <2>1. CASE ev'.kind \in {"none", "plan", "decide"}
      BY <2>1 DEF Sending
    <2>2. CASE ev' = NoEvent \/ AskPlan \/ Ask
      BY <2>1, <2>2, NoEventTyped DEF AskPlan, Ask, NoEvent
    <2>3. CASE Choose
      <3>1. plan' = plan
        BY <2>3, Zenon DEF Choose
      <3>2. \/ ev'.kind \in {"none", "decide"}
            \/ StillOpen(ev'.kind, ev'.node)
        BY <2>3, ChoiceIs, NoEventTyped DEF OpenSound
      <3> QED
        BY <2>1, <3>1, <3>2 DEF StillOpen, NoneChecked
    <2>4. CASE SameEvent \/ Prepare
      <3>1. ev'.kind = ev.kind /\ ev'.node = ev.node /\ ev.st # "done"
        BY <1>3, <2>4, Typed DEF SameEvent, Prepare, Sends, EventSet, IInv, PlaceSound
      <3>2. Settle => ev'.kind \in {"none", "plan", "decide"}
        BY <3>1 DEF Settle, OpenSound
      <3>3. CASE ~Settle
        <4>1. PICK k, n : k = ev.kind /\ n = ev.node
          OBVIOUS
        <4>2. StillOpen(k, n)
          BY <3>1, <4>1 DEF OpenSound
        <4>3. /\ k = "verify" => \A m \in Checks : plan'.node[m].st # "completed"
              /\ k \in Sending /\ n \in Nodes \ Writers => plan'.node[n].st # "completed"
          BY <3>3, <4>2, OpenKept
        <4> QED
          BY <3>1, <4>1, <4>3
      <3> QED
        BY <2>1, <3>2, <3>3
    <2> QED
      BY <2>2, <2>3, <2>4, EventKept
  <1>4. pc' = "choosing" => \A c \in held' : StillOpen(c.kind, c.node)'
    BY <1>1
  <1>5. (ev.st # "done" => StillOpen(ev.kind, ev.node))'
    BY <1>3 DEF StillOpen, NoneChecked
  <1> QED
    BY <1>2, <1>4, <1>5 DEF OpenSound

(* What a node that reads was given is what its record says, and so is     *)
(* what its output was checked against; a reviewer that validates was      *)
(* given files whose command had passed, if it ever has on them.           *)
Told(n, r) == /\ given[n] = r
              /\ n \in Checks /\ r \in plan.proof => n \in proved
Ends(p) ==
    \A n \in Nodes \ Writers :
       /\ p.node[n].st \in {"dispatched", "completed"} => Told(n, p.node[n].rev)
       /\ p.node[n].st = "completed" => found[n] = p.node[n].rev
GivenSound ==
    /\ ev.kind \in Sending /\ ev.disp # "none" /\ ev.node \notin Writers => Told(ev.node, ev.rev)
    /\ Ends(plan)
    /\ pc = "settling" => \A h \in held : Ends(h)

LEMMA NotesKept ==
  ASSUME [Next]_vars
  PROVE  \/ UNCHANGED <<given, found, proved>>
         \/ Prepare
         \/ \E n \in Nodes : ReadOutput(n)
  <1>1. CASE Apart
    BY <1>1 DEF Apart
  <1>2. CASE Mark \/ RunCommand \/ EndCommand \/ Confirm \/ Crash \/ \E p \in People : Answer(p)
    BY <1>2 DEF Mark, RunCommand, EndCommand, Confirm, Crash, Answer, files
  <1>3. CASE Send \/ Late \/ Edit
    BY <1>3 DEF Send, Late, Edit
  <1> QED
    BY <1>1, <1>2, <1>3, Steps DEF Aside, Others

(* Where nothing new is noted nor proved.                                  *)
LEMMA GivenKept ==
  ASSUME IInv, GivenSound, BookSound, [Next]_vars, UNCHANGED <<given, found, proved>>,
         plan'.proof = plan.proof, ~Prepare, \A n \in Nodes : ~ReadOutput(n)
  PROVE  GivenSound'
  <1>1. ASSUME NEW n, NEW r, Told(n, r) PROVE Told(n, r)'
    BY <1>1 DEF Told
  <1>2. ASSUME NEW p, Ends(p) PROVE Ends(p)'
    BY <1>1, <1>2 DEF Ends
  <1>3. ASSUME ev'.kind \in Sending, ev'.disp # "none", ev'.node \notin Writers
        PROVE  Told(ev.node, ev.rev) /\ ev'.node = ev.node /\ ev'.rev = ev.rev
    <2>1. SameEvent
      BY <1>3, EventKept, ChoiceIs, NoEventTyped DEF AskPlan, Ask, Sending, NoEvent
    <2> QED
      BY <1>3, <2>1 DEF SameEvent, GivenSound
  <1>4. ASSUME NEW n \in Nodes \ Writers, plan'.node[n].st \in {"dispatched", "completed"}
        PROVE  /\ Told(n, plan'.node[n].rev)
               /\ plan'.node[n].st = "completed" => found[n] = plan'.node[n].rev
    <2>1. CASE plan'.node[n] = plan.node[n]
      BY <1>4, <2>1 DEF GivenSound, Ends
    <2>2. CASE plan'.node[n] = Blank
      BY <1>4, <2>2, BlankTyped
    <2>3. CASE Settle
      BY <1>4, <2>3 DEF Settle, GivenSound, Ends
    <2>4. CASE Mark /\ n = ev.node
      <3>1. ev.kind \in Sending /\ ev.disp # "none"
        BY <2>4 DEF Mark, IInv, PlaceSound
      <3>2. Told(n, ev.rev)
        BY <1>4, <2>4, <3>1 DEF GivenSound
      <3>3. plan'.node[n].rev = ev.rev /\ plan'.node[n].st = "dispatched"
        BY <2>4, MarkIs
      <3> QED
        BY <3>2, <3>3
    <2> QED
      BY <2>1, <2>2, <2>3, <2>4, NodesKept
  <1>5. ASSUME pc' = "settling", NEW h \in held' PROVE Ends(h)
    BY <1>5, StillSettling DEF GivenSound
  <1>6. Ends(plan)'
    <2>1. \A n, r : Told(n, r) => Told(n, r)'
      BY <1>1
    <2> QED
      BY <1>4, <2>1 DEF Ends, Told
  <1>7. ASSUME ev'.kind \in Sending, ev'.disp # "none", ev'.node \notin Writers
        PROVE  Told(ev.node, ev.rev)'
    BY <1>3, <1>7 DEF Told
  <1> QED
    BY <1>2, <1>5, <1>6, <1>7 DEF GivenSound, Ends, Told

(* The directory is read when an input is prepared, when an output is, and *)
(* when the command has ended; and by then no reviewer that validates is   *)
(* done.                                                                   *)
LEMMA GivenStays ==
  ASSUME IInv, BookSound, OpenSound, GivenSound, [Next]_vars
  PROVE  GivenSound'
  <1>1. CASE UNCHANGED <<given, found, proved>> /\ ~Prepare /\ ~Judge /\ \A n \in Nodes : ~ReadOutput(n)
    BY <1>1, BookKept, GivenKept
  <1>2. CASE Judge
    <2>1. /\ pc = "judging" /\ pc' = "idle" /\ ev.kind = "verify" /\ ev.st = "processing"
          /\ UNCHANGED <<given, found, proved>>
      BY <1>2 DEF Judge, Home, files, IInv, PlaceSound
    <2>2. NoneChecked /\ NoneOut
      BY <2>1, OutIsSent DEF OpenSound, StillOpen, Sending
    <2>3. plan'.node = plan.node
      <3>1. CASE plan' = plan
        BY <3>1
      <3>2. CASE plan' = ProofSet(plan, plan.proof \cup {ev.rev}, FALSE)
        BY <3>2, Typed DEF ProofSet, PlanSet
      <3>3. CASE plan' = ProofSet(plan, plan.proof, TRUE)
        BY <3>3, Typed DEF ProofSet, PlanSet
      <3> QED
        BY <1>2, <3>1, <3>2, <3>3, VerdictIs
    <2>4. ev'.kind \notin Sending
      <3>1. ev' = NoEvent \/ ev' = StateSet(ev, "done") \/ ev' = StateSet(ev, "attention")
        BY <1>2 DEF Judge, Done, StateSet
      <3>2. Alike(ev, StateSet(ev, "done")) /\ Alike(ev, StateSet(ev, "attention"))
        BY Typed, StateEdit DEF States
      <3> QED
        BY <2>1, <3>1, <3>2, NoEventTyped DEF Alike, Sending
    <2>5. Ends(plan)'
      BY <2>1, <2>2, <2>3 DEF GivenSound, Ends, Told, NoneChecked, NoneOut
    <2> QED
      BY <2>1, <2>4, <2>5 DEF GivenSound
  <1>3. CASE Prepare /\ ev.disp # "none"
    <2>1. UNCHANGED <<given, found, proved, plan, ev>> /\ pc' = "sending"
      BY <1>3 DEF Prepare
    <2> QED
      BY <2>1 DEF GivenSound, Ends, Told
  <1>4. CASE Prepare /\ ev.disp = "none"
    <2> DEFINE n == ev.node
    <2>1. /\ pc = "executing" /\ pc' = "sending" /\ ev.kind \in Sending /\ ev.st = "processing"
          /\ given' = Noted(given, n, rev) /\ found' = Noted(found, n, Never)
          /\ proved' = (proved \ {n}) \cup IF rev \in plan.proof THEN {n} ELSE {}
          /\ ev' = Given(ev, rev)
          /\ plan' = plan \/ plan' = Invalidated(plan, n)
      BY <1>4 DEF Prepare, Sends, Sending, Given, IInv, PlaceSound
    <2>2. n \in Nodes /\ rev \in 0 .. Never /\ ev'.node = n /\ ev'.rev = rev
      BY <2>1, Typed, NoEventTyped, GivenEdit DEF IInv, EventSound
    <2>a. /\ given \in [Nodes \ Writers -> 0 .. Never] /\ found \in [Nodes \ Writers -> 0 .. Never]
          /\ Never \in 0 .. Never
      BY NoEventTyped DEF IInv, TypeOK
    <2>b. \A m \in Nodes \ Writers : Noted(given, n, rev)[m] = IF m = n THEN rev ELSE given[m]
      BY <2>2, <2>a, NotedIs
    <2>c. \A m \in Nodes \ Writers : Noted(found, n, Never)[m] = IF m = n THEN Never ELSE found[m]
      BY <2>2, <2>a, NotedIs
    <2>3. /\ \A m \in Nodes \ Writers : given'[m] = IF m = n THEN rev ELSE given[m]
          /\ \A m \in Nodes \ Writers : found'[m] = IF m = n THEN Never ELSE found[m]
      BY <2>1, <2>b, <2>c
    <2>4. plan'.proof = plan.proof
      BY <2>1, InvalidatedBook DEF SameBook
    <2>5. \A m \in Nodes : plan'.node[m] = plan.node[m] \/ plan'.node[m] = Blank
      BY <2>1, <2>2, InvalidatedIs
    <2>6. NoneOut /\ (n \notin Writers => plan.node[n].st # "completed")
      BY <1>4, <2>1, <2>2, OutIsSent DEF OpenSound, StillOpen
    <2>7. (ev.node \notin Writers => Told(ev.node, ev.rev))'
      BY <2>1, <2>2, <2>3, <2>4 DEF Told
    <2>8. ASSUME NEW m \in Nodes \ Writers, plan'.node[m].st \in {"dispatched", "completed"}
          PROVE  /\ Told(m, plan.node[m].rev)'
                 /\ plan'.node[m] = plan.node[m] /\ plan.node[m].st = "completed"
                 /\ found'[m] = plan.node[m].rev
      <3>1. plan'.node[m] = plan.node[m] /\ plan.node[m].st = "completed" /\ m # n
        BY <2>5, <2>6, <2>8, BlankTyped DEF NoneOut
      <3> QED
        BY <2>1, <2>3, <2>4, <3>1 DEF GivenSound, Ends, Told
    <2>9. Ends(plan)'
      BY <2>8 DEF Ends, Told
    <2> QED
      BY <2>1, <2>2, <2>7, <2>9 DEF GivenSound
  <1>5. ASSUME NEW n \in Nodes, ReadOutput(n)
        PROVE  GivenSound'
    <2>1. /\ UNCHANGED <<given, proved, ev>> /\ found' = Noted(found, n, rev)
      BY <1>5 DEF ReadOutput
    <2>2. \A m \in Nodes \ Writers : found'[m] = IF m = n THEN rev ELSE found[m]
      <3>1. found \in [Nodes \ Writers -> 0 .. Never] /\ rev \in 0 .. Never
        BY Typed, NoEventTyped DEF IInv, TypeOK
      <3>2. \A m \in Nodes \ Writers : Noted(found, n, rev)[m] = IF m = n THEN rev ELSE found[m]
        BY <3>1, NotedIs
      <3> QED
        BY <2>1, <3>2
    <2>3. /\ plan'.node = plan.node /\ plan'.proof = plan.proof
          /\ plan.node[n].st = "dispatched"
          /\ \A h \in held' :
               /\ \A m \in Nodes \ {n} : h.node[m] = plan.node[m]
               /\ \/ h.node[n].st = "blocked"
                  \/ /\ h.node[n].st = "completed" /\ h.node[n].rev = rev
                     /\ n \notin Writers => plan.node[n].rev = rev
      BY <1>5, OutputIs
    <2>4. \A m, r : Told(m, r) => Told(m, r)'
      BY <2>1, <2>3 DEF Told
    <2>5. Ends(plan)'
      BY <2>2, <2>3, <2>4 DEF GivenSound, Ends, Told
    <2>6. ASSUME NEW h \in held', NEW m \in Nodes \ Writers,
                 h.node[m].st \in {"dispatched", "completed"}
          PROVE  /\ Told(m, h.node[m].rev)
                 /\ h.node[m].st = "completed" => found'[m] = h.node[m].rev
      <3>1. CASE m = n
        BY <2>2, <2>3, <2>6, <3>1 DEF GivenSound, Ends
      <3>2. CASE m # n
        BY <2>2, <2>3, <2>6, <3>2 DEF GivenSound, Ends
      <3> QED
        BY <3>1, <3>2
    <2>7. \A h \in held' : Ends(h)'
      BY <2>4, <2>6 DEF Ends, Told
    <2>8. ev'.kind \in Sending /\ ev'.disp # "none" /\ ev'.node \notin Writers
            => Told(ev.node, ev.rev)'
      BY <2>1, <2>4 DEF GivenSound
    <2> QED
      BY <2>1, <2>5, <2>7, <2>8 DEF GivenSound, Ends, Told
  <1> QED
    BY <1>1, <1>2, <1>3, <1>4, <1>5, NotesKept

(***************************************************************************)
(* From the beginning to the delivery                                      *)
(***************************************************************************)
Evidence == /\ BookSound /\ RanSound /\ HandsSound /\ ChosenSound /\ ReportSound /\ DeliverySound
            /\ OpenSound /\ GivenSound

LEMMA EvidenceInitially == Init => Evidence
  <1> SUFFICES ASSUME Init PROVE Evidence
    OBVIOUS
  <1>1. /\ pc = "idle" /\ ev = NoEvent /\ receipt.st = "none" /\ hands = {}
        /\ plan.report = Never /\ plan.proof = {} /\ plan.node = [n \in Nodes |-> Blank]
    BY DEF Init, NoInput
  <1>2. BookSound /\ RanSound /\ DeliverySound
    BY <1>1 DEF BookSound, RanSound, DeliverySound
  <1>3. HandsSound
    BY <1>1 DEF HandsSound, Sent
  <1>4. ChosenSound
    BY <1>1, NoEventTyped DEF ChosenSound, Sending
  <1>5. ReportSound
    BY <1>1 DEF ReportSound, Reported
  <1>6. OpenSound
    BY <1>1, NoEventTyped DEF OpenSound, StillOpen, Sending
  <1>7. GivenSound
    BY <1>1, NoEventTyped, BlankTyped DEF GivenSound, Ends, Sending
  <1> QED
    BY <1>2, <1>3, <1>4, <1>5, <1>6, <1>7 DEF Evidence

LEMMA EvidenceStays ==
  ASSUME IInv, Evidence, [Next]_vars
  PROVE  Evidence'
  <1>1. BookSound' /\ RanSound' /\ HandsSound'
    BY BookStays, RanStays, HandsStay DEF Evidence
  <1>2. ChosenSound' /\ ReportSound' /\ DeliverySound'
    BY ChosenStays, ReportStays, DeliveryStays DEF Evidence
  <1>3. OpenSound' /\ GivenSound'
    BY OpenStays, GivenStays DEF Evidence
  <1> QED
    BY <1>1, <1>2, <1>3 DEF Evidence

LEMMA DeliveryIsProved ==
  ASSUME IInv, Evidence, [Next]_vars, plan'.accepted, ~plan.accepted
  PROVE  /\ \A n \in Reviews \cup (Reports \ Writers) : given[n] = look /\ found[n] = look
         /\ runs[look].st = "passed" /\ Checks \subseteq proved
         /\ \A n \in Reviews : plan.node[n].who \notin hands
  <1>1. pc = "delivering"
    BY BookKept DEF Deliver, Evidence
  <1>2. look \in Revs /\ Contract(look)
    BY <1>1 DEF Evidence, DeliverySound
  <1>3. /\ Reviews \subseteq Nodes \ Writers /\ Reports \ Writers \subseteq Nodes \ Writers
        /\ Checks \subseteq Reviews /\ look # Never
    BY <1>2, WorkflowAssumption DEF Revs, Never
  <1>4. /\ \A n \in Nodes : plan.node[n].st = "completed"
        /\ \A n \in Reviews : plan.node[n].who \notin plan.authors /\ plan.node[n].rev = look
        /\ look \in plan.proof /\ plan.report = look
    BY <1>2 DEF Contract, With
  <1>5. \A n \in Reports : plan.node[n].rev = look
    BY <1>3, <1>4 DEF Evidence, ReportSound, Reported
  <1>6. \A n \in Nodes \ Writers : Told(n, plan.node[n].rev) /\ found[n] = plan.node[n].rev
    BY <1>4 DEF Evidence, GivenSound, Ends
  <1>7. \A n \in Reviews \cup (Reports \ Writers) : Told(n, look) /\ found[n] = look
    BY <1>3, <1>4, <1>5, <1>6
  <1>8. runs[look].st = "passed" /\ hands \subseteq plan.authors
    BY <1>4 DEF Evidence, RanSound, HandsSound
  <1>9. Checks \subseteq proved
    BY <1>3, <1>4, <1>7 DEF Told
  <1> QED
    BY <1>4, <1>7, <1>8, <1>9 DEF Told

(* What goes out is proved (settlement.ts, report.ts, runner.ts): everybody*)
(* whose word the report rests on was given the contents it is about and   *)
(* spoke while the files had them, after the command had passed on them,   *)
(* for any plan, any edits, crashes and late inputs in between.            *)
THEOREM DeliveriesAreProved == Spec => DeliveredIsProved
  <1>1. Evidence /\ IInv /\ [Next]_vars => Evidence'
    BY EvidenceStays
  <1>2. Spec => []Evidence
    BY <1>1, Invariance, EvidenceInitially, PTL DEF Spec
  <1>3. Evidence /\ IInv /\ [Next]_vars
        => [plan'.accepted /\ ~plan.accepted
             => /\ \A n \in Reviews \cup (Reports \ Writers) : given[n] = look /\ found[n] = look
                /\ runs[look].st = "passed" /\ Checks \subseteq proved
                /\ \A n \in Reviews : plan.node[n].who \notin hands]_vars
    BY DeliveryIsProved
  <1> QED
    BY <1>2, <1>3, Invariance, PTL DEF Spec, DeliveredIsProved

(***************************************************************************)
(* The questions (Questions).                                              *)
(*                                                                         *)
(* A question of a committed wait is only ever the wait's to send, one of  *)
(* a deferral only ever the notice's: so each goes out through one row,    *)
(* and a row that may have reached the chat is not sent again.             *)
(***************************************************************************)
AskEvents == [st : {"none", "pending", "processing", "done", "superseded", "attention"},
              act : {"none", "wait"}, told : BOOLEAN,
              note : {"none", "sending", "uncertain", "retryable", "sent"},
              runs : Int, sends : Int]
AskPlaces == {"idle", "scan", "alert", "pick", "choose", "execute", "base", "check", "checked",
              "save", "saved", "last", "end", "notify", "text", "send", "wire"}
AskRuns == [at : AskPlaces,
            key : Q!Keys, back : {"none", "apply", "notify", "defer"}, m : {0, 1}, seen : {0, 1},
            q : Q!Questions \cup {NoQuestion}, moved : BOOLEAN]
AskFlows == [user : 0..MaxChanges, grown : BOOLEAN,
             wait : {NoWait} \cup (Q!Keys \X {0, 1} \X BOOLEAN),
             q : Q!Questions \cup {NoQuestion}, scoped : BOOLEAN, stall : BOOLEAN]
AskViews == [at : {"idle", "look", "wire"}, seen : {0, 1},
             q : Q!Questions \cup {NoQuestion}, moved : BOOLEAN]
AskRows == [q : Q!Questions \cup {NoQuestion},
            st : {"none", "sending", "delivered", "retryable", "uncertain"}]

AskTypes ==
  /\ q_user \in 0..MaxChanges /\ q_files \in {0, 1}
  /\ q_flow \in AskFlows /\ q_ev \in [Q!Keys -> AskEvents] /\ q_box \in [Q!Keys -> AskRows]
  /\ q_run \in AskRuns /\ q_view \in AskViews /\ DOMAIN q_chat \subseteq Q!Facts

(* A question was put together for its key, not before the revision it     *)
(* speaks of, and says which way it may go out.                            *)
Bound(q, u, e) ==
  /\ q \in Q!Questions /\ q.user =< q.key[1] /\ q.key[1] =< u
  /\ q.why = "wait" => e[q.key].act = "wait"

FlowFits(f, u, e) ==
  /\ f.user =< u
  /\ f.q # NoQuestion => Bound(f.q, u, e)

(* What the orchestrator's step carries, by where it stands.               *)
Why(r) == IF r.back = "defer" THEN "defer" ELSE "wait"
RunFits(r, f, u, e) ==
  /\ r.at \notin {"idle", "scan", "alert", "pick", "choose"} =>
       /\ r.back # "none" /\ r.key[1] =< u
       /\ r.back # "defer" => e[r.key].act = "wait"
  /\ r.at \in {"execute", "notify", "text", "send", "wire"} => r.back # "defer"
  /\ r.at \in {"save", "saved"} => Bound(r.q, u, e) /\ r.q.why = Why(r)
  /\ r.at \in {"last", "end", "notify", "text"} => f.q # NoQuestion /\ f.q.why = Why(r)
  /\ r.at \in {"send", "wire"} => r.q \in Q!Questions /\ r.q.key = r.key /\ r.q.why = "wait"

(* What was read of the project is what it is, unless it was edited since. *)
RunFresh(r, f, x) ==
  /\ r.at = "text" => r.seen = x \/ r.moved
  /\ r.at = "send" => r.q.grown = f.grown /\ (r.q.files = x \/ r.moved)

ViewFits(v, x) ==
  /\ v.at # "idle" => v.q \in Q!Questions
  /\ v.at = "look" => v.seen = x \/ v.moved
  /\ v.at = "wire" => v.q.why = "defer"

(* What reached the chat did so once, through a row that will not be sent  *)
(* again; what is on the wire has not.                                     *)
Out == {"sending", "uncertain", "delivered"}
Shown(f, b, p) ==
  IF f.why = "wait" THEN b[f.key].st \in Out /\ Q!About(b[f.key].q) = f
  ELSE \E s \in Out : [q |-> f, st |-> s] \in p
ChatFits(c, b, p) == \A f \in DOMAIN c : c[f] = 1 /\ Shown(f, b, p)
WireFits(r, v, c, b, p) ==
  /\ r.at = "wire" => b[r.key] = [q |-> r.q, st |-> "sending"] /\ Q!About(r.q) \notin DOMAIN c
  /\ v.at = "wire" => [q |-> Q!About(v.q), st |-> "sending"] \in p /\ Q!About(v.q) \notin DOMAIN c

AskInv ==
  /\ AskTypes
  /\ FlowFits(q_flow, q_user, q_ev) /\ RunFits(q_run, q_flow, q_user, q_ev)
  /\ RunFresh(q_run, q_flow, q_files) /\ ViewFits(q_view, q_files)
  /\ ChatFits(q_chat, q_box, q_posts) /\ WireFits(q_run, q_view, q_chat, q_box, q_posts)

LEMMA AskNext ==
  ASSUME AskTypes', FlowFits(q_flow', q_user', q_ev'), RunFits(q_run', q_flow', q_user', q_ev'),
         RunFresh(q_run', q_flow', q_files'), ViewFits(q_view', q_files'),
         ChatFits(q_chat', q_box', q_posts'),
         WireFits(q_run', q_view', q_chat', q_box', q_posts')
  PROVE  AskInv'
  BY DEF AskInv

(* A commitment to wait is never taken back.                               *)
ActsKept(e, g) == \A k \in Q!Keys : e[k].act = "wait" => g[k].act = "wait"

LEMMA AskKeys ==
  ASSUME NEW k \in Q!Keys
  PROVE  k[1] \in 0..MaxChanges /\ k[1] \in Int
  BY QuestionsOk DEF Q!Keys, Q!QuestionsAssumption

LEMMA BoundKept ==
  ASSUME NEW q, NEW u \in Int, NEW v \in Int, NEW e, NEW g, Bound(q, u, e), u =< v, ActsKept(e, g)
  PROVE  Bound(q, v, g)
  <1>1. q.key \in Q!Keys /\ q.key[1] \in Int
    BY AskKeys DEF Bound, Q!Questions
  <1> QED
    BY <1>1 DEF Bound, ActsKept

LEMMA FlowKept ==
  ASSUME NEW f \in AskFlows, NEW h, NEW u \in Int, NEW v \in Int, NEW e, NEW g,
         FlowFits(f, u, e), u =< v, ActsKept(e, g), h.q = f.q, h.user = f.user
  PROVE  FlowFits(h, v, g)
  <1>1. f.user \in Int
    BY DEF AskFlows
  <1> QED
    BY <1>1, BoundKept DEF FlowFits

LEMMA RunKept ==
  ASSUME NEW r \in AskRuns, NEW w, NEW f, NEW u \in Int, NEW v \in Int, NEW e, NEW g,
         RunFits(r, f, u, e), u =< v, ActsKept(e, g),
         w.at = r.at, w.key = r.key, w.back = r.back, w.q = r.q
  PROVE  RunFits(w, f, v, g)
  <1>1. r.key \in Q!Keys /\ r.key[1] \in Int
    BY AskKeys DEF AskRuns
  <1> QED
    BY <1>1, BoundKept DEF RunFits, ActsKept, Why

LEMMA AskFacts ==
  ASSUME AskInv
  PROVE  /\ q_user \in 0..MaxChanges /\ q_user \in Int /\ q_files \in {0, 1}
         /\ q_flow \in AskFlows /\ q_ev \in [Q!Keys -> AskEvents] /\ q_box \in [Q!Keys -> AskRows]
         /\ q_run \in AskRuns /\ q_view \in AskViews /\ DOMAIN q_chat \subseteq Q!Facts
         /\ q_run.key \in Q!Keys /\ q_run.key[1] \in Int
         /\ q_ev[q_run.key] \in AskEvents
         /\ FlowFits(q_flow, q_user, q_ev) /\ RunFits(q_run, q_flow, q_user, q_ev)
         /\ RunFresh(q_run, q_flow, q_files) /\ ViewFits(q_view, q_files)
         /\ ChatFits(q_chat, q_box, q_posts)
         /\ WireFits(q_run, q_view, q_chat, q_box, q_posts)
  <1>1. q_run.key \in Q!Keys
    BY DEF AskInv, AskTypes, AskRuns
  <1>2. q_user \in Int
    BY QuestionsOk DEF AskInv, AskTypes, Q!QuestionsAssumption
  <1> QED
    BY <1>1, <1>2, AskKeys DEF AskInv, AskTypes

(* A step of the orchestrator that sends nothing.                          *)
LEMMA RunStep ==
  ASSUME AskInv, UNCHANGED <<q_user, q_files, Q!out, q_view>>,
         q_ev' \in [Q!Keys -> AskEvents], q_run' \in AskRuns, q_flow' \in AskFlows,
         FlowFits(q_flow', q_user, q_ev'), RunFits(q_run', q_flow', q_user, q_ev'),
         RunFresh(q_run', q_flow', q_files), q_run'.at # "wire"
  PROVE  AskInv'
  <1>1. /\ q_user' = q_user /\ q_files' = q_files /\ q_view' = q_view
        /\ q_box' = q_box /\ q_posts' = q_posts /\ q_chat' = q_chat
    BY DEF Q!out
  <1>2. AskTypes'
    BY <1>1 DEF AskInv, AskTypes
  <1>3. WireFits(q_run', q_view', q_chat', q_box', q_posts')
    BY <1>1, AskFacts DEF WireFits
  <1> QED
    BY <1>1, <1>2, <1>3, AskFacts, AskNext

(* The edits.                                                              *)
LEMMA AskIdle ==
  ASSUME NEW f, NEW u, NEW e, NEW x, NEW w, w = Q!Idle
  PROVE  w \in AskRuns /\ w.at = "idle" /\ RunFits(w, f, u, e) /\ RunFresh(w, f, x)
  <1>1. <<0, 0>> \in Q!Keys
    BY QuestionsOk DEF Q!Keys, Q!QuestionsAssumption
  <1> QED
    BY <1>1 DEF Q!Idle, AskRuns, AskPlaces, RunFits, RunFresh

LEMMA AskGo ==
  ASSUME NEW r \in AskRuns, NEW p \in AskPlaces, NEW w, w = [r EXCEPT !.at = p]
  PROVE  /\ w \in AskRuns /\ w.at = p /\ w.key = r.key /\ w.back = r.back /\ w.m = r.m
         /\ w.seen = r.seen /\ w.q = r.q /\ w.moved = r.moved
  BY DEF AskRuns

(* An event that is written keeps its commitment.                          *)
LEMMA AskEvent ==
  ASSUME AskInv, NEW e \in AskEvents, q_ev' = [q_ev EXCEPT ![q_run.key] = e],
         e.act = "wait" \/ e.act = q_ev[q_run.key].act
  PROVE  /\ q_ev' \in [Q!Keys -> AskEvents] /\ ActsKept(q_ev, q_ev')
         /\ q_ev'[q_run.key] = e
  BY AskFacts DEF ActsKept

(* The orchestrator is home again with its workflow as it was, but for     *)
(* what it waits for.                                                      *)
LEMMA HomeStep ==
  ASSUME AskInv, UNCHANGED <<q_user, q_files, Q!out, q_view>>, Q!Home,
         q_ev' \in [Q!Keys -> AskEvents], ActsKept(q_ev, q_ev'),
         q_flow' \in AskFlows, q_flow'.q = q_flow.q, q_flow'.user = q_flow.user
  PROVE  AskInv'
  <1>1. /\ q_run' \in AskRuns /\ q_run'.at = "idle" /\ RunFits(q_run', q_flow', q_user, q_ev')
        /\ RunFresh(q_run', q_flow', q_files)
    BY AskIdle DEF Q!Home
  <1>2. FlowFits(q_flow', q_user, q_ev')
    BY AskFacts, FlowKept
  <1> QED
    BY <1>1, <1>2, RunStep

(* The orchestrator moves on.                                              *)
LEMMA GoStep ==
  ASSUME AskInv, UNCHANGED <<q_user, q_files, Q!out, q_view>>,
         q_ev' \in [Q!Keys -> AskEvents], ActsKept(q_ev, q_ev'),
         q_flow' \in AskFlows, q_flow'.q = q_flow.q, q_flow'.user = q_flow.user,
         q_run' \in AskRuns, q_run'.at # "wire",
         RunFits(q_run', q_flow', q_user, q_ev'), RunFresh(q_run', q_flow', q_files)
  PROVE  AskInv'
  <1>1. FlowFits(q_flow', q_user, q_ev')
    BY AskFacts, FlowKept
  <1> QED
    BY <1>1, RunStep

LEMMA AskSame ==
  ASSUME AskInv
  PROVE  /\ q_ev' = q_ev => q_ev' \in [Q!Keys -> AskEvents] /\ ActsKept(q_ev, q_ev')
         /\ q_flow' = q_flow =>
              q_flow' \in AskFlows /\ q_flow'.q = q_flow.q /\ q_flow'.user = q_flow.user
  BY AskFacts DEF ActsKept

(***************************************************************************)
(* The steps of the orchestrator.                                          *)
(***************************************************************************)
LEMMA AskTick ==
  ASSUME AskInv, Q!Tick
  PROVE  AskInv'
  <1>1. /\ q_run' = [q_run EXCEPT !.at = "scan"] /\ q_ev' = q_ev
        /\ UNCHANGED <<q_user, q_files, Q!out, q_view>>
    BY DEF Q!Tick, Q!Go
  <1>2. q_flow' \in AskFlows /\ q_flow'.q = q_flow.q /\ q_flow'.user = q_flow.user
    BY AskFacts DEF Q!Tick, AskFlows
  <1>3. q_run' \in AskRuns /\ q_run'.at = "scan"
    BY <1>1, AskFacts, AskGo DEF AskPlaces
  <1>4. RunFits(q_run', q_flow', q_user, q_ev') /\ RunFresh(q_run', q_flow', q_files)
    BY <1>3 DEF RunFits, RunFresh
  <1> QED
    BY <1>1, <1>2, <1>3, <1>4, AskSame, GoStep

(* Reconciliation moves states, never a commitment.                        *)
LEMMA AskRecovered ==
  ASSUME AskInv, NEW k \in Q!Keys
  PROVE  Q!Recovered(k) \in AskEvents /\ Q!Recovered(k).act = q_ev[k].act
  <1>1. PICK e \in AskEvents : e = q_ev[k]
    BY AskFacts
  <1> QED
    BY <1>1 DEF Q!Recovered, AskEvents

LEMMA AskReconciled ==
  ASSUME AskInv, NEW g, g = Q!Reconciled
  PROVE  /\ g \in [Q!Keys -> AskEvents] /\ ActsKept(q_ev, g)
         /\ \A k \in Q!Keys : g[k].act = q_ev[k].act
  <1>1. ASSUME NEW k \in Q!Keys PROVE g[k] \in AskEvents /\ g[k].act = q_ev[k].act
    <2>1. PICK e \in AskEvents : e = Q!Recovered(k) /\ e.act = q_ev[k].act
      BY AskRecovered
    <2>2. g[k] = IF k[1] # q_user /\ e.st \notin {"none", "done"}
                 THEN [e EXCEPT !.st = "superseded"]
                 ELSE IF e.st = "processing" THEN [e EXCEPT !.st = "pending"] ELSE e
      BY <2>1 DEF Q!Reconciled
    <2> QED
      BY <2>1, <2>2 DEF AskEvents
  <1>2. g \in [Q!Keys -> AskEvents]
    BY <1>1 DEF Q!Reconciled
  <1> QED
    BY <1>1, <1>2 DEF ActsKept

LEMMA AskScan ==
  ASSUME AskInv, Q!Scan
  PROVE  AskInv'
  <1>1. /\ q_ev' = Q!Reconciled /\ UNCHANGED <<q_user, q_files, Q!out, q_view>>
    BY DEF Q!Scan
  <1>2. /\ q_ev' \in [Q!Keys -> AskEvents] /\ ActsKept(q_ev, q_ev')
        /\ \A k \in Q!Keys : q_ev'[k].act = q_ev[k].act
    BY <1>1, AskReconciled
  <1>3. CASE q_flow' = q_flow /\ Q!Home
    BY <1>1, <1>2, <1>3, AskSame, HomeStep
  <1>4. CASE q_flow' = [q_flow EXCEPT !.user = q_user, !.wait = NoWait, !.q = NoQuestion,
                                      !.stall = FALSE] /\ Q!Home
    <2>1. q_flow' \in AskFlows /\ q_flow'.q = NoQuestion /\ q_flow'.user = q_user
      BY <1>4, AskFacts DEF AskFlows
    <2>2. FlowFits(q_flow', q_user, q_ev')
      BY <2>1, AskFacts DEF FlowFits
    <2>3. /\ q_run' \in AskRuns /\ q_run'.at = "idle"
          /\ RunFits(q_run', q_flow', q_user, q_ev') /\ RunFresh(q_run', q_flow', q_files)
      BY <1>4, AskIdle DEF Q!Home
    <2> QED
      BY <1>1, <1>2, <2>1, <2>2, <2>3, RunStep
  <1>5. ASSUME q_flow' = q_flow, NEW k \in Q!Keys, k[1] = q_user, NEW p \in AskPlaces,
               NEW b \in {"none", "apply", "notify", "defer"}, Q!For(k, p, b),
               \/ p \in {"alert", "pick"}
               \/ p \in {"base", "execute"} /\ b \in {"apply", "notify"} /\ q_ev'[k].act = "wait"
        PROVE  AskInv'
    <2>1. q_run' \in AskRuns /\ q_run'.at = p /\ q_run'.key = k /\ q_run'.back = b
      BY <1>5, AskFacts DEF Q!For, AskRuns
    <2>2. k[1] \in Int
      BY AskKeys
    <2>3. RunFits(q_run', q_flow', q_user, q_ev') /\ RunFresh(q_run', q_flow', q_files)
          /\ q_run'.at # "wire"
      BY <1>5, <2>1, <2>2 DEF RunFits, RunFresh
    <2> QED
      BY <1>1, <1>2, <1>5, <2>1, <2>3, AskSame, GoStep
  <1>6. ASSUME NEW k \in Q!Live("attention"), Q!For(k, "alert", "none"), q_flow' = q_flow
        PROVE  AskInv'
    <2>1. k \in Q!Keys /\ k[1] = q_user
      BY <1>6 DEF Q!Live
    <2> QED
      BY <1>5, <1>6, <2>1 DEF AskPlaces
  <1>7. ASSUME NEW k \in Q!Unsent, Q!For(k, "base", "notify"), q_flow' = q_flow
        PROVE  AskInv'
    <2>1. k \in Q!Keys /\ k[1] = q_user /\ q_ev'[k].act = "wait"
      BY <1>1, <1>7 DEF Q!Unsent, Q!Live
    <2> QED
      BY <1>5, <1>7, <2>1 DEF AskPlaces
  <1>8. ASSUME NEW k \in Q!Committed, Q!For(k, "execute", "apply"), q_flow' = q_flow
        PROVE  AskInv'
    <2>1. k \in Q!Keys /\ k[1] = q_user /\ q_ev'[k].act = "wait"
      BY <1>1, <1>8 DEF Q!Committed, Q!Live
    <2> QED
      BY <1>5, <1>8, <2>1 DEF AskPlaces
  <1>9. ASSUME Q!For(<<q_user, q_files>>, "pick", "none"), q_flow' = q_flow
        PROVE  AskInv'
    <2>1. <<q_user, q_files>> \in Q!Keys /\ <<q_user, q_files>>[1] = q_user
      BY AskFacts DEF Q!Keys
    <2> QED
      BY <1>5, <1>9, <2>1 DEF AskPlaces
  <1> QED
    BY <1>3, <1>4, <1>6, <1>7, <1>8, <1>9 DEF Q!Scan

LEMMA AskAlert ==
  ASSUME AskInv, Q!Alert
  PROVE  AskInv'
  <1>1. PICK e \in AskEvents : e = q_ev[q_run.key]
    BY AskFacts
  <1>2. PICK w : w = [e EXCEPT !.told = @ \/ (e.note # "uncertain" /\ e.sends < MaxSends)]
    OBVIOUS
  <1>3. w \in AskEvents /\ w.act = e.act
    BY <1>1, <1>2 DEF AskEvents
  <1>4. q_ev' = [q_ev EXCEPT ![q_run.key] = w]
    BY <1>1, <1>2 DEF Q!Alert, Q!Event, Q!E
  <1>5. Q!Home /\ q_flow' = q_flow /\ UNCHANGED <<q_user, q_files, Q!out, q_view>>
    BY DEF Q!Alert
  <1> QED
    BY <1>1, <1>3, <1>4, <1>5, AskEvent, AskSame, HomeStep

LEMMA AskPick ==
  ASSUME AskInv, Q!Pick
  PROVE  AskInv'
  <1>1. UNCHANGED <<q_user, q_files, Q!out, q_view>>
    BY DEF Q!Pick
  <1>2. CASE Q!Home /\ UNCHANGED <<q_flow, q_ev>>
    BY <1>1, <1>2, AskSame, HomeStep
  <1>3. CASE /\ q_flow' = [q_flow EXCEPT !.wait = NoWait]
             /\ Q!Event([Q!E EXCEPT !.st = "processing", !.runs = @ + 1])
             /\ q_run' = [q_run EXCEPT !.at = "choose", !.seen = q_files]
    <2>1. PICK e \in AskEvents : e = q_ev[q_run.key]
      BY AskFacts
    <2>2. PICK w, n : n = e.runs + 1 /\ w = [e EXCEPT !.st = "processing", !.runs = n]
      OBVIOUS
    <2>3. w \in AskEvents /\ w.act = e.act
      <3>1. n \in Int
        BY <2>2 DEF AskEvents
      <3> QED
        BY <2>2, <3>1 DEF AskEvents
    <2>4. q_ev' = [q_ev EXCEPT ![q_run.key] = w]
      BY <1>3, <2>1, <2>2 DEF Q!Event, Q!E
    <2>5. q_flow' \in AskFlows /\ q_flow'.q = q_flow.q /\ q_flow'.user = q_flow.user
      BY <1>3, AskFacts DEF AskFlows
    <2>6. q_run' \in AskRuns /\ q_run'.at = "choose"
      BY <1>3, AskFacts DEF AskRuns, AskPlaces
    <2>7. RunFits(q_run', q_flow', q_user, q_ev') /\ RunFresh(q_run', q_flow', q_files)
      BY <2>6 DEF RunFits, RunFresh
    <2> QED
      BY <1>1, <2>1, <2>3, <2>4, <2>5, <2>6, <2>7, AskEvent, GoStep
  <1> QED
    BY <1>2, <1>3 DEF Q!Pick

(* A failed step ends at home with its event written.                      *)
LEMMA AskFailed ==
  ASSUME AskInv, NEW code \in {"superseded", "changed", "error"}, Q!Failed(code),
         q_flow' = q_flow, UNCHANGED <<q_user, q_files, Q!out, q_view>>
  PROVE  AskInv'
  <1>1. PICK e \in AskEvents : e = q_ev[q_run.key]
    BY AskFacts
  <1>2. PICK w : w = [e EXCEPT !.st = IF code \in {"superseded", "changed"} THEN "superseded"
                                      ELSE IF e.runs >= MaxSends THEN "attention" ELSE "pending"]
    OBVIOUS
  <1>3. w \in AskEvents /\ w.act = e.act
    BY <1>1, <1>2 DEF AskEvents
  <1>4. q_ev' = [q_ev EXCEPT ![q_run.key] = w] /\ Q!Home
    BY <1>1, <1>2 DEF Q!Failed, Q!Event, Q!E
  <1> QED
    BY <1>1, <1>3, <1>4, AskEvent, AskSame, HomeStep

LEMMA AskChoose ==
  ASSUME AskInv, Q!Choose
  PROVE  AskInv'
  <1>1. UNCHANGED <<q_user, q_files, Q!out, q_view>> /\ q_flow' = q_flow
    BY DEF Q!Choose
  <1>2. ASSUME Q!Failed("superseded") \/ Q!Failed("error") PROVE AskInv'
    BY <1>1, <1>2, AskFailed
  <1>3. CASE /\ q_run.at = "choose" /\ Q!Cur /\ Q!Event([Q!E EXCEPT !.act = "wait"])
             /\ Q!For(q_run.key, "base", "apply")
    <2>1. PICK e \in AskEvents : e = q_ev[q_run.key]
      BY AskFacts
    <2>2. PICK w : w = [e EXCEPT !.act = "wait"]
      OBVIOUS
    <2>3. w \in AskEvents /\ w.act = "wait"
      BY <2>2 DEF AskEvents
    <2>4. q_ev' = [q_ev EXCEPT ![q_run.key] = w]
      BY <1>3, <2>1, <2>2 DEF Q!Event, Q!E
    <2>5. /\ q_run' \in AskRuns /\ q_run'.at = "base" /\ q_run'.key = q_run.key
          /\ q_run'.back = "apply"
      BY <1>3, AskFacts DEF Q!For, AskRuns, AskPlaces
    <2>6. q_ev'[q_run.key].act = "wait" /\ q_run.key[1] =< q_user
      BY <1>3, <2>3, <2>4, AskEvent, AskFacts DEF Q!Cur
    <2>7. RunFits(q_run', q_flow', q_user, q_ev') /\ RunFresh(q_run', q_flow', q_files)
      BY <2>5, <2>6 DEF RunFits, RunFresh
    <2> QED
      BY <1>1, <2>3, <2>4, <2>5, <2>7, AskEvent, AskSame, GoStep
  <1>4. CASE /\ q_run.at = "choose" /\ Q!Cur /\ q_ev' = q_ev
             /\ Q!For(q_run.key, "base", "defer")
    <2>1. /\ q_run' \in AskRuns /\ q_run'.at = "base" /\ q_run'.key = q_run.key
          /\ q_run'.back = "defer"
      BY <1>4, AskFacts DEF Q!For, AskRuns, AskPlaces
    <2>2. q_run.key[1] =< q_user
      BY <1>4, AskFacts DEF Q!Cur
    <2>3. RunFits(q_run', q_flow', q_user, q_ev') /\ RunFresh(q_run', q_flow', q_files)
      BY <2>1, <2>2 DEF RunFits, RunFresh
    <2> QED
      BY <1>1, <1>4, <2>1, <2>3, AskSame, GoStep
  <1> QED
    BY <1>2, <1>3, <1>4 DEF Q!Choose

LEMMA AskExecute ==
  ASSUME AskInv, Q!Execute
  PROVE  AskInv'
  <1>1. PICK e \in AskEvents : e = q_ev[q_run.key]
    BY AskFacts
  <1>2. PICK w, n : n = e.runs + 1 /\ w = [e EXCEPT !.st = "processing", !.runs = n]
    OBVIOUS
  <1>3. w \in AskEvents /\ w.act = e.act
    <2>1. n \in Int
      BY <1>2 DEF AskEvents
    <2> QED
      BY <1>2, <2>1 DEF AskEvents
  <1>4. q_ev' = [q_ev EXCEPT ![q_run.key] = w]
    BY <1>1, <1>2 DEF Q!Execute, Q!Event, Q!E
  <1>5. /\ q_run.at = "execute" /\ q_run' = [q_run EXCEPT !.at = "base"]
        /\ q_flow' = q_flow /\ UNCHANGED <<q_user, q_files, Q!out, q_view>>
    BY DEF Q!Execute, Q!Go
  <1>6. /\ q_run' \in AskRuns /\ q_run'.at = "base" /\ q_run'.key = q_run.key
        /\ q_run'.back = q_run.back
    BY <1>5, AskFacts, AskGo DEF AskPlaces
  <1>7. /\ q_run.back # "none" /\ q_run.key[1] =< q_user /\ q_run.back # "defer"
        /\ q_ev'[q_run.key].act = "wait"
    BY <1>1, <1>3, <1>4, <1>5, AskEvent, AskFacts DEF RunFits
  <1>8. RunFits(q_run', q_flow', q_user, q_ev') /\ RunFresh(q_run', q_flow', q_files)
    BY <1>6, <1>7 DEF RunFits, RunFresh
  <1> QED
    BY <1>1, <1>3, <1>4, <1>5, <1>6, <1>8, AskEvent, AskSame, GoStep

LEMMA AskRead ==
  ASSUME AskInv, Q!Read
  PROVE  AskInv'
  <1>1. /\ q_run.at \in {"base", "check", "save", "last"} /\ q_ev' = q_ev /\ q_flow' = q_flow
        /\ UNCHANGED <<q_user, q_files, Q!out, q_view>>
    BY DEF Q!Read
  <1>2. CASE q_run.at = "base" /\ q_run' = [q_run EXCEPT !.at = "check", !.m = q_files]
    <2>1. /\ q_run' \in AskRuns /\ q_run'.at = "check" /\ q_run'.key = q_run.key
          /\ q_run'.back = q_run.back
      BY <1>2, AskFacts DEF AskRuns, AskPlaces
    <2>2. RunFits(q_run', q_flow', q_user, q_ev') /\ RunFresh(q_run', q_flow', q_files)
      BY <1>1, <1>2, <2>1, AskFacts DEF RunFits, RunFresh
    <2> QED
      BY <1>1, <2>1, <2>2, AskSame, GoStep
  <1>3. ASSUME NEW p \in {"checked", "saved", "end"},
               q_run' = [q_run EXCEPT !.at = p, !.seen = q_files],
               q_run.at = (CASE p = "checked" -> "check" [] p = "saved" -> "save"
                             [] p = "end" -> "last")
        PROVE  AskInv'
    <2>1. /\ q_run' \in AskRuns /\ q_run'.at = p /\ q_run'.key = q_run.key
          /\ q_run'.back = q_run.back /\ q_run'.q = q_run.q
      BY <1>3, AskFacts DEF AskRuns, AskPlaces
    <2>2. RunFits(q_run', q_flow', q_user, q_ev') /\ RunFresh(q_run', q_flow', q_files)
      BY <1>1, <1>3, <2>1, AskFacts DEF RunFits, RunFresh, Why
    <2> QED
      BY <1>1, <1>3, <2>1, <2>2, AskSame, GoStep
  <1> QED
    BY <1>2, <1>3 DEF Q!Read

(* Questions that say the same go out the same way.                        *)
LEMMA AskAbout ==
  ASSUME NEW q \in Q!Questions, NEW r \in Q!Questions, Q!About(q) = Q!About(r)
  PROVE  q.key = r.key /\ q.user = r.user /\ q.grown = r.grown /\ q.files = r.files /\ q.why = r.why
  BY DEF Q!About

LEMMA AskAsk ==
  ASSUME AskInv, Q!Ask
  PROVE  AskInv'
  <1>1. /\ q_run.at = "checked" /\ q_run.key[1] = q_user /\ q_ev' = q_ev /\ q_flow' = q_flow
        /\ UNCHANGED <<q_user, q_files, Q!out, q_view>>
    BY DEF Q!Ask, Q!Cur
  <1>2. /\ q_run.back # "none"
        /\ q_run.back # "defer" => q_ev[q_run.key].act = "wait"
        /\ q_run.m \in {0, 1} /\ q_run.key \in Q!Keys
        /\ q_flow.user \in 0..MaxChanges /\ q_flow.user =< q_user /\ q_flow.grown \in BOOLEAN
    BY <1>1, AskFacts DEF RunFits, FlowFits, AskFlows, AskRuns
  <1>3. PICK new : new = [key |-> q_run.key, user |-> q_flow.user, grown |-> q_flow.grown,
                          files |-> q_run.m,
                          why |-> IF q_run.back = "defer" THEN "defer" ELSE "wait",
                          st |-> "system"]
    OBVIOUS
  <1>4. new \in Q!Questions /\ new.why = Why(q_run) /\ new.key = q_run.key
        /\ new.user = q_flow.user
    BY <1>2, <1>3 DEF Q!Questions, Q!Status, Why
  <1>5. CASE q_flow.q # NoQuestion /\ Q!About(q_flow.q) = Q!About(new) /\ Q!Go("last")
    <2>1. q_flow.q.why = Why(q_run)
      BY <1>4, <1>5, AskFacts, AskAbout DEF FlowFits, Bound
    <2>2. /\ q_run' \in AskRuns /\ q_run'.at = "last" /\ q_run'.key = q_run.key
          /\ q_run'.back = q_run.back
      BY <1>5, AskFacts, AskGo DEF Q!Go, AskPlaces
    <2>3. RunFits(q_run', q_flow', q_user, q_ev') /\ RunFresh(q_run', q_flow', q_files)
      BY <1>1, <1>2, <1>5, <2>1, <2>2, AskFacts DEF RunFits, RunFresh, Why
    <2> QED
      BY <1>1, <2>2, <2>3, AskSame, GoStep
  <1>6. ASSUME NEW st \in Q!Status,
               q_run' = [q_run EXCEPT !.at = "save", !.q = [new EXCEPT !.st = st]]
        PROVE  AskInv'
    <2>1. PICK q : q = [new EXCEPT !.st = st]
      OBVIOUS
    <2>2. q \in Q!Questions /\ q.why = Why(q_run) /\ q.key = q_run.key /\ q.user = q_flow.user
      BY <1>4, <2>1 DEF Q!Questions
    <2>3. /\ q_run' \in AskRuns /\ q_run'.at = "save" /\ q_run'.key = q_run.key
          /\ q_run'.back = q_run.back /\ q_run'.q = q
      BY <1>6, <2>1, <2>2, AskFacts DEF AskRuns, AskPlaces
    <2>4. Bound(q, q_user, q_ev)
      <3>1. q.user =< q.key[1] /\ q.key[1] =< q_user
        BY <1>1, <1>2, <2>2, AskFacts
      <3>2. q.why = "wait" => q_ev[q.key].act = "wait"
        BY <1>2, <2>2 DEF Why
      <3> QED
        BY <2>2, <3>1, <3>2 DEF Bound
    <2>5. RunFits(q_run', q_flow', q_user, q_ev') /\ RunFresh(q_run', q_flow', q_files)
      BY <1>1, <1>2, <2>2, <2>3, <2>4, AskFacts DEF RunFits, RunFresh, Why
    <2> QED
      BY <1>1, <2>3, <2>5, AskSame, GoStep
  <1> QED
    BY <1>3, <1>5, <1>6 DEF Q!Ask

LEMMA AskSave ==
  ASSUME AskInv, Q!Save
  PROVE  AskInv'
  <1>1. /\ q_run.at = "saved" /\ q_ev' = q_ev /\ q_flow' = [q_flow EXCEPT !.q = q_run.q]
        /\ q_run' = [q_run EXCEPT !.at = "last", !.q = NoQuestion]
        /\ UNCHANGED <<q_user, q_files, Q!out, q_view>>
    BY DEF Q!Save
  <1>2. /\ q_run.back # "none"
        /\ q_run.back # "defer" => q_ev[q_run.key].act = "wait"
        /\ q_run.key[1] =< q_user /\ Bound(q_run.q, q_user, q_ev) /\ q_run.q.why = Why(q_run)
    BY <1>1, AskFacts DEF RunFits
  <1>3. q_run.q \in Q!Questions
    BY <1>2 DEF Bound
  <1>4. q_flow' \in AskFlows /\ q_flow'.q = q_run.q /\ q_flow'.user = q_flow.user
    BY <1>1, <1>3, AskFacts DEF AskFlows
  <1>5. FlowFits(q_flow', q_user, q_ev')
    BY <1>1, <1>2, <1>4, AskFacts DEF FlowFits
  <1>6. /\ q_run' \in AskRuns /\ q_run'.at = "last" /\ q_run'.key = q_run.key
        /\ q_run'.back = q_run.back
    BY <1>1, AskFacts DEF AskRuns, AskPlaces
  <1>7. q_flow'.q # NoQuestion
    BY <1>3, <1>4, QuestionsOk DEF Q!QuestionsAssumption
  <1>8. RunFits(q_run', q_flow', q_user, q_ev') /\ RunFresh(q_run', q_flow', q_files)
    <2>1. q_flow'.q.why = Why(q_run') /\ q_ev'[q_run'.key].act = q_ev[q_run.key].act
      BY <1>1, <1>2, <1>4, <1>6 DEF Why
    <2> QED
      BY <1>2, <1>6, <1>7, <2>1 DEF RunFits, RunFresh
  <1> QED
    BY <1>1, <1>4, <1>5, <1>6, <1>8, AskSame, RunStep

LEMMA AskPrepared ==
  ASSUME AskInv, Q!Prepared
  PROVE  AskInv'
  <1>1. /\ q_run.at = "end" /\ UNCHANGED <<q_user, q_files, Q!out, q_view>>
        /\ \/ /\ q_flow' = [q_flow EXCEPT !.wait = <<q_run.key, q_run.m, q_flow.grown>>]
              /\ Q!Event([Q!E EXCEPT !.st = "pending", !.runs = @ - 1])
              /\ Q!Home
           \/ /\ q_run.back # "defer" /\ q_flow' = q_flow
              /\ Q!Event([Q!E EXCEPT !.st = "done"]) /\ Q!Go("notify")
    BY DEF Q!Prepared
  <1>2. PICK e \in AskEvents : e = q_ev[q_run.key]
    BY AskFacts
  <1>3. CASE /\ q_flow' = [q_flow EXCEPT !.wait = <<q_run.key, q_run.m, q_flow.grown>>]
             /\ Q!Event([Q!E EXCEPT !.st = "pending", !.runs = @ - 1])
             /\ Q!Home
    <2>1. PICK w, n : n = e.runs - 1 /\ w = [e EXCEPT !.st = "pending", !.runs = n]
      OBVIOUS
    <2>2. w \in AskEvents /\ w.act = e.act
      <3>1. n \in Int
        BY <2>1 DEF AskEvents
      <3> QED
        BY <2>1, <3>1 DEF AskEvents
    <2>3. q_ev' = [q_ev EXCEPT ![q_run.key] = w]
      BY <1>2, <1>3, <2>1 DEF Q!Event, Q!E
    <2>4. <<q_run.key, q_run.m, q_flow.grown>> \in Q!Keys \X {0, 1} \X BOOLEAN
      BY AskFacts DEF AskRuns, AskFlows
    <2>5. q_flow' \in AskFlows /\ q_flow'.q = q_flow.q /\ q_flow'.user = q_flow.user
      BY <1>3, <2>4, AskFacts DEF AskFlows
    <2> QED
      BY <1>1, <1>2, <1>3, <2>2, <2>3, <2>5, AskEvent, HomeStep
  <1>4. CASE /\ q_run.back # "defer" /\ q_flow' = q_flow
             /\ Q!Event([Q!E EXCEPT !.st = "done"]) /\ Q!Go("notify")
    <2>1. PICK w : w = [e EXCEPT !.st = "done"]
      OBVIOUS
    <2>2. w \in AskEvents /\ w.act = e.act
      BY <2>1 DEF AskEvents
    <2>3. q_ev' = [q_ev EXCEPT ![q_run.key] = w]
      BY <1>2, <1>4, <2>1 DEF Q!Event, Q!E
    <2>4. /\ q_run' \in AskRuns /\ q_run'.at = "notify" /\ q_run'.key = q_run.key
          /\ q_run'.back = q_run.back
      BY <1>4, AskFacts, AskGo DEF Q!Go, AskPlaces
    <2>5. /\ q_run.back # "none" /\ q_run.key[1] =< q_user /\ e.act = "wait"
          /\ q_flow.q # NoQuestion /\ q_flow.q.why = Why(q_run)
      BY <1>1, <1>2, <1>4, AskFacts DEF RunFits
    <2>6. q_ev'[q_run.key].act = "wait"
      BY <2>2, <2>3, <2>5, AskFacts
    <2>7. RunFits(q_run', q_flow', q_user, q_ev') /\ RunFresh(q_run', q_flow', q_files)
      BY <1>4, <2>4, <2>5, <2>6 DEF RunFits, RunFresh, Why
    <2> QED
      BY <1>1, <1>2, <1>4, <2>2, <2>3, <2>4, <2>7, AskEvent, AskSame, GoStep
  <1> QED
    BY <1>1, <1>3, <1>4

(* What was overtaken is left or written off, and the step ends.           *)
LEMMA AskDropped ==
  ASSUME AskInv, NEW code \in {"superseded", "changed"}, Q!Dropped(code), q_flow' = q_flow,
         UNCHANGED <<q_user, q_files, Q!out, q_view>>
  PROVE  AskInv'
  <1>1. CASE q_run.back = "notify" /\ code = "changed"
    <2>1. PICK e \in AskEvents : e = q_ev[q_run.key]
      BY AskFacts
    <2>2. PICK w : w = [e EXCEPT !.st = "superseded"]
      OBVIOUS
    <2>3. w \in AskEvents /\ w.act = e.act
      BY <2>2 DEF AskEvents
    <2>4. q_ev' = [q_ev EXCEPT ![q_run.key] = w] /\ Q!Home
      BY <1>1, <2>1, <2>2 DEF Q!Dropped
    <2> QED
      BY <2>1, <2>3, <2>4, AskEvent, AskSame, HomeStep
  <1>2. CASE q_run.back = "notify" /\ code # "changed"
    <2>1. q_ev' = q_ev /\ Q!Home
      BY <1>2 DEF Q!Dropped
    <2> QED
      BY <2>1, AskSame, HomeStep
  <1>3. CASE q_run.back # "notify"
    BY <1>3, AskFailed DEF Q!Dropped
  <1> QED
    BY <1>1, <1>2, <1>3

LEMMA AskOvertaken ==
  ASSUME AskInv, Q!Overtaken
  PROVE  AskInv'
  <1>1. q_flow' = q_flow /\ UNCHANGED <<q_user, q_files, Q!out, q_view>>
    BY DEF Q!Overtaken
  <1>2. Q!Dropped("superseded") \/ Q!Dropped("changed")
    BY DEF Q!Overtaken
  <1> QED
    BY <1>1, <1>2, AskDropped

(***************************************************************************)
(* Sending.                                                                *)
(***************************************************************************)
LEMMA AskNotify ==
  ASSUME AskInv, Q!Notify
  PROVE  AskInv'
  <1>1. /\ q_run.at = "notify" /\ q_flow' = q_flow
        /\ UNCHANGED <<q_user, q_files, Q!out, q_view>>
    BY DEF Q!Notify
  <1>2. ASSUME Q!Dropped("superseded") PROVE AskInv'
    BY <1>1, <1>2, AskDropped
  <1>3. CASE Q!Home /\ q_ev' = q_ev
    BY <1>1, <1>3, AskSame, HomeStep
  <1>4. CASE Q!Event([Q!E EXCEPT !.note = "uncertain", !.st = "attention"]) /\ Q!Home
    <2>1. PICK e \in AskEvents : e = q_ev[q_run.key]
      BY AskFacts
    <2>2. PICK w : w = [e EXCEPT !.note = "uncertain", !.st = "attention"]
      OBVIOUS
    <2>3. w \in AskEvents /\ w.act = e.act
      BY <2>2 DEF AskEvents
    <2>4. q_ev' = [q_ev EXCEPT ![q_run.key] = w]
      BY <1>4, <2>1, <2>2 DEF Q!Event, Q!E
    <2> QED
      BY <1>1, <1>4, <2>1, <2>3, <2>4, AskEvent, AskSame, HomeStep
  <1>5. CASE q_run' = [q_run EXCEPT !.at = "text", !.seen = q_files] /\ q_ev' = q_ev
    <2>1. /\ q_run' \in AskRuns /\ q_run'.at = "text" /\ q_run'.key = q_run.key
          /\ q_run'.back = q_run.back /\ q_run'.seen = q_files
      BY <1>5, AskFacts DEF AskRuns, AskPlaces
    <2>2. RunFits(q_run', q_flow', q_user, q_ev') /\ RunFresh(q_run', q_flow', q_files')
      BY <1>1, <1>5, <2>1, AskFacts DEF RunFits, RunFresh, Why
    <2> QED
      BY <1>1, <1>5, <2>1, <2>2, AskSame, GoStep
  <1> QED
    BY <1>2, <1>3, <1>4, <1>5 DEF Q!Notify

LEMMA AskText ==
  ASSUME AskInv, Q!Text
  PROVE  AskInv'
  <1>1. /\ q_run.at = "text" /\ q_flow' = q_flow
        /\ UNCHANGED <<q_user, q_files, Q!out, q_view>>
    BY DEF Q!Text
  <1>2. ASSUME Q!Dropped("superseded") PROVE AskInv'
    BY <1>1, <1>2, AskDropped
  <1>3. CASE Q!Event([Q!E EXCEPT !.st = "superseded"]) /\ Q!Home
    <2>1. PICK e \in AskEvents : e = q_ev[q_run.key]
      BY AskFacts
    <2>2. PICK w : w = [e EXCEPT !.st = "superseded"]
      OBVIOUS
    <2>3. w \in AskEvents /\ w.act = e.act
      BY <2>2 DEF AskEvents
    <2>4. q_ev' = [q_ev EXCEPT ![q_run.key] = w]
      BY <1>3, <2>1, <2>2 DEF Q!Event, Q!E
    <2> QED
      BY <1>1, <1>3, <2>1, <2>3, <2>4, AskEvent, AskSame, HomeStep
  <1>4. CASE /\ Q!Fits(q_flow.q) /\ q_flow.q.key = q_run.key /\ q_flow.q.files = q_run.seen
             /\ Q!Event([Q!E EXCEPT !.note = "sending", !.sends = @ + 1])
             /\ q_run' = [q_run EXCEPT !.at = "send", !.q = q_flow.q]
    <2>1. PICK e \in AskEvents : e = q_ev[q_run.key]
      BY AskFacts
    <2>2. PICK w, c : c = e.sends + 1 /\ w = [e EXCEPT !.note = "sending", !.sends = c]
      OBVIOUS
    <2>3. w \in AskEvents /\ w.act = q_ev[q_run.key].act
      <3>1. c \in Int
        BY <2>2 DEF AskEvents
      <3> QED
        BY <2>1, <2>2, <3>1 DEF AskEvents
    <2>4. q_ev' = [q_ev EXCEPT ![q_run.key] = w]
      BY <1>4, <2>1, <2>2 DEF Q!Event, Q!E
    <2>5. q_flow.q \in Q!Questions /\ q_flow.q.grown = q_flow.grown
      BY <1>4, AskFacts DEF Q!Fits, FlowFits, Bound
    <2>6. /\ q_run' \in AskRuns /\ q_run'.at = "send" /\ q_run'.key = q_run.key
          /\ q_run'.back = q_run.back /\ q_run'.q = q_flow.q /\ q_run'.moved = q_run.moved
      BY <1>4, <2>5, AskFacts DEF AskRuns, AskPlaces
    <2>7. /\ q_run.back # "none" /\ q_run.back # "defer" /\ q_run.key[1] =< q_user
          /\ q_ev[q_run.key].act = "wait" /\ q_flow.q.why = "wait"
          /\ q_run.seen = q_files \/ q_run.moved
      BY <1>1, AskFacts DEF RunFits, RunFresh, Why
    <2>8. q_ev'[q_run.key].act = "wait"
      BY <2>3, <2>4, <2>7, AskFacts
    <2>9. RunFits(q_run', q_flow', q_user, q_ev')
      BY <1>4, <2>5, <2>6, <2>7, <2>8 DEF RunFits
    <2>10. RunFresh(q_run', q_flow', q_files')
      BY <1>1, <1>4, <2>5, <2>6, <2>7 DEF RunFresh
    <2> QED
      BY <1>1, <2>3, <2>4, <2>6, <2>9, <2>10, AskEvent, AskSame, GoStep
  <1> QED
    BY <1>2, <1>3, <1>4 DEF Q!Text

(* The orchestrator is home with what its send came to in the event.       *)
LEMMA AskOutcome ==
  ASSUME AskInv, Q!Sent \/ Q!Refused \/ Q!Unclear
  PROVE  /\ q_ev' \in [Q!Keys -> AskEvents] /\ ActsKept(q_ev, q_ev') /\ Q!Home
  <1>1. CASE Q!Sent
    <2>1. PICK e \in AskEvents : e = q_ev[q_run.key]
      BY AskFacts
    <2>2. PICK w : w = [e EXCEPT !.note = "sent", !.told = TRUE]
      OBVIOUS
    <2>3. w \in AskEvents /\ w.act = e.act
      BY <2>2 DEF AskEvents
    <2>4. q_ev' = [q_ev EXCEPT ![q_run.key] = w] /\ Q!Home
      BY <1>1, <2>1, <2>2 DEF Q!Sent, Q!Event, Q!E
    <2> QED
      BY <2>1, <2>3, <2>4, AskEvent
  <1>2. CASE Q!Refused
    <2>1. PICK e \in AskEvents : e = q_ev[q_run.key]
      BY AskFacts
    <2>2. PICK w, x : /\ x = IF e.sends >= MaxSends THEN "attention" ELSE e.st
                      /\ w = [e EXCEPT !.note = "retryable", !.st = x]
      OBVIOUS
    <2>3. w \in AskEvents /\ w.act = e.act
      <3>1. x \in {"none", "pending", "processing", "done", "superseded", "attention"}
        BY <2>2 DEF AskEvents
      <3> QED
        BY <2>2, <3>1 DEF AskEvents
    <2>4. q_ev' = [q_ev EXCEPT ![q_run.key] = w] /\ Q!Home
      BY <1>2, <2>1, <2>2 DEF Q!Refused, Q!Event, Q!E
    <2> QED
      BY <2>1, <2>3, <2>4, AskEvent
  <1>3. CASE Q!Unclear
    <2>1. PICK e \in AskEvents : e = q_ev[q_run.key]
      BY AskFacts
    <2>2. PICK w : w = [e EXCEPT !.note = "uncertain", !.st = "attention"]
      OBVIOUS
    <2>3. w \in AskEvents /\ w.act = e.act
      BY <2>2 DEF AskEvents
    <2>4. q_ev' = [q_ev EXCEPT ![q_run.key] = w] /\ Q!Home
      BY <1>3, <2>1, <2>2 DEF Q!Unclear, Q!Event, Q!E
    <2> QED
      BY <2>1, <2>3, <2>4, AskEvent
  <1> QED
    BY <1>1, <1>2, <1>3

LEMMA AskSend ==
  ASSUME AskInv, Q!Send
  PROVE  AskInv'
  <1>1. /\ q_run.at = "send" /\ q_flow' = q_flow
        /\ UNCHANGED <<q_user, q_files, q_posts, q_done, q_chat, q_view>>
    BY DEF Q!Send
  <1>2. CASE q_box' = q_box /\ (Q!Sent \/ Q!Refused \/ Q!Unclear)
    <2>1. UNCHANGED <<q_user, q_files, Q!out, q_view>>
      BY <1>1, <1>2 DEF Q!out
    <2> QED
      BY <1>1, <1>2, <2>1, AskOutcome, AskSame, HomeStep
  <1>3. CASE /\ q_box[q_run.key].st \notin Out /\ q_ev' = q_ev
             /\ q_box' = [q_box EXCEPT ![q_run.key] = [q |-> q_run.q, st |-> "sending"]]
             /\ Q!Go("wire")
    <2>1. /\ q_run' \in AskRuns /\ q_run'.at = "wire" /\ q_run'.key = q_run.key
          /\ q_run'.back = q_run.back /\ q_run'.q = q_run.q
      BY <1>3, AskFacts, AskGo DEF Q!Go, AskPlaces
    <2>2. /\ q_run.q \in Q!Questions /\ q_run.q.key = q_run.key /\ q_run.q.why = "wait"
          /\ q_run.back # "none" /\ q_run.back # "defer" /\ q_run.key[1] =< q_user
          /\ q_ev[q_run.key].act = "wait"
      BY <1>1, AskFacts DEF RunFits
    <2>3. [q |-> q_run.q, st |-> "sending"] \in AskRows
      BY <2>2 DEF AskRows
    <2>4. /\ q_box' \in [Q!Keys -> AskRows]
          /\ q_box'[q_run.key] = [q |-> q_run.q, st |-> "sending"]
          /\ \A k \in Q!Keys : k # q_run.key => q_box'[k] = q_box[k]
      BY <1>3, <2>3, AskFacts
    <2>5. AskTypes'
      BY <1>1, <1>3, <2>1, <2>4, AskFacts DEF AskTypes
    <2>6. RunFits(q_run', q_flow', q_user', q_ev') /\ RunFresh(q_run', q_flow', q_files')
      BY <1>1, <1>3, <2>1, <2>2 DEF RunFits, RunFresh
    <2>7. \A f \in DOMAIN q_chat : f.why = "wait" => f.key # q_run.key
      BY <1>3, AskFacts DEF ChatFits, Shown
    <2>8. ChatFits(q_chat', q_box', q_posts')
      <3> SUFFICES ASSUME NEW f \in DOMAIN q_chat PROVE q_chat[f] = 1 /\ Shown(f, q_box', q_posts)
        BY <1>1 DEF ChatFits
      <3>1. q_chat[f] = 1 /\ Shown(f, q_box, q_posts) /\ f.key \in Q!Keys
        BY AskFacts DEF ChatFits, Q!Facts
      <3> QED
        BY <2>4, <2>7, <3>1 DEF Shown
    <2>9. Q!About(q_run.q) \notin DOMAIN q_chat
      BY <2>2, <2>7 DEF Q!About
    <2>10. WireFits(q_run', q_view', q_chat', q_box', q_posts')
      BY <1>1, <2>1, <2>4, <2>9, AskFacts DEF WireFits
    <2> QED
      BY <1>1, <1>3, <2>5, <2>6, <2>8, <2>10, AskFacts, AskNext
  <1> QED
    BY <1>2, <1>3 DEF Q!Send, Out

(* A message that arrives is new in the chat.                              *)
LEMMA Arriving ==
  ASSUME AskInv, NEW q \in Q!Questions, NEW f, f = Q!About(q), f \notin DOMAIN q_chat,
         Q!Arrived(q)
  PROVE  /\ DOMAIN q_chat' = DOMAIN q_chat \cup {f} /\ DOMAIN q_chat' \subseteq Q!Facts
         /\ q_chat'[f] = 1 /\ \A g \in DOMAIN q_chat : q_chat'[g] = q_chat[g]
  <1>1. f \in Q!Facts
    BY DEF Q!About, Q!Facts, Q!Questions
  <1>2. q_chat' = [g \in DOMAIN q_chat \cup {f} |->
                     (IF g \in DOMAIN q_chat THEN q_chat[g] ELSE 0) + (IF g = f THEN 1 ELSE 0)]
    BY DEF Q!Arrived
  <1>3. \A g \in DOMAIN q_chat : q_chat[g] = 1 /\ g # f
    BY AskFacts DEF ChatFits
  <1> QED
    BY <1>1, <1>2, <1>3, AskFacts

LEMMA AskWire ==
  ASSUME AskInv, Q!Wire
  PROVE  AskInv'
  <1>1. /\ q_run.at = "wire" /\ q_flow' = q_flow
        /\ UNCHANGED <<q_user, q_files, q_posts, q_view>>
    BY DEF Q!Wire
  <1>2. PICK st \in {"delivered", "retryable", "uncertain"} :
          /\ q_box' = [q_box EXCEPT ![q_run.key].st = st]
          /\ Q!Sent \/ Q!Refused \/ Q!Unclear
          /\ q_chat' = q_chat \/ (Q!Arrived(q_run.q) /\ st \in Out)
    BY DEF Q!Wire, Q!Row, Out
  <1>3. PICK f, k : f = Q!About(q_run.q) /\ k = q_run.key
    OBVIOUS
  <1>4. /\ q_run.q \in Q!Questions /\ q_run.q.key = k /\ q_run.q.why = "wait"
        /\ q_box[k] = [q |-> q_run.q, st |-> "sending"] /\ f \notin DOMAIN q_chat /\ k \in Q!Keys
    BY <1>1, <1>3, AskFacts DEF RunFits, WireFits
  <1>5. f.why = "wait" /\ f.key = k
    BY <1>3, <1>4 DEF Q!About
  <1>6. PICK row : row = [q_box[k] EXCEPT !.st = st]
    OBVIOUS
  <1>7. row \in AskRows /\ row.q = q_run.q /\ row.st = st
    BY <1>4, <1>6 DEF AskRows
  <1>8. /\ q_box' \in [Q!Keys -> AskRows] /\ q_box'[k] = row
        /\ \A j \in Q!Keys : j # k => q_box'[j] = q_box[j]
    <2>1. q_box' = [q_box EXCEPT ![k] = row]
      BY <1>2, <1>3, <1>6
    <2> QED
      BY <1>4, <1>7, <2>1, AskFacts
  <1>9. q_ev' \in [Q!Keys -> AskEvents] /\ ActsKept(q_ev, q_ev') /\ Q!Home
    BY <1>2, AskOutcome
  <1>10. /\ q_run' \in AskRuns /\ q_run'.at = "idle" /\ RunFits(q_run', q_flow', q_user', q_ev')
         /\ RunFresh(q_run', q_flow', q_files')
    BY <1>9, AskIdle DEF Q!Home
  <1>11. FlowFits(q_flow', q_user', q_ev')
    BY <1>1, <1>9, AskFacts, FlowKept
  <1>12. \A g \in DOMAIN q_chat : q_chat[g] = 1 /\ Shown(g, q_box', q_posts')
    <2> SUFFICES ASSUME NEW g \in DOMAIN q_chat PROVE q_chat[g] = 1 /\ Shown(g, q_box', q_posts')
      OBVIOUS
    <2>1. q_chat[g] = 1 /\ Shown(g, q_box, q_posts) /\ g.key \in Q!Keys
      BY AskFacts DEF ChatFits, Q!Facts
    <2>2. g.why = "wait" => g.key # k
      BY <1>3, <1>4, <2>1 DEF Shown
    <2> QED
      BY <1>1, <1>8, <2>1, <2>2 DEF Shown
  <1>13. CASE q_chat' = q_chat
    <2>1. AskTypes' /\ ChatFits(q_chat', q_box', q_posts')
      BY <1>1, <1>8, <1>9, <1>10, <1>12, <1>13, AskFacts DEF AskTypes, ChatFits
    <2>2. WireFits(q_run', q_view', q_chat', q_box', q_posts')
      BY <1>1, <1>10, <1>13, AskFacts DEF WireFits
    <2> QED
      BY <1>1, <1>10, <1>11, <2>1, <2>2, AskFacts, AskNext
  <1>14. CASE Q!Arrived(q_run.q) /\ st \in Out
    <2>1. /\ DOMAIN q_chat' = DOMAIN q_chat \cup {f} /\ DOMAIN q_chat' \subseteq Q!Facts
          /\ q_chat'[f] = 1 /\ \A g \in DOMAIN q_chat : q_chat'[g] = q_chat[g]
      BY <1>3, <1>4, <1>14, Arriving
    <2>2. AskTypes'
      BY <1>1, <1>8, <1>9, <1>10, <2>1, AskFacts DEF AskTypes
    <2>3. Shown(f, q_box', q_posts')
      BY <1>3, <1>5, <1>7, <1>8, <1>14 DEF Shown
    <2>4. ChatFits(q_chat', q_box', q_posts')
      BY <1>12, <2>1, <2>3 DEF ChatFits
    <2>5. q_view.at = "wire" => Q!About(q_view.q) # f
      BY <1>5, AskFacts DEF ViewFits, Q!About
    <2>6. WireFits(q_run', q_view', q_chat', q_box', q_posts')
      BY <1>1, <1>10, <2>1, <2>5, AskFacts DEF WireFits
    <2> QED
      BY <1>1, <1>10, <1>11, <2>2, <2>4, <2>6, AskFacts, AskNext
  <1> QED
    BY <1>2, <1>13, <1>14

(***************************************************************************)
(* The steps of the notice.                                                *)
(***************************************************************************)
(* A step of the notice leaves the orchestrator alone.                     *)
LEMMA ViewStep ==
  ASSUME AskInv, UNCHANGED <<q_user, q_files, q_flow, q_ev, q_box, q_run>>,
         q_view' \in AskViews, ViewFits(q_view', q_files), DOMAIN q_chat' \subseteq Q!Facts,
         ChatFits(q_chat', q_box, q_posts'), WireFits(q_run, q_view', q_chat', q_box, q_posts')
  PROVE  AskInv'
  <1>1. AskTypes'
    BY AskFacts DEF AskTypes
  <1> QED
    BY <1>1, AskFacts, AskNext

LEMMA AskNobody ==
  ASSUME NEW w, NEW x, w = Q!Nobody
  PROVE  w \in AskViews /\ w.at = "idle" /\ ViewFits(w, x)
  BY DEF Q!Nobody, AskViews, ViewFits

LEMMA AskLook ==
  ASSUME AskInv, Q!Look
  PROVE  AskInv'
  <1>1. /\ q_flow.q # NoQuestion
        /\ q_view' = [at |-> "look", seen |-> q_files, q |-> q_flow.q, moved |-> FALSE]
        /\ UNCHANGED <<q_user, q_files, q_flow, q_ev, q_box, q_posts, q_chat, q_run>>
    BY DEF Q!Look, Q!Before, Q!out
  <1>2. q_flow.q \in Q!Questions
    BY <1>1, AskFacts DEF FlowFits, Bound
  <1>3. q_view' \in AskViews /\ q_view'.at = "look" /\ ViewFits(q_view', q_files)
    BY <1>1, <1>2, AskFacts DEF AskViews, ViewFits
  <1>4. WireFits(q_run, q_view', q_chat', q_box, q_posts')
    BY <1>1, <1>3, AskFacts DEF WireFits
  <1> QED
    BY <1>1, <1>3, <1>4, AskFacts, ViewStep

LEMMA AskShow ==
  ASSUME AskInv, Q!Show
  PROVE  AskInv'
  <1>1. q_view.at = "look" /\ UNCHANGED <<q_user, q_files, q_flow, q_ev, q_box, q_chat, q_run>>
    BY DEF Q!Show, Q!out
  <1>2. CASE q_view' = Q!Nobody /\ q_posts' = q_posts
    <2>1. q_view' \in AskViews /\ q_view'.at = "idle" /\ ViewFits(q_view', q_files)
      BY <1>2, AskNobody
    <2>2. WireFits(q_run, q_view', q_chat', q_box, q_posts')
      BY <1>1, <1>2, <2>1, AskFacts DEF WireFits
    <2> QED
      BY <1>1, <1>2, <2>1, <2>2, AskFacts, ViewStep
  <1>3. CASE /\ Q!After /\ ~Q!Silent(q_view.q) /\ Q!Posted("sending") = {}
             /\ Q!Posted("uncertain") = {} /\ Q!Posted("delivered") = {}
             /\ Q!Post("sending") /\ q_view' = [q_view EXCEPT !.at = "wire"]
    <2>1. PICK f : f = Q!About(q_view.q)
      OBVIOUS
    <2>2. q_view.q \in Q!Questions
      BY <1>1, AskFacts DEF ViewFits
    <2>3. /\ q_flow.q \in Q!Questions /\ Q!About(q_flow.q) = f /\ q_flow.q.user = q_user
          /\ Bound(q_flow.q, q_user, q_ev)
      BY <1>3, <2>1, AskFacts DEF Q!After, Q!Fits, FlowFits, Bound
    <2>4. q_flow.q.key = q_view.q.key /\ q_flow.q.why = q_view.q.why /\ q_view.q.key[1] \in Int
      BY <2>1, <2>2, <2>3, AskAbout, AskKeys DEF Q!Questions
    <2>5. q_view.q.key[1] = q_user
      BY <2>3, <2>4, AskFacts DEF Bound
    <2>6. q_view.q.why = "defer"
      <3>1. q_ev[q_view.q.key].act # "wait"
        BY <1>3, <2>5 DEF Q!Silent
      <3> QED
        BY <2>2, <2>3, <2>4, <3>1 DEF Bound, Q!Questions
    <2>7. f \notin DOMAIN q_chat
      <3>1. f.why = "defer"
        BY <2>1, <2>6 DEF Q!About
      <3>2. \A s \in Out : [q |-> f, st |-> s] \notin q_posts
        BY <1>3, <2>1 DEF Q!Posted, Out
      <3> QED
        BY <3>1, <3>2, AskFacts DEF ChatFits, Shown
    <2>8. /\ q_view' \in AskViews /\ q_view'.at = "wire" /\ q_view'.q = q_view.q
          /\ ViewFits(q_view', q_files)
      BY <1>3, <2>2, <2>6, AskFacts DEF AskViews, ViewFits
    <2>9. /\ [q |-> f, st |-> "sending"] \in q_posts'
          /\ \A g, s : g # f /\ [q |-> g, st |-> s] \in q_posts => [q |-> g, st |-> s] \in q_posts'
      <3>1. q_posts' = {p \in q_posts : p.q # f} \cup {[q |-> f, st |-> "sending"]}
        BY <1>3, <2>1 DEF Q!Post
      <3> QED
        BY <3>1
    <2>10. ChatFits(q_chat', q_box, q_posts')
      BY <1>1, <2>7, <2>9, AskFacts DEF ChatFits, Shown
    <2>11. WireFits(q_run, q_view', q_chat', q_box, q_posts')
      BY <1>1, <2>1, <2>7, <2>8, <2>9, AskFacts DEF WireFits
    <2> QED
      BY <1>1, <2>8, <2>10, <2>11, AskFacts, ViewStep
  <1> QED
    BY <1>2, <1>3 DEF Q!Show, Q!out

LEMMA AskNoticed ==
  ASSUME AskInv, Q!Noticed
  PROVE  AskInv'
  <1>1. /\ q_view.at = "wire" /\ q_view' = Q!Nobody
        /\ UNCHANGED <<q_user, q_files, q_flow, q_ev, q_box, q_run>>
    BY DEF Q!Noticed
  <1>2. PICK st \in {"delivered", "retryable", "uncertain"} :
          Q!Post(st) /\ (q_chat' = q_chat \/ (Q!Arrived(q_view.q) /\ st \in Out))
    BY DEF Q!Noticed, Out
  <1>3. PICK f : f = Q!About(q_view.q)
    OBVIOUS
  <1>4. q_view.q \in Q!Questions /\ f.why = "defer" /\ f \notin DOMAIN q_chat
    BY <1>1, <1>3, AskFacts DEF ViewFits, WireFits, Q!About
  <1>5. q_view' \in AskViews /\ q_view'.at = "idle" /\ ViewFits(q_view', q_files)
    BY <1>1, AskNobody
  <1>6. /\ [q |-> f, st |-> st] \in q_posts'
        /\ \A g, s : g # f /\ [q |-> g, st |-> s] \in q_posts => [q |-> g, st |-> s] \in q_posts'
    <2>1. q_posts' = {p \in q_posts : p.q # f} \cup {[q |-> f, st |-> st]}
      BY <1>2, <1>3 DEF Q!Post
    <2> QED
      BY <2>1
  <1>7. \A g \in DOMAIN q_chat : q_chat[g] = 1 /\ Shown(g, q_box, q_posts')
    BY <1>4, <1>6, AskFacts DEF ChatFits, Shown
  <1>8. CASE q_chat' = q_chat
    <2>1. ChatFits(q_chat', q_box, q_posts')
      BY <1>7, <1>8 DEF ChatFits
    <2>2. WireFits(q_run, q_view', q_chat', q_box, q_posts')
      BY <1>5, <1>8, AskFacts DEF WireFits
    <2> QED
      BY <1>1, <1>5, <1>8, <2>1, <2>2, AskFacts, ViewStep
  <1>9. CASE Q!Arrived(q_view.q) /\ st \in Out
    <2>1. /\ DOMAIN q_chat' = DOMAIN q_chat \cup {f} /\ DOMAIN q_chat' \subseteq Q!Facts
          /\ q_chat'[f] = 1 /\ \A g \in DOMAIN q_chat : q_chat'[g] = q_chat[g]
      BY <1>3, <1>4, <1>9, Arriving
    <2>2. Shown(f, q_box, q_posts')
      BY <1>4, <1>6, <1>9 DEF Shown
    <2>3. ChatFits(q_chat', q_box, q_posts')
      BY <1>7, <2>1, <2>2 DEF ChatFits
    <2>4. q_run.at = "wire" => Q!About(q_run.q) # f
      BY <1>4, AskFacts DEF RunFits, Q!About
    <2>5. WireFits(q_run, q_view', q_chat', q_box, q_posts')
      BY <1>5, <2>1, <2>4, AskFacts DEF WireFits
    <2> QED
      BY <1>1, <1>5, <2>1, <2>3, <2>5, ViewStep
  <1> QED
    BY <1>2, <1>8, <1>9

(***************************************************************************)
(* The user, the project, and a crash.                                     *)
(***************************************************************************)
LEMMA AskRequire ==
  ASSUME AskInv, Q!Require
  PROVE  AskInv'
  <1>1. /\ q_user' = q_user + 1 /\ q_user < MaxChanges
        /\ UNCHANGED <<q_files, q_flow, q_ev, q_box, q_posts, q_chat, q_run, q_view>>
    BY DEF Q!Require, Q!out
  <1>2. q_user' \in 0..MaxChanges /\ q_user' \in Int /\ q_user =< q_user'
    BY <1>1, QuestionsOk, AskFacts DEF Q!QuestionsAssumption
  <1>3. ActsKept(q_ev, q_ev')
    BY <1>1, AskSame
  <1>4. FlowFits(q_flow', q_user', q_ev')
    BY <1>1, <1>2, <1>3, AskFacts, FlowKept
  <1>5. RunFits(q_run', q_flow', q_user', q_ev')
    BY <1>1, <1>2, <1>3, AskFacts, RunKept
  <1>6. AskTypes'
    BY <1>1, <1>2, AskFacts DEF AskTypes
  <1> QED
    BY <1>1, <1>4, <1>5, <1>6, AskFacts, AskNext

LEMMA AskEdit ==
  ASSUME AskInv, Q!Edit
  PROVE  AskInv'
  <1>1. /\ q_files' = 1 - q_files
        /\ q_run' = [q_run EXCEPT !.moved = q_run.at # "idle"]
        /\ q_view' = [q_view EXCEPT !.moved = q_view.at # "idle"]
        /\ UNCHANGED <<q_user, q_flow, q_ev, q_box, q_posts, q_chat>>
    BY DEF Q!Edit, Q!out
  <1>2. q_files' \in {0, 1}
    BY <1>1, AskFacts
  <1>3. /\ q_run' \in AskRuns /\ q_run'.at = q_run.at /\ q_run'.key = q_run.key
        /\ q_run'.back = q_run.back /\ q_run'.q = q_run.q
        /\ q_run'.moved = (q_run.at # "idle")
    BY <1>1, AskFacts DEF AskRuns
  <1>4. /\ q_view' \in AskViews /\ q_view'.at = q_view.at /\ q_view'.q = q_view.q
        /\ q_view'.moved = (q_view.at # "idle")
    BY <1>1, AskFacts DEF AskViews
  <1>5. RunFits(q_run', q_flow', q_user', q_ev')
    BY <1>1, <1>3, AskFacts DEF RunFits, Why
  <1>6. RunFresh(q_run', q_flow', q_files') /\ ViewFits(q_view', q_files')
    BY <1>1, <1>3, <1>4, AskFacts DEF RunFresh, ViewFits
  <1>7. WireFits(q_run', q_view', q_chat', q_box', q_posts')
    BY <1>1, <1>3, <1>4, AskFacts DEF WireFits
  <1>8. AskTypes'
    BY <1>1, <1>2, <1>3, <1>4, AskFacts DEF AskTypes
  <1> QED
    BY <1>1, <1>5, <1>6, <1>7, <1>8, AskFacts, AskNext

LEMMA AskCrash ==
  ASSUME AskInv, Q!Crash
  PROVE  AskInv'
  <1>1. /\ Q!Home /\ q_view' = Q!Nobody
        /\ UNCHANGED <<q_user, q_files, q_flow, q_ev, q_box, q_posts>>
    BY DEF Q!Crash
  <1>2. /\ q_run' \in AskRuns /\ q_run'.at = "idle" /\ RunFits(q_run', q_flow', q_user', q_ev')
        /\ RunFresh(q_run', q_flow', q_files')
    BY <1>1, AskIdle DEF Q!Home
  <1>3. q_view' \in AskViews /\ q_view'.at = "idle" /\ ViewFits(q_view', q_files')
    BY <1>1, AskNobody
  <1>4. WireFits(q_run', q_view', q_chat', q_box', q_posts')
    BY <1>2, <1>3 DEF WireFits
  <1>5. ASSUME DOMAIN q_chat' \subseteq Q!Facts, ChatFits(q_chat', q_box', q_posts')
        PROVE  AskInv'
    <2>1. AskTypes'
      BY <1>1, <1>2, <1>3, <1>5, AskFacts DEF AskTypes
    <2> QED
      BY <1>1, <1>2, <1>3, <1>4, <1>5, <2>1, AskFacts, AskNext
  <1>6. ASSUME NEW q \in Q!Questions, NEW f, f = Q!About(q), f \notin DOMAIN q_chat,
               Q!Arrived(q), Shown(f, q_box, q_posts)
        PROVE  AskInv'
    <2>1. /\ DOMAIN q_chat' = DOMAIN q_chat \cup {f} /\ DOMAIN q_chat' \subseteq Q!Facts
          /\ q_chat'[f] = 1 /\ \A g \in DOMAIN q_chat : q_chat'[g] = q_chat[g]
      BY <1>6, Arriving
    <2>2. ChatFits(q_chat', q_box', q_posts')
      BY <1>1, <1>6, <2>1, AskFacts DEF ChatFits
    <2> QED
      BY <1>5, <2>1, <2>2
  <1>7. CASE q_run.at = "wire" /\ Q!Arrived(q_run.q)
    <2>1. PICK f : f = Q!About(q_run.q)
      OBVIOUS
    <2>2. /\ q_run.q \in Q!Questions /\ q_run.q.key = q_run.key /\ q_run.q.why = "wait"
          /\ q_box[q_run.key] = [q |-> q_run.q, st |-> "sending"] /\ f \notin DOMAIN q_chat
      BY <1>7, <2>1, AskFacts DEF RunFits, WireFits
    <2>3. Shown(f, q_box, q_posts)
      BY <2>1, <2>2 DEF Shown, Q!About, Out
    <2> QED
      BY <1>6, <1>7, <2>1, <2>2, <2>3
  <1>8. CASE q_view.at = "wire" /\ Q!Arrived(q_view.q)
    <2>1. PICK f : f = Q!About(q_view.q)
      OBVIOUS
    <2>2. /\ q_view.q \in Q!Questions /\ q_view.q.why = "defer"
          /\ [q |-> f, st |-> "sending"] \in q_posts /\ f \notin DOMAIN q_chat
      BY <1>8, <2>1, AskFacts DEF ViewFits, WireFits
    <2>3. f.why = "defer" /\ "sending" \in Out
      BY <2>1, <2>2 DEF Q!About, Out
    <2>4. Shown(f, q_box, q_posts)
      BY <2>2, <2>3 DEF Shown
    <2> QED
      BY <1>6, <1>8, <2>1, <2>2, <2>4
  <1>9. CASE q_chat' = q_chat
    BY <1>1, <1>5, <1>9, AskFacts
  <1> QED
    BY <1>7, <1>8, <1>9 DEF Q!Crash

(***************************************************************************)
(* The theorems.                                                           *)
(***************************************************************************)
LEMMA AskStart == Q!Init => AskInv
  <1> SUFFICES ASSUME Q!Init PROVE AskInv
    OBVIOUS
  <1>1. 0 \in 0..MaxChanges /\ <<0, 0>> \in Q!Keys
    BY QuestionsOk DEF Q!QuestionsAssumption, Q!Keys
  <1>2. q_flow \in AskFlows /\ FlowFits(q_flow, q_user, q_ev)
    BY <1>1 DEF Q!Init, AskFlows, FlowFits
  <1>3. /\ q_run \in AskRuns /\ q_run.at = "idle" /\ RunFits(q_run, q_flow, q_user, q_ev)
        /\ RunFresh(q_run, q_flow, q_files)
    BY AskIdle DEF Q!Init
  <1>4. q_view \in AskViews /\ q_view.at = "idle" /\ ViewFits(q_view, q_files)
    BY AskNobody DEF Q!Init
  <1>5. q_ev \in [Q!Keys -> AskEvents]
    BY DEF Q!Init, AskEvents
  <1>6. q_box \in [Q!Keys -> AskRows]
    BY DEF Q!Init, Q!NoRow, AskRows
  <1>7. DOMAIN q_chat = {}
    BY DEF Q!Init
  <1>8. AskTypes
    BY <1>1, <1>2, <1>3, <1>4, <1>5, <1>6, <1>7 DEF Q!Init, AskTypes
  <1> QED
    BY <1>2, <1>3, <1>4, <1>7, <1>8 DEF AskInv, ChatFits, WireFits

LEMMA AskSteps ==
  ASSUME AskInv, [Q!Next]_(Q!vars)
  PROVE  AskInv'
  <1>1. CASE UNCHANGED Q!vars
    <2>1. UNCHANGED <<q_user, q_files, q_flow, q_ev, q_box, q_posts, q_chat, q_run, q_view>>
      BY <1>1 DEF Q!vars, Q!out
    <2>2. AskTypes'
      BY <2>1, AskFacts DEF AskTypes
    <2> QED
      BY <2>1, <2>2, AskFacts, AskNext
  <1>2. CASE Q!Step
    BY <1>2, AskTick, AskScan, AskAlert, AskPick, AskChoose, AskExecute, AskRead, AskAsk, AskSave,
       AskPrepared, AskOvertaken, AskNotify, AskText, AskSend, AskWire DEF Q!Step
  <1>3. CASE Q!Notice
    BY <1>3, AskLook, AskShow, AskNoticed DEF Q!Notice
  <1> QED
    BY <1>1, <1>2, <1>3, AskRequire, AskEdit, AskCrash DEF Q!Next

(* What is known of the questions holds in every state.                    *)
THEOREM QuestionsInvariant == Q!Spec => []AskInv
  <1>1. AskInv /\ [Q!Next]_(Q!vars) => AskInv'
    BY AskSteps
  <1> QED
    BY <1>1, AskStart, PTL DEF Q!Spec

(* The owner is never asked the same question twice.                       *)
THEOREM QuestionAskedOnce == Q!Spec => []AskedOnce
  <1>1. AskInv => AskedOnce
    BY AskFacts DEF AskedOnce, Q!AskedOnce, ChatFits
  <1> QED
    BY <1>1, QuestionsInvariant, PTL

(* A question that is put on the wire is about the newest requirements,    *)
(* the facts the workflow holds, and the project as it was last read.      *)
THEOREM QuestionIsCurrent == Q!Spec => AskedIsCurrent
  <1>1. ASSUME AskInv, [Q!Next]_(Q!vars), q_run.at = "send", q_run'.at = "wire"
        PROVE  q_run.q.grown = q_flow.grown /\ (q_run.q.files = q_files \/ q_run.moved)
    BY <1>1, AskFacts DEF RunFresh
  <1>2. ASSUME AskInv, [Q!Next]_(Q!vars), q_view.at = "look", q_view'.at = "wire"
        PROVE  /\ q_view.q.user = q_user /\ q_view.q.grown = q_flow.grown
               /\ q_view.q.files = q_files \/ q_view.moved
    <2>1. Q!After
      <3>1. CASE Q!Notice
        BY <1>2, <3>1 DEF Q!Notice, Q!Look, Q!Show, Q!Noticed, Q!Nobody
      <3>2. CASE UNCHANGED Q!vars
        BY <1>2, <3>2 DEF Q!vars
      <3>3. q_view.at \in {"idle", "look", "wire"}
        BY <1>2, AskFacts DEF AskViews
      <3>4. CASE Q!Step
        <4>1. q_view' = q_view
          BY <3>4 DEF Q!Step, Q!Tick, Q!Scan, Q!Alert, Q!Pick, Q!Choose, Q!Execute, Q!Read, Q!Ask,
                      Q!Save, Q!Prepared, Q!Overtaken, Q!Notify, Q!Text, Q!Send, Q!Wire
        <4> QED
          BY <1>2, <4>1
      <3>5. CASE Q!Require
        BY <1>2, <3>5 DEF Q!Require
      <3>6. CASE Q!Edit
        BY <1>2, <3>6, AskFacts DEF Q!Edit, AskViews
      <3>7. CASE Q!Crash
        BY <1>2, <3>7 DEF Q!Crash, Q!Nobody
      <3> QED
        BY <1>2, <3>1, <3>2, <3>4, <3>5, <3>6, <3>7 DEF Q!Next
    <2>2. /\ q_flow.q \in Q!Questions /\ q_view.q \in Q!Questions
          /\ q_view.seen = q_files \/ q_view.moved
      BY <1>2, <2>1, AskFacts DEF Q!After, Q!Fits, FlowFits, Bound, ViewFits
    <2> QED
      BY <2>1, <2>2, AskAbout DEF Q!After, Q!Fits
  <1>3. AskInv /\ [Q!Next]_(Q!vars) =>
          [/\ q_run.at = "send" /\ q_run'.at = "wire" =>
                q_run.q.grown = q_flow.grown /\ (q_run.q.files = q_files \/ q_run.moved)
           /\ q_view.at = "look" /\ q_view'.at = "wire" =>
                /\ q_view.q.user = q_user /\ q_view.q.grown = q_flow.grown
                /\ q_view.q.files = q_files \/ q_view.moved]_(Q!vars)
    BY <1>1, <1>2
  <1> QED
    BY <1>3, QuestionsInvariant, PTL DEF Q!Spec, AskedIsCurrent, Q!AskedIsCurrent
=============================================================================
