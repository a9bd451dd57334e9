--------------------------- MODULE ExecutionProofs ---------------------------
(***************************************************************************)
(* What Execution.tla promises of inputs and agents, for any participants, *)
(* inputs and bounds.  Receipts, rows, references and panes are written in *)
(* different steps and requests land when they like, so the invariant says *)
(* what each receipt proves of the other side, and what is certain at each *)
(* await of the holder.                                                    *)
(***************************************************************************)
EXTENDS Execution, FiniteSetTheorems, TLAPS

(* Panes in which a request to type the input may still land.              *)
Opened(i) == {k \in Panes : <<i, k>> \in wire}

(* Another attempt may leave: the receipt is free, or its holder is about   *)
(* to type.                                                                 *)
May(i) == Runs(op[i]) \/ Failed(op[i]) \/ (pc \in {"baseline", "screen"} /\ inp = i)

(* Texts that arrived, may arrive or may leave do not exceed the attempts   *)
(* that were decided.                                                       *)
OnceSound(i) == landed[i] + Cardinality(Opened(i)) + (IF May(i) THEN 1 ELSE 0) <= 1 + again[i]

(* A receipt that says so was written by a pane that has the text, the one  *)
(* of the row; rows do not run ahead of their participant's generation.     *)
Known(r) == r.state = "done" \/ (~Failed(r) /\ r.choice = "proven")
RowSound(i) ==
    /\ to[i] = None => row[i].at = -1
    /\ to[i] # None => part[to[i]].st # "absent" /\ row[i].at <= part[to[i]].gen
    /\ Known(op[i]) => <<i, <<to[i], row[i].at>>>> \in seen
    /\ op[i].state = "none" => op[i].choice = "none"

(* Only the pane a participant names may be live or become so.  A repair    *)
(* starts when the start of that pane is on record and its agent is not     *)
(* there; a participant leaves when its pane is closed or decided about.    *)
Gone(p) == part[p].at = -1 \/ pane[Place(p)] = "lost"
AgentSound(p) ==
    /\ part[p].at = -1 => part[p].gen = 0 /\ ~part[p].started
    /\ part[p].at <= part[p].gen
    /\ part[p].st = "absent" => part[p].at = -1
    /\ part[p].started => boot[Place(p)] = "done"
    /\ part[p].at # -1 /\ part[p].at # part[p].gen =>
          pane[Place(p)] # "live" /\ boot[Place(p)] = "done"
    /\ part[p].st = "removed" =>
          Gone(p) \/ (shut[p].choice \in {"proven", "treat_done"} /\ ~Failed(shut[p]))
    /\ shut[p].state = "done" => part[p].st = "removed"
    /\ \A g \in Gens :
          /\ pane[<<p, g>>] = "live" => part[p].at = g
          /\ <<"boot", <<p, g>>>> \in wire =>
                /\ part[p].at = g /\ part[p].gen = g
                /\ boot[<<p, g>>] \in {"pending", "uncertain"}

(* What the holder may rely on at each await.                               *)
Closed(p) == <<"close", Place(p)>> \in wire \/ pane[Place(p)] = "lost"
Typing   == {"baseline", "screen", "echo"}
Renewing == {"launch", "boot", "booting", "readback"}
Retiring == {"history", "close", "closing", "material"}
PlaceSound ==
    /\ IF pc = "free" THEN via = "none" ELSE cur \in People /\ Here(cur)
    /\ pc \in Typing \cup {"settled", "evidence"} => inp \in Inputs /\ to[inp] = cur
    /\ pc \in Typing => op[inp].state = "pending" /\ op[inp].choice = "none" /\ part[cur].at # -1
    /\ pc \in {"screen", "echo", "evidence"} => row[inp].at = part[cur].at
    /\ pc = "settled" => <<inp, Place(cur)>> \in seen \/ op[inp].choice = "treat_done"
    /\ pc = "look" => via = "repair" /\ part[cur].at # -1 /\ boot[Place(cur)] = "done"
    /\ pc \in {"space", "making", "swap"} /\ via # "repair" => part[cur].at = -1
    /\ pc \in Renewing => part[cur].at = part[cur].gen
    /\ pc \in {"boot", "booting"} => boot[Own(cur)] = "pending"
    /\ pc = "boot" => <<"boot", Own(cur)>> \notin wire
    /\ pc = "readback" => boot[Own(cur)] = "done"
    /\ pc \in {"close", "closing", "removing"} => part[cur].at # -1
    /\ pc \in {"closing", "removing"} => Closed(cur)
    /\ pc = "material" => Gone(cur)
    /\ pc \in Retiring => restart.st = "closing" /\ restart.who = cur
    /\ via = "repair" => restart.st # "closing"

(* The journal of a restart names a participant that keeps its pane.        *)
RestartSound ==
    /\ restart.st = "none" => restart.close = "none"
    /\ restart.close # "none" => restart.who \in People /\ part[restart.who].at # -1
    /\ restart.close = "done" => pane[Place(restart.who)] = "lost"
    /\ restart.st = "done" => restart.who \in People /\ part[restart.who].st = "removed"

IInv == /\ TypeOK /\ PlaceSound /\ RestartSound
        /\ \A p \in People : AgentSound(p)
        /\ \A i \in Inputs : OnceSound(i) /\ RowSound(i)

(***************************************************************************)
(* Types                                                                   *)
(***************************************************************************)
TaskSet == [st : {"open", "attention", "paused"}, paused : BOOLEAN,
            mark : BOOLEAN, byUser : BOOLEAN, asked : {"no", "yes", "retried"}]
RestartSet == [st : {"none", "closing", "done"}, who : People \cup {None},
               ops : SUBSET Inputs, close : States]
RowSet == Rows \cup {NoRow}

\* TypeOK in five parts, by who writes what.
BookOK ==
    /\ row \in [Inputs -> RowSet] /\ to \in [Inputs -> People \cup {None}]
    /\ tries \in [Inputs -> 0..2] /\ applied \subseteq Inputs
    /\ awaits \in [People -> Inputs \cup {NoInput}]
EffectsOK ==
    /\ space \in [Panes -> States] /\ boot \in [Panes -> States]
    /\ shut \in [People -> Receipts] /\ restart \in RestartSet
HolderOK ==
    /\ pc \in Places /\ cur \in People \cup {None} /\ inp \in Inputs \cup {NoInput}
    /\ via \in {"none", "repair", "provision"} /\ was \in BOOLEAN /\ moved \in BOOLEAN
WorldOK ==
    /\ pane \in [Panes -> {"none", "shell", "live", "lost"}]
    /\ seen \subseteq Inputs \X Panes
    /\ landed \in [Inputs -> Nat] /\ again \in [Inputs -> Nat]
    /\ wire \subseteq {"space", "boot", "close"} \X Panes \cup Inputs \X Panes
BoundsOK ==
    /\ event \in BOOLEAN /\ ask \in BOOLEAN
    /\ luck \in 0..MaxTroubles /\ words \in 0..MaxControls

LEMMA TypeParts ==
  ASSUME TypeOK
  PROVE  /\ task \in TaskSet /\ part \in [People -> People0] /\ op \in [Inputs -> Receipts]
         /\ BookOK /\ EffectsOK /\ HolderOK /\ WorldOK /\ BoundsOK
  BY DEF TypeOK, TaskSet, BookOK, RowSet, EffectsOK, RestartSet, HolderOK, WorldOK, BoundsOK

LEMMA TypeJoin ==
  ASSUME task' \in TaskSet, part' \in [People -> People0], op' \in [Inputs -> Receipts],
         BookOK', EffectsOK', HolderOK', WorldOK', BoundsOK'
  PROVE  TypeOK'
  BY DEF TypeOK, TaskSet, BookOK, RowSet, EffectsOK, RestartSet, HolderOK, WorldOK, BoundsOK

LEMMA PartsKept ==
  ASSUME IInv
  PROVE  /\ UNCHANGED task => task' \in TaskSet
         /\ UNCHANGED part => part' \in [People -> People0]
         /\ UNCHANGED op => op' \in [Inputs -> Receipts]
         /\ UNCHANGED <<row, to, tries, applied, awaits>> => BookOK'
         /\ UNCHANGED effects => EffectsOK'
         /\ UNCHANGED holder => HolderOK'
         /\ UNCHANGED world => WorldOK'
         /\ UNCHANGED <<event, ask, luck, words>> => BoundsOK'
  BY TypeParts DEF IInv, BookOK, EffectsOK, HolderOK, WorldOK, BoundsOK, effects, holder, world

LEMMA Finite == IsFiniteSet(Panes) /\ None \notin People
  <1>1. IsFiniteSet(People) /\ IsFiniteSet(Gens)
    BY ExecutionAssumption, FS_Interval DEF Gens
  <1>2. IsFiniteSet(Panes)
    BY <1>1, FS_Product DEF Panes
  <1>3. Cardinality(People) \in Nat
    BY <1>1, FS_CardinalityType
  <1> QED
    BY <1>2, <1>3, ExecutionAssumption DEF None

LEMMA Count ==
  ASSUME NEW i
  PROVE  IsFiniteSet(Opened(i)) /\ Cardinality(Opened(i)) \in Nat
  BY Finite, FS_Subset, FS_CardinalityType DEF Opened

(* A participant's record, a receipt and the row of a restart under edits. *)
LEMMA PartEdit ==
  ASSUME part \in [People -> People0], NEW p \in People, NEW r \in People0,
         part' = [part EXCEPT ![p] = r]
  PROVE  /\ part' \in [People -> People0] /\ part'[p] = r
         /\ \A q \in People : q # p => part'[q] = part[q]
  OBVIOUS

LEMMA RowEdit ==
  ASSUME NEW r \in RowSet
  PROVE  [r EXCEPT !.now = FALSE] \in RowSet /\ [r EXCEPT !.now = FALSE].at = r.at
  <1>1. CASE r \in Rows
    BY <1>1 DEF RowSet, Rows
  <1>2. CASE r = NoRow
    <2>1. [NoRow EXCEPT !.now = FALSE] = [NoRow EXCEPT !.now = NoRow.now]
      BY DEF NoRow
    <2>2. [NoRow EXCEPT !.now = NoRow.now] = NoRow
      BY Zenon DEF NoRow
    <2> QED
      BY <1>2, <2>1, <2>2 DEF RowSet
  <1> QED
    BY <1>1, <1>2 DEF RowSet

LEMMA PartEdits ==
  ASSUME NEW r \in People0
  PROVE  /\ \A b \in BOOLEAN :
               LET f == [r EXCEPT !.held = b]
               IN  f \in People0 /\ f.at = r.at /\ f.gen = r.gen /\ f.st = r.st /\ f.started = r.started
         /\ \A st \in {"pending", "idle", "working", "gone", "removed"} :
               LET f == [r EXCEPT !.st = st]
               IN  f \in People0 /\ f.at = r.at /\ f.gen = r.gen /\ f.st = st /\ f.started = r.started
         /\ \A j \in {"building", "ready"} :
               LET f == [r EXCEPT !.journal = j]
               IN  f \in People0 /\ f.at = r.at /\ f.gen = r.gen /\ f.st = r.st /\ f.started = r.started
         /\ LET f == [r EXCEPT !.sent = TRUE, !.due = FALSE]
            IN  f \in People0 /\ f.at = r.at /\ f.gen = r.gen /\ f.st = r.st /\ f.started = r.started
  BY DEF People0

LEMMA StaleRows ==
  ASSUME row \in [Inputs -> RowSet]
  PROVE  /\ Stale(row) \in [Inputs -> RowSet]
         /\ \A i \in Inputs : Stale(row)[i].at = row[i].at
  BY RowEdit DEF Stale

LEMMA ReceiptEdits ==
  ASSUME NEW r \in Receipts
  PROVE  /\ r.state \in {"none", "pending", "done", "vetoed", "transient", "refused", "uncertain"}
         /\ r.choice \in {"none", "proven", "treat_done", "retry", "abandon"}
         /\ \A s \in {"done", "vetoed", "transient", "refused", "uncertain"} :
               /\ [r EXCEPT !.state = s] \in Receipts
               /\ [r EXCEPT !.state = s].state = s /\ [r EXCEPT !.state = s].choice = r.choice
         /\ \A c \in {"proven", "treat_done", "retry", "abandon"} :
               /\ [r EXCEPT !.choice = c] \in Receipts
               /\ [r EXCEPT !.choice = c].choice = c /\ [r EXCEPT !.choice = c].state = r.state
         /\ Pending(r) \in Receipts /\ Pending(r).state = "pending" /\ Pending(r).choice = "none"
         /\ NoReceipt \in Receipts /\ NoReceipt.state = "none" /\ NoReceipt.choice = "none"
  BY DEF Receipts, Pending, NoReceipt

LEMMA TaskEdits ==
  ASSUME NEW t \in TaskSet
  PROVE  /\ [t EXCEPT !.paused = TRUE, !.st = IF @ = "paused" THEN @ ELSE "attention"] \in TaskSet
         /\ RepairPaused(t) \in TaskSet /\ ByUser(t) \in TaskSet
         /\ [t EXCEPT !.paused = FALSE] \in TaskSet
         /\ [t EXCEPT !.paused = FALSE, !.mark = FALSE] \in TaskSet
         /\ \A ps : Released(t, ps) \in TaskSet
         /\ [t EXCEPT !.st = "open"] \in TaskSet
         /\ [t EXCEPT !.mark = TRUE] \in TaskSet /\ [t EXCEPT !.st = "paused"] \in TaskSet
  <1>1. [t EXCEPT !.paused = TRUE, !.st = IF @ = "paused" THEN @ ELSE "attention"] \in TaskSet
    BY DEF TaskSet
  <1>2. RepairPaused(t) \in TaskSet
    BY DEF TaskSet, RepairPaused, UserPaused
  <1>3. ByUser(t) \in TaskSet /\ [t EXCEPT !.paused = FALSE] \in TaskSet
    BY DEF TaskSet, ByUser
  <1>4. [t EXCEPT !.paused = FALSE, !.mark = FALSE] \in TaskSet
    BY DEF TaskSet
  <1>5. \A ps : Released(t, ps) \in TaskSet
    BY <1>4 DEF Released
  <1>6. /\ [t EXCEPT !.st = "open"] \in TaskSet
        /\ [t EXCEPT !.mark = TRUE] \in TaskSet /\ [t EXCEPT !.st = "paused"] \in TaskSet
    BY DEF TaskSet
  <1> QED
    BY <1>1, <1>2, <1>3, <1>4, <1>5, <1>6

(* What the invariant says of one participant and one input.               *)
LEMMA Types ==
  ASSUME IInv
  PROVE  /\ TypeOK /\ PlaceSound /\ RestartSound
         /\ part \in [People -> People0] /\ op \in [Inputs -> Receipts] /\ row \in [Inputs -> RowSet]
         /\ task \in TaskSet /\ restart \in RestartSet
         /\ \A p \in People :
               /\ AgentSound(p) /\ p # None /\ part[p] \in People0
               /\ part[p].gen \in Gens /\ part[p].at \in Gens \cup {-1}
               /\ part[p].gen \in Nat /\ part[p].at \in Int
         /\ \A i \in Inputs :
               /\ OnceSound(i) /\ RowSound(i) /\ op[i] \in Receipts
               /\ to[i] \in People \cup {None} /\ row[i].at \in Int
               /\ Known(op[i]) => to[i] \in People /\ row[i].at \in Gens /\ row[i].at \in Nat
  <1>1. TypeOK
    BY DEF IInv
  <1>2. /\ part \in [People -> People0] /\ op \in [Inputs -> Receipts] /\ row \in [Inputs -> RowSet]
        /\ task \in TaskSet /\ restart \in RestartSet /\ to \in [Inputs -> People \cup {None}]
        /\ seen \subseteq Inputs \X Panes
    BY <1>1 DEF TypeOK, TaskSet, RestartSet, RowSet
  <1>3. ASSUME NEW p \in People
        PROVE  /\ part[p] \in People0 /\ part[p].gen \in Gens /\ part[p].at \in Gens \cup {-1}
               /\ part[p].gen \in Nat /\ part[p].at \in Int
    <2>1. part[p].gen \in Gens /\ part[p].at \in Gens \cup {-1}
      BY <1>2 DEF People0
    <2> QED
      BY <1>2, <2>1, ExecutionAssumption DEF Gens
  <1>4. ASSUME NEW r \in RowSet
        PROVE  r.at \in Int
    BY ExecutionAssumption DEF RowSet, Rows, NoRow, Gens
  <1>5. ASSUME NEW i \in Inputs, RowSound(i), Known(op[i])
        PROVE  to[i] \in People /\ row[i].at \in Gens /\ row[i].at \in Nat
    BY <1>2, <1>5, ExecutionAssumption DEF RowSound, Panes, Gens
  <1> QED
    BY <1>1, <1>2, <1>3, <1>4, <1>5, Finite DEF IInv

(***************************************************************************)
(* What a step has to leave alone for a part of the invariant to stay      *)
(***************************************************************************)
\* A participant neither comes, leaves, moves nor starts.
Steady(p) ==
    /\ part'[p].at = part[p].at /\ part'[p].gen = part[p].gen
    /\ part'[p].st = "absent" <=> part[p].st = "absent"
    /\ part'[p].st = "removed" <=> part[p].st = "removed"
    /\ part'[p].started => part[p].started

\* No pane comes to life, none that is lost comes back, no start leaves.
Calm ==
    \A k \in Panes :
        /\ pane'[k] = "live" => pane[k] = "live"
        /\ pane[k] = "lost" => pane'[k] = "lost"
        /\ <<"boot", k>> \in wire' => <<"boot", k>> \in wire

LEMMA AgentKept ==
  ASSUME TypeOK, NEW p \in People, AgentSound(p), Steady(p), Calm,
         shut'[p] = shut[p], boot' = boot
  PROVE  AgentSound(p)'
  <1>1. part[p].at \in Gens \cup {-1}
    BY DEF TypeOK, People0
  <1>2. \A g \in Gens : <<p, g>> \in Panes
    BY DEF Panes
  <1> QED
    BY <1>1, <1>2 DEF AgentSound, Steady, Calm, Gone, Place

LEMMA AgentsKept ==
  ASSUME IInv, Calm, UNCHANGED <<shut, boot>>, \A p \in People : Steady(p)
  PROVE  \A p \in People : AgentSound(p)'
  BY AgentKept DEF IInv

LEMMA OnceKept ==
  ASSUME IInv, NEW i \in Inputs, UNCHANGED <<landed, again>>,
         \A k \in Panes : <<i, k>> \in wire' => <<i, k>> \in wire,
         May(i)' => May(i)
  PROVE  OnceSound(i)'
  <1>1. /\ IsFiniteSet(Opened(i)) /\ Cardinality(Opened(i)) \in Nat
        /\ landed[i] \in Nat /\ again[i] \in Nat
    BY Count DEF IInv, TypeOK
  <1>2. Opened(i)' \subseteq Opened(i)
    BY DEF Opened
  <1>3. Cardinality(Opened(i)') \in Nat /\ Cardinality(Opened(i)') <= Cardinality(Opened(i))
    BY <1>1, <1>2, FS_Subset, FS_CardinalityType
  <1>4. Cardinality(Opened(i)') = Cardinality(Opened(i))'
    OBVIOUS
  <1> HIDE DEF May, Opened
  <1> QED
    BY <1>1, <1>3, <1>4 DEF OnceSound, IInv

LEMMA RowKept ==
  ASSUME NEW i \in Inputs, TypeOK, RowSound(i), to'[i] = to[i], row'[i].at = row[i].at,
         seen \subseteq seen', Known(op'[i]) => Known(op[i]),
         op'[i].state = "none" => op'[i].choice = "none",
         \A p \in People : /\ part'[p].st = "absent" => part[p].st = "absent"
                           /\ part[p].st = "absent" \/ part[p].gen <= part'[p].gen,
         part' \in [People -> People0]
  PROVE  RowSound(i)'
  <1>1. to[i] # None => /\ to[i] \in People /\ row[i].at \in Gens \cup {-1}
                        /\ part[to[i]].gen \in Gens /\ part'[to[i]].gen \in Gens
    BY DEF TypeOK, Rows, NoRow, People0
  <1> QED
    BY <1>1, ExecutionAssumption DEF RowSound, Gens

LEMMA RestartKept ==
  ASSUME RestartSound, TypeOK, UNCHANGED restart,
         \A p \in People : /\ part'[p].at = part[p].at
                           /\ part[p].st = "removed" => part'[p].st = "removed",
         \A k \in Panes : pane[k] = "lost" => pane'[k] = "lost"
  PROVE  RestartSound'
  <1>1. \A p \in People : part[p].at \in Gens \cup {-1}
    BY DEF TypeOK, People0
  <1> QED
    BY <1>1 DEF RestartSound, Place, Panes

\* The holder leaves: nothing is relied on any more.
LEMMA LeavesSound ==
  ASSUME Leave
  PROVE  /\ PlaceSound'
         /\ pc' \in Places /\ cur' \in People \cup {None} /\ inp' \in Inputs \cup {NoInput}
         /\ via' \in {"none", "repair", "provision"} /\ was' \in BOOLEAN /\ moved' \in BOOLEAN
  BY DEF Leave, PlaceSound, Typing, Renewing, Retiring, Places

\* The parts every step keeps while it leaves participants and the other side.
LEMMA RestSound ==
  ASSUME IInv, UNCHANGED <<part, boot, shut, restart, wire, pane>>
  PROVE  RestartSound' /\ \A p \in People : AgentSound(p)'
  <1>1. Calm /\ \A p \in People : Steady(p)
    BY DEF Calm, Steady
  <1> QED
    BY <1>1, AgentsKept, RestartKept DEF IInv

\* Another holder's or nobody's step: what the holder relies on stays.
LEMMA PlaceKept ==
  ASSUME IInv, UNCHANGED <<pc, cur, inp, via, to, boot, restart, wire>>,
         \A p \in People : part'[p].at = part[p].at /\ part'[p].gen = part[p].gen,
         pc # "free" => Here(cur)',
         pc \in Typing => op'[inp] = op[inp],
         pc = "settled" /\ op[inp].choice = "treat_done" => op'[inp].choice = "treat_done",
         \A i \in Inputs : row'[i].at = row[i].at,
         seen \subseteq seen',
         \A k \in Panes : pane[k] = "lost" => pane'[k] = "lost"
  PROVE  PlaceSound'
  <1>1. \A p \in People : part[p].at \in Gens \cup {-1}
    BY DEF IInv, TypeOK, People0
  <1>2. \A p \in People : Place(p)' = Place(p) /\ Own(p)' = Own(p)
    BY DEF Place, Own
  <1>3. \A p \in People : Gone(p) => Gone(p)'
    BY <1>1, <1>2 DEF Gone, Place, Panes
  <1>4. \A p \in People : part[p].at # -1 /\ Closed(p) => Closed(p)'
    BY <1>1, <1>2 DEF Closed, Place, Panes
  <1> HIDE DEF Gone, Closed, Place, Own
  <1> QED
    BY <1>2, <1>3, <1>4 DEF IInv, PlaceSound, Typing, Renewing, Retiring

(***************************************************************************)
(* sendParticipant                                                         *)
(***************************************************************************)
LEMMA HeldEdit ==
  ASSUME TypeOK, NEW p \in People, NEW b \in BOOLEAN,
         part' = [part EXCEPT ![p].held = b]
  PROVE  /\ part' \in [People -> People0] /\ \A q \in People : Steady(q)
         /\ \A q \in People : part'[q].st = part[q].st
  <1> DEFINE r == [part[p] EXCEPT !.held = b]
  <1>1. /\ r \in People0 /\ r.at = part[p].at /\ r.gen = part[p].gen /\ r.st = part[p].st
        /\ r.started = part[p].started
    <2>1. part[p] \in People0
      BY DEF TypeOK
    <2> QED
      BY <2>1 DEF People0
  <1>2. part' = [part EXCEPT ![p] = r] /\ part \in [People -> People0]
    BY DEF TypeOK
  <1> HIDE DEF r
  <1>3. /\ part' \in [People -> People0] /\ part'[p] = r
        /\ \A q \in People : q # p => part'[q] = part[q]
    BY <1>1, <1>2, PartEdit
  <1> QED
    BY <1>1, <1>3 DEF Steady

LEMMA SendStep ==
  ASSUME IInv, NEW i \in Inputs, NEW p \in People, Send(i, p)
  PROVE  IInv'
  <1> DEFINE typed == op'[i].state = "pending" /\ op'[i].choice = "none"
  <1>1. /\ part' \in [People -> People0] /\ \A q \in People : Steady(q)
        /\ \A q \in People : part'[q].st = part[q].st
    <2>1. part' = [part EXCEPT ![p].held = part[p].held /\ i \notin UserInputs]
      BY DEF Send, IInv, TypeOK, People0
    <2>2. (part[p].held /\ i \notin UserInputs) \in BOOLEAN
      OBVIOUS
    <2> QED
      BY <2>1, <2>2, HeldEdit DEF IInv
  <1>2. /\ op[i] \in Receipts /\ part[p] \in People0 /\ part[p].st # "absent" /\ part[p].at # -1
        /\ part[p].started /\ to[i] \in {None, p} /\ p # None
    BY Finite DEF IInv, TypeOK, Send, Here, Chosen, MaySend
  <1>3. \/ /\ Runs(op[i]) \/ Failed(op[i])
           /\ pc' = "baseline" /\ typed /\ op'[i] \in Receipts
           /\ op' = [op EXCEPT ![i] = op'[i]]
           /\ tries' \in [Inputs -> 0..2]
        \/ Given(op[i]) /\ pc' = "settled" /\ UNCHANGED <<op, tries>>
    <2>1. CASE Given(op[i]) /\ pc' = "settled" /\ UNCHANGED <<op, tries>>
      BY <2>1
    <2>2. CASE /\ Runs(op[i]) \/ Again(i)
               /\ op' = [op EXCEPT ![i] = IF Again(i) THEN Pending(NoReceipt) ELSE Pending(@)]
               /\ tries' = [tries EXCEPT ![i] = IF op[i].state = "transient" THEN @ + 1 ELSE @]
               /\ pc' = "baseline"
      <3>1. ASSUME NEW r \in Receipts
            PROVE  /\ Pending(r) \in Receipts /\ Pending(r).state = "pending"
                   /\ Pending(r).choice = "none" /\ NoReceipt \in Receipts
        BY ReceiptEdits
      <3>2. op'[i] \in {Pending(NoReceipt), Pending(op[i])} /\ op' = [op EXCEPT ![i] = op'[i]]
        BY <2>2 DEF IInv, TypeOK
      <3>3. op'[i] \in Receipts /\ typed
        BY <1>2, <3>1, <3>2
      <3>4. op[i].state = "transient" => tries[i] < 2
        BY <2>2 DEF Runs, Failed, Again
      <3>5. tries' \in [Inputs -> 0..2]
        BY <2>2, <3>4 DEF IInv, TypeOK
      <3>6. Runs(op[i]) \/ Failed(op[i])
        BY <2>2 DEF Again, Failed
      <3> QED
        BY <2>2, <3>2, <3>3, <3>5, <3>6
    <2> QED
      BY <2>1, <2>2 DEF Send
  <1> HIDE DEF typed
  <1>4. TypeOK'
    <2>1. op' \in [Inputs -> Receipts] /\ tries' \in [Inputs -> 0..2] /\ pc' \in Places
      BY <1>3, TypeParts DEF IInv, Places, BookOK
    <2>2. task' = task /\ UNCHANGED <<effects, world>>
      BY DEF Send
    <2>3. BookOK'
      BY <2>1, TypeParts DEF IInv, BookOK, Send
    <2>4. HolderOK'
      BY <1>2, <2>1, TypeParts DEF IInv, HolderOK, Send, People0
    <2>5. BoundsOK'
      BY TypeParts DEF IInv, BoundsOK, Send
    <2> QED
      BY <1>1, <2>1, <2>2, <2>3, <2>4, <2>5, PartsKept, TypeJoin
  <1>5. RestartSound' /\ \A q \in People : AgentSound(q)'
    <2>1. Calm /\ UNCHANGED <<shut, boot, restart, pane, wire>>
      BY DEF Send, effects, world, Calm
    <2> QED
      BY <1>1, <2>1, AgentsKept, RestartKept DEF IInv, Steady
  <1>6. /\ to'[i] = p /\ \A j \in Inputs : j # i => to'[j] = to[j] /\ op'[j] = op[j]
        /\ row' = row /\ seen' = seen
    BY <1>3 DEF Send, IInv, TypeOK, world
  <1>7. ASSUME NEW j \in Inputs PROVE RowSound(j)'
    <2>1. CASE j # i
      <3>1. \A q \in People : part[q].gen <= part'[q].gen /\ part'[q].st = part[q].st
        BY <1>1, Types DEF Steady
      <3> QED
        BY <1>1, <1>6, <2>1, <3>1, RowKept, Types DEF RowSound
    <2>2. CASE j = i
      <3>1. row[i].at <= part[p].gen
        <4>1. CASE to[i] = None
          <5>1. row[i].at = -1 /\ part[p].gen \in Nat
            BY <4>1, Types DEF RowSound
          <5> QED
            BY <5>1
        <4>2. CASE to[i] # None
          BY <1>2, <4>2, Types DEF RowSound
        <4> QED
          BY <4>1, <4>2
      <3>2. Known(op'[i]) => Known(op[i]) /\ to[i] = p
        <4>1. typed => ~Known(op'[i])
          BY DEF typed, Known
        <4>2. Known(op[i]) => to[i] # None
          BY Types
        <4> QED
          BY <1>2, <1>3, <4>1, <4>2, Types
      <3>3. op'[i].state = "none" => op'[i].choice = "none"
        BY <1>3, <1>6, Types DEF RowSound, typed
      <3>4. /\ to'[i] = p /\ p # None /\ part'[p].st # "absent"
            /\ row'[i].at = row[i].at /\ part'[p].gen = part[p].gen
        BY <1>1, <1>2, <1>6 DEF Steady
      <3>5. Known(op'[i]) => <<i, <<p, row[i].at>>>> \in seen
        BY <3>2, Types DEF RowSound
      <3> QED
        BY <1>6, <2>2, <3>1, <3>3, <3>4, <3>5 DEF RowSound
    <2> QED
      BY <2>1, <2>2
  <1>8. ASSUME NEW j \in Inputs PROVE OnceSound(j)'
    <2>1. UNCHANGED <<landed, again, wire>> /\ pc = "free" /\ inp' = i
      BY DEF Send, world
    <2>2. May(j)' => May(j)
      <3>1. CASE j # i
        BY <1>6, <2>1, <3>1 DEF May
      <3>2. CASE j = i
        <4>1. Given(op[i]) => ~Runs(op[i]) /\ ~Failed(op[i])
          BY Types DEF Given, Runs, Failed, RowSound
        <4> QED
          BY <1>3, <2>1, <3>2, <4>1 DEF May
      <3> QED
        BY <3>1, <3>2
    <2> QED
      BY <2>1, <2>2, OnceKept
  <1>9. PlaceSound'
    <2>1. /\ pc' \in {"baseline", "settled"} /\ cur' = p /\ inp' = i /\ via' = via /\ pc = "free"
          /\ restart' = restart /\ seen' = seen
      BY <1>3 DEF Send, effects, world
    <2>2. Here(p)'
      BY <1>1, <1>2 DEF Here, Send
    <2>3. pc' = "baseline" => typed /\ part'[p].at # -1
      BY <1>1, <1>2, <1>3 DEF Steady
    <2>4. pc' = "settled" => <<i, <<p, part'[p].at>>>> \in seen' \/ op'[i].choice = "treat_done"
      <3> SUFFICES ASSUME Given(op[i]), op' = op, op[i].choice # "treat_done"
                   PROVE  <<i, <<p, part[p].at>>>> \in seen
        BY <1>1, <1>3, <2>1 DEF Steady
      <3>1. Known(op[i])
        BY DEF Given, Known
      <3>2. <<i, <<to[i], row[i].at>>>> \in seen
        BY <3>1 DEF IInv, RowSound
      <3>3. to[i] \in People /\ row[i].at \in Gens
        BY <3>2 DEF IInv, TypeOK, Panes
      <3>4. to[i] = p /\ row[i].at <= part[p].gen
        BY <1>2, <3>3, Finite DEF IInv, RowSound
      <3>5. row[i].at = part[p].at
        <4>1. CASE part[p].gen > 0
          <5>1. op[i].state # "none" /\ ~Failed(op[i])
            BY Types DEF Given, Failed, RowSound
          <5> QED
            BY <4>1, <5>1 DEF Send, Belongs, SamePlace
        <4>2. CASE part[p].gen = 0
          BY <1>2, <3>3, <3>4, <4>2 DEF IInv, AgentSound, People0, Gens
        <4> QED
          BY <1>2, <4>1, <4>2 DEF People0, Gens
      <3> QED
        BY <3>2, <3>4, <3>5
    <2> QED
      BY <1>6, <2>1, <2>2, <2>3, <2>4
      DEF PlaceSound, Typing, Renewing, Retiring, Place, IInv, typed
  <1> QED
    BY <1>4, <1>5, <1>7, <1>8, <1>9 DEF IInv

LEMMA RowsKept ==
  ASSUME IInv, UNCHANGED <<op, to>>, \A i \in Inputs : row'[i].at = row[i].at,
         seen \subseteq seen', part' \in [People -> People0],
         \A p \in People : /\ part'[p].st = "absent" => part[p].st = "absent"
                           /\ part[p].st = "absent" \/ part[p].gen <= part'[p].gen
  PROVE  \A i \in Inputs : RowSound(i)'
  <1> SUFFICES ASSUME NEW i \in Inputs PROVE RowSound(i)'
    OBVIOUS
  <1>1. op[i].state = "none" => op[i].choice = "none"
    BY Types DEF RowSound
  <1> QED
    BY <1>1, RowKept, Types

\* Nothing about inputs changes while participants stay where they are.
LEMMA InputsKept ==
  ASSUME IInv, UNCHANGED <<op, to, row, landed, again, seen>>,
         part' \in [People -> People0], \A p \in People : Steady(p),
         \A i \in Inputs, k \in Panes : <<i, k>> \in wire' => <<i, k>> \in wire,
         pc' \in {"baseline", "screen"} => pc = pc' /\ inp' = inp
  PROVE  \A i \in Inputs : OnceSound(i)' /\ RowSound(i)'
  <1>1. \A p \in People : /\ part'[p].st = "absent" => part[p].st = "absent"
                          /\ part[p].gen <= part'[p].gen
    BY Types DEF Steady
  <1>2. \A i \in Inputs : May(i)' => May(i)
    BY DEF May
  <1>3. \A i \in Inputs : OnceSound(i)'
    BY <1>2, OnceKept
  <1> QED
    BY <1>1, <1>3, RowsKept

LEMMA TurnedDownStep ==
  ASSUME IInv, NEW i \in Inputs, NEW p \in People, SendTurnedDown(i, p)
  PROVE  IInv'
  <1>1. /\ part' \in [People -> People0] /\ \A q \in People : Steady(q)
        /\ \A q \in People : part'[q].st = part[q].st
    BY HeldEdit, Types DEF SendTurnedDown
  <1>2. /\ pc = "free" /\ ask' = FALSE
        /\ UNCHANGED <<task, op, row, to, tries, applied, awaits, effects, event, holder,
                       world, luck, words>>
    BY DEF SendTurnedDown, book
  <1>3. TypeOK'
    <2>1. BoundsOK'
      BY <1>2, TypeParts, Types DEF BoundsOK
    <2> QED
      BY <1>1, <1>2, <2>1, PartsKept, TypeJoin
  <1>4. UNCHANGED <<boot, shut, restart, pc, cur, inp, via, pane, seen, landed, again, wire>>
    BY <1>2 DEF effects, holder, world
  <1>5. RestartSound' /\ \A q \in People : AgentSound(q)'
    <2>1. Calm
      BY <1>4 DEF Calm
    <2> QED
      BY <1>1, <1>4, <2>1, AgentsKept, RestartKept DEF IInv, Steady
  <1>6. PlaceSound'
    BY <1>1, <1>2, <1>4, PlaceKept DEF Steady, Typing
  <1>7. \A j \in Inputs : OnceSound(j)' /\ RowSound(j)'
    BY <1>1, <1>2, <1>4, InputsKept
  <1> QED
    BY <1>3, <1>5, <1>6, <1>7 DEF IInv

\* The edit of the receipt of the input that is being sent.
LEMMA OutcomeEdit ==
  ASSUME IInv, pc \in Typing, NEW s \in {"done", "vetoed", "transient", "refused", "uncertain"},
         op' = [op EXCEPT ![inp].state = s]
  PROVE  /\ inp \in Inputs /\ op' \in [Inputs -> Receipts]
         /\ op'[inp].state = s /\ op'[inp].choice = "none"
         /\ \A i \in Inputs : i # inp => op'[i] = op[i]
  <1>1. inp \in Inputs /\ op[inp].choice = "none" /\ op[inp] \in Receipts /\ op \in [Inputs -> Receipts]
    BY Types DEF PlaceSound
  <1> DEFINE r == [op[inp] EXCEPT !.state = s]
  <1>2. r \in Receipts /\ r.state = s /\ r.choice = "none"
    BY <1>1 DEF Receipts
  <1>3. op' = [op EXCEPT ![inp] = r]
    OBVIOUS
  <1> HIDE DEF r
  <1> QED
    BY <1>1, <1>2, <1>3

LEMMA RefuseStep ==
  ASSUME IInv, NEW why \in {"vetoed", "transient", "refused", "uncertain"}, pc \in Typing,
         pc = "echo" => why = "uncertain", Refuse(why),
         luck' \in 0..MaxTroubles, words' \in 0..MaxControls
  PROVE  IInv'
  <1>1. /\ inp \in Inputs /\ op' \in [Inputs -> Receipts]
        /\ op'[inp].state = why /\ op'[inp].choice = "none"
        /\ \A i \in Inputs : i # inp => op'[i] = op[i]
    BY OutcomeEdit DEF Refuse
  <1>2. /\ Leave
        /\ UNCHANGED <<task, part, row, to, tries, applied, awaits, effects, event, ask, world>>
    BY DEF Refuse, book, outer
  <1>3. UNCHANGED <<boot, shut, restart, pane, seen, landed, again, wire>> /\ pc' = "free"
    BY <1>2 DEF effects, world, Leave
  <1>4. TypeOK'
    <2>1. BoundsOK' /\ HolderOK'
      BY <1>2, LeavesSound, TypeParts, Types DEF BoundsOK, HolderOK
    <2> QED
      BY <1>1, <1>2, <2>1, PartsKept, TypeJoin
  <1>5. ASSUME NEW i \in Inputs PROVE OnceSound(i)' /\ RowSound(i)'
    <2>1. May(i)' => May(i)
      BY <1>1, <1>3 DEF May, Runs, Failed, Typing
    <2>2. Known(op'[i]) => Known(op[i])
      BY <1>1 DEF Known
    <2>3. op'[i].state = "none" => op'[i].choice = "none"
      BY <1>1, Types DEF RowSound
    <2>4. RowSound(i)'
      <3>1. /\ part' = part /\ seen' = seen /\ row' = row /\ to' = to
            /\ part \in [People -> People0] /\ \A p \in People : part[p].gen <= part[p].gen
        BY <1>2, <1>3, Types
      <3> QED
        BY <2>2, <2>3, <3>1, RowKept, Types
    <2> QED
      BY <1>3, <2>1, <2>4, OnceKept
  <1> QED
    BY <1>2, <1>3, <1>4, <1>5, LeavesSound, RestSound DEF IInv

\* What a step of the holder does to its budget.
LEMMA Budget ==
  ASSUME IInv
  PROVE  /\ Trouble => luck' \in 0..MaxTroubles
         /\ Word => words' \in 0..MaxControls /\ luck' \in 0..MaxTroubles
         /\ Enough => luck' \in 0..MaxTroubles /\ words' \in 0..MaxControls
         /\ UNCHANGED words => words' \in 0..MaxControls
  <1>1. luck \in 0..MaxTroubles /\ words \in 0..MaxControls
    BY TypeParts, Types DEF BoundsOK
  <1> QED
    BY <1>1, ExecutionAssumption DEF Trouble, Word, Enough, bounds

LEMMA RefusedSteps ==
  ASSUME IInv,
         \/ SendVetoed \/ SendHindered \/ SendConflicts \/ TargetGone \/ NotEchoed
  PROVE  IInv'
  <1>1. CASE SendVetoed
    BY <1>1, RefuseStep, Budget DEF SendVetoed, Typing
  <1>2. CASE SendHindered
    BY <1>2, RefuseStep, Budget DEF SendHindered, Typing
  <1>3. CASE SendConflicts
    BY <1>3, RefuseStep, Budget DEF SendConflicts, Typing
  <1>4. CASE TargetGone
    BY <1>4, RefuseStep, Budget DEF TargetGone, Typing
  <1>5. CASE NotEchoed
    BY <1>5, RefuseStep, Budget DEF NotEchoed, Typing
  <1> QED
    BY <1>1, <1>2, <1>3, <1>4, <1>5

LEMMA PrepareStep ==
  ASSUME IInv, Prepare
  PROVE  IInv'
  <1> DEFINE r == [gen |-> part[cur].gen, at |-> part[cur].at,
                   initial |-> Initial(cur), paused |-> task.paused, now |-> TRUE]
  <1>1. /\ pc = "baseline" /\ cur \in People /\ inp \in Inputs /\ to[inp] = cur
        /\ op[inp].state = "pending" /\ op[inp].choice = "none" /\ part[cur].at # -1 /\ Here(cur)
    BY Types DEF Prepare, PlaceSound, Typing
  <1>2. r \in RowSet /\ r.at = part[cur].at
    <2>1. part[cur].gen \in Gens /\ part[cur].at \in Gens
      BY <1>1, Types
    <2>2. Initial(cur) \in BOOLEAN /\ task.paused \in BOOLEAN
      BY <1>1, Types DEF Initial, People0, TaskSet
    <2> QED
      BY <2>1, <2>2 DEF RowSet, Rows
  <1>3. /\ row' = [row EXCEPT ![inp] = r] /\ pc' = "screen"
        /\ UNCHANGED <<cur, inp, via, was, moved>>
        /\ UNCHANGED <<task, part, op, to, tries, applied, awaits, effects, event, ask, world,
                       luck, words>>
    BY DEF Prepare, Go, outer, Enough, bounds
  <1> HIDE DEF r
  <1>4. /\ row' \in [Inputs -> RowSet] /\ row'[inp] = r
        /\ \A i \in Inputs : i # inp => row'[i] = row[i]
    BY <1>1, <1>2, <1>3, Types
  <1>5. UNCHANGED <<boot, shut, restart, pane, seen, landed, again, wire>>
    BY <1>3 DEF effects, world
  <1>6. TypeOK'
    <2>1. BookOK' /\ HolderOK' /\ BoundsOK'
      BY <1>3, <1>4, TypeParts, Types DEF BookOK, HolderOK, BoundsOK, Places
    <2> QED
      BY <1>3, <2>1, PartsKept, TypeJoin
  <1>7. ASSUME NEW i \in Inputs PROVE OnceSound(i)'
    <2>1. May(i)' => May(i)
      BY <1>1, <1>3 DEF May
    <2> QED
      BY <1>5, <2>1, OnceKept
  <1>8. ASSUME NEW i \in Inputs PROVE RowSound(i)'
    <2>1. CASE i # inp
      <3>1. \A p \in People : part[p].gen <= part[p].gen
        BY Types
      <3>2. op[i].state = "none" => op[i].choice = "none"
        BY Types DEF RowSound
      <3> QED
        BY <1>3, <1>4, <1>5, <2>1, <3>1, <3>2, RowKept, Types
    <2>2. CASE i = inp
      <3>1. /\ ~Known(op[inp]) /\ cur # None /\ part[cur].at <= part[cur].gen
            /\ part[cur].st # "absent"
        BY <1>1, Types DEF Known, AgentSound, Here
      <3> QED
        BY <1>1, <1>2, <1>3, <1>4, <2>2, <3>1 DEF RowSound
    <2> QED
      BY <2>1, <2>2
  <1>9. PlaceSound'
    <2>1. via = "repair" => restart.st # "closing"
      BY Types DEF PlaceSound
    <2> QED
      BY <1>1, <1>2, <1>3, <1>4, <1>5, <2>1 DEF PlaceSound, Typing, Renewing, Retiring, Here
  <1> QED
    BY <1>3, <1>5, <1>6, <1>7, <1>8, <1>9, RestSound DEF IInv

LEMMA WriteStep ==
  ASSUME IInv, Write
  PROVE  IInv'
  <1> DEFINE k == Place(cur)
  <1>1. /\ pc = "screen" /\ cur \in People /\ inp \in Inputs /\ to[inp] = cur
        /\ op[inp].state = "pending" /\ op[inp].choice = "none" /\ part[cur].at # -1 /\ Here(cur)
        /\ row[inp].at = part[cur].at
    BY Types DEF Write, PlaceSound, Typing
  <1>2. k \in Panes
    BY <1>1, Types DEF Place, Panes
  <1>3. /\ wire' = wire \cup {<<inp, k>>} /\ pc' = "echo"
        /\ UNCHANGED <<cur, inp, via, was, moved>>
        /\ UNCHANGED <<task, part, op, row, to, tries, applied, awaits, effects>>
        /\ UNCHANGED <<event, ask, pane, seen, landed, again, luck, words>>
    BY DEF Write, Go, rows, book, outer, Enough, bounds
  <1>4. UNCHANGED <<boot, shut, restart>>
    BY <1>3 DEF effects
  <1> HIDE DEF k
  <1>5. inp \notin {"boot", "close", "space"}
    BY <1>1, InputsAssumption
  <1>6. TypeOK'
    <2>1. WorldOK' /\ HolderOK' /\ BoundsOK'
      BY <1>1, <1>2, <1>3, TypeParts, Types DEF WorldOK, HolderOK, BoundsOK, Places
    <2> QED
      BY <1>3, <2>1, PartsKept, TypeJoin
  <1>7. ASSUME NEW i \in Inputs PROVE OnceSound(i)'
    <2>1. CASE i # inp
      <3>1. May(i)' => May(i)
        BY <1>3, <2>1 DEF May
      <3> QED
        BY <1>3, <2>1, <3>1, OnceKept
    <2>2. CASE i = inp
      <3>1. May(i) /\ ~May(i)'
        BY <1>1, <1>3, <2>2 DEF May, Runs, Failed
      <3>2. Opened(i)' = Opened(i) \cup {k}
        BY <1>2, <1>3, <2>2 DEF Opened
      <3>3. /\ Cardinality(Opened(i)) \in Nat /\ IsFiniteSet(Opened(i))
            /\ landed[i] \in Nat /\ again[i] \in Nat
        BY Count, TypeParts, Types DEF WorldOK
      <3>4. /\ Cardinality(Opened(i) \cup {k}) \in Nat
            /\ Cardinality(Opened(i) \cup {k}) <= Cardinality(Opened(i)) + 1
        <4>1. Cardinality(Opened(i) \cup {k}) =
                 IF k \in Opened(i) THEN Cardinality(Opened(i)) ELSE Cardinality(Opened(i)) + 1
          BY <3>3, FS_AddElement
        <4> QED
          BY <3>3, <4>1
      <3>5. Cardinality(Opened(i))' = Cardinality(Opened(i) \cup {k})
        BY <3>2
      <3>6. landed[i] + Cardinality(Opened(i)) + 1 <= 1 + again[i]
        BY <3>1, Types DEF OnceSound
      <3> QED
        BY <1>3, <3>1, <3>3, <3>4, <3>5, <3>6 DEF OnceSound
    <2> QED
      BY <2>1, <2>2
  <1>8. \A p \in People : Steady(p)
    BY <1>3 DEF Steady
  <1>9. \A i \in Inputs : RowSound(i)'
    <2>1. \A p \in People : part[p].gen <= part[p].gen
      BY Types
    <2> QED
      BY <1>3, <2>1, RowsKept, Types
  <1>10. RestartSound' /\ \A p \in People : AgentSound(p)'
    <2>1. Calm
      BY <1>3, <1>5 DEF Calm
    <2> QED
      BY <1>3, <1>4, <1>8, <2>1, AgentsKept, RestartKept DEF IInv
  <1>11. PlaceSound'
    <2>1. via = "repair" => restart.st # "closing"
      BY Types DEF PlaceSound
    <2> QED
      BY <1>1, <1>3, <1>4, <2>1 DEF PlaceSound, Typing, Renewing, Retiring, Here
  <1> QED
    BY <1>6, <1>7, <1>9, <1>10, <1>11 DEF IInv

LEMMA EchoedStep ==
  ASSUME IInv, Echoed
  PROVE  IInv'
  <1>1. /\ pc = "echo" /\ cur \in People /\ to[inp] = cur /\ part[cur].at # -1 /\ Here(cur)
        /\ row[inp].at = part[cur].at /\ <<inp, Place(cur)>> \in seen /\ inp \in Inputs
    BY Types DEF Echoed, PlaceSound, Typing
  <1>2. /\ op' \in [Inputs -> Receipts] /\ op'[inp].state = "done" /\ op'[inp].choice = "none"
        /\ \A i \in Inputs : i # inp => op'[i] = op[i]
    BY <1>1, OutcomeEdit DEF Echoed, Typing
  <1>3. /\ pc' = "settled" /\ UNCHANGED <<cur, inp, via, was, moved>>
        /\ UNCHANGED <<task, part, row, to, tries, applied, awaits, effects, event, ask, world,
                       luck, words>>
    BY DEF Echoed, Go, book, outer, Enough, bounds
  <1>4. UNCHANGED <<boot, shut, restart, pane, seen, landed, again, wire>>
    BY <1>3 DEF effects, world
  <1>5. TypeOK'
    <2>1. HolderOK'
      BY <1>3, TypeParts, Types DEF HolderOK, Places
    <2> QED
      BY <1>2, <1>3, <2>1, PartsKept, TypeJoin
  <1>6. ASSUME NEW i \in Inputs PROVE OnceSound(i)'
    <2>1. May(i)' => May(i)
      BY <1>2, <1>3 DEF May, Runs, Failed
    <2> QED
      BY <1>4, <2>1, OnceKept
  <1>7. ASSUME NEW i \in Inputs PROVE RowSound(i)'
    <2>1. CASE i # inp
      <3>1. \A p \in People : part[p].gen <= part[p].gen
        BY Types
      <3>2. op[i].state = "none" => op[i].choice = "none"
        BY Types DEF RowSound
      <3> QED
        BY <1>2, <1>3, <1>4, <2>1, <3>1, <3>2, RowKept, Types
    <2>2. CASE i = inp
      <3>1. <<inp, <<to[inp], row[inp].at>>>> \in seen
        BY <1>1 DEF Place
      <3>2. RowSound(inp)
        BY <1>1, Types
      <3> QED
        BY <1>2, <1>3, <1>4, <2>2, <3>1, <3>2 DEF RowSound
    <2> QED
      BY <2>1, <2>2
  <1>8. PlaceSound'
    <2>1. via = "repair" => restart.st # "closing"
      BY Types DEF PlaceSound
    <2> QED
      BY <1>1, <1>3, <1>4, <2>1 DEF PlaceSound, Typing, Renewing, Retiring, Here, Place
  <1> QED
    BY <1>3, <1>4, <1>5, <1>6, <1>7, <1>8, RestSound DEF IInv

\* A task that continues or is released.
LEMMA ReleasedTask ==
  ASSUME NEW t \in TaskSet, NEW ps
  PROVE  [t EXCEPT !.st = "open"] \in TaskSet /\ Released(t, ps) \in TaskSet
  BY TaskEdits

LEMMA ApplyStep ==
  ASSUME IInv, Apply
  PROVE  IInv'
  <1>1. pc = "settled" /\ cur \in People /\ inp \in Inputs /\ Here(cur)
    BY Types DEF Apply, PlaceSound
  <1>2. /\ Leave
        /\ UNCHANGED <<op, row, to, tries, effects, event, ask, world, luck, words>>
    BY DEF Apply, outer, Enough, bounds
  <1>3. UNCHANGED <<boot, shut, restart, pane, seen, landed, again, wire>> /\ pc' = "free"
    BY <1>2 DEF effects, world, Leave
  <1> DEFINE r == [part[cur] EXCEPT !.sent = TRUE, !.due = FALSE, !.st = "working"]
  <1>4. /\ r \in People0 /\ r.at = part[cur].at /\ r.gen = part[cur].gen /\ r.st = "working"
        /\ r.started = part[cur].started
    <2> DEFINE f == [part[cur] EXCEPT !.sent = TRUE, !.due = FALSE]
    <2>1. /\ f \in People0 /\ f.at = part[cur].at /\ f.gen = part[cur].gen
          /\ f.started = part[cur].started
      BY <1>1, PartEdits, Types
    <2>2. r = [f EXCEPT !.st = "working"]
      OBVIOUS
    <2> HIDE DEF f, r
    <2> QED
      BY <2>1, <2>2, PartEdits
  <1>5. \/ /\ applied' = applied \cup {inp} /\ awaits' = [awaits EXCEPT ![cur] = inp]
           /\ part' = [part EXCEPT ![cur] = r]
           /\ LET t == [task EXCEPT !.st = "open"]
              IN  task' = IF was /\ inp \in UserInputs THEN Released(t, part') ELSE t
        \/ UNCHANGED <<task, part, applied, awaits>>
    BY DEF Apply
  <1> HIDE DEF r
  <1>6. part' \in [People -> People0] /\ \A p \in People : Steady(p)
    <2>1. CASE part' = [part EXCEPT ![cur] = r]
      <3>1. /\ part'[cur] = r /\ part' \in [People -> People0]
            /\ \A q \in People : q # cur => part'[q] = part[q]
        BY <1>1, <1>4, <2>1, PartEdit, Types
      <3> QED
        BY <1>1, <1>4, <3>1 DEF Steady, Here
    <2>2. CASE part' = part
      BY <2>2, Types DEF Steady
    <2> QED
      BY <1>5, <2>1, <2>2
  <1>7. TypeOK'
    <2>1. task' \in TaskSet
      <3>1. task \in TaskSet
        BY Types
      <3>2. [task EXCEPT !.st = "open"] \in TaskSet
        BY <3>1, ReleasedTask
      <3>3. Released([task EXCEPT !.st = "open"], part') \in TaskSet
        BY <3>2, ReleasedTask
      <3> QED
        BY <1>5, <3>1, <3>2, <3>3
    <2>2. BookOK'
      BY <1>1, <1>2, <1>5, TypeParts, Types DEF BookOK
    <2>3. HolderOK'
      BY <1>2, LeavesSound DEF HolderOK
    <2> QED
      BY <1>2, <1>6, <2>1, <2>2, <2>3, PartsKept, TypeJoin
  <1>8. RestartSound' /\ \A p \in People : AgentSound(p)'
    <2>1. Calm
      BY <1>3 DEF Calm
    <2> QED
      BY <1>3, <1>6, <2>1, AgentsKept, RestartKept DEF IInv, Steady
  <1>9. \A i \in Inputs : OnceSound(i)' /\ RowSound(i)'
    BY <1>2, <1>3, <1>6, InputsKept
  <1> QED
    BY <1>2, <1>7, <1>8, <1>9, LeavesSound DEF IInv

(***************************************************************************)
(* recoverPreparedInputs                                                   *)
(***************************************************************************)
LEMMA TakenProof ==
  ASSUME IInv, NEW i \in Inputs, NEW p \in People, NEW o, TakeProof(i, p, o)
  PROVE  /\ task' \in TaskSet /\ part' \in [People -> People0] /\ \A q \in People : Steady(q)
         /\ BookOK' /\ UNCHANGED <<row, to, tries, effects, event, ask, world, luck, words>>
         /\ RestartSound' /\ \A q \in People : AgentSound(q)'
  <1>1. UNCHANGED <<row, to, tries, effects, event, ask, world, luck, words>>
    BY DEF TakeProof, outer, Enough, bounds
  <1>2. task' \in TaskSet
    <2>1. task' \in {task, Released(task, part'), [task EXCEPT !.paused = FALSE]}
      BY DEF TakeProof
    <2>2. task \in TaskSet
      BY Types
    <2>3. Released(task, part') \in TaskSet
      BY <2>2, ReleasedTask
    <2>4. [task EXCEPT !.paused = FALSE] \in TaskSet
      BY <2>2, TaskEdits
    <2> QED
      BY <2>1, <2>2, <2>3, <2>4
  <1>3. part' \in [People -> People0] /\ \A q \in People : Steady(q)
    <2> DEFINE r == [part[p] EXCEPT !.sent = TRUE, !.due = FALSE]
    <2>1. part' = [part EXCEPT ![p] = r]
      BY DEF TakeProof
    <2>2. /\ r \in People0 /\ r.at = part[p].at /\ r.gen = part[p].gen /\ r.st = part[p].st
          /\ r.started = part[p].started
      BY PartEdits, Types
    <2> HIDE DEF r
    <2>3. /\ part'[p] = r /\ part' \in [People -> People0]
          /\ \A q \in People : q # p => part'[q] = part[q]
      BY <2>1, <2>2, PartEdit, Types
    <2> QED
      BY <2>2, <2>3 DEF Steady
  <1>4. BookOK'
    <2>1. applied' \subseteq Inputs /\ awaits' \in [People -> Inputs \cup {NoInput}]
      BY TypeParts, Types DEF BookOK, TakeProof
    <2> QED
      BY <1>1, <2>1, TypeParts, Types DEF BookOK
  <1>5. RestartSound' /\ \A q \in People : AgentSound(q)'
    <2>1. Calm /\ UNCHANGED <<boot, shut, restart, pane>>
      BY <1>1 DEF Calm, effects, world
    <2> QED
      BY <1>3, <2>1, AgentsKept, RestartKept DEF IInv, Steady
  <1> QED
    BY <1>1, <1>2, <1>3, <1>4, <1>5

LEMMA ApplyDecidedStep ==
  ASSUME IInv, NEW i \in Inputs, ApplyDecided(i)
  PROVE  IInv'
  <1>1. to[i] \in People /\ pc = "free" /\ UNCHANGED <<op, holder>>
    BY Types DEF ApplyDecided, Provable
  <1>2. TakeProof(i, to[i], op)
    BY DEF ApplyDecided
  <1>3. /\ task' \in TaskSet /\ part' \in [People -> People0] /\ \A q \in People : Steady(q)
        /\ BookOK' /\ UNCHANGED <<row, to, tries, effects, event, ask, world, luck, words>>
        /\ RestartSound' /\ \A q \in People : AgentSound(q)'
    BY <1>1, <1>2, TakenProof
  <1>4. UNCHANGED <<pc, cur, inp, via, boot, shut, restart, pane, seen, landed, again, wire>>
    BY <1>1, <1>3 DEF holder, effects, world
  <1>5. TypeOK'
    BY <1>1, <1>3, PartsKept, TypeJoin
  <1>6. PlaceSound'
    BY <1>1, <1>3, <1>4, PlaceKept DEF Steady, Typing
  <1>7. \A j \in Inputs : OnceSound(j)' /\ RowSound(j)'
    BY <1>1, <1>3, <1>4, InputsKept
  <1> QED
    BY <1>3, <1>5, <1>6, <1>7 DEF IInv

LEMMA LookForProofStep ==
  ASSUME IInv, NEW i \in Inputs, LookForProof(i)
  PROVE  IInv'
  <1>1. /\ to[i] \in People /\ pc = "free" /\ pc' = "evidence" /\ inp' = i /\ cur' = to[i]
        /\ Here(to[i]) /\ row[i].at = part[to[i]].at
        /\ UNCHANGED <<task, part, op, row, to, tries, applied, awaits, effects>>
        /\ UNCHANGED <<event, ask, via, was, moved, world, luck, words>>
    BY Types DEF LookForProof, Provable, SamePlace, rows, book, outer, Enough, bounds
  <1>2. UNCHANGED <<boot, shut, restart, pane, seen, landed, again, wire>>
    BY <1>1 DEF effects, world
  <1>3. TypeOK'
    <2>1. HolderOK'
      BY <1>1, TypeParts, Types DEF HolderOK, Places
    <2> QED
      BY <1>1, <2>1, PartsKept, TypeJoin
  <1>4. PlaceSound'
    <2>1. via = "repair" => restart.st # "closing"
      BY Types DEF PlaceSound
    <2> QED
      BY <1>1, <1>2, <2>1 DEF PlaceSound, Typing, Renewing, Retiring, Here
  <1>5. \A j \in Inputs : OnceSound(j)' /\ RowSound(j)'
    <2>1. \A p \in People : Steady(p)
      BY <1>1 DEF Steady
    <2> QED
      BY <1>1, <1>2, <2>1, InputsKept, Types
  <1> QED
    BY <1>1, <1>2, <1>3, <1>4, <1>5, RestSound DEF IInv

LEMMA ProvedStep ==
  ASSUME IInv, Proved
  PROVE  IInv'
  <1>1. /\ pc = "evidence" /\ inp \in Inputs /\ cur \in People /\ to[inp] = cur
        /\ row[inp].at = part[cur].at /\ <<inp, Place(cur)>> \in seen /\ Leave /\ Unknown(op[inp])
    BY Types DEF Proved, PlaceSound
  <1>2. TakeProof(inp, cur, op')
    BY DEF Proved
  <1>3. /\ task' \in TaskSet /\ part' \in [People -> People0] /\ \A q \in People : Steady(q)
        /\ BookOK' /\ UNCHANGED <<row, to, tries, effects, event, ask, world, luck, words>>
        /\ RestartSound' /\ \A q \in People : AgentSound(q)'
    BY <1>1, <1>2, TakenProof
  <1>4. UNCHANGED <<boot, shut, restart, pane, seen, landed, again, wire>> /\ pc' = "free"
    BY <1>1, <1>3 DEF effects, world, Leave
  <1> DEFINE r == [op[inp] EXCEPT !.choice = "proven"]
  <1>5. r \in Receipts /\ r.state = op[inp].state /\ r.choice = "proven"
    <2>1. op[inp] \in Receipts
      BY <1>1, Types
    <2> QED
      BY <2>1 DEF Receipts
  <1>6. op' = [op EXCEPT ![inp] = r]
    BY DEF Proved
  <1> HIDE DEF r
  <1>7. /\ op' \in [Inputs -> Receipts] /\ op'[inp] = r
        /\ \A i \in Inputs : i # inp => op'[i] = op[i]
    BY <1>1, <1>5, <1>6, Types
  <1>8. TypeOK'
    <2>1. HolderOK'
      BY <1>1, LeavesSound DEF HolderOK
    <2> QED
      BY <1>3, <1>7, <2>1, PartsKept, TypeJoin
  <1>9. ASSUME NEW i \in Inputs PROVE OnceSound(i)'
    <2>1. May(i)' => May(i)
      BY <1>1, <1>4, <1>5, <1>7 DEF May, Runs, Failed, Unknown
    <2> QED
      BY <1>4, <2>1, OnceKept
  <1>10. ASSUME NEW i \in Inputs PROVE RowSound(i)'
    <2>1. CASE i # inp
      <3>1. \A p \in People : /\ part'[p].st = "absent" => part[p].st = "absent"
                              /\ part[p].gen <= part'[p].gen
        BY <1>3, Types DEF Steady
      <3>2. op[i].state = "none" => op[i].choice = "none"
        BY Types DEF RowSound
      <3> QED
        BY <1>3, <1>4, <1>7, <2>1, <3>1, <3>2, RowKept, Types
    <2>2. CASE i = inp
      <3>1. /\ row' = row /\ to' = to /\ seen' = seen /\ part'[cur].gen = part[cur].gen
            /\ part'[cur].st = "absent" => part[cur].st = "absent"
        BY <1>1, <1>3, <1>4 DEF Steady
      <3>2. RowSound(inp) /\ op'[inp].state # "none"
        BY <1>1, <1>5, <1>7, Types DEF Unknown
      <3>3. <<inp, <<to[inp], row[inp].at>>>> \in seen
        BY <1>1 DEF Place
      <3> QED
        BY <1>1, <2>2, <3>1, <3>2, <3>3 DEF RowSound
    <2> QED
      BY <2>1, <2>2
  <1> QED
    BY <1>1, <1>3, <1>8, <1>9, <1>10, LeavesSound DEF IInv

\* The holder gives up and writes at most the task.
LEMMA GivesUp ==
  ASSUME IInv, Leave, task' \in TaskSet, UNCHANGED <<part, op, book, awaits, effects, outer, world>>,
         luck' \in 0..MaxTroubles, words' \in 0..MaxControls
  PROVE  IInv'
  <1>1. /\ UNCHANGED <<row, to, tries, applied, awaits, event, ask>> /\ pc' = "free"
        /\ UNCHANGED <<boot, shut, restart, pane, seen, landed, again, wire>>
    BY DEF book, effects, outer, world, Leave
  <1>2. TypeOK'
    <2>1. HolderOK' /\ BoundsOK'
      BY <1>1, LeavesSound, TypeParts, Types DEF HolderOK, BoundsOK
    <2> QED
      BY <1>1, <2>1, PartsKept, TypeJoin
  <1>3. \A i \in Inputs : OnceSound(i)' /\ RowSound(i)'
    <2>1. part \in [People -> People0] /\ \A p \in People : Steady(p)
      BY Types DEF Steady
    <2> QED
      BY <1>1, <2>1, InputsKept
  <1> QED
    BY <1>1, <1>2, <1>3, LeavesSound, RestSound DEF IInv

LEMMA CaughtTask ==
  ASSUME IInv, NEW o, NEW s, NEW b
  PROVE  Caught(o, s, b) \in TaskSet
  <1>1. task \in TaskSet
    BY Types
  <1> QED
    BY <1>1, TaskEdits DEF Caught

LEMMA UnprovedSteps ==
  ASSUME IInv, NotProved \/ ProofUnread
  PROVE  IInv'
  <1>1. CASE NotProved
    BY <1>1, GivesUp, Budget, Types DEF NotProved, rows
  <1>2. CASE ProofUnread
    <2>1. task' \in TaskSet
      BY <1>2, CaughtTask DEF ProofUnread
    <2> QED
      BY <1>2, <2>1, GivesUp, Budget DEF ProofUnread
  <1> QED
    BY <1>1, <1>2

(***************************************************************************)
(* recoverMissingExecutions                                                *)
(***************************************************************************)
LEMMA Requests ==
  ASSUME IInv, NEW kind \in {"space", "boot", "close"}, NEW k \in Panes,
         Request(kind, k) \/ Unsent(kind, k)
  PROVE  /\ WorldOK' /\ UNCHANGED <<pane, seen, landed, again>>
         /\ \A i \in Inputs, x \in Panes : <<i, x>> \in wire' => <<i, x>> \in wire
         /\ kind # "boot" => Calm
  <1>1. kind \notin Inputs
    BY InputsAssumption
  <1>2. /\ UNCHANGED <<pane, seen, landed, again>>
        /\ wire' \in {wire \cup {<<kind, k>>}, wire \ {<<kind, k>>}}
    BY DEF Request, Unsent
  <1>3. WorldOK'
    BY <1>2, TypeParts, Types DEF WorldOK
  <1> QED
    BY <1>1, <1>2, <1>3 DEF Calm

\* A step about panes: participants stay, inputs rest.
LEMMA Joined ==
  ASSUME IInv, task' \in TaskSet, part' \in [People -> People0], \A p \in People : Steady(p),
         UNCHANGED <<op, row, to, seen, landed, again>>,
         \A i \in Inputs, k \in Panes : <<i, k>> \in wire' => <<i, k>> \in wire,
         pc' \notin {"baseline", "screen"},
         BookOK', EffectsOK', HolderOK', WorldOK', BoundsOK', PlaceSound', RestartSound',
         \A p \in People : AgentSound(p)'
  PROVE  IInv'
  <1>1. op' \in [Inputs -> Receipts]
    BY Types
  <1>2. TypeOK'
    BY <1>1, TypeJoin
  <1>3. \A i \in Inputs : OnceSound(i)' /\ RowSound(i)'
    BY InputsKept
  <1> QED
    BY <1>2, <1>3 DEF IInv

\* A step of the holder that only moves it.
LEMMA Moved ==
  ASSUME IInv, UNCHANGED <<rows, outer, world>>, pc' \notin {"baseline", "screen"},
         HolderOK', PlaceSound', luck' \in 0..MaxTroubles, words' \in 0..MaxControls
  PROVE  IInv'
  <1>1. /\ UNCHANGED <<task, part, op, row, to, tries, applied, awaits, effects, event, ask, world>>
        /\ UNCHANGED <<boot, shut, restart, pane, seen, landed, again, wire>>
    BY DEF rows, book, effects, outer, world
  <1>2. part' \in [People -> People0] /\ \A p \in People : Steady(p)
    BY <1>1, Types DEF Steady
  <1>3. BookOK' /\ EffectsOK' /\ WorldOK' /\ BoundsOK'
    BY <1>1, PartsKept, TypeParts, Types DEF BoundsOK
  <1> QED
    BY <1>1, <1>2, <1>3, Joined, RestSound, Types

\* The record of one participant is written and nothing else but the task.
LEMMA Recorded ==
  ASSUME IInv, NEW p \in People, NEW r \in People0, part' = [part EXCEPT ![p] = r],
         r.at = part[p].at, r.gen = part[p].gen, r.started => part[p].started,
         (r.st = "absent") = (part[p].st = "absent"), (r.st = "removed") = (part[p].st = "removed")
  PROVE  part' \in [People -> People0] /\ \A q \in People : Steady(q)
  <1>1. /\ part'[p] = r /\ part' \in [People -> People0]
        /\ \A q \in People : q # p => part'[q] = part[q]
    BY PartEdit, Types
  <1> QED
    BY <1>1 DEF Steady

LEMMA FinishRepairStep ==
  ASSUME IInv, NEW p \in People, FinishRepair(p)
  PROVE  IInv'
  <1> DEFINE r == [part[p] EXCEPT !.journal = "ready"]
  <1>1. /\ pc = "free" /\ part' = [part EXCEPT ![p] = r]
        /\ UNCHANGED <<task, op, row, to, tries, applied, awaits, effects, event, ask, holder,
                       world, luck, words>>
    BY DEF FinishRepair, book, outer, Enough, bounds
  <1>2. /\ r \in People0 /\ r.at = part[p].at /\ r.gen = part[p].gen /\ r.st = part[p].st
        /\ r.started = part[p].started
    <2>1. part[p] \in People0
      BY Types
    <2> QED
      BY <2>1, PartEdits
  <1> HIDE DEF r
  <1>3. part' \in [People -> People0] /\ \A q \in People : Steady(q)
    BY <1>1, <1>2, Recorded
  <1>4. UNCHANGED <<pc, cur, inp, via, boot, shut, restart, pane, seen, landed, again, wire>> /\ Calm
    BY <1>1 DEF holder, effects, world, Calm
  <1>5. RestartSound' /\ \A q \in People : AgentSound(q)'
    BY <1>3, <1>4, AgentsKept, RestartKept DEF IInv, Steady
  <1>6. PlaceSound'
    BY <1>1, <1>3, <1>4, PlaceKept DEF Steady, Typing
  <1>7. BookOK' /\ EffectsOK' /\ HolderOK' /\ WorldOK' /\ BoundsOK' /\ task' \in TaskSet
    BY <1>1, PartsKept
  <1> QED
    BY <1>1, <1>3, <1>4, <1>5, <1>6, <1>7, Joined

LEMMA StartRepairStep ==
  ASSUME IInv, NEW p \in People, NEW place \in {"look", "space"}, StartRepair(p, place),
         place = "look" => part[p].started \/ Replaced(p)
  PROVE  IInv'
  <1>1. /\ pc = "free" /\ MayRepair /\ Repairable(p) /\ pc' = place /\ cur' = p /\ via' = "repair"
        /\ UNCHANGED <<rows, outer, inp, was, world>> /\ moved' = FALSE
        /\ luck' \in 0..MaxTroubles /\ words' \in 0..MaxControls
    BY Budget DEF StartRepair, outer
  <1>2. HolderOK'
    BY <1>1, TypeParts, Types DEF HolderOK, Places
  <1>3. UNCHANGED <<part, boot, restart>>
    BY <1>1 DEF rows, effects
  <1>4. part[p].at # -1 /\ Here(p) /\ restart.st # "closing"
    BY <1>1 DEF Repairable, MayRepair
  <1>5. place = "look" => boot[Place(p)] = "done"
    BY Types DEF Replaced, Place, Own, AgentSound
  <1>6. PlaceSound'
    BY <1>1, <1>3, <1>4, <1>5 DEF PlaceSound, Typing, Renewing, Retiring, Here, Place
  <1> QED
    BY <1>1, <1>2, <1>6, Moved

LEMMA StartSteps ==
  ASSUME IInv, NEW p \in People, FinishRepair(p) \/ Inspect(p) \/ ResumeRepair(p) \/ Provision(p)
  PROVE  IInv'
  <1>1. CASE Inspect(p)
    BY <1>1, StartRepairStep DEF Inspect
  <1>2. CASE ResumeRepair(p)
    BY <1>2, StartRepairStep DEF ResumeRepair
  <1>3. CASE Provision(p)
    <2>1. /\ Here(p) /\ part[p].gen = 0 /\ pc' \in {"space", "launch"}
          /\ pc' = (IF part[p].at = -1 THEN "space" ELSE "launch") /\ cur' = p /\ via' = "provision"
          /\ UNCHANGED <<rows, outer, inp, was, moved, world>>
          /\ luck' \in 0..MaxTroubles /\ words' \in 0..MaxControls
      BY <1>3, Budget DEF Provision
    <2>2. HolderOK'
      BY <2>1, TypeParts, Types DEF HolderOK, Places
    <2>3. part' = part
      BY <2>1 DEF rows
    <2>4. part[p].at # -1 => part[p].at = part[p].gen
      <3>1. part[p].at \in Gens \cup {-1} /\ part[p].at <= 0
        BY <2>1, Types DEF AgentSound
      <3> QED
        BY <2>1, <3>1, ExecutionAssumption DEF Gens
    <2>5. PlaceSound'
      BY <2>1, <2>3, <2>4 DEF PlaceSound, Typing, Renewing, Retiring, Here
    <2> QED
      BY <2>1, <2>2, <2>5, Moved
  <1> QED
    BY <1>1, <1>2, <1>3, FinishRepairStep

\* The steps that give the repair up with every receipt as it was.
LEMMA HeldSteps ==
  ASSUME IInv, Unread \/ RepairDeferred \/ SpaceHeld \/ LaunchHeld
  PROVE  IInv'
  <1>1. ReconcileFails(space, boot)
    BY DEF Unread, RepairDeferred, SpaceHeld, LaunchHeld
  <1>2. luck' \in 0..MaxTroubles /\ words' \in 0..MaxControls
    BY Budget DEF Unread, RepairDeferred, SpaceHeld, LaunchHeld
  <1>3. task' \in TaskSet
    BY <1>1, CaughtTask DEF ReconcileFails
  <1>4. Leave /\ UNCHANGED <<part, op, book, awaits, effects, outer, world>>
    BY <1>1 DEF ReconcileFails, effects
  <1> QED
    BY <1>2, <1>3, <1>4, GivesUp

LEMMA SeesAgentStep ==
  ASSUME IInv, SeesAgent
  PROVE  IInv'
  <1>1. /\ pc = "look" /\ cur \in People /\ Here(cur) /\ UNCHANGED <<rows, outer, world>>
        /\ luck' \in 0..MaxTroubles /\ words' \in 0..MaxControls
    BY Budget, Types DEF SeesAgent, PlaceSound
  <1>2. CASE Leave
    BY <1>1, <1>2, GivesUp, Types DEF rows
  <1>3. CASE Go("space")
    <2>1. /\ pc' = "space" /\ UNCHANGED <<cur, inp, via, was, moved, part, restart>>
      BY <1>1, <1>3 DEF Go, rows, effects
    <2>2. via = "repair" /\ restart.st # "closing"
      BY <1>1, Types DEF PlaceSound
    <2>3. HolderOK'
      BY <2>1, TypeParts, Types DEF HolderOK, Places
    <2>4. PlaceSound'
      BY <1>1, <2>1, <2>2 DEF PlaceSound, Typing, Renewing, Retiring, Here
    <2> QED
      BY <1>1, <2>1, <2>3, <2>4, Moved
  <1> QED
    BY <1>2, <1>3 DEF SeesAgent

\* A definite absence opens a generation, while the pane that is named has
\* its start on record and cannot come to life any more.
LEMMA NewGeneration ==
  ASSUME IInv, SeesNoAgent, part[cur].gen < MaxGeneration,
         part' = [part EXCEPT ![cur].gen = @ + 1, ![cur].due = TRUE, ![cur].st = "gone",
                              ![cur].journal = "building"],
         task' = RepairPaused(task), row' = Stale(row), Go("space")
  PROVE  IInv'
  <1> DEFINE r == [part[cur] EXCEPT !.gen = @ + 1, !.due = TRUE, !.st = "gone", !.journal = "building"]
  <1>1. /\ pc = "look" /\ via = "repair" /\ cur \in People /\ Here(cur) /\ pane[Place(cur)] # "live"
        /\ part[cur].at # -1 /\ boot[Place(cur)] = "done" /\ restart.st # "closing"
    BY Types DEF SeesNoAgent, PlaceSound
  <1>2. /\ pc' = "space" /\ UNCHANGED <<cur, inp, via, was, moved>>
        /\ UNCHANGED <<op, to, tries, applied, awaits, effects, event, ask, world, luck, words>>
    BY DEF SeesNoAgent, Go, outer, Enough, bounds
  <1>3. UNCHANGED <<boot, shut, restart, pane, seen, landed, again, wire>> /\ Calm
    BY <1>2 DEF effects, world, Calm
  <1>4. /\ r \in People0 /\ r.at = part[cur].at /\ r.gen = part[cur].gen + 1 /\ r.st = "gone"
        /\ r.started = part[cur].started
    <2>1. part[cur] \in People0 /\ part[cur].gen + 1 \in Gens
      BY <1>1, Types, ExecutionAssumption DEF Gens
    <2> QED
      BY <2>1 DEF People0
  <1>5. part' = [part EXCEPT ![cur] = r]
    OBVIOUS
  <1> HIDE DEF r
  <1>6. /\ part' \in [People -> People0] /\ part'[cur] = r
        /\ \A p \in People : p # cur => part'[p] = part[p]
    BY <1>1, <1>4, <1>5, PartEdit, Types
  <1>7. TypeOK'
    <2>1. task' \in TaskSet
      BY TaskEdits, Types
    <2>2. BookOK'
      BY <1>2, StaleRows, TypeParts, Types DEF BookOK
    <2>3. HolderOK'
      BY <1>2, TypeParts, Types DEF HolderOK, Places
    <2> QED
      BY <1>2, <1>6, <2>1, <2>2, <2>3, PartsKept, TypeJoin
  <1>8. ASSUME NEW p \in People PROVE AgentSound(p)'
    <2>1. CASE p # cur
      BY <1>3, <1>6, <2>1, AgentKept, Types DEF Steady
    <2>2. CASE p = cur
      <3>1. /\ AgentSound(cur) /\ part[cur].at \in Int /\ part[cur].gen \in Nat
            /\ part[cur].st \notin {"absent", "removed"}
        BY <1>1, Types DEF Here
      <3>2. shut[cur].state # "done"
        BY <3>1 DEF AgentSound
      <3>3. ASSUME NEW g \in Gens PROVE <<"boot", <<cur, g>>>> \notin wire
        BY <1>1, <3>1 DEF AgentSound, Place
      <3> QED
        BY <1>1, <1>3, <1>4, <1>6, <2>2, <3>1, <3>2, <3>3 DEF AgentSound, Place
    <2> QED
      BY <2>1, <2>2
  <1>9. RestartSound'
    <2>1. \A p \in People : /\ part'[p].at = part[p].at
                            /\ part[p].st = "removed" => part'[p].st = "removed"
      BY <1>1, <1>4, <1>6 DEF Here
    <2> QED
      BY <1>3, <2>1, RestartKept, Types
  <1>10. PlaceSound'
    BY <1>1, <1>2, <1>3, <1>4, <1>6 DEF PlaceSound, Typing, Renewing, Retiring, Here
  <1>11. \A i \in Inputs : RowSound(i)'
    <2>1. \A p \in People : /\ part'[p].st = "absent" => part[p].st = "absent"
                            /\ part[p].gen <= part'[p].gen
      <3>1. \A p \in People : part[p].gen \in Nat
        BY Types
      <3> QED
        BY <1>4, <1>6, <3>1
    <2>2. \A i \in Inputs : row'[i].at = row[i].at
      BY StaleRows, Types
    <2> QED
      BY <1>2, <1>3, <1>6, <2>1, <2>2, RowsKept
  <1>12. \A i \in Inputs : OnceSound(i)'
    BY <1>2, <1>3, OnceKept DEF May
  <1> QED
    BY <1>7, <1>8, <1>9, <1>10, <1>11, <1>12 DEF IInv

LEMMA SeesNoAgentStep ==
  ASSUME IInv, SeesNoAgent
  PROVE  IInv'
  <1>1. CASE /\ part[cur].gen < MaxGeneration
             /\ part' = [part EXCEPT ![cur].gen = @ + 1, ![cur].due = TRUE, ![cur].st = "gone",
                                     ![cur].journal = "building"]
             /\ task' = RepairPaused(task)
             /\ row' = Stale(row)
             /\ Go("space")
    BY <1>1, NewGeneration
  <1>2. CASE Leave /\ UNCHANGED <<part, task, row>>
    <2>1. /\ UNCHANGED <<part, op, book, awaits, effects, outer, world>>
          /\ luck' \in 0..MaxTroubles /\ words' \in 0..MaxControls /\ task' \in TaskSet
      BY <1>2, Budget, Types DEF SeesNoAgent, book
    <2> QED
      BY <1>2, <2>1, GivesUp
  <1> QED
    BY <1>1, <1>2 DEF SeesNoAgent

\* The holder's own pane, and what is certain of it.
LEMMA OwnPane ==
  ASSUME IInv, cur \in People
  PROVE  Own(cur) \in Panes /\ (part[cur].at # -1 => Place(cur) \in Panes)
  BY Types DEF Own, Place, Panes

LEMMA MakeSpaceStep ==
  ASSUME IInv, MakeSpace
  PROVE  IInv'
  <1>1. /\ pc = "space" /\ cur \in People /\ Here(cur)
        /\ via = "repair" => restart.st # "closing"
        /\ via # "repair" => part[cur].at = -1
    BY Types DEF MakeSpace, PlaceSound
  <1>2. /\ pc' \in {"swap", "making"} /\ UNCHANGED <<cur, inp, via, was, moved>>
        /\ UNCHANGED <<task, part, op, row, to, tries, applied, awaits>>
        /\ UNCHANGED <<boot, shut, restart, event, ask, luck, words>>
    BY DEF MakeSpace, Go, book, outer, Enough, bounds
  <1>3. /\ WorldOK' /\ UNCHANGED <<pane, seen, landed, again>> /\ Calm
        /\ \A i \in Inputs, x \in Panes : <<i, x>> \in wire' => <<i, x>> \in wire
    <2>1. CASE UNCHANGED world
      BY <2>1, PartsKept DEF world, Calm
    <2>2. CASE Request("space", Own(cur))
      BY <1>1, <2>2, Requests, OwnPane
    <2> QED
      BY <2>1, <2>2 DEF MakeSpace
  <1>4. EffectsOK'
    BY <1>2, TypeParts, Types DEF EffectsOK, MakeSpace, States
  <1>5. HolderOK'
    BY <1>2, TypeParts, Types DEF HolderOK, Places
  <1>6. \A p \in People : Steady(p)
    BY <1>2 DEF Steady
  <1>7. PlaceSound'
    BY <1>1, <1>2 DEF PlaceSound, Typing, Renewing, Retiring, Here
  <1>8. RestartSound' /\ \A p \in People : AgentSound(p)'
    BY <1>2, <1>3, <1>6, AgentsKept, RestartKept DEF IInv
  <1>9. BookOK' /\ BoundsOK' /\ task' \in TaskSet /\ part' \in [People -> People0]
    BY <1>2, PartsKept
  <1> QED
    BY <1>2, <1>3, <1>4, <1>5, <1>6, <1>7, <1>8, <1>9, Joined

LEMMA SpaceMadeStep ==
  ASSUME IInv, SpaceMade
  PROVE  IInv'
  <1>1. /\ pc = "making" /\ cur \in People /\ Here(cur)
        /\ via = "repair" => restart.st # "closing"
        /\ via # "repair" => part[cur].at = -1
    BY Types DEF SpaceMade, PlaceSound
  <1>2. /\ pc' = "swap" /\ UNCHANGED <<cur, inp, via, was, moved>>
        /\ UNCHANGED <<task, part, op, row, to, tries, applied, awaits>>
        /\ UNCHANGED <<boot, shut, restart, event, ask, world, luck, words>>
    BY DEF SpaceMade, Go, book, outer, Enough, bounds
  <1>3. UNCHANGED <<pane, seen, landed, again, wire>>
    BY <1>2 DEF world
  <1>4. EffectsOK'
    BY <1>2, TypeParts, Types DEF EffectsOK, SpaceMade, States
  <1>5. HolderOK'
    BY <1>2, TypeParts, Types DEF HolderOK, Places
  <1>6. \A p \in People : Steady(p)
    BY <1>2 DEF Steady
  <1>7. PlaceSound'
    BY <1>1, <1>2 DEF PlaceSound, Typing, Renewing, Retiring, Here
  <1>8. BookOK' /\ BoundsOK' /\ WorldOK' /\ task' \in TaskSet /\ part' \in [People -> People0]
    BY <1>2, PartsKept
  <1> QED
    BY <1>2, <1>3, <1>4, <1>5, <1>6, <1>7, <1>8, Joined, RestSound

LEMMA SpaceFailsStep ==
  ASSUME IInv, NEW state \in {"refused", "uncertain"}, SpaceFails(state)
  PROVE  IInv'
  <1>1. cur \in People /\ Leave /\ pc' = "free"
    BY Types DEF SpaceFails, PlaceSound, Leave
  <1>2. UNCHANGED <<part, op, row, to, tries, applied, awaits, boot, shut, restart, event, ask, words>>
    BY DEF SpaceFails, book, outer
  <1>3. /\ WorldOK' /\ UNCHANGED <<pane, seen, landed, again>> /\ Calm
        /\ \A i \in Inputs, x \in Panes : <<i, x>> \in wire' => <<i, x>> \in wire
    <2>1. CASE UNCHANGED world
      BY <2>1, PartsKept DEF world, Calm
    <2>2. CASE Unsent("space", Own(cur))
      BY <1>1, <2>2, Requests, OwnPane
    <2> QED
      BY <2>1, <2>2 DEF SpaceFails
  <1>4. EffectsOK'
    BY <1>2, TypeParts, Types DEF EffectsOK, SpaceFails, States
  <1>5. HolderOK' /\ PlaceSound'
    BY <1>1, LeavesSound DEF HolderOK
  <1>6. \A p \in People : Steady(p)
    BY <1>2 DEF Steady
  <1>7. BoundsOK'
    BY <1>2, Budget, TypeParts, Types DEF BoundsOK, SpaceFails
  <1>8. RestartSound' /\ \A p \in People : AgentSound(p)'
    BY <1>2, <1>3, <1>6, AgentsKept, RestartKept DEF IInv
  <1>9. BookOK' /\ task' \in TaskSet /\ part' \in [People -> People0]
    BY <1>2, PartsKept, CaughtTask DEF SpaceFails
  <1> QED
    BY <1>1, <1>2, <1>3, <1>4, <1>5, <1>6, <1>7, <1>8, <1>9, Joined

\* The reference changes only when the pane it named has no agent and will
\* have none, so that no agent is left behind.
LEMMA Swapped ==
  ASSUME IInv, Swap, part[cur].at # part[cur].gen
  PROVE  IInv'
  <1> DEFINE r == [part[cur] EXCEPT !.at = part[cur].gen, !.started = FALSE]
  <1>1. /\ pc = "swap" /\ cur \in People /\ Here(cur)
        /\ via = "repair" => restart.st # "closing"
        /\ via # "repair" => part[cur].at = -1
    BY Types DEF Swap, PlaceSound
  <1>2. /\ pc' = "launch" /\ UNCHANGED <<cur, inp, via, was, moved>>
        /\ part' = [part EXCEPT ![cur] = r] /\ awaits' = [awaits EXCEPT ![cur] = NoInput]
        /\ UNCHANGED <<task, op, row, to, tries, applied, effects, event, ask, world, luck, words>>
    BY DEF Swap, Go, book, outer, Enough, bounds
  <1>3. UNCHANGED <<boot, shut, restart, pane, seen, landed, again, wire>> /\ Calm
    BY <1>2 DEF effects, world, Calm
  <1>4. /\ r \in People0 /\ r.at = part[cur].gen /\ r.gen = part[cur].gen /\ r.st = part[cur].st
        /\ ~r.started
    <2>1. part[cur] \in People0 /\ part[cur].gen \in Gens
      BY <1>1, Types
    <2> QED
      BY <2>1 DEF People0
  <1> HIDE DEF r
  <1>5. /\ part' \in [People -> People0] /\ part'[cur] = r
        /\ \A p \in People : p # cur => part'[p] = part[p]
    BY <1>1, <1>2, <1>4, PartEdit, Types
  <1>6. /\ AgentSound(cur) /\ part[cur].at \in Int /\ part[cur].gen \in Nat
        /\ part[cur].at \in Gens \cup {-1}
        /\ part[cur].st \notin {"absent", "removed"}
    BY <1>1, Types DEF Here
  <1>7. TypeOK'
    <2>1. BookOK' /\ HolderOK'
      BY <1>2, TypeParts, Types DEF BookOK, HolderOK, Places
    <2> QED
      BY <1>2, <1>5, <2>1, PartsKept, TypeJoin
  <1>8. ASSUME NEW p \in People PROVE AgentSound(p)'
    <2>1. CASE p # cur
      BY <1>3, <1>5, <2>1, AgentKept, Types DEF Steady
    <2>2. CASE p = cur
      <3>1. ASSUME NEW g \in Gens
            PROVE  pane[<<cur, g>>] # "live" /\ <<"boot", <<cur, g>>>> \notin wire
        <4>1. pane[<<cur, g>>] # "live"
          <5>1. SUFFICES ASSUME pane[<<cur, g>>] = "live" PROVE FALSE
            OBVIOUS
          <5>2. part[cur].at = g
            BY <1>6, <5>1 DEF AgentSound
          <5>3. g # -1
            BY ExecutionAssumption DEF Gens
          <5> QED
            BY <1>6, <5>1, <5>2, <5>3 DEF AgentSound, Place
        <4> QED
          BY <1>6, <4>1 DEF AgentSound
      <3>2. shut[cur].state # "done"
        BY <1>6 DEF AgentSound
      <3> QED
        BY <1>3, <1>4, <1>5, <1>6, <2>2, <3>1, <3>2 DEF AgentSound, Place
    <2> QED
      BY <2>1, <2>2
  <1>9. RestartSound'
    <2>1. restart.close # "none" => restart.who # cur
      <3>1. restart \in RestartSet /\ RestartSound
        BY Types
      <3> QED
        BY <1>1, <3>1 DEF RestartSound, RestartSet, Here
    <2>2. \A p \in People : part[p].st = "removed" => p # cur
      BY <1>6
    <2> QED
      BY <1>3, <1>5, <2>1, <2>2, Types DEF RestartSound, Place
  <1>10. PlaceSound'
    BY <1>1, <1>2, <1>3, <1>4, <1>5 DEF PlaceSound, Typing, Renewing, Retiring, Here
  <1>11. \A i \in Inputs : RowSound(i)'
    <2>1. \A p \in People : /\ part'[p].st = "absent" => part[p].st = "absent"
                            /\ part[p].gen <= part'[p].gen
      <3>1. \A p \in People : part[p].gen \in Nat
        BY Types
      <3> QED
        BY <1>4, <1>5, <3>1
    <2> QED
      BY <1>2, <1>3, <1>5, <2>1, RowsKept
  <1>12. \A i \in Inputs : OnceSound(i)'
    BY <1>2, <1>3, OnceKept DEF May
  <1> QED
    BY <1>7, <1>8, <1>9, <1>10, <1>11, <1>12 DEF IInv

LEMMA SwapStep ==
  ASSUME IInv, Swap
  PROVE  IInv'
  <1>1. CASE part[cur].at # part[cur].gen
    BY <1>1, Swapped
  <1>2. CASE part[cur].at = part[cur].gen
    <2>1. /\ pc = "swap" /\ cur \in People /\ Here(cur)
          /\ via = "repair" => restart.st # "closing"
          /\ pc' = "launch" /\ UNCHANGED <<cur, inp, via, was, moved>>
          /\ UNCHANGED <<rows, outer, world>> /\ luck' \in 0..MaxTroubles /\ words' \in 0..MaxControls
      BY <1>2, Budget, Types DEF Swap, Go, PlaceSound, rows, book
    <2>2. HolderOK'
      BY <2>1, TypeParts, Types DEF HolderOK, Places
    <2>3. part' = part /\ restart' = restart
      BY <2>1 DEF rows, effects
    <2>4. PlaceSound'
      BY <1>2, <2>1, <2>3 DEF PlaceSound, Typing, Renewing, Retiring, Here
    <2> QED
      BY <2>1, <2>2, <2>4, Moved
  <1> QED
    BY <1>1, <1>2

\* What a step may do to the start of the holder's own pane.
LEMMA StartKept ==
  ASSUME IInv, cur \in People, Here(cur), part[cur].at = part[cur].gen,
         boot[Own(cur)] # "done" \/ boot' = boot,
         NEW s \in States, boot' = [boot EXCEPT ![Own(cur)] = s],
         <<"boot", Own(cur)>> \in wire' => s \in {"pending", "uncertain"},
         \A k \in Panes : <<"boot", k>> \in wire' => <<"boot", k>> \in wire \/ k = Own(cur),
         UNCHANGED <<part, shut, pane>>
  PROVE  boot' \in [Panes -> States] /\ \A p \in People : AgentSound(p)'
  <1>1. boot \in [Panes -> States] /\ Own(cur) \in Panes
    BY TypeParts, OwnPane, Types DEF EffectsOK
  <1>2. boot'[Own(cur)] = s /\ \A k \in Panes : k # Own(cur) => boot'[k] = boot[k]
    BY <1>1
  <1>3. ASSUME NEW p \in People PROVE AgentSound(p)'
    <2>1. \A g \in Gens : <<p, g>> \in Panes
      BY DEF Panes
    <2>2. AgentSound(p) /\ part[p].at \in Gens \cup {-1}
      BY Types
    <2>3. CASE p # cur
      <3>1. \A g \in Gens : boot'[<<p, g>>] = boot[<<p, g>>] /\ <<p, g>> # Own(cur)
        BY <1>2, <2>1, <2>3 DEF Own
      <3>2. part[p].at # -1 => boot'[Place(p)] = boot[Place(p)]
        BY <2>2, <3>1 DEF Place
      <3> QED
        BY <2>1, <2>2, <3>1, <3>2 DEF AgentSound, Gone, Place
    <2>4. CASE p = cur
      <3>1. part[cur].started => boot' = boot
        BY <2>2, <2>4 DEF AgentSound, Place, Own
      <3>2. part[cur].st \notin {"absent", "removed"} /\ part[cur].at # -1
        BY Types DEF Here, Gens
      <3>3. ASSUME NEW g \in Gens, <<"boot", <<cur, g>>>> \in wire'
            PROVE  part[cur].gen = g /\ boot'[<<cur, g>>] \in {"pending", "uncertain"}
        <4>1. CASE <<cur, g>> = Own(cur)
          BY <1>2, <3>3, <4>1 DEF Own
        <4>2. CASE <<cur, g>> # Own(cur)
          BY <1>2, <2>1, <2>2, <2>4, <3>3, <4>2 DEF AgentSound
        <4> QED
          BY <4>1, <4>2
      <3> QED
        BY <2>2, <2>4, <3>1, <3>2, <3>3 DEF AgentSound, Gone, Place
    <2> QED
      BY <2>3, <2>4
  <1> QED
    BY <1>1, <1>3

\* The rest of such a step.
LEMMA StartJoined ==
  ASSUME IInv, cur \in People, Here(cur), part[cur].at = part[cur].gen,
         boot[Own(cur)] # "done" \/ boot' = boot,
         NEW s \in States, boot' = [boot EXCEPT ![Own(cur)] = s],
         <<"boot", Own(cur)>> \in wire' => s \in {"pending", "uncertain"},
         UNCHANGED world \/ Request("boot", Own(cur)) \/ Unsent("boot", Own(cur)),
         UNCHANGED <<part, op, book, awaits, space, shut, restart, outer>>,
         task' \in TaskSet, pc' \notin {"baseline", "screen"}, HolderOK', PlaceSound',
         luck' \in 0..MaxTroubles, words' \in 0..MaxControls
  PROVE  IInv'
  <1>1. /\ UNCHANGED <<row, to, tries, applied, awaits, event, ask>>
        /\ UNCHANGED <<part, op, space, shut, restart>>
    BY DEF book, outer
  <1>2. /\ WorldOK' /\ UNCHANGED <<pane, seen, landed, again>>
        /\ \A i \in Inputs, x \in Panes : <<i, x>> \in wire' => <<i, x>> \in wire
        /\ \A k \in Panes : <<"boot", k>> \in wire' => <<"boot", k>> \in wire \/ k = Own(cur)
    <2>1. CASE UNCHANGED world
      BY <2>1, PartsKept DEF world
    <2>2. CASE Request("boot", Own(cur)) \/ Unsent("boot", Own(cur))
      <3>1. \A k \in Panes : <<"boot", k>> \in wire' => <<"boot", k>> \in wire \/ k = Own(cur)
        BY <2>2 DEF Request, Unsent
      <3> QED
        BY <2>2, <3>1, Requests, OwnPane
    <2> QED
      BY <2>1, <2>2
  <1>3. boot' \in [Panes -> States] /\ \A p \in People : AgentSound(p)'
    BY <1>1, <1>2, StartKept
  <1>4. EffectsOK' /\ BoundsOK' /\ BookOK'
    BY <1>1, <1>3, PartsKept, TypeParts, Types DEF EffectsOK, BoundsOK
  <1>5. part' \in [People -> People0] /\ \A p \in People : Steady(p)
    BY <1>1, Types DEF Steady
  <1>6. RestartSound'
    BY <1>1, <1>2, RestartKept, Types
  <1> QED
    BY <1>1, <1>2, <1>3, <1>4, <1>5, <1>6, Joined

LEMMA LaunchStep ==
  ASSUME IInv, Launch
  PROVE  IInv'
  <1>1. /\ pc = "launch" /\ cur \in People /\ Here(cur) /\ part[cur].at = part[cur].gen
        /\ via = "repair" => restart.st # "closing"
    BY Types DEF Launch, PlaceSound, Renewing
  <1>2. /\ pc' \in {"readback", "boot"} /\ UNCHANGED <<cur, inp, via, was, moved>>
        /\ UNCHANGED <<task, part, op, book, awaits, space, shut, restart, outer, world>>
        /\ luck' \in 0..MaxTroubles /\ words' \in 0..MaxControls
    BY Budget DEF Launch, Go
  <1>3. HolderOK' /\ task' \in TaskSet
    BY <1>2, TypeParts, Types DEF HolderOK, Places
  <1>4. CASE boot[Own(cur)] = "done" /\ pc' = "readback" /\ UNCHANGED boot
    <2>1. PlaceSound'
      BY <1>1, <1>2, <1>4 DEF PlaceSound, Typing, Renewing, Retiring, Here, Own
    <2> QED
      BY <1>2, <1>3, <1>4, <2>1, Moved DEF rows, effects
  <1>5. CASE /\ MayRetry(boot[Own(cur)]) /\ boot[Own(cur)] # "done" /\ pc' = "boot"
             /\ boot' = [boot EXCEPT ![Own(cur)] = "pending"]
    <2>1. boot'[Own(cur)] = "pending"
      BY <1>1, <1>5, OwnPane, TypeParts, Types DEF EffectsOK
    <2>2. <<"boot", Own(cur)>> \notin wire
      BY <1>1, <1>5, Types DEF AgentSound, MayRetry, Own
    <2>3. PlaceSound'
      BY <1>1, <1>2, <1>5, <2>1, <2>2 DEF PlaceSound, Typing, Renewing, Retiring, Here, Own, world
    <2> QED
      BY <1>1, <1>2, <1>3, <1>5, <2>2, <2>3, StartJoined DEF States
  <1> QED
    BY <1>4, <1>5 DEF Launch, Go

LEMMA BootStep ==
  ASSUME IInv, Boot
  PROVE  IInv'
  <1>1. /\ pc = "boot" /\ cur \in People /\ Here(cur) /\ part[cur].at = part[cur].gen
        /\ boot[Own(cur)] = "pending"
        /\ via = "repair" => restart.st # "closing"
    BY Types DEF Boot, PlaceSound, Renewing
  <1>2. /\ pc' = "booting" /\ UNCHANGED <<cur, inp, via, was, moved>>
        /\ UNCHANGED <<task, part, op, book, awaits, space, boot, shut, restart, outer>>
        /\ Request("boot", Own(cur)) /\ luck' \in 0..MaxTroubles /\ words' \in 0..MaxControls
    BY Budget DEF Boot, Go, rows, effects
  <1>3. HolderOK' /\ task' \in TaskSet
    BY <1>2, TypeParts, Types DEF HolderOK, Places
  <1>4. boot' = [boot EXCEPT ![Own(cur)] = "pending"]
    BY <1>1, <1>2, OwnPane, TypeParts, Types DEF EffectsOK
  <1>5. PlaceSound'
    BY <1>1, <1>2 DEF PlaceSound, Typing, Renewing, Retiring, Here, Own
  <1> QED
    BY <1>1, <1>2, <1>3, <1>4, <1>5, StartJoined DEF States

LEMMA BootVetoedStep ==
  ASSUME IInv, BootVetoed
  PROVE  IInv'
  <1>1. /\ pc = "boot" /\ cur \in People /\ Here(cur) /\ part[cur].at = part[cur].gen
        /\ boot[Own(cur)] = "pending" /\ <<"boot", Own(cur)>> \notin wire
    BY Types DEF BootVetoed, PlaceSound, Renewing
  <1>2. /\ boot' = [boot EXCEPT ![Own(cur)] = "vetoed"] /\ Leave /\ pc' = "free"
        /\ UNCHANGED <<part, op, book, awaits, space, shut, restart, outer, world>>
        /\ luck' \in 0..MaxTroubles /\ words' \in 0..MaxControls
    BY Budget DEF BootVetoed, ReconcileFails, Leave
  <1>3. HolderOK' /\ PlaceSound'
    BY <1>2, LeavesSound DEF HolderOK
  <1>4. task' \in TaskSet
    BY CaughtTask DEF BootVetoed, ReconcileFails
  <1>5. <<"boot", Own(cur)>> \notin wire'
    BY <1>1, <1>2 DEF world
  <1> QED
    BY <1>1, <1>2, <1>3, <1>4, <1>5, StartJoined DEF States

LEMMA BootedStep ==
  ASSUME IInv, Booted
  PROVE  IInv'
  <1>1. /\ pc = "booting" /\ cur \in People /\ Here(cur) /\ part[cur].at = part[cur].gen
        /\ boot[Own(cur)] = "pending" /\ <<"boot", Own(cur)>> \notin wire
        /\ via = "repair" => restart.st # "closing"
    BY Types DEF Booted, PlaceSound, Renewing
  <1>2. /\ pc' = "readback" /\ UNCHANGED <<cur, inp, via, was, moved>>
        /\ boot' = [boot EXCEPT ![Own(cur)] = "done"]
        /\ UNCHANGED <<task, part, op, book, awaits, space, shut, restart, outer, world>>
        /\ luck' \in 0..MaxTroubles /\ words' \in 0..MaxControls
    BY Budget DEF Booted, Go
  <1>3. HolderOK' /\ task' \in TaskSet
    BY <1>2, TypeParts, Types DEF HolderOK, Places
  <1>4. <<"boot", Own(cur)>> \notin wire' /\ boot'[Own(cur)] = "done"
    BY <1>1, <1>2, OwnPane, TypeParts, Types DEF EffectsOK, world
  <1>5. PlaceSound'
    BY <1>1, <1>2, <1>4 DEF PlaceSound, Typing, Renewing, Retiring, Here, Own
  <1> QED
    BY <1>1, <1>2, <1>3, <1>4, <1>5, StartJoined DEF States

LEMMA BootFailsStep ==
  ASSUME IInv, NEW state \in {"refused", "uncertain"}, BootFails(state)
  PROVE  IInv'
  <1>1. /\ pc = "booting" /\ cur \in People /\ Here(cur) /\ part[cur].at = part[cur].gen
        /\ boot[Own(cur)] = "pending"
    BY Types DEF BootFails, PlaceSound, Renewing
  <1>2. /\ boot' = [boot EXCEPT ![Own(cur)] = state] /\ Leave /\ pc' = "free"
        /\ UNCHANGED <<part, op, book, awaits, space, shut, restart, outer>>
        /\ luck' \in 0..MaxTroubles /\ words' \in 0..MaxControls
    BY Budget DEF BootFails, Leave
  <1>3. HolderOK' /\ PlaceSound'
    BY <1>2, LeavesSound DEF HolderOK
  <1>4. task' \in TaskSet
    BY CaughtTask DEF BootFails
  <1>5. /\ UNCHANGED world \/ Unsent("boot", Own(cur))
        /\ <<"boot", Own(cur)>> \in wire' => state = "uncertain"
    BY DEF BootFails, Unsent
  <1> QED
    BY <1>1, <1>2, <1>3, <1>4, <1>5, StartJoined DEF States

LEMMA ReadbackStep ==
  ASSUME IInv, NEW st \in {"idle", "gone", "unread"}, NEW ready \in BOOLEAN, Readback(st, ready),
         luck' \in 0..MaxTroubles, words' \in 0..MaxControls
  PROVE  IInv'
  <1>1. /\ pc = "readback" /\ cur \in People /\ Here(cur) /\ part[cur].at = part[cur].gen
        /\ boot[Own(cur)] = "done"
    BY Types DEF Readback, PlaceSound, Renewing
  <1> DEFINE s == IF st = "unread" THEN part[cur].st ELSE st
             j == IF via # "repair" THEN part[cur].journal ELSE IF ready THEN "ready" ELSE "building"
             r == [part[cur] EXCEPT !.started = TRUE, !.st = s, !.journal = j]
  <1>2. /\ part' = [part EXCEPT ![cur] = r] /\ Leave /\ pc' = "free"
        /\ UNCHANGED <<task, op, row, to, tries, applied, awaits, effects, event, ask, world>>
    BY DEF Readback, Leave, book, outer
  <1>3. /\ r \in People0 /\ r.at = part[cur].at /\ r.gen = part[cur].gen /\ r.started
        /\ r.st = s
    <2>1. part[cur] \in People0
      BY <1>1, Types
    <2>2. s \in {"absent", "pending", "idle", "working", "gone", "removed"}
      BY <2>1 DEF People0
    <2>3. j \in {"none", "building", "ready"}
      BY <2>1 DEF People0
    <2> HIDE DEF s, j
    <2> QED
      BY <2>1, <2>2, <2>3 DEF People0
  <1>4. s \notin {"absent", "removed"}
    BY <1>1 DEF Here
  <1> HIDE DEF r, s, j
  <1>5. /\ part' \in [People -> People0] /\ part'[cur] = r
        /\ \A p \in People : p # cur => part'[p] = part[p]
    BY <1>1, <1>2, <1>3, PartEdit, Types
  <1>6. UNCHANGED <<boot, shut, restart, pane, seen, landed, again, wire>> /\ Calm
    BY <1>2 DEF effects, world, Calm
  <1>7. TypeOK'
    <2>1. HolderOK' /\ BoundsOK'
      BY <1>2, LeavesSound, TypeParts, Types DEF HolderOK, BoundsOK
    <2> QED
      BY <1>2, <1>5, <2>1, PartsKept, TypeJoin
  <1>8. ASSUME NEW p \in People PROVE AgentSound(p)'
    <2>1. CASE p # cur
      BY <1>5, <1>6, <2>1, AgentKept, Types DEF Steady
    <2>2. CASE p = cur
      <3>1. AgentSound(cur) /\ part[cur].at \in Gens /\ part[cur].gen \in Gens
        BY <1>1, Types
      <3>2. shut[cur].state # "done" /\ part[cur].at # -1
        BY <1>1, <3>1, ExecutionAssumption DEF AgentSound, Here, Gens
      <3> QED
        BY <1>1, <1>3, <1>4, <1>5, <1>6, <2>2, <3>1, <3>2 DEF AgentSound, Place, Own
    <2> QED
      BY <2>1, <2>2
  <1>9. RestartSound'
    <2>1. \A p \in People : /\ part'[p].at = part[p].at
                            /\ part[p].st = "removed" => part'[p].st = "removed"
      BY <1>1, <1>3, <1>5 DEF Here
    <2> QED
      BY <1>6, <2>1, RestartKept, Types
  <1>10. \A i \in Inputs : RowSound(i)'
    <2>1. \A p \in People : /\ part'[p].st = "absent" => part[p].st = "absent"
                            /\ part[p].gen <= part'[p].gen
      <3>1. \A p \in People : part[p].gen \in Nat
        BY Types
      <3> QED
        BY <1>3, <1>4, <1>5, <3>1
    <2> QED
      BY <1>2, <1>5, <1>6, <2>1, RowsKept
  <1>11. \A i \in Inputs : OnceSound(i)'
    BY <1>2, <1>6, OnceKept DEF May
  <1> QED
    BY <1>2, <1>7, <1>8, <1>9, <1>10, <1>11, LeavesSound DEF IInv

LEMMA RepairSteps ==
  ASSUME IInv, Repairing
  PROVE  IInv'
  <1>1. CASE \E p \in People : FinishRepair(p) \/ Inspect(p) \/ ResumeRepair(p) \/ Provision(p)
    BY <1>1, StartSteps
  <1>2. CASE SeesAgent \/ SeesNoAgent
    BY <1>2, SeesAgentStep, SeesNoAgentStep
  <1>3. CASE Unread \/ RepairDeferred \/ SpaceHeld \/ LaunchHeld
    BY <1>3, HeldSteps
  <1>4. CASE MakeSpace \/ SpaceMade \/ Swap
    BY <1>4, MakeSpaceStep, SpaceMadeStep, SwapStep
  <1>5. CASE Launch \/ Boot \/ BootVetoed \/ Booted
    BY <1>5, LaunchStep, BootStep, BootVetoedStep, BootedStep
  <1>6. CASE ReadBack
    BY <1>6, ReadbackStep, Budget DEF ReadBack
  <1>7. CASE NotReadBack
    BY <1>7, ReadbackStep, Budget DEF NotReadBack
  <1>8. CASE \E state \in {"refused", "uncertain"} : SpaceFails(state) \/ BootFails(state)
    BY <1>8, SpaceFailsStep, BootFailsStep
  <1> QED
    BY <1>1, <1>2, <1>3, <1>4, <1>5, <1>6, <1>7, <1>8 DEF Repairing

(***************************************************************************)
(* restartParticipants                                                     *)
(***************************************************************************)
LEMMA RestartStep ==
  ASSUME IInv, NEW p \in People, Restart(p)
  PROVE  IInv'
  <1>1. /\ pc = "free" /\ Here(p) /\ pc' = "history" /\ cur' = p
        /\ UNCHANGED <<part, op, to, tries, applied, awaits, space, boot, shut, event, inp,
                       via, was, moved, world>>
        /\ row' = Stale(row) /\ ask' = FALSE
        /\ luck' \in 0..MaxTroubles /\ words' \in 0..MaxControls
    BY Budget DEF Restart
  <1>2. /\ restart.st \in {"none", "closing"}
        /\ restart' = IF restart.st = "closing" THEN restart
                      ELSE [restart EXCEPT !.st = "closing", !.who = p, !.ops = UnknownInputs(p)]
        /\ restart.st = "closing" => restart.who = p
    BY DEF Restart
  <1>3. /\ restart' \in RestartSet /\ restart'.st = "closing" /\ restart'.who = p
        /\ restart'.close = restart.close /\ restart.st = "none" => restart.close = "none"
    <2>1. restart \in RestartSet /\ UnknownInputs(p) \subseteq Inputs /\ RestartSound
      BY Types DEF UnknownInputs
    <2> HIDE DEF UnknownInputs
    <2> QED
      BY <1>2, <2>1 DEF RestartSet, RestartSound
  <1>4. via = "none"
    BY <1>1, Types DEF PlaceSound
  <1>5. UNCHANGED <<pane, seen, landed, again, wire>> /\ Calm /\ \A q \in People : Steady(q)
    BY <1>1 DEF world, Calm, Steady
  <1>6. TypeOK'
    <2>1. task' \in TaskSet
      <3> DEFINE t == [task EXCEPT !.paused = TRUE, !.st = "paused", !.byUser = FALSE, !.asked = "yes"]
      <3>1. task' = t
        BY DEF Restart
      <3> QED
        BY <3>1, Types DEF TaskSet
    <2>2. BookOK'
      BY <1>1, StaleRows, TypeParts, Types DEF BookOK
    <2>3. EffectsOK' /\ HolderOK' /\ BoundsOK'
      BY <1>1, <1>3, TypeParts, Types DEF EffectsOK, HolderOK, BoundsOK, Places
    <2> QED
      BY <1>1, <2>1, <2>2, <2>3, PartsKept, TypeJoin
  <1>7. \A q \in People : AgentSound(q)'
    BY <1>1, <1>5, AgentsKept
  <1>8. RestartSound'
    BY <1>1, <1>2, <1>3, <1>5, Types DEF RestartSound, Place
  <1>9. PlaceSound'
    BY <1>1, <1>3, <1>4 DEF PlaceSound, Typing, Renewing, Retiring, Here
  <1>10. \A i \in Inputs : RowSound(i)'
    <2>1. \A q \in People : part[q].gen <= part[q].gen
      BY Types
    <2>2. \A i \in Inputs : row'[i].at = row[i].at
      BY <1>1, StaleRows, Types
    <2> QED
      BY <1>1, <1>5, <2>1, <2>2, RowsKept, Types
  <1>11. \A i \in Inputs : OnceSound(i)'
    BY <1>1, <1>5, OnceKept DEF May
  <1> QED
    BY <1>6, <1>7, <1>8, <1>9, <1>10, <1>11 DEF IInv

LEMMA RestartStopsStep ==
  ASSUME IInv, RestartStops
  PROVE  IInv'
  BY GivesUp, Budget, Types DEF RestartStops, rows

LEMMA TakeHistoryStep ==
  ASSUME IInv, TakeHistory
  PROVE  IInv'
  <1>1. /\ pc = "history" /\ cur \in People /\ Here(cur) /\ restart.st = "closing" /\ restart.who = cur
        /\ via # "repair"
    BY Types DEF TakeHistory, PlaceSound, Retiring
  <1>2. /\ pc' = (IF part[cur].at = -1 THEN "material" ELSE "close")
        /\ UNCHANGED <<cur, inp, via, was, moved>> /\ UNCHANGED <<rows, outer, world>>
        /\ luck' \in 0..MaxTroubles /\ words' \in 0..MaxControls
    BY Budget DEF TakeHistory, Go
  <1>3. HolderOK'
    BY <1>2, TypeParts, Types DEF HolderOK, Places
  <1>4. part' = part /\ restart' = restart
    BY <1>2 DEF rows, effects
  <1>5. PlaceSound'
    BY <1>1, <1>2, <1>4 DEF PlaceSound, Typing, Renewing, Retiring, Here, Gone
  <1> QED
    BY <1>2, <1>3, <1>5, Moved

\* The journal of a restart writes what became of its close.
LEMMA CloseWritten ==
  ASSUME IInv, NEW s \in States, restart' = [restart EXCEPT !.close = s],
         restart.st = "closing", restart.who = cur, cur \in People, part[cur].at # -1,
         s = "done" => pane[Place(cur)] = "lost",
         UNCHANGED <<part, boot, shut, space, pane>>
  PROVE  /\ RestartSound' /\ EffectsOK' /\ restart'.st = "closing" /\ restart'.who = cur
         /\ restart'.close = s
  <1>1. restart \in RestartSet
    BY Types
  <1>2. /\ restart' \in RestartSet /\ restart'.st = "closing" /\ restart'.who = cur
        /\ restart'.close = s
    BY <1>1 DEF RestartSet
  <1>3. RestartSound'
    BY <1>2 DEF RestartSound, Place
  <1>4. EffectsOK'
    BY <1>2, TypeParts, Types DEF EffectsOK
  <1> QED
    BY <1>2, <1>3, <1>4

LEMMA CloseOldStep ==
  ASSUME IInv, CloseOld
  PROVE  IInv'
  <1>1. /\ pc = "close" /\ cur \in People /\ Here(cur) /\ restart.st = "closing" /\ restart.who = cur
        /\ via # "repair" /\ part[cur].at # -1
    BY Types DEF CloseOld, PlaceSound, Retiring
  <1>2. /\ UNCHANGED <<cur, inp, via, was, moved>>
        /\ UNCHANGED <<task, part, op, row, to, tries, applied, awaits, space, boot, shut,
                       event, ask>>
        /\ luck' \in 0..MaxTroubles /\ words' \in 0..MaxControls
    BY Budget DEF CloseOld, Go, book, outer
  <1>3. /\ task' \in TaskSet /\ part' \in [People -> People0] /\ \A p \in People : Steady(p)
        /\ BookOK' /\ BoundsOK'
    BY <1>2, PartsKept, TypeParts, Types DEF Steady, BoundsOK
  <1>4. CASE restart.close = "done" /\ pc' = "material" /\ UNCHANGED <<restart, world>>
    <2>1. pane[Place(cur)] = "lost"
      BY <1>1, <1>4, Types DEF RestartSound
    <2>2. HolderOK'
      BY <1>2, <1>4, TypeParts, Types DEF HolderOK, Places
    <2>3. PlaceSound'
      BY <1>1, <1>2, <1>4, <2>1 DEF PlaceSound, Typing, Renewing, Retiring, Here, Gone, Place, world
    <2> QED
      BY <1>2, <1>4, <2>2, <2>3, Moved DEF rows, book, effects, outer
  <1>5. CASE /\ restart' = [restart EXCEPT !.close = "pending"]
             /\ Request("close", Place(cur)) /\ pc' = "closing"
    <2>1. Place(cur) \in Panes
      BY <1>1, OwnPane
    <2>2. /\ WorldOK' /\ UNCHANGED <<pane, seen, landed, again>> /\ Calm
          /\ \A i \in Inputs, x \in Panes : <<i, x>> \in wire' => <<i, x>> \in wire
      BY <1>5, <2>1, Requests
    <2>3. /\ RestartSound' /\ EffectsOK' /\ restart'.st = "closing" /\ restart'.who = cur
      BY <1>1, <1>2, <1>5, <2>2, CloseWritten DEF States
    <2>4. HolderOK'
      BY <1>2, <1>5, TypeParts, Types DEF HolderOK, Places
    <2>5. <<"close", Place(cur)>> \in wire'
      BY <1>5 DEF Request
    <2>6. PlaceSound'
      BY <1>1, <1>2, <1>5, <2>3, <2>5 DEF PlaceSound, Typing, Renewing, Retiring, Here, Closed, Place
    <2>7. \A p \in People : AgentSound(p)'
      BY <1>2, <1>3, <2>2, AgentsKept
    <2> QED
      BY <1>2, <1>3, <1>5, <2>2, <2>3, <2>4, <2>6, <2>7, Joined
  <1> QED
    BY <1>4, <1>5 DEF CloseOld, Go

LEMMA OldClosedStep ==
  ASSUME IInv, OldClosed
  PROVE  IInv'
  <1>1. /\ pc = "closing" /\ cur \in People /\ Here(cur) /\ restart.st = "closing" /\ restart.who = cur
        /\ via # "repair" /\ part[cur].at # -1 /\ pane[Place(cur)] = "lost"
    BY Types DEF OldClosed, PlaceSound, Retiring, Closed
  <1>2. /\ pc' = "material" /\ UNCHANGED <<cur, inp, via, was, moved>>
        /\ restart' = [restart EXCEPT !.close = "done"]
        /\ UNCHANGED <<task, part, op, row, to, tries, applied, awaits, space, boot, shut,
                       event, ask>>
        /\ UNCHANGED world /\ luck' \in 0..MaxTroubles /\ words' \in 0..MaxControls
    BY Budget DEF OldClosed, Go, book, outer
  <1>3. /\ task' \in TaskSet /\ part' \in [People -> People0] /\ \A p \in People : Steady(p)
        /\ BookOK' /\ BoundsOK' /\ WorldOK'
    BY <1>2, PartsKept, TypeParts, Types DEF Steady, BoundsOK
  <1>4. UNCHANGED <<pane, seen, landed, again, wire>> /\ Calm
    BY <1>2 DEF world, Calm
  <1>5. /\ RestartSound' /\ EffectsOK' /\ restart'.st = "closing" /\ restart'.who = cur
    BY <1>1, <1>2, <1>4, CloseWritten DEF States
  <1>6. HolderOK'
    BY <1>2, TypeParts, Types DEF HolderOK, Places
  <1>7. PlaceSound'
    BY <1>1, <1>2, <1>4, <1>5 DEF PlaceSound, Typing, Renewing, Retiring, Here, Gone, Place
  <1>8. \A p \in People : AgentSound(p)'
    BY <1>2, <1>3, <1>4, AgentsKept
  <1> QED
    BY <1>2, <1>3, <1>4, <1>5, <1>6, <1>7, <1>8, Joined

LEMMA OldCloseFailsStep ==
  ASSUME IInv, NEW state \in {"refused", "uncertain"}, OldCloseFails(state)
  PROVE  IInv'
  <1>1. /\ cur \in People /\ Here(cur) /\ restart.st = "closing" /\ restart.who = cur
        /\ part[cur].at # -1
    BY Types DEF OldCloseFails, PlaceSound, Retiring
  <1>2. /\ Leave /\ pc' = "free" /\ restart' = [restart EXCEPT !.close = state]
        /\ UNCHANGED <<task, part, op, row, to, tries, applied, awaits, space, boot, shut,
                       event, ask>>
        /\ luck' \in 0..MaxTroubles /\ words' \in 0..MaxControls
    BY Budget DEF OldCloseFails, Leave, book, outer
  <1>3. /\ task' \in TaskSet /\ part' \in [People -> People0] /\ \A p \in People : Steady(p)
        /\ BookOK' /\ BoundsOK'
    BY <1>2, PartsKept, TypeParts, Types DEF Steady, BoundsOK
  <1>4. /\ WorldOK' /\ UNCHANGED <<pane, seen, landed, again>> /\ Calm
        /\ \A i \in Inputs, x \in Panes : <<i, x>> \in wire' => <<i, x>> \in wire
    <2>1. CASE UNCHANGED world
      BY <2>1, PartsKept DEF world, Calm
    <2>2. CASE Unsent("close", Place(cur))
      BY <1>1, <2>2, Requests, OwnPane
    <2> QED
      BY <2>1, <2>2 DEF OldCloseFails
  <1>5. RestartSound' /\ EffectsOK'
    BY <1>1, <1>2, <1>4, CloseWritten DEF States
  <1>6. HolderOK' /\ PlaceSound'
    BY <1>2, LeavesSound DEF HolderOK
  <1>7. \A p \in People : AgentSound(p)'
    BY <1>2, <1>3, <1>4, AgentsKept
  <1> QED
    BY <1>2, <1>3, <1>4, <1>5, <1>6, <1>7, Joined

\* A participant that comes has no pane, one that goes keeps the reference.
LEMMA Arrives ==
  ASSUME IInv, NEW p \in People, part[p].st = "absent", part'[p] = Fresh, Calm,
         UNCHANGED <<shut, boot>>
  PROVE  AgentSound(p)'
  <1>1. /\ part'[p].at = -1 /\ part'[p].gen = 0 /\ part'[p].st = "pending" /\ part'[p].started = FALSE
    BY DEF Fresh
  <1>2. part[p].at = -1 /\ AgentSound(p)
    BY Types DEF AgentSound
  <1>3. \A g \in Gens : <<p, g>> \in Panes /\ g # -1
    BY ExecutionAssumption DEF Panes, Gens
  <1>4. shut'[p].state # "done"
    BY <1>2 DEF AgentSound
  <1>5. \A g \in Gens : pane'[<<p, g>>] # "live" /\ <<"boot", <<p, g>>>> \notin wire'
    BY <1>2, <1>3 DEF AgentSound, Calm
  <1> QED
    BY <1>1, <1>4, <1>5 DEF AgentSound

LEMMA Departs ==
  ASSUME IInv, NEW p \in People, part'[p].st = "removed", Calm, UNCHANGED boot,
         part'[p].at = part[p].at, part'[p].gen = part[p].gen, part'[p].started = part[p].started,
         Gone(p) \/ (shut'[p].choice \in {"proven", "treat_done"} /\ ~Failed(shut'[p]))
  PROVE  AgentSound(p)'
  <1>1. AgentSound(p) /\ part[p].at \in Gens \cup {-1}
    BY Types
  <1>2. \A g \in Gens : <<p, g>> \in Panes
    BY DEF Panes
  <1>3. Gone(p) => Gone(p)'
    BY <1>1, <1>2 DEF Gone, Place, Calm
  <1>4. Place(p)' = Place(p)
    BY DEF Place
  <1>5. part[p].at # -1 => Place(p) \in Panes
    BY <1>1, <1>2 DEF Place
  <1>6. part[p].at = -1 => ~part[p].started
    BY <1>1 DEF AgentSound
  <1>7. /\ part'[p].at = -1 => part'[p].gen = 0 /\ ~part'[p].started
        /\ part'[p].at <= part'[p].gen
        /\ part'[p].started => boot'[Place(p)'] = "done"
    BY <1>1, <1>4 DEF AgentSound
  <1>8. part'[p].at # -1 /\ part'[p].at # part'[p].gen =>
          pane'[Place(p)'] # "live" /\ boot'[Place(p)'] = "done"
    BY <1>1, <1>4, <1>5 DEF AgentSound, Calm
  <1>9. \A g \in Gens :
          /\ pane'[<<p, g>>] = "live" => part'[p].at = g
          /\ <<"boot", <<p, g>>>> \in wire' =>
                /\ part'[p].at = g /\ part'[p].gen = g
                /\ boot'[<<p, g>>] \in {"pending", "uncertain"}
    BY <1>1, <1>2 DEF AgentSound, Calm
  <1>10. Gone(p)' \/ (shut'[p].choice \in {"proven", "treat_done"} /\ ~Failed(shut'[p]))
    BY <1>3
  <1> HIDE DEF Gone, Place
  <1> QED
    BY <1>7, <1>8, <1>9, <1>10 DEF AgentSound

LEMMA ReplaceStep ==
  ASSUME IInv, NEW q \in People, Replace(q)
  PROVE  IInv'
  <1> DEFINE r == [part[cur] EXCEPT !.st = "removed"]
             mid == [part EXCEPT ![cur] = r]
  <1>1. /\ pc = "material" /\ cur \in People /\ Here(cur) /\ Gone(cur)
        /\ restart.st = "closing" /\ restart.who = cur /\ part[q].st = "absent"
    BY Types DEF Replace, PlaceSound, Retiring
  <1>2. /\ Leave /\ pc' = "free" /\ restart' = [restart EXCEPT !.st = "done"]
        /\ part' = [mid EXCEPT ![q] = Fresh] /\ awaits' = [awaits EXCEPT ![cur] = NoInput]
        /\ task' = [task EXCEPT !.paused = FALSE, !.st = "open", !.asked = "no"]
        /\ UNCHANGED <<op, row, to, tries, applied, space, boot, shut, event, ask, world>>
        /\ luck' \in 0..MaxTroubles /\ words' \in 0..MaxControls
    BY Budget, <1>1 DEF Replace, Leave, book, outer
  <1>3. /\ r \in People0 /\ r.at = part[cur].at /\ r.gen = part[cur].gen
        /\ r.st = "removed" /\ r.started = part[cur].started
    BY <1>1, Types DEF People0
  <1> HIDE DEF r
  <1>4. Fresh \in People0
    BY ExecutionAssumption DEF Fresh, People0, Gens
  <1>5. q # cur
    BY <1>1 DEF Here
  <1>6. /\ part' \in [People -> People0] /\ part'[q] = Fresh /\ part'[cur] = r
        /\ \A p \in People : p \notin {q, cur} => part'[p] = part[p]
    BY <1>1, <1>2, <1>3, <1>4, <1>5, Types
  <1>7. /\ UNCHANGED <<pane, seen, landed, again, wire>> /\ Calm
    BY <1>2 DEF world, Calm
  <1>8. \A p \in People : AgentSound(p)'
    <2>1. AgentSound(q)'
      BY <1>1, <1>2, <1>6, <1>7, Arrives
    <2>2. ASSUME NEW p \in People, p = cur PROVE AgentSound(p)'
      BY <1>1, <1>2, <1>3, <1>6, <1>7, <2>2, Departs
    <2>3. ASSUME NEW p \in People, p \notin {q, cur} PROVE AgentSound(p)'
      <3>1. Steady(p) /\ AgentSound(p) /\ TypeOK
        BY <1>6, <2>3, Types DEF Steady
      <3> QED
        BY <1>2, <1>7, <3>1, AgentKept
    <2> QED
      BY <2>1, <2>2, <2>3
  <1>9. /\ restart' \in RestartSet /\ restart'.st = "done" /\ restart'.who = cur
        /\ restart'.close = restart.close
    BY <1>1, <1>2, Types DEF RestartSet
  <1>10. RestartSound'
    <2>1. RestartSound
      BY Types
    <2> QED
      BY <1>1, <1>3, <1>6, <1>7, <1>9, <2>1 DEF RestartSound, Place
  <1>11. TypeOK'
    <2>1. task' \in TaskSet
      BY <1>2, Types DEF TaskSet
    <2>2. BookOK' /\ EffectsOK' /\ BoundsOK'
      BY <1>1, <1>2, <1>9, TypeParts, Types DEF BookOK, EffectsOK, BoundsOK
    <2>3. HolderOK'
      BY <1>2, LeavesSound DEF HolderOK
    <2> QED
      BY <1>2, <1>6, <2>1, <2>2, <2>3, PartsKept, TypeJoin
  <1>12. \A i \in Inputs : RowSound(i)'
    <2>1. \A p \in People : /\ part'[p].st = "absent" => part[p].st = "absent"
                            /\ part[p].st = "absent" \/ part[p].gen <= part'[p].gen
      <3>1. ASSUME NEW p \in People
            PROVE  /\ part'[p].st = "absent" => part[p].st = "absent"
                   /\ part[p].st = "absent" \/ part[p].gen <= part'[p].gen
        <4>1. CASE p = q
          BY <1>1, <4>1
        <4>2. CASE p = cur
          BY <1>1, <1>3, <1>6, <4>2, Types
        <4>3. CASE p \notin {q, cur}
          BY <1>6, <4>3, Types
        <4> QED
          BY <4>1, <4>2, <4>3
      <3> QED
        BY <3>1
    <2> QED
      BY <1>2, <1>6, <1>7, <2>1, RowsKept
  <1>13. \A i \in Inputs : OnceSound(i)'
    BY <1>2, <1>7, OnceKept DEF May
  <1>14. PlaceSound'
    BY <1>2, LeavesSound
  <1> QED
    BY <1>8, <1>10, <1>11, <1>12, <1>13, <1>14 DEF IInv

LEMMA RestartSteps ==
  ASSUME IInv, Restarting
  PROVE  IInv'
  BY RestartStep, ReplaceStep, RestartStopsStep, TakeHistoryStep, CloseOldStep, OldClosedStep,
     OldCloseFailsStep DEF Restarting

(***************************************************************************)
(* Controls and observations                                               *)
(***************************************************************************)
\* Steps that neither write receipts nor reach the other side.
LEMMA Marked ==
  ASSUME IInv, UNCHANGED <<op, to, tries, applied, effects, world, pc, cur, inp, via, was>>,
         moved' \in BOOLEAN, event' \in BOOLEAN, ask' \in BOOLEAN,
         row' = row \/ row' = Stale(row), awaits' \in [People -> Inputs \cup {NoInput}],
         task' \in TaskSet, part' \in [People -> People0], \A p \in People : Steady(p),
         luck' \in 0..MaxTroubles, words' \in 0..MaxControls
  PROVE  IInv'
  <1>1. /\ UNCHANGED <<op, to, tries, applied, space, boot, shut, restart>>
        /\ UNCHANGED <<pane, seen, landed, again, wire, pc, cur, inp, via, was>> /\ Calm
    BY DEF effects, world, Calm
  <1>2. row' \in [Inputs -> RowSet] /\ \A i \in Inputs : row'[i].at = row[i].at
    BY StaleRows, Types
  <1>3. \A p \in People : /\ part'[p].at = part[p].at /\ part'[p].gen = part[p].gen
                          /\ part'[p].st = "absent" => part[p].st = "absent"
                          /\ part[p].st = "removed" => part'[p].st = "removed"
                          /\ part[p].gen <= part'[p].gen
    BY Types DEF Steady
  <1>4. TypeOK'
    <2>1. BookOK' /\ EffectsOK' /\ HolderOK' /\ BoundsOK'
      BY <1>1, <1>2, TypeParts, Types DEF BookOK, EffectsOK, HolderOK, BoundsOK
    <2> QED
      BY <1>1, <2>1, PartsKept, TypeJoin
  <1>5. \A p \in People : AgentSound(p)'
    BY <1>1, AgentsKept
  <1>6. RestartSound'
    BY <1>1, <1>3, RestartKept, Types
  <1>7. \A i \in Inputs : RowSound(i)'
    BY <1>1, <1>2, <1>3, RowsKept
  <1>8. \A i \in Inputs : OnceSound(i)'
    BY <1>1, OnceKept DEF May
  <1>9. PlaceSound'
    <2>1. pc # "free" => Here(cur)'
      BY <1>1, Types DEF PlaceSound, Here, Steady
    <2>2. UNCHANGED <<pc, cur, inp, via, to, boot, restart, wire>> /\ seen \subseteq seen'
      BY <1>1
    <2> QED
      BY <1>1, <1>2, <1>3, <2>1, <2>2, PlaceKept
  <1> QED
    BY <1>4, <1>5, <1>6, <1>7, <1>8, <1>9 DEF IInv

LEMMA PauseSteps ==
  ASSUME IInv, Pause \/ Resume \/ \E p \in People : Interrupt(p)
  PROVE  IInv'
  <1>1. /\ UNCHANGED <<op, to, tries, applied, awaits, effects, world, holder, event>>
        /\ row' = row \/ row' = Stale(row)
        /\ ask' = FALSE /\ luck' \in 0..MaxTroubles /\ words' \in 0..MaxControls
    BY Budget DEF Pause, Resume, Interrupt, Control, book
  <1>2. /\ UNCHANGED <<pc, cur, inp, via, was, moved>> /\ moved \in BOOLEAN /\ event \in BOOLEAN
        /\ awaits \in [People -> Inputs \cup {NoInput}]
    BY <1>1, Types DEF holder, TypeOK
  <1>3. CASE Pause
    <2>1. task' \in TaskSet
      BY <1>3, TaskEdits, Types DEF Pause
    <2>2. part' \in [People -> People0] /\ \A q \in People : Steady(q)
      BY <1>3, Types DEF Pause, Steady
    <2> QED
      BY <1>1, <1>2, <2>1, <2>2, Marked
  <1>4. CASE Resume
    <2>1. task' \in TaskSet
      BY <1>4, Types DEF Resume, Control, TaskSet
    <2>2. part' \in [People -> People0] /\ \A q \in People : Steady(q)
      <3>1. part' = [q \in People |-> [part[q] EXCEPT !.held = FALSE]]
        BY <1>4 DEF Resume, Control
      <3>2. ASSUME NEW q \in People PROVE part'[q] \in People0 /\ Steady(q)
        <4> DEFINE r == [part[q] EXCEPT !.held = FALSE]
        <4>1. part'[q] = r
          BY <3>1
        <4>2. part[q] \in People0 /\ FALSE \in BOOLEAN
          BY Types
        <4>3. /\ r \in People0 /\ r.at = part[q].at /\ r.gen = part[q].gen
              /\ r.st = part[q].st /\ r.started = part[q].started
          BY <4>2, PartEdits
        <4> HIDE DEF r
        <4> QED
          BY <4>1, <4>3 DEF Steady
      <3> QED
        BY <3>1, <3>2
    <2> QED
      BY <1>1, <1>2, <2>1, <2>2, Marked
  <1>5. ASSUME NEW p \in People, Interrupt(p)
        PROVE  IInv'
    <2>1. task' \in TaskSet
      BY <1>5, TaskEdits, Types DEF Interrupt
    <2>2. part' \in [People -> People0] /\ \A q \in People : Steady(q)
      BY <1>5, HeldEdit, Types DEF Interrupt
    <2> QED
      BY <1>1, <1>2, <2>1, <2>2, Marked
  <1> QED
    BY <1>3, <1>4, <1>5

LEMMA ObservingSteps ==
  ASSUME IInv, Observing
  PROVE  IInv'
  <1>1. CASE Realign
    <2>1. /\ UNCHANGED <<op, to, tries, applied, awaits, effects, world, holder, event, ask, row, part>>
          /\ luck' \in 0..MaxTroubles /\ words' \in 0..MaxControls
      BY <1>1, Budget DEF Realign, book, outer
    <2>2. /\ UNCHANGED <<pc, cur, inp, via, was, moved>> /\ moved \in BOOLEAN /\ event \in BOOLEAN
          /\ ask \in BOOLEAN /\ awaits \in [People -> Inputs \cup {NoInput}]
      BY <2>1, Types DEF holder, TypeOK
    <2>3. task' \in TaskSet
      <3>1. task' = [task EXCEPT !.st = "attention"] \/ task' = [task EXCEPT !.st = "open"]
        BY <1>1 DEF Realign
      <3> QED
        BY <3>1, Types DEF TaskSet
    <2>4. part' \in [People -> People0] /\ \A q \in People : Steady(q)
      BY <2>1, Types DEF Steady
    <2> QED
      BY <2>1, <2>2, <2>3, <2>4, Marked
  <1>2. ASSUME NEW p \in People, SeesGone(p)
        PROVE  IInv'
    <2> DEFINE r == [part[p] EXCEPT !.st = "gone"]
    <2>1. /\ UNCHANGED <<op, to, tries, applied, awaits, effects, world, holder, event, ask, row>>
          /\ luck' \in 0..MaxTroubles /\ words' \in 0..MaxControls
          /\ part' = [part EXCEPT ![p] = r] /\ Here(p)
      BY <1>2, Budget DEF SeesGone, book, outer
    <2>2. /\ UNCHANGED <<pc, cur, inp, via, was, moved>> /\ moved \in BOOLEAN /\ event \in BOOLEAN
          /\ ask \in BOOLEAN /\ awaits \in [People -> Inputs \cup {NoInput}]
      BY <2>1, Types DEF holder, TypeOK
    <2>3. task' \in TaskSet
      BY <1>2, TaskEdits, Types DEF SeesGone
    <2>4. /\ r \in People0 /\ r.at = part[p].at /\ r.gen = part[p].gen /\ r.st = "gone"
          /\ r.started = part[p].started
      BY PartEdits, Types
    <2> HIDE DEF r
    <2>5. part' \in [People -> People0] /\ \A q \in People : Steady(q)
      BY <2>1, <2>4, Recorded DEF Here
    <2> QED
      BY <2>1, <2>2, <2>3, <2>5, Marked
  <1>3. ASSUME NEW p \in People, SeesReply(p)
        PROVE  IInv'
    <2> DEFINE r == [part[p] EXCEPT !.st = "idle"]
    <2>1. /\ UNCHANGED <<task, op, to, tries, applied, effects, world, holder, event, ask, row>>
          /\ luck' \in 0..MaxTroubles /\ words' \in 0..MaxControls
          /\ part' = [part EXCEPT ![p] = r] /\ part[p].st = "working"
          /\ awaits' = [awaits EXCEPT ![p] = NoInput]
      BY <1>3, Budget DEF SeesReply, book, outer
    <2>2. /\ UNCHANGED <<pc, cur, inp, via, was, moved>> /\ moved \in BOOLEAN /\ event \in BOOLEAN
          /\ ask \in BOOLEAN /\ awaits' \in [People -> Inputs \cup {NoInput}] /\ task' \in TaskSet
      BY <2>1, Types DEF holder, TypeOK
    <2>4. /\ r \in People0 /\ r.at = part[p].at /\ r.gen = part[p].gen /\ r.st = "idle"
          /\ r.started = part[p].started
      BY PartEdits, Types
    <2> HIDE DEF r
    <2>5. part' \in [People -> People0] /\ \A q \in People : Steady(q)
      BY <2>1, <2>4, Recorded
    <2> QED
      BY <2>1, <2>2, <2>5, Marked
  <1> QED
    BY <1>1, <1>2, <1>3 DEF Observing

LEMMA AddStep ==
  ASSUME IInv, NEW p \in People, Add(p)
  PROVE  IInv'
  <1>1. /\ pc = "free" /\ part[p].st = "absent" /\ part' = [part EXCEPT ![p] = Fresh]
        /\ UNCHANGED <<task, op, row, to, tries, applied, awaits, space, boot, shut, restart>>
        /\ UNCHANGED <<event, pc, cur, inp, via, was, moved>>
        /\ UNCHANGED <<pane, seen, landed, again, wire>> /\ ask' = FALSE
        /\ luck' \in 0..MaxTroubles /\ words' \in 0..MaxControls
    BY Budget DEF Add, Control, book, effects, holder, world
  <1>2. Fresh \in People0
    BY ExecutionAssumption DEF Fresh, People0, Gens
  <1>3. /\ part' \in [People -> People0] /\ part'[p] = Fresh
        /\ \A q \in People : q # p => part'[q] = part[q]
    BY <1>1, <1>2, Types, PartEdit
  <1>4. Calm
    BY <1>1 DEF Calm
  <1>5. part[p].at = -1 /\ Fresh.at = -1 /\ Fresh.st = "pending"
    BY <1>1, Types DEF AgentSound, Fresh
  <1>6. \A q \in People : AgentSound(q)'
    <2>1. AgentSound(p)'
      BY <1>1, <1>3, <1>4, Arrives
    <2>2. ASSUME NEW q \in People, q # p PROVE AgentSound(q)'
      <3>1. Steady(q) /\ AgentSound(q) /\ TypeOK
        BY <1>3, <2>2, Types DEF Steady
      <3> QED
        BY <1>1, <1>4, <3>1, AgentKept
    <2> QED
      BY <2>1, <2>2
  <1>7. \A q \in People : /\ part'[q].at = part[q].at
                          /\ part[q].st = "removed" => part'[q].st = "removed"
                          /\ part'[q].st = "absent" => part[q].st = "absent"
                          /\ part[q].st = "absent" \/ part[q].gen <= part'[q].gen
    <2>1. ASSUME NEW q \in People
          PROVE  /\ part'[q].at = part[q].at
                 /\ part[q].st = "removed" => part'[q].st = "removed"
                 /\ part'[q].st = "absent" => part[q].st = "absent"
                 /\ part[q].st = "absent" \/ part[q].gen <= part'[q].gen
      <3>1. CASE q = p
        BY <1>1, <1>3, <1>5, <3>1
      <3>2. CASE q # p
        BY <1>3, <3>2, Types
      <3> QED
        BY <3>1, <3>2
    <2> QED
      BY <2>1
  <1>8. TypeOK'
    <2>1. HolderOK' /\ BoundsOK' /\ BookOK' /\ EffectsOK' /\ WorldOK'
      BY <1>1, TypeParts, Types DEF HolderOK, BoundsOK, BookOK, EffectsOK, WorldOK
    <2>2. task' \in TaskSet
      BY <1>1, Types
    <2> QED
      BY <1>1, <1>3, <2>1, <2>2, PartsKept, TypeJoin
  <1>9. RestartSound'
    BY <1>1, <1>7, RestartKept, Types
  <1>10. \A i \in Inputs : RowSound(i)'
    BY <1>1, <1>3, <1>7, RowsKept
  <1>11. \A i \in Inputs : OnceSound(i)'
    BY <1>1, OnceKept DEF May
  <1>12. PlaceSound'
    BY <1>1, Types DEF PlaceSound, Typing, Renewing, Retiring
  <1> QED
    BY <1>6, <1>8, <1>9, <1>10, <1>11, <1>12 DEF IInv

\* A refusal is forgotten: a receipt keeps its word or becomes free.
LEMMA ForgivenSteps ==
  ASSUME IInv, RetryTask
  PROVE  IInv'
  <1>1. /\ pc = "free"
        /\ op' = [i \in Inputs |-> IF Failed(op[i]) THEN NoReceipt ELSE op[i]]
        /\ space' = Forgiven(space) /\ boot' = Forgiven(boot)
        /\ shut' = [p \in People |-> IF Failed(shut[p]) THEN NoReceipt ELSE shut[p]]
        /\ restart' = [restart EXCEPT !.close = IF @ = "refused" THEN "none" ELSE @]
        /\ task' = [task EXCEPT !.st = "open", !.asked = IF @ = "yes" THEN "retried" ELSE @]
        /\ ask' = FALSE
    BY DEF RetryTask
  <1>2. /\ UNCHANGED <<part, row, to, tries, applied, awaits, event, pc, cur, inp, via, was, moved>>
        /\ UNCHANGED <<pane, seen, landed, again, wire>>
        /\ luck' \in 0..MaxTroubles /\ words' \in 0..MaxControls
    BY Budget DEF RetryTask, book, holder, world
  <1>3. \A k \in Panes : /\ boot'[k] \in States
                         /\ boot[k] \in {"none", "pending", "done", "uncertain"} => boot'[k] = boot[k]
    <2>1. boot \in [Panes -> States]
      BY TypeParts, Types DEF EffectsOK
    <2> QED
      BY <1>1, <2>1 DEF Forgiven, States
  <1>4. \A p \in People : shut'[p] = shut[p] \/ (Failed(shut[p]) /\ shut'[p] = NoReceipt)
    BY <1>1
  <1>5. \A i \in Inputs : op'[i] = op[i] \/ (Failed(op[i]) /\ op'[i] = NoReceipt)
    BY <1>1
  <1>6. NoReceipt.state = "none" /\ NoReceipt.choice = "none" /\ NoReceipt \in Receipts
    BY DEF NoReceipt, Receipts
  <1>7. TypeOK'
    <2>1. op' \in [Inputs -> Receipts]
      BY <1>1, <1>6, Types
    <2>2. task' \in TaskSet
      BY <1>1, Types DEF TaskSet
    <2>3. EffectsOK'
      <3>1. space' \in [Panes -> States]
        BY <1>1, TypeParts, Types DEF EffectsOK, Forgiven, States
      <3>2. boot' \in [Panes -> States]
        BY <1>1, <1>3 DEF Forgiven
      <3>3. shut' \in [People -> Receipts]
        BY <1>1, <1>6, TypeParts, Types DEF EffectsOK
      <3>4. restart' \in RestartSet
        BY <1>1, Types DEF RestartSet, States
      <3> QED
        BY <3>1, <3>2, <3>3, <3>4 DEF EffectsOK
    <2>4. BookOK' /\ HolderOK' /\ BoundsOK' /\ WorldOK'
      BY <1>1, <1>2, TypeParts, Types DEF BookOK, HolderOK, BoundsOK, WorldOK
    <2> QED
      BY <1>2, <2>1, <2>2, <2>3, <2>4, PartsKept, TypeJoin
  <1>8. \A p \in People : AgentSound(p)'
    <2>1. ASSUME NEW p \in People PROVE AgentSound(p)'
      <3>1. AgentSound(p) /\ part[p].at \in Gens \cup {-1}
        BY Types
      <3>2. \A g \in Gens : <<p, g>> \in Panes
        BY DEF Panes
      <3>3. Place(p)' = Place(p) /\ part'[p] = part[p] /\ (Gone(p)' <=> Gone(p))
        BY <1>2 DEF Place, Gone
      <3>4. part[p].at # -1 => Place(p) \in Panes
        BY <3>1, <3>2 DEF Place
      <3>5. part[p].started => boot'[Place(p)] = "done"
        BY <1>3, <3>1, <3>4 DEF AgentSound
      <3>6. part[p].at # -1 /\ part[p].at # part[p].gen =>
              pane'[Place(p)] # "live" /\ boot'[Place(p)] = "done"
        BY <1>2, <1>3, <3>1, <3>4 DEF AgentSound
      <3>7. part[p].st = "removed" =>
              Gone(p) \/ (shut'[p].choice \in {"proven", "treat_done"} /\ ~Failed(shut'[p]))
        BY <1>4, <3>1 DEF AgentSound
      <3>8. shut'[p].state = "done" => part[p].st = "removed"
        BY <1>4, <1>6, <3>1 DEF AgentSound
      <3>9. \A g \in Gens :
              /\ pane'[<<p, g>>] = "live" => part[p].at = g
              /\ <<"boot", <<p, g>>>> \in wire' =>
                    /\ part[p].at = g /\ part[p].gen = g
                    /\ boot'[<<p, g>>] \in {"pending", "uncertain"}
        BY <1>2, <1>3, <3>1, <3>2 DEF AgentSound
      <3> HIDE DEF Gone, Place
      <3> QED
        BY <3>1, <3>3, <3>5, <3>6, <3>7, <3>8, <3>9 DEF AgentSound
    <2> QED
      BY <2>1
  <1>9. RestartSound'
    <2>1. /\ restart'.st = restart.st /\ restart'.who = restart.who
          /\ restart'.close = "none" \/ restart'.close = restart.close
      BY <1>1, Types DEF RestartSet
    <2> QED
      BY <1>2, <2>1, Types DEF RestartSound, Place
  <1>10. \A i \in Inputs : RowSound(i)'
    <2>1. ASSUME NEW i \in Inputs PROVE RowSound(i)'
      <3>1. /\ Known(op'[i]) => Known(op[i])
            /\ op'[i].state = "none" => op'[i].choice = "none"
        BY <1>5, <1>6, Types DEF Known, RowSound
      <3>2. /\ to'[i] = to[i] /\ row'[i].at = row[i].at /\ seen' = seen /\ TypeOK /\ RowSound(i)
            /\ part' = part /\ part' \in [People -> People0]
        BY <1>2, Types
      <3>3. \A p \in People : part[p].gen <= part[p].gen
        BY Types
      <3> QED
        BY <3>1, <3>2, <3>3, RowKept
    <2> QED
      BY <2>1
  <1>11. \A i \in Inputs : OnceSound(i)'
    <2>1. ASSUME NEW i \in Inputs PROVE May(i)' => May(i)
      BY <1>2, <1>5 DEF May
    <2> QED
      BY <1>2, <2>1, OnceKept
  <1>12. PlaceSound'
    BY <1>1, <1>2, Types DEF PlaceSound, Typing, Renewing, Retiring
  <1> QED
    BY <1>7, <1>8, <1>9, <1>10, <1>11, <1>12 DEF IInv

\* A close that somebody decided about, or none was needed.
LEMMA RemovedAtOnce ==
  ASSUME IInv, NEW p \in People, Here(p), pc = "free",
         part[p].at = -1 \/ Given(shut[p]),
         part' = [part EXCEPT ![p].held = TRUE, ![p].st = "removed"], task' \in TaskSet,
         row' = Stale(row), ask' = FALSE, luck' \in 0..MaxTroubles, words' \in 0..MaxControls,
         UNCHANGED <<op, to, tries, applied, awaits, effects, event, holder, world>>
  PROVE  IInv'
  <1> DEFINE r == [part[p] EXCEPT !.held = TRUE, !.st = "removed"]
  <1>1. part' = [part EXCEPT ![p] = r]
    BY Types
  <1>2. /\ r \in People0 /\ r.at = part[p].at /\ r.gen = part[p].gen
        /\ r.st = "removed" /\ r.started = part[p].started
    <2>1. part[p] \in People0
      BY Types
    <2> QED
      BY <2>1 DEF People0
  <1> HIDE DEF r
  <1>3. /\ part' \in [People -> People0] /\ part'[p] = r
        /\ \A q \in People : q # p => part'[q] = part[q]
    BY <1>1, <1>2, Types, PartEdit
  <1>4. /\ UNCHANGED <<op, to, tries, applied, awaits, space, boot, shut, restart, event>>
        /\ UNCHANGED <<pc, cur, inp, via, was, moved, pane, seen, landed, again, wire>> /\ Calm
    BY DEF effects, holder, world, Calm
  <1>5. \A q \in People : AgentSound(q)'
    <2>1. AgentSound(p)'
      <3>1. shut[p].state # "done"
        BY Types DEF AgentSound, Here
      <3>2. Gone(p) \/ (shut'[p].choice \in {"proven", "treat_done"} /\ ~Failed(shut'[p]))
        BY <1>4, <3>1 DEF Gone, Given
      <3> QED
        BY <1>2, <1>3, <1>4, <3>2, Departs
    <2>2. ASSUME NEW q \in People, q # p PROVE AgentSound(q)'
      <3>1. Steady(q) /\ AgentSound(q) /\ TypeOK
        BY <1>3, <2>2, Types DEF Steady
      <3> QED
        BY <1>4, <3>1, AgentKept
    <2> QED
      BY <2>1, <2>2
  <1>6. \A q \in People : /\ part'[q].at = part[q].at
                          /\ part[q].st = "removed" => part'[q].st = "removed"
                          /\ part'[q].st = "absent" => part[q].st = "absent"
                          /\ part[q].gen <= part'[q].gen
    BY <1>2, <1>3, Types
  <1>7. row' \in [Inputs -> RowSet] /\ \A i \in Inputs : row'[i].at = row[i].at
    BY StaleRows, Types
  <1>8. TypeOK'
    <2>1. BookOK' /\ EffectsOK' /\ HolderOK' /\ BoundsOK'
      BY <1>4, <1>7, TypeParts, Types DEF BookOK, EffectsOK, HolderOK, BoundsOK
    <2> QED
      BY <1>3, <1>4, <2>1, PartsKept, TypeJoin
  <1>9. RestartSound'
    BY <1>4, <1>6, RestartKept, Types
  <1>10. \A i \in Inputs : RowSound(i)'
    BY <1>3, <1>4, <1>6, <1>7, RowsKept
  <1>11. \A i \in Inputs : OnceSound(i)'
    BY <1>4, OnceKept DEF May
  <1>12. PlaceSound'
    BY <1>4, Types DEF PlaceSound, Typing, Renewing, Retiring
  <1> QED
    BY <1>5, <1>8, <1>9, <1>10, <1>11, <1>12 DEF IInv

LEMMA ShutEdit ==
  ASSUME IInv, NEW p \in People, NEW r \in Receipts, shut' = [shut EXCEPT ![p] = r]
  PROVE  /\ shut' \in [People -> Receipts] /\ shut'[p] = r /\ shut[p] \in Receipts
         /\ \A q \in People : q # p => shut'[q] = shut[q]
  <1>1. shut \in [People -> Receipts]
    BY TypeParts, Types DEF EffectsOK
  <1> QED
    BY <1>1

LEMMA RemoveStep ==
  ASSUME IInv, NEW p \in People, Remove(p)
  PROVE  IInv'
  <1>1. /\ pc = "free" /\ Here(p) /\ row' = Stale(row) /\ ask' = FALSE
        /\ UNCHANGED <<op, to, tries, applied, awaits, space, boot, restart, event>>
        /\ luck' \in 0..MaxTroubles /\ words' \in 0..MaxControls
    BY Budget DEF Remove
  <1>2. task' \in TaskSet
    <2>1. task' = [ByUser(task) EXCEPT !.mark = TRUE]
      BY DEF Remove
    <2> QED
      BY <2>1, TaskEdits, Types
  <1>3. CASE /\ part[p].at = -1 \/ Given(shut[p])
             /\ part' = [part EXCEPT ![p].held = TRUE, ![p].st = "removed"]
             /\ UNCHANGED <<shut, holder, world>>
    <2>1. UNCHANGED effects
      BY <1>1, <1>3 DEF effects
    <2> QED
      BY <1>1, <1>2, <1>3, <2>1, RemovedAtOnce
  <1>4. CASE part' = [part EXCEPT ![p].held = TRUE] /\ UNCHANGED <<shut, holder, world>>
    <2>1. part' \in [People -> People0] /\ \A q \in People : Steady(q)
      BY <1>4, HeldEdit, Types
    <2>2. /\ UNCHANGED <<pc, cur, inp, via, was, moved, effects, world>>
          /\ moved' \in BOOLEAN /\ event' \in BOOLEAN /\ ask' \in BOOLEAN
          /\ awaits' \in [People -> Inputs \cup {NoInput}]
      BY <1>1, <1>4, Types DEF holder, effects, TypeOK
    <2> QED
      BY <1>1, <1>2, <2>1, <2>2, Marked
  <1>5. CASE /\ part[p].at # -1 /\ Runs(shut[p])
             /\ part' = [part EXCEPT ![p].held = TRUE]
             /\ shut' = [shut EXCEPT ![p] = Pending(@)]
             /\ Request("close", Place(p))
             /\ pc' = "removing" /\ cur' = p /\ UNCHANGED <<inp, via, was, moved>>
    <2>1. part' \in [People -> People0] /\ \A q \in People : Steady(q)
      BY <1>5, HeldEdit, Types
    <2>2. Place(p) \in Panes
      BY <1>5, Types DEF Place, Panes
    <2>3. /\ WorldOK' /\ UNCHANGED <<pane, seen, landed, again>> /\ Calm
          /\ \A i \in Inputs, x \in Panes : <<i, x>> \in wire' => <<i, x>> \in wire
      BY <1>5, <2>2, Requests
    <2>4. /\ shut[p] \in Receipts /\ shut \in [People -> Receipts]
      BY TypeParts, Types DEF EffectsOK
    <2>5. /\ shut' \in [People -> Receipts] /\ shut'[p].state = "pending"
          /\ \A q \in People : q # p => shut'[q] = shut[q]
      <3> DEFINE r == Pending(shut[p])
      <3>1. r \in Receipts /\ r.state = "pending" /\ shut' = [shut EXCEPT ![p] = r]
        BY <1>5, <2>4, ReceiptEdits
      <3> HIDE DEF r
      <3> QED
        BY <3>1, ShutEdit
    <2>6. \A q \in People : AgentSound(q)'
      <3>1. AgentSound(p)'
        <4>1. AgentSound(p) /\ part[p].at \in Gens \cup {-1} /\ \A g \in Gens : <<p, g>> \in Panes
          BY Types DEF Panes
        <4>2. part'[p].st # "removed" /\ part'[p].st # "absent"
          BY <1>1, <2>1 DEF Here, Steady
        <4>3. /\ part'[p].at = part[p].at /\ part'[p].gen = part[p].gen
              /\ part'[p].started => part[p].started
          BY <2>1 DEF Steady
        <4>4. Place(p)' = Place(p)
          BY <4>3 DEF Place
        <4>5. part'[p].started => boot'[Place(p)'] = "done"
          BY <1>1, <4>1, <4>3, <4>4 DEF AgentSound
        <4>6. part'[p].at # -1 /\ part'[p].at # part'[p].gen =>
                pane'[Place(p)'] # "live" /\ boot'[Place(p)'] = "done"
          BY <1>1, <2>3, <4>1, <4>3, <4>4 DEF AgentSound
        <4>7. \A g \in Gens :
                /\ pane'[<<p, g>>] = "live" => part'[p].at = g
                /\ <<"boot", <<p, g>>>> \in wire' =>
                      /\ part'[p].at = g /\ part'[p].gen = g
                      /\ boot'[<<p, g>>] \in {"pending", "uncertain"}
          BY <1>1, <2>3, <4>1, <4>3 DEF AgentSound, Calm
        <4>8. /\ part'[p].at = -1 => part'[p].gen = 0 /\ ~part'[p].started
              /\ part'[p].at <= part'[p].gen
          BY <4>1, <4>3 DEF AgentSound
        <4> HIDE DEF Place
        <4> QED
          BY <2>5, <4>2, <4>5, <4>6, <4>7, <4>8 DEF AgentSound
      <3>2. ASSUME NEW q \in People, q # p PROVE AgentSound(q)'
        <4>1. AgentSound(q) /\ TypeOK
          BY Types
        <4> QED
          BY <1>1, <2>1, <2>3, <2>5, <3>2, <4>1, AgentKept
      <3> QED
        BY <3>1, <3>2
    <2>7. RestartSound'
      <3>1. \A q \in People : /\ part'[q].at = part[q].at
                              /\ part[q].st = "removed" => part'[q].st = "removed"
        BY <2>1 DEF Steady
      <3> QED
        BY <1>1, <2>3, <3>1, RestartKept, Types
    <2>8. BookOK' /\ EffectsOK' /\ HolderOK' /\ BoundsOK'
      <3>1. row' \in [Inputs -> RowSet]
        BY <1>1, StaleRows, Types
      <3> QED
        BY <1>1, <1>5, <2>5, <3>1, TypeParts, Types
           DEF BookOK, EffectsOK, HolderOK, BoundsOK, Places
    <2>9. TypeOK'
      BY <1>1, <1>2, <2>1, <2>3, <2>8, PartsKept, TypeJoin
    <2>10. PlaceSound'
      <3>1. Here(p)' /\ part'[p].at # -1 /\ via' = "none"
        BY <1>1, <1>5, <2>1, Types DEF Here, Steady, PlaceSound
      <3>2. Closed(p)'
        BY <1>5, <2>1 DEF Closed, Request, Place, Steady
      <3>3. cur' = p /\ pc' = "removing" /\ p \in People
        BY <1>5
      <3>4. Closed(cur)' /\ Here(cur)'
        BY <3>1, <3>2, <3>3 DEF Closed, Here, Place
      <3> HIDE DEF Closed, Here
      <3> QED
        BY <3>1, <3>3, <3>4 DEF PlaceSound, Typing, Renewing, Retiring
    <2>11. \A i \in Inputs : RowSound(i)'
      <3>1. \A i \in Inputs : row'[i].at = row[i].at
        BY <1>1, StaleRows, Types
      <3>2. \A q \in People : /\ part'[q].st = "absent" => part[q].st = "absent"
                              /\ part[q].gen <= part'[q].gen
        BY <2>1, Types DEF Steady
      <3> QED
        BY <1>1, <2>1, <2>3, <3>1, <3>2, RowsKept
    <2>12. \A i \in Inputs : OnceSound(i)'
      BY <1>1, <1>5, <2>3, OnceKept DEF May
    <2> QED
      BY <2>6, <2>7, <2>9, <2>10, <2>11, <2>12 DEF IInv
  <1> QED
    BY <1>3, <1>4, <1>5 DEF Remove

LEMMA RemovedStep ==
  ASSUME IInv, Removed
  PROVE  IInv'
  <1> DEFINE r == [part[cur] EXCEPT !.st = "removed"]
  <1>1. /\ pc = "removing" /\ cur \in People /\ Here(cur) /\ part[cur].at # -1
        /\ pane[Place(cur)] = "lost"
    BY Types DEF Removed, PlaceSound, Closed
  <1>2. /\ Leave /\ pc' = "free" /\ shut' = [shut EXCEPT ![cur].state = "done"]
        /\ part' = [part EXCEPT ![cur] = r]
        /\ UNCHANGED <<task, op, row, to, tries, applied, awaits, space, boot, restart, event, ask>>
        /\ UNCHANGED world /\ luck' \in 0..MaxTroubles /\ words' \in 0..MaxControls
    BY Budget DEF Removed, Leave, book, outer
  <1>3. /\ r \in People0 /\ r.at = part[cur].at /\ r.gen = part[cur].gen
        /\ r.st = "removed" /\ r.started = part[cur].started
    BY <1>1, Types, PartEdits
  <1> HIDE DEF r
  <1>4. /\ part' \in [People -> People0] /\ part'[cur] = r
        /\ \A q \in People : q # cur => part'[q] = part[q]
    BY <1>1, <1>2, <1>3, Types, PartEdit
  <1>5. UNCHANGED <<pane, seen, landed, again, wire>> /\ Calm
    BY <1>2 DEF world, Calm
  <1>6. /\ shut' \in [People -> Receipts] /\ \A q \in People : q # cur => shut'[q] = shut[q]
    <2>1. shut \in [People -> Receipts] /\ shut[cur] \in Receipts
      BY <1>1, TypeParts, Types DEF EffectsOK
    <2> DEFINE s == [shut[cur] EXCEPT !.state = "done"]
    <2>2. s \in Receipts /\ shut' = [shut EXCEPT ![cur] = s]
      BY <1>2, <2>1, ReceiptEdits
    <2> HIDE DEF s
    <2> QED
      BY <1>1, <2>2, ShutEdit
  <1>7. \A p \in People : AgentSound(p)'
    <2>1. ASSUME NEW p \in People, p = cur PROVE AgentSound(p)'
      BY <1>1, <1>2, <1>3, <1>4, <1>5, <2>1, Departs DEF Gone
    <2>2. ASSUME NEW p \in People, p # cur PROVE AgentSound(p)'
      <3>1. Steady(p) /\ AgentSound(p) /\ TypeOK
        BY <1>4, <2>2, Types DEF Steady
      <3> QED
        BY <1>2, <1>5, <1>6, <2>2, <3>1, AgentKept
    <2> QED
      BY <2>1, <2>2
  <1>8. \A q \in People : /\ part'[q].at = part[q].at
                          /\ part[q].st = "removed" => part'[q].st = "removed"
                          /\ part'[q].st = "absent" => part[q].st = "absent"
                          /\ part[q].gen <= part'[q].gen
    BY <1>1, <1>3, <1>4, Types
  <1>9. RestartSound'
    BY <1>2, <1>5, <1>8, RestartKept, Types
  <1>10. TypeOK'
    <2>1. BookOK' /\ EffectsOK' /\ HolderOK' /\ BoundsOK'
      <3>1. HolderOK'
        BY <1>2, LeavesSound DEF HolderOK
      <3> QED
        BY <1>2, <1>6, <3>1, TypeParts, Types DEF BookOK, EffectsOK, BoundsOK
    <2>2. task' \in TaskSet
      BY <1>2, Types
    <2> QED
      BY <1>2, <1>4, <2>1, <2>2, PartsKept, TypeJoin
  <1>11. \A i \in Inputs : RowSound(i)'
    BY <1>2, <1>4, <1>5, <1>8, RowsKept
  <1>12. \A i \in Inputs : OnceSound(i)'
    BY <1>2, <1>5, OnceKept DEF May
  <1>13. PlaceSound'
    BY <1>2, LeavesSound
  <1> QED
    BY <1>7, <1>9, <1>10, <1>11, <1>12, <1>13 DEF IInv

LEMMA RemoveFailsStep ==
  ASSUME IInv, NEW state \in {"refused", "uncertain"}, RemoveFails(state)
  PROVE  IInv'
  <1>1. /\ pc = "removing" /\ cur \in People /\ Here(cur) /\ part[cur].at # -1
    BY Types DEF RemoveFails, PlaceSound
  <1>2. /\ Leave /\ pc' = "free" /\ shut' = [shut EXCEPT ![cur].state = state]
        /\ UNCHANGED <<task, part, op, row, to, tries, applied, awaits, space, boot, restart,
                       event, ask>>
        /\ luck' \in 0..MaxTroubles /\ words' \in 0..MaxControls
    BY Budget DEF RemoveFails, Leave, book, outer
  <1>3. /\ task' \in TaskSet /\ part' \in [People -> People0] /\ \A p \in People : Steady(p)
    BY <1>2, Types DEF Steady
  <1>4. /\ WorldOK' /\ UNCHANGED <<pane, seen, landed, again>> /\ Calm
        /\ \A i \in Inputs, x \in Panes : <<i, x>> \in wire' => <<i, x>> \in wire
    <2>1. CASE UNCHANGED world
      BY <2>1, PartsKept DEF world, Calm
    <2>2. CASE Unsent("close", Place(cur))
      BY <1>1, <2>2, Requests, OwnPane
    <2> QED
      BY <2>1, <2>2 DEF RemoveFails
  <1>5. /\ shut' \in [People -> Receipts] /\ \A q \in People : q # cur => shut'[q] = shut[q]
        /\ shut'[cur].state = state
    <2>1. shut \in [People -> Receipts] /\ shut[cur] \in Receipts
      BY <1>1, TypeParts, Types DEF EffectsOK
    <2> DEFINE s == [shut[cur] EXCEPT !.state = state]
    <2>2. s \in Receipts /\ s.state = state
      BY <2>1 DEF Receipts
    <2>3. shut' = [shut EXCEPT ![cur] = s]
      BY <1>2
    <2> HIDE DEF s
    <2> QED
      BY <1>1, <2>2, <2>3, ShutEdit
  <1>6. \A p \in People : AgentSound(p)'
    <2>1. ASSUME NEW p \in People PROVE AgentSound(p)'
      <3>1. Steady(p) /\ AgentSound(p) /\ TypeOK /\ part[p].at \in Gens \cup {-1}
        BY <1>3, Types
      <3>2. CASE p # cur
        BY <1>2, <1>4, <1>5, <3>1, <3>2, AgentKept
      <3>3. CASE p = cur
        <4>1. shut'[p].state # "done" /\ part[p].st # "removed"
          BY <1>1, <1>5, <3>3 DEF Here
        <4>2. \A g \in Gens : <<p, g>> \in Panes
          BY DEF Panes
        <4>3. Place(p)' = Place(p) /\ part'[p] = part[p]
          BY <1>2 DEF Place
        <4>4. part[p].at # -1 => Place(p) \in Panes
          BY <3>1, <4>2 DEF Place
        <4>5. part[p].at # -1 /\ part[p].at # part[p].gen =>
                pane'[Place(p)] # "live" /\ boot'[Place(p)] = "done"
          BY <1>2, <1>4, <3>1 DEF AgentSound
        <4>6. \A g \in Gens :
                /\ pane'[<<p, g>>] = "live" => part'[p].at = g
                /\ <<"boot", <<p, g>>>> \in wire' =>
                      /\ part'[p].at = g /\ part'[p].gen = g
                      /\ boot'[<<p, g>>] \in {"pending", "uncertain"}
          BY <1>2, <1>4, <3>1, <4>2, <4>3 DEF AgentSound, Calm
        <4> HIDE DEF Place
        <4> QED
          BY <1>2, <3>1, <4>1, <4>3, <4>5, <4>6 DEF AgentSound
      <3> QED
        BY <3>2, <3>3
    <2> QED
      BY <2>1
  <1>7. RestartSound'
    BY <1>2, <1>4, RestartKept, Types
  <1>8. HolderOK' /\ PlaceSound'
    BY <1>2, LeavesSound DEF HolderOK
  <1>9. BookOK' /\ EffectsOK' /\ BoundsOK'
    BY <1>2, <1>5, TypeParts, Types DEF BookOK, EffectsOK, BoundsOK
  <1> QED
    BY <1>2, <1>3, <1>4, <1>6, <1>7, <1>8, <1>9, Joined

LEMMA ControlSteps ==
  ASSUME IInv, Controls
  PROVE  IInv'
  BY PauseSteps, ForgivenSteps, AddStep, RemoveStep, RemovedStep, RemoveFailsStep DEF Controls

(***************************************************************************)
(* Decisions and the world                                                 *)
(***************************************************************************)
LEMMA DecideStep ==
  ASSUME IInv, NEW i \in Inputs, Decide(i)
  PROVE  IInv'
  <1>1. /\ Unknown(op[i]) /\ ~InFlight(i)
        /\ UNCHANGED <<task, part, row, to, tries, applied, awaits, effects, event, ask>>
        /\ UNCHANGED <<pc, cur, inp, via, was, moved, pane, seen, landed, wire>>
        /\ luck' \in 0..MaxTroubles /\ words' \in 0..MaxControls
    BY Budget DEF Decide, book, outer, holder
  <1>2. PICK c \in Choices(op[i]) \cup {"proven"} :
          /\ c = "proven" => Provable(i) /\ <<i, Place(to[i])>> \in seen
          /\ op' = [op EXCEPT ![i].choice = c]
          /\ again' = [again EXCEPT ![i] = IF c = "retry" THEN @ + 1 ELSE @]
    BY DEF Decide
  <1>3. c \in {"proven", "treat_done", "retry", "abandon"}
    BY <1>2 DEF Choices
  <1> DEFINE r == [op[i] EXCEPT !.choice = c]
  <1>4. r \in Receipts /\ r.choice = c /\ r.state = op[i].state
    <2>1. op[i] \in Receipts
      BY Types
    <2> QED
      BY <1>3, <2>1 DEF Receipts
  <1>5. op' = [op EXCEPT ![i] = r]
    BY <1>2
  <1> HIDE DEF r
  <1>6. op' \in [Inputs -> Receipts] /\ op'[i] = r /\ \A j \in Inputs : j # i => op'[j] = op[j]
    BY <1>4, <1>5, Types
  <1>7. op[i].state \in {"pending", "uncertain"} /\ op[i].choice = "none"
    BY <1>1 DEF Unknown
  <1>8. /\ again \in [Inputs -> Nat] /\ landed[i] \in Nat
    BY Types DEF TypeOK
  <1>9. /\ again' \in [Inputs -> Nat] /\ \A j \in Inputs : j # i => again'[j] = again[j]
        /\ c = "retry" => again'[i] = again[i] + 1
        /\ c # "retry" => again'[i] = again[i]
    BY <1>2, <1>8
  <1>10. Calm /\ \A p \in People : Steady(p)
    BY <1>1 DEF Calm, Steady
  <1>11. TypeOK'
    <2>1. WorldOK' /\ BoundsOK'
      BY <1>1, <1>9, TypeParts, Types DEF WorldOK, BoundsOK
    <2>2. holder' = holder
      BY <1>1 DEF holder
    <2> QED
      BY <1>1, <1>6, <2>1, <2>2, PartsKept, TypeJoin
  <1>12. \A p \in People : AgentSound(p)'
    BY <1>1, <1>10, AgentsKept DEF effects
  <1>13. RestartSound'
    BY <1>1, RestartKept, Types DEF effects
  <1>14. \A j \in Inputs : RowSound(j)'
    <2>1. part' \in [People -> People0] /\ \A p \in People : part[p].gen <= part[p].gen
      BY <1>1, Types
    <2>2. ASSUME NEW j \in Inputs, j # i PROVE RowSound(j)'
      <3>1. RowSound(j) /\ TypeOK /\ op'[j] = op[j]
        BY <1>6, <2>2, Types
      <3>2. op'[j].state = "none" => op'[j].choice = "none"
        BY <3>1 DEF RowSound
      <3> QED
        BY <1>1, <2>1, <3>1, <3>2, RowKept
    <2>3. RowSound(i)'
      <3>1. RowSound(i) /\ op'[i].state # "none"
        BY <1>4, <1>6, <1>7, Types
      <3>2. Known(op'[i]) => c = "proven"
        BY <1>4, <1>6, <1>7 DEF Known
      <3>3. c = "proven" => <<i, <<to[i], row[i].at>>>> \in seen
        BY <1>2 DEF Provable, SamePlace, Place
      <3> QED
        BY <1>1, <3>1, <3>2, <3>3 DEF RowSound
    <2> QED
      BY <2>2, <2>3
  <1>15. \A j \in Inputs : OnceSound(j)'
    <2>1. ASSUME NEW j \in Inputs, j # i PROVE OnceSound(j)'
      <3>1. /\ IsFiniteSet(Opened(j)) /\ Opened(j)' = Opened(j) /\ OnceSound(j)
        BY <1>1, Count, Types DEF Opened
      <3>2. May(j)' = May(j)
        BY <1>1, <1>6, <2>1 DEF May
      <3> HIDE DEF May, Opened
      <3> QED
        BY <1>1, <1>9, <2>1, <3>1, <3>2 DEF OnceSound
    <2>2. OnceSound(i)'
      <3>1. /\ Cardinality(Opened(i)) \in Nat /\ Opened(i)' = Opened(i) /\ OnceSound(i)
        BY <1>1, Count, Types DEF Opened
      <3>2. ~May(i)
        BY <1>1, <1>7 DEF May, Runs, Failed, InFlight
      <3>3. c # "retry" => ~May(i)'
        BY <1>1, <1>4, <1>6, <1>7 DEF May, Runs, Failed, InFlight
      <3> HIDE DEF May, Opened
      <3>4. landed[i] + Cardinality(Opened(i)) <= 1 + again[i] /\ again[i] \in Nat
        BY <1>8, <3>1, <3>2 DEF OnceSound
      <3> QED
        BY <1>1, <1>8, <1>9, <3>1, <3>3, <3>4 DEF OnceSound
    <2> QED
      BY <2>1, <2>2
  <1>16. PlaceSound'
    <2>1. pc \in Typing => op'[inp] = op[inp]
      <3>1. pc \in Typing => inp \in Inputs /\ inp # i
        BY <1>1, Types DEF PlaceSound, Typing, InFlight
      <3> QED
        BY <1>6, <3>1
    <2>2. pc = "settled" /\ op[inp].choice = "treat_done" => op'[inp].choice = "treat_done"
      <3>1. pc = "settled" => inp \in Inputs
        BY Types DEF PlaceSound
      <3> QED
        BY <1>6, <1>7, <3>1
    <2>3. pc # "free" => Here(cur)'
      BY <1>1, Types DEF PlaceSound, Here
    <2>4. UNCHANGED <<pc, cur, inp, via, to, boot, restart, wire>>
      BY <1>1 DEF effects
    <2> QED
      BY <1>1, <2>1, <2>2, <2>3, <2>4, PlaceKept
  <1> QED
    BY <1>11, <1>12, <1>13, <1>14, <1>15, <1>16 DEF IInv

LEMMA DecideCloseStep ==
  ASSUME IInv, NEW p \in People, DecideClose(p)
  PROVE  IInv'
  <1>1. /\ Unknown(shut[p])
        /\ UNCHANGED <<task, part, op, row, to, tries, applied, awaits, space, boot, restart,
                       event, ask>>
        /\ UNCHANGED <<pc, cur, inp, via, was, moved, pane, seen, landed, again, wire>>
        /\ luck' \in 0..MaxTroubles /\ words' \in 0..MaxControls
    BY Budget DEF DecideClose, book, outer, holder, world
  <1>2. PICK c \in Choices(shut[p]) : shut' = [shut EXCEPT ![p].choice = c]
    BY DEF DecideClose
  <1>3. c \in {"proven", "treat_done", "retry", "abandon"}
    BY <1>2 DEF Choices
  <1> DEFINE r == [shut[p] EXCEPT !.choice = c]
  <1>4. shut' = [shut EXCEPT ![p] = r]
    BY <1>2
  <1>5. r \in Receipts /\ r.state = shut[p].state
    <2>1. shut[p] \in Receipts
      BY TypeParts, Types DEF EffectsOK
    <2> QED
      BY <1>3, <2>1 DEF Receipts
  <1> HIDE DEF r
  <1>6. /\ shut' \in [People -> Receipts] /\ shut'[p] = r
        /\ \A q \in People : q # p => shut'[q] = shut[q]
    BY <1>4, <1>5, ShutEdit
  <1>7. shut[p].state # "done" /\ shut[p].choice = "none"
    BY <1>1 DEF Unknown
  <1>8. Calm /\ \A q \in People : Steady(q)
    BY <1>1 DEF Calm, Steady
  <1>9. \A q \in People : AgentSound(q)'
    <2>1. ASSUME NEW q \in People, q # p PROVE AgentSound(q)'
      <3>1. AgentSound(q) /\ TypeOK /\ Steady(q)
        BY <1>8, Types
      <3> QED
        BY <1>1, <1>6, <1>8, <2>1, <3>1, AgentKept
    <2>2. AgentSound(p)'
      <3>1. AgentSound(p) /\ Gone(p)' = Gone(p) /\ Place(p)' = Place(p)
        BY <1>1, Types DEF Gone, Place
      <3>2. part[p].st = "removed" => Gone(p)
        BY <1>7, <3>1 DEF AgentSound
      <3>3. shut'[p].state # "done"
        BY <1>5, <1>6, <1>7
      <3> HIDE DEF Gone, Place
      <3> QED
        BY <1>1, <3>1, <3>2, <3>3 DEF AgentSound
    <2> QED
      BY <2>1, <2>2
  <1>10. TypeOK'
    <2>1. /\ holder' = holder /\ world' = world
      BY <1>1 DEF holder, world
    <2>2. EffectsOK' /\ BoundsOK'
      BY <1>1, <1>6, TypeParts, Types DEF EffectsOK, BoundsOK
    <2> QED
      BY <1>1, <2>1, <2>2, PartsKept, TypeJoin
  <1>11. RestartSound'
    BY <1>1, RestartKept, Types
  <1>12. \A i \in Inputs : OnceSound(i)' /\ RowSound(i)'
    <2>1. part' \in [People -> People0]
      BY <1>1, Types
    <2> QED
      BY <1>1, <1>8, <2>1, InputsKept
  <1>13. PlaceSound'
    BY <1>1, Types DEF PlaceSound, Here, Closed, Gone, Place, Own, Typing, Renewing, Retiring
  <1> QED
    BY <1>9, <1>10, <1>11, <1>12, <1>13 DEF IInv

\* The other side moves: requests land, panes get lost, texts arrive.
LEMMA WorldMoves ==
  ASSUME IInv, UNCHANGED <<rows, holder>>, event' \in BOOLEAN, ask' \in BOOLEAN,
         WorldOK', wire' \subseteq wire, seen \subseteq seen',
         \A k \in Panes :
            /\ pane[k] = "lost" => pane'[k] = "lost"
            /\ pane'[k] = "live" => pane[k] = "live" \/ <<"boot", k>> \in wire
            /\ <<"close", k>> \in wire => <<"close", k>> \in wire' \/ pane'[k] = "lost",
         \A i \in Inputs : OnceSound(i)',
         luck' \in 0..MaxTroubles, words' \in 0..MaxControls
  PROVE  IInv'
  <1>1. /\ UNCHANGED <<task, part, op, row, to, tries, applied, awaits, space, boot, shut, restart>>
        /\ UNCHANGED <<pc, cur, inp, via, was, moved>>
    BY DEF rows, book, effects, holder
  <1>2. TypeOK'
    <2>1. UNCHANGED <<effects, holder>> /\ BoundsOK'
      BY DEF rows, BoundsOK
    <2> QED
      BY <1>1, <2>1, PartsKept, TypeJoin
  <1>3. \A p \in People : AgentSound(p)'
    <2>1. ASSUME NEW p \in People PROVE AgentSound(p)'
      <3>1. AgentSound(p) /\ part[p].at \in Gens \cup {-1} /\ \A g \in Gens : <<p, g>> \in Panes
        BY Types DEF Panes
      <3>2. Place(p)' = Place(p) /\ (Gone(p) => Gone(p)')
        BY <1>1, <3>1 DEF Place, Gone
      <3>3. part[p].at # -1 /\ part[p].at # part[p].gen => pane'[Place(p)] # "live"
        <4>1. part[p].at # -1 /\ part[p].at # part[p].gen =>
                pane[Place(p)] # "live" /\ <<"boot", Place(p)>> \notin wire
          BY <3>1 DEF AgentSound, Place
        <4> QED
          BY <3>1, <4>1 DEF Place
      <3>4. \A g \in Gens :
              /\ pane'[<<p, g>>] = "live" => part[p].at = g
              /\ <<"boot", <<p, g>>>> \in wire' =>
                    /\ part[p].at = g /\ part[p].gen = g
                    /\ boot[<<p, g>>] \in {"pending", "uncertain"}
        BY <3>1 DEF AgentSound
      <3> HIDE DEF Place, Gone
      <3> QED
        BY <1>1, <3>1, <3>2, <3>3, <3>4 DEF AgentSound
    <2> QED
      BY <2>1
  <1>4. RestartSound'
    BY <1>1, RestartKept, Types
  <1>5. \A i \in Inputs : RowSound(i)'
    <2>1. part' \in [People -> People0] /\ \A p \in People : part[p].gen <= part[p].gen
      BY <1>1, Types
    <2> QED
      BY <1>1, <2>1, RowsKept
  <1>6. PlaceSound'
    <2>1. \A p \in People : part[p].at \in Gens \cup {-1}
      BY Types
    <2>2. /\ cur \in People => /\ Here(cur) => Here(cur)'
                               /\ Gone(cur) => Gone(cur)'
                               /\ part[cur].at # -1 /\ Closed(cur) => Closed(cur)'
                               /\ Place(cur)' = Place(cur) /\ Own(cur)' = Own(cur)
      BY <1>1, <2>1 DEF Here, Gone, Closed, Place, Own, Panes
    <2> QED
      BY <1>1, <2>2, Types DEF PlaceSound, Typing, Renewing, Retiring
  <1> QED
    BY <1>2, <1>3, <1>4, <1>5, <1>6 DEF IInv

LEMMA LandStep ==
  ASSUME IInv, NEW m \in wire, Land(m)
  PROVE  IInv'
  <1>1. /\ wire' = wire \ {m} /\ again' = again /\ UNCHANGED <<rows, outer, holder>>
        /\ luck' \in 0..MaxTroubles /\ words' \in 0..MaxControls
    BY Budget DEF Land
  <1>2. /\ UNCHANGED <<op, pc, inp>> /\ event' \in BOOLEAN /\ ask' \in BOOLEAN
        /\ wire' \subseteq wire
    BY <1>1, Types DEF rows, holder, outer, TypeOK
  <1>3. WorldOK /\ m = <<m[1], m[2]>> /\ m[2] \in Panes
    BY TypeParts, Types DEF WorldOK
  <1>4. CASE m[1] = "close" /\ pane' = [pane EXCEPT ![m[2]] = "lost"] /\ UNCHANGED <<seen, landed>>
    <2>1. WorldOK'
      BY <1>1, <1>3, <1>4 DEF WorldOK
    <2>2. \A k \in Panes :
            /\ pane[k] = "lost" => pane'[k] = "lost"
            /\ pane'[k] = "live" => pane[k] = "live" \/ <<"boot", k>> \in wire
            /\ <<"close", k>> \in wire => <<"close", k>> \in wire' \/ pane'[k] = "lost"
      BY <1>1, <1>3, <1>4 DEF WorldOK
    <2>3. \A i \in Inputs : OnceSound(i)'
      BY <1>1, <1>2, <1>4, OnceKept DEF May
    <2> QED
      BY <1>1, <1>2, <1>4, <2>1, <2>2, <2>3, WorldMoves
  <1>5. CASE /\ m[1] = "space" /\ pane' = [pane EXCEPT ![m[2]] = IF @ = "none" THEN "shell" ELSE @]
             /\ UNCHANGED <<seen, landed>>
    <2>1. WorldOK'
      BY <1>1, <1>3, <1>5 DEF WorldOK
    <2>2. \A k \in Panes :
            /\ pane[k] = "lost" => pane'[k] = "lost"
            /\ pane'[k] = "live" => pane[k] = "live" \/ <<"boot", k>> \in wire
            /\ <<"close", k>> \in wire => <<"close", k>> \in wire' \/ pane'[k] = "lost"
      BY <1>1, <1>3, <1>5 DEF WorldOK
    <2>3. \A i \in Inputs : OnceSound(i)'
      BY <1>1, <1>2, <1>5, OnceKept DEF May
    <2> QED
      BY <1>1, <1>2, <1>5, <2>1, <2>2, <2>3, WorldMoves
  <1>6. CASE /\ m[1] = "boot" /\ pane' = [pane EXCEPT ![m[2]] = IF @ = "shell" THEN "live" ELSE @]
             /\ UNCHANGED <<seen, landed>>
    <2>1. WorldOK'
      BY <1>1, <1>3, <1>6 DEF WorldOK
    <2>2. <<"boot", m[2]>> \in wire
      BY <1>3, <1>6
    <2>3. \A k \in Panes :
            /\ pane[k] = "lost" => pane'[k] = "lost"
            /\ pane'[k] = "live" => pane[k] = "live" \/ <<"boot", k>> \in wire
            /\ <<"close", k>> \in wire => <<"close", k>> \in wire' \/ pane'[k] = "lost"
      BY <1>1, <1>3, <1>6, <2>2 DEF WorldOK
    <2>4. \A i \in Inputs : OnceSound(i)'
      BY <1>1, <1>2, <1>6, OnceKept DEF May
    <2> QED
      BY <1>1, <1>2, <1>6, <2>1, <2>3, <2>4, WorldMoves
  <1>7. CASE /\ m[1] \in Inputs /\ pane' = pane
             /\ seen' = seen \cup {m} /\ landed' = [landed EXCEPT ![m[1]] = @ + 1]
    <2> DEFINE i == m[1]
    <2>1. i \in Inputs /\ m = <<i, m[2]>> /\ i # "close"
      BY <1>3, <1>7, InputsAssumption
    <2>2. /\ landed' \in [Inputs -> Nat] /\ landed'[i] = landed[i] + 1
          /\ \A j \in Inputs : j # i => landed'[j] = landed[j]
      BY <1>3, <1>7 DEF WorldOK
    <2>3. WorldOK'
      BY <1>1, <1>3, <1>7, <2>2 DEF WorldOK
    <2>4. \A k \in Panes :
            /\ pane[k] = "lost" => pane'[k] = "lost"
            /\ pane'[k] = "live" => pane[k] = "live" \/ <<"boot", k>> \in wire
            /\ <<"close", k>> \in wire => <<"close", k>> \in wire' \/ pane'[k] = "lost"
      BY <1>1, <1>7, <2>1
    <2>5. ASSUME NEW j \in Inputs PROVE OnceSound(j)'
      <3>1. May(j)' = May(j)
        BY <1>2 DEF May
      <3>2. /\ IsFiniteSet(Opened(j)) /\ Cardinality(Opened(j)) \in Nat /\ OnceSound(j)
            /\ again[j] \in Nat /\ landed[j] \in Nat
        BY <1>3, Count, Types DEF WorldOK
      <3>3. CASE j = i
        <4>1. m[2] \in Opened(j) /\ Opened(j)' = Opened(j) \ {m[2]}
          BY <1>1, <1>3, <2>1, <3>3 DEF Opened
        <4>2. Cardinality(Opened(j) \ {m[2]}) = Cardinality(Opened(j)) - 1
          <5> DEFINE S == Opened(j)
                     k == m[2]
          <5>1. IsFiniteSet(S) /\ k \in S
            BY <3>2, <4>1
          <5> HIDE DEF S, k
          <5>2. Cardinality(S \ {k}) = Cardinality(S) - 1
            BY <5>1, FS_RemoveElement
          <5> QED
            BY <5>2 DEF S, k
        <4>3. Cardinality(Opened(j))' = Cardinality(Opened(j)) - 1
          BY <4>1, <4>2
        <4> HIDE DEF May, Opened
        <4> QED
          BY <1>1, <2>2, <3>1, <3>2, <3>3, <4>3 DEF OnceSound
      <3>4. CASE j # i
        <4>1. Opened(j)' = Opened(j)
          BY <1>1, <2>1, <3>4 DEF Opened
        <4> HIDE DEF May, Opened
        <4> QED
          BY <1>1, <2>2, <3>1, <3>2, <3>4, <4>1 DEF OnceSound
      <3> QED
        BY <3>3, <3>4
    <2> QED
      BY <1>1, <1>2, <1>7, <2>3, <2>4, <2>5, WorldMoves
  <1> QED
    BY <1>4, <1>5, <1>6, <1>7 DEF Land

LEMMA OutsideSteps ==
  ASSUME IInv, Outside
  PROVE  IInv'
  <1>1. ASSUME NEW k \in Panes, LosePane(k)
        PROVE  IInv'
    <2>1. /\ UNCHANGED <<rows, outer, holder, seen, landed, again, wire>>
          /\ luck' \in 0..MaxTroubles /\ words' \in 0..MaxControls
          /\ pane' = [pane EXCEPT ![k] = "lost"]
      BY <1>1, Budget DEF LosePane
    <2>2. UNCHANGED <<op, pc, inp>> /\ event' \in BOOLEAN /\ ask' \in BOOLEAN
      BY <2>1, Types DEF rows, holder, outer, TypeOK
    <2>3. WorldOK'
      BY <2>1, TypeParts, Types DEF WorldOK
    <2>4. \A x \in Panes :
            /\ pane[x] = "lost" => pane'[x] = "lost"
            /\ pane'[x] = "live" => pane[x] = "live" \/ <<"boot", x>> \in wire
            /\ <<"close", x>> \in wire => <<"close", x>> \in wire' \/ pane'[x] = "lost"
      BY <2>1, TypeParts, Types DEF WorldOK
    <2>5. \A i \in Inputs : OnceSound(i)'
      BY <2>1, <2>2, OnceKept DEF May
    <2> QED
      BY <2>1, <2>2, <2>3, <2>4, <2>5, WorldMoves
  <1>2. CASE Event \/ EventHandled \/ Ask
    <2>1. /\ UNCHANGED <<rows, world, pc, cur, inp, via, was>>
          /\ luck' \in 0..MaxTroubles /\ words' \in 0..MaxControls
      BY <1>2, Budget DEF Event, EventHandled, Ask, holder
    <2>2. moved' \in BOOLEAN /\ event' \in BOOLEAN /\ ask' \in BOOLEAN
      BY <1>2, Types DEF Event, EventHandled, Ask, holder, TypeOK
    <2>3. UNCHANGED <<task, part, op, row, to, tries, applied, awaits, effects>>
      BY <2>1 DEF rows, book
    <2>4. /\ awaits' \in [People -> Inputs \cup {NoInput}] /\ task' \in TaskSet
          /\ part' \in [People -> People0] /\ \A p \in People : Steady(p)
      BY <2>3, Types DEF TypeOK, Steady
    <2> QED
      BY <2>1, <2>2, <2>3, <2>4, Marked
  <1>3. CASE Crash
    <2>1. /\ Leave /\ ask' = FALSE /\ UNCHANGED <<rows, event, world>>
          /\ luck' \in 0..MaxTroubles /\ words' \in 0..MaxControls
      BY <1>3, Budget DEF Crash
    <2>2. /\ UNCHANGED <<task, part, op, row, to, tries, applied, awaits, effects, event>>
          /\ UNCHANGED <<pane, seen, landed, again, wire, boot, shut, restart>> /\ pc' = "free"
      BY <2>1 DEF rows, book, effects, world, Leave
    <2>3. PlaceSound' /\ HolderOK'
      BY <2>1, LeavesSound DEF HolderOK
    <2>4. RestartSound' /\ \A p \in People : AgentSound(p)'
      BY <2>2, RestSound
    <2>5. BookOK' /\ EffectsOK' /\ WorldOK' /\ BoundsOK'
      BY <2>1, <2>2, PartsKept, TypeParts, Types DEF BoundsOK
    <2>6. /\ task' \in TaskSet /\ part' \in [People -> People0] /\ \A p \in People : Steady(p)
      BY <2>2, Types DEF Steady
    <2> QED
      BY <2>2, <2>3, <2>4, <2>5, <2>6, Joined
  <1> QED
    BY <1>1, <1>2, <1>3, DecideStep, DecideCloseStep, LandStep DEF Outside

(***************************************************************************)
(* The invariant holds, and what follows from it                           *)
(***************************************************************************)
LEMMA InitSound ==
  ASSUME Init
  PROVE  IInv
  <1>1. PICK n \in People : part = [p \in People |-> IF p <= n THEN Ready ELSE Absent]
    BY DEF Init
  <1>2. /\ Ready \in People0 /\ Ready.at = 0 /\ Ready.gen = 0 /\ Ready.started = TRUE
        /\ Ready.st = "idle"
    <2>1. /\ Fresh \in People0 /\ Fresh.at = -1 /\ Fresh.gen = 0 /\ Fresh.started = FALSE
          /\ 0 \in Gens
      BY ExecutionAssumption DEF Fresh, People0, Gens
    <2> QED
      BY <2>1 DEF Ready, People0
  <1>3. /\ Absent \in People0 /\ Absent.at = -1 /\ Absent.gen = 0 /\ Absent.started = FALSE
        /\ Absent.st = "absent"
    <2>1. /\ Fresh \in People0 /\ Fresh.at = -1 /\ Fresh.gen = 0 /\ Fresh.started = FALSE
      BY ExecutionAssumption DEF Fresh, People0, Gens
    <2> QED
      BY <2>1 DEF Absent, People0
  <1>4. /\ part \in [People -> People0]
        /\ \A p \in People : part[p] = Ready \/ part[p] = Absent
    BY <1>1, <1>2, <1>3
  <1>5. /\ op = [i \in Inputs |-> NoReceipt] /\ row = [i \in Inputs |-> NoRow]
        /\ to = [i \in Inputs |-> None] /\ shut = [p \in People |-> NoReceipt]
        /\ restart = [st |-> "none", who |-> None, ops |-> {}, close |-> "none"]
        /\ pc = "free" /\ via = "none" /\ wire = {} /\ seen = {}
        /\ landed = [i \in Inputs |-> 0] /\ again = [i \in Inputs |-> 0]
        /\ boot = [k \in Panes |-> IF part[k[1]].at = k[2] THEN "done" ELSE "none"] /\ space = boot
        /\ pane = [k \in Panes |-> IF part[k[1]].at = k[2] THEN "live" ELSE "none"]
    BY DEF Init
  <1>6. NoReceipt \in Receipts /\ NoReceipt.state = "none" /\ NoReceipt.choice = "none"
    BY DEF NoReceipt, Receipts
  <1>7. NoRow \in RowSet /\ NoRow.at = -1
    BY DEF RowSet, NoRow
  <1>8. TypeOK
    <2>1. task \in TaskSet
      BY DEF Init, TaskSet
    <2>2. BookOK
      BY <1>5, <1>7 DEF Init, BookOK
    <2>3. EffectsOK
      BY <1>5, <1>6 DEF EffectsOK, RestartSet, States
    <2>4. HolderOK /\ BoundsOK
      <3>1. /\ pc = "free" /\ cur = None /\ inp = NoInput /\ via = "none" /\ was = FALSE
            /\ moved = FALSE /\ event = FALSE /\ ask = FALSE
            /\ luck = MaxTroubles /\ words = MaxControls
        BY DEF Init
      <3>2. HolderOK
        BY <3>1 DEF HolderOK, Places
      <3>3. luck \in 0..MaxTroubles /\ words \in 0..MaxControls
        BY <3>1, ExecutionAssumption
      <3> QED
        BY <3>1, <3>2, <3>3 DEF BoundsOK
    <2>5. WorldOK
      BY <1>5 DEF WorldOK
    <2>6. op \in [Inputs -> Receipts]
      BY <1>5, <1>6
    <2> QED
      BY <1>4, <2>1, <2>2, <2>3, <2>4, <2>5, <2>6
         DEF TypeOK, TaskSet, BookOK, RowSet, EffectsOK, RestartSet, HolderOK, WorldOK, BoundsOK
  <1>9. ASSUME NEW p \in People PROVE AgentSound(p)
    <2>1. \A g \in Gens : /\ <<p, g>> \in Panes
                          /\ boot[<<p, g>>] = IF part[p].at = g THEN "done" ELSE "none"
                          /\ pane[<<p, g>>] = IF part[p].at = g THEN "live" ELSE "none"
      BY <1>5 DEF Panes
    <2>2. 0 \in Gens
      BY ExecutionAssumption DEF Gens
    <2>3. shut[p] = NoReceipt
      BY <1>5
    <2>4. \A g \in Gens : pane[<<p, g>>] = "live" => part[p].at = g
      BY <2>1
    <2>5. CASE part[p] = Ready
      <3>1. /\ part[p].at = 0 /\ part[p].gen = 0 /\ part[p].started = TRUE
            /\ part[p].st = "idle" /\ boot[Place(p)] = "done"
        BY <1>2, <2>1, <2>2, <2>5 DEF Place
      <3> QED
        BY <1>5, <1>6, <2>3, <2>4, <3>1 DEF AgentSound
    <2>6. CASE part[p] = Absent
      <3>1. /\ part[p].at = -1 /\ part[p].gen = 0 /\ part[p].started = FALSE
            /\ part[p].st = "absent"
        BY <1>3, <2>6
      <3> QED
        BY <1>5, <1>6, <2>3, <2>4, <3>1 DEF AgentSound
    <2> QED
      BY <1>4, <2>5, <2>6
  <1>10. ASSUME NEW i \in Inputs PROVE OnceSound(i) /\ RowSound(i)
    <2>1. op[i] = NoReceipt /\ row[i] = NoRow /\ to[i] = None /\ landed[i] = 0 /\ again[i] = 0
      BY <1>5
    <2>2. Opened(i) = {}
      BY <1>5 DEF Opened
    <2>3. Cardinality(Opened(i)) = 0
      BY <2>2, FS_EmptySet
    <2>4. RowSound(i)
      BY <1>6, <1>7, <2>1 DEF RowSound, Known
    <2> HIDE DEF Opened, May
    <2> QED
      BY <2>1, <2>3, <2>4 DEF OnceSound
  <1>11. PlaceSound /\ RestartSound
    BY <1>5 DEF PlaceSound, Typing, Renewing, Retiring, RestartSound
  <1> QED
    BY <1>8, <1>9, <1>10, <1>11 DEF IInv

LEMMA SendingSteps ==
  ASSUME IInv, Sending
  PROVE  IInv'
  BY SendStep, TurnedDownStep, RefusedSteps, PrepareStep, WriteStep, EchoedStep, ApplyStep DEF Sending

LEMMA ProvingSteps ==
  ASSUME IInv, Proving
  PROVE  IInv'
  BY ApplyDecidedStep, LookForProofStep, ProvedStep, UnprovedSteps DEF Proving

LEMMA Inductive ==
  ASSUME IInv, [Next]_vars
  PROVE  IInv'
  <1>1. CASE UNCHANGED vars
    <2>1. UNCHANGED <<task, part, op, row, to, tries, applied, awaits, effects, event, ask>>
      BY <1>1 DEF vars, rows, book, outer
    <2>2. UNCHANGED <<pc, cur, inp, via, was, moved, world, luck, words>>
      BY <1>1 DEF vars, holder, bounds
    <2>3. /\ task' \in TaskSet /\ part' \in [People -> People0] /\ \A p \in People : Steady(p)
          /\ moved' \in BOOLEAN /\ event' \in BOOLEAN /\ ask' \in BOOLEAN
          /\ awaits' \in [People -> Inputs \cup {NoInput}]
          /\ luck' \in 0..MaxTroubles /\ words' \in 0..MaxControls
      BY <2>1, <2>2, Types DEF TypeOK, Steady
    <2> QED
      BY <2>1, <2>2, <2>3, Marked
  <1> QED
    BY <1>1, OutsideSteps, ObservingSteps, SendingSteps, ProvingSteps, RepairSteps, RestartSteps,
       ControlSteps DEF Next

LEMMA Invariance == Spec => []IInv
  <1>1. Init => IInv
    BY InitSound
  <1>2. IInv /\ [Next]_vars => IInv'
    BY Inductive
  <1> QED
    BY <1>1, <1>2, PTL DEF Spec

(* The variables keep their types: references, generations and receipts,   *)
(* whatever controls, repairs and restarts did.                            *)
THEOREM TypeCorrect == Spec => []TypeOK
  <1>1. IInv => TypeOK
    BY DEF IInv
  <1> QED
    BY <1>1, Invariance, PTL

(* input-delivery.ts: an input arrives once, and once more for each        *)
(* decision to send it again, for any participants, inputs and troubles.   *)
THEOREM InputsArriveOnce == Spec => []InputOnce
  <1>1. IInv => InputOnce
    <2>1. ASSUME IInv, NEW i \in Inputs
          PROVE  landed[i] <= 1 + again[i]
      <3>1. OnceSound(i) /\ Cardinality(Opened(i)) \in Nat /\ landed[i] \in Nat /\ again[i] \in Nat
        BY <2>1, Count, Types DEF TypeOK
      <3> HIDE DEF May, Opened
      <3> QED
        BY <3>1 DEF OnceSound
    <2> QED
      BY <2>1 DEF InputOnce
  <1> QED
    BY <1>1, Invariance, PTL

(* execution-recovery.ts, restart.ts: a live agent sits in the pane its    *)
(* participant names, and one that left has none unless somebody decided   *)
(* about its close.                                                        *)
THEOREM OneAgentEach == Spec => []OneAgent
  <1>1. IInv => OneAgent
    <2>1. ASSUME IInv, NEW p \in People, NEW g \in Gens, pane[<<p, g>>] = "live"
          PROVE  part[p].at = g /\ (part[p].st = "removed" => shut[p].choice # "none")
      <3>1. AgentSound(p) /\ part[p].at = g
        BY <2>1, Types DEF AgentSound
      <3>2. ~Gone(p)
        BY <2>1, <3>1, ExecutionAssumption DEF Gone, Place, Gens
      <3> HIDE DEF Gone
      <3> QED
        BY <3>1, <3>2 DEF AgentSound
    <2> QED
      BY <2>1 DEF OneAgent
  <1> QED
    BY <1>1, Invariance, PTL

\* Inputs are applied by three steps alone.
LEMMA AppliedBy ==
  ASSUME [Next]_vars, ~UNCHANGED applied
  PROVE  Apply \/ Proved \/ \E i \in Inputs : ApplyDecided(i)
  <1>1. ~UNCHANGED vars
    BY DEF vars, rows, book
  <1>2. ~Outside
    BY DEF Outside, Decide, DecideClose, Land, LosePane, Event, EventHandled, Ask, Crash, rows, book
  <1>3. ~Observing
    BY DEF Observing, Realign, SeesGone, SeesReply, book
  <1>4. ASSUME Sending PROVE Apply
    BY <1>4 DEF Sending, Send, SendTurnedDown, SendVetoed, SendHindered, SendConflicts, Prepare,
                TargetGone, Write, Echoed, NotEchoed, Refuse, rows, book
  <1>5. ASSUME Proving PROVE Proved \/ \E i \in Inputs : ApplyDecided(i)
    BY <1>5 DEF Proving, LookForProof, NotProved, ProofUnread, rows, book
  <1>6. ~Repairing
    <2>1. \A p \in People : ~FinishRepair(p) /\ ~Inspect(p) /\ ~ResumeRepair(p) /\ ~Provision(p)
      BY DEF FinishRepair, Inspect, ResumeRepair, StartRepair, Provision, rows, book
    <2>2. /\ ~SeesAgent /\ ~SeesNoAgent /\ ~Unread /\ ~RepairDeferred /\ ~SpaceHeld
          /\ ~LaunchHeld /\ ~BootVetoed
      BY DEF SeesAgent, SeesNoAgent, Unread, RepairDeferred, SpaceHeld, LaunchHeld, BootVetoed,
             ReconcileFails, rows, book
    <2>3. /\ ~MakeSpace /\ ~SpaceMade /\ ~Swap /\ ~Launch /\ ~Boot /\ ~Booted /\ ~ReadBack
          /\ ~NotReadBack
      BY DEF MakeSpace, SpaceMade, Swap, Launch, Boot, Booted, ReadBack, NotReadBack, Readback,
             rows, book
    <2>4. \A state \in {"refused", "uncertain"} : ~SpaceFails(state) /\ ~BootFails(state)
      BY DEF SpaceFails, BootFails, book
    <2> QED
      BY <2>1, <2>2, <2>3, <2>4 DEF Repairing
  <1>7. ~Restarting
    BY DEF Restarting, Restart, Replace, RestartStops, TakeHistory, CloseOld, OldClosed,
           OldCloseFails, rows, book
  <1>8. ~Controls
    BY DEF Controls, Pause, Resume, Control, RetryTask, Interrupt, Add, Remove, Removed,
           RemoveFails, book
  <1> QED
    BY <1>1, <1>2, <1>3, <1>4, <1>5, <1>6, <1>7, <1>8 DEF Next

(* input-recovery.ts: an input counts as delivered to the executor that is *)
(* there now only if that one has it on record, or somebody decided so.    *)
THEOREM ProofsFit == Spec => ProofFitsPlace
  <1> DEFINE Fits == \A i \in applied' \ applied :
                        <<i, Place(to[i])>> \in seen \/ op[i].choice = "treat_done"
  <1>1. ASSUME IInv, [Next]_vars
        PROVE  Fits
    <2>1. CASE UNCHANGED applied
      BY <2>1
    <2>2. CASE Apply
      <3>1. /\ pc = "settled" /\ to[inp] = cur /\ applied' \subseteq applied \cup {inp}
        BY <1>1, <2>2, Types DEF Apply, PlaceSound
      <3>2. <<inp, Place(cur)>> \in seen \/ op[inp].choice = "treat_done"
        BY <1>1, <3>1, Types DEF PlaceSound
      <3> QED
        BY <3>1, <3>2
    <2>3. CASE Proved
      <3>1. /\ to[inp] = cur /\ applied' = applied \cup {inp} /\ <<inp, Place(cur)>> \in seen
        BY <1>1, <2>3, Types DEF Proved, TakeProof, PlaceSound
      <3> QED
        BY <3>1
    <2>4. ASSUME NEW i \in Inputs, ApplyDecided(i)
          PROVE  Fits
      <3>1. /\ applied' = applied \cup {i} /\ Given(op[i]) /\ SamePlace(i, to[i])
        BY <2>4 DEF ApplyDecided, TakeProof, Unapplied, Provable
      <3>2. <<to[i], row[i].at>> = Place(to[i])
        BY <3>1 DEF SamePlace, Place
      <3>3. Known(op[i]) \/ op[i].choice = "treat_done"
        BY <3>1 DEF Given, Known
      <3>4. RowSound(i)
        BY <1>1, Types
      <3> QED
        BY <3>1, <3>2, <3>3, <3>4 DEF RowSound
    <2> QED
      BY <1>1, <2>1, <2>2, <2>3, <2>4, AppliedBy
  <1> HIDE DEF Fits
  <1>2. IInv /\ [Next]_vars => [Fits]_vars
    BY <1>1
  <1>3. Spec => [][Fits]_vars
    BY <1>2, Invariance, PTL DEF Spec
  <1> QED
    BY <1>3 DEF ProofFitsPlace, Fits

=============================================================================
