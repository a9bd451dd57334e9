---------------------------- MODULE MCScheduling ----------------------------
(***************************************************************************)
(* What a task does next: the scheduling by events (Orchestration), the    *)
(* handing over from one participant of a discussion to the next           *)
(* (Discussion), and the plan the leader makes first (Planning). Each      *)
(* machine is checked from its own initial states while the others rest in *)
(* theirs; they share no variable.                                         *)
(***************************************************************************)
EXTENDS Orchestration

CONSTANTS
    Speakers, MaxSayings, MaxRefusals, MaxPauses,   \* of the discussion
    Documents, Document, TheCode, NoPlan, NoChange, NoSource, MaxAsks, MaxSlips   \* of the plan

VARIABLE machine   \* the one that moves
VARIABLES d_active, d_paused, d_st, d_sent, d_cursor, d_base, d_awaits,
          d_book, d_note, d_box, d_shown, d_relay, d_settled, d_op, d_row,
          d_applied, d_pc, d_cur, d_at, d_snap, d_inp, d_said, d_busy,
          d_alive, d_old, d_wire, d_landed, d_luck, d_words
d_vars == <<d_active, d_paused, d_st, d_sent, d_cursor, d_base, d_awaits,
    d_book, d_note, d_box, d_shown, d_relay, d_settled, d_op, d_row,
    d_applied, d_pc, d_cur, d_at, d_snap, d_inp, d_said, d_busy, d_alive,
    d_old, d_wire, d_landed, d_luck, d_words>>
D == INSTANCE Discussion WITH N <- Speakers, MaxOutputs <- MaxSayings,
    MaxTroubles <- MaxRefusals, MaxWords <- MaxPauses,
    active <- d_active, paused <- d_paused, st <- d_st, sent
    <- d_sent, cursor <- d_cursor, base <- d_base, awaits <- d_awaits, book
    <- d_book, note <- d_note, box <- d_box, shown <- d_shown, relay <-
    d_relay, settled <- d_settled, op <- d_op, row <- d_row, applied <-
    d_applied, pc <- d_pc, cur <- d_cur, at <- d_at, snap <- d_snap, inp <-
    d_inp, said <- d_said, busy <- d_busy, alive <- d_alive, old <- d_old,
    wire <- d_wire, landed <- d_landed, luck <- d_luck, words <- d_words
VARIABLES p_inputs, p_flow, p_ev, p_told, p_draft, p_passed, p_files, p_run,
          p_luck
p_vars == <<p_inputs, p_flow, p_ev, p_told, p_draft, p_passed, p_files,
    p_run, p_luck>>
P == INSTANCE Planning WITH Paths <- Documents, Default <- Document, Code
    <- TheCode, NoPlan <- NoPlan, NoChange <- NoChange, NoSource <-
    NoSource, MaxInputs <- MaxAsks, MaxLuck <- MaxSlips, inputs <- p_inputs, flow <-
    p_flow, ev <- p_ev, told <- p_told, draft <- p_draft, passed <-
    p_passed, files <- p_files, run <- p_run, luck <- p_luck

ASSUME TalkOk == D!DiscussionAssumption
ASSUME PlanOk == P!PlanningAssumption

all == <<machine, vars, d_vars, p_vars>>
AllInit == /\ machine \in {"Orchestration", "Discussion", "Planning"}
           /\ Init /\ D!Init /\ P!Init
AllNext ==
    \/ machine = "Orchestration" /\ Next /\ UNCHANGED <<machine, d_vars, p_vars>>
    \/ machine = "Discussion" /\ D!Next /\ UNCHANGED <<machine, vars, p_vars>>
    \/ machine = "Planning" /\ P!Next /\ UNCHANGED <<machine, vars, d_vars>>

Schedules == machine = "Orchestration"
Plans == machine = "Planning"

AllSpec == AllInit /\ [][AllNext]_all
    /\ WF_vars(Schedules /\ Run) /\ WF_vars(Schedules /\ Native)
    /\ WF_vars(Schedules /\ Handling) /\ WF_vars(Schedules /\ Arrive)
    /\ WF_p_vars(Plans /\ (P!Step \/ P!NoDraft))
    /\ \A i \in 1..MaxAsks : WF_p_vars(Plans /\ i \in DOMAIN p_inputs /\ P!Sort(i))

\* What a participant says is shown to the user once (tasks/observe.ts,
\* app/application.ts).
ShownOnce == D!ShownOnce

\* A plan gives up an obligation of the task only by a change that names it,
\* was authorized and cites the latest message (contract-change.ts).
ObligationsKept == P!ObligationsKept

\* A task that needs a plan gets one, asks for attention or waits for
\* evidence (runner.ts).
PlanningEnds == Plans /\ p_flow.planning = "needed" ~> P!Planned
=============================================================================
