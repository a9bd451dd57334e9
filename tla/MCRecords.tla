----------------------------- MODULE MCRecords ------------------------------
(***************************************************************************)
(* What is kept in files and rows, and who may rely on it: the lock of the *)
(* state directory (StateLock), the conversation an engine saves           *)
(* (Transcript), the pages of a large result (Pages), the files of a       *)
(* workflow handoff (Handoffs) and the delivery of a report (Reports).     *)
(* Each machine is checked from its own initial states while the others    *)
(* rest in theirs; they share no variable.                                 *)
(***************************************************************************)
EXTENDS StateLock

CONSTANTS
  Callers, ToolCalls, LargeCalls,  \* whose transcript, the calls a model may make
  MaxHistory, RequestRows, CheckpointRows, MaxTurns, MaxFaults,  \* bounds of a transcript
  Texts, ResultOutcomes, PageRoom, OlderRoom, MessageRoom, MaxPages, LastScope, MaxKept, MaxOlder,
  StoreFaults,                     \* results and their pages
  Confirmers,                      \* who confirms, in their order
  MaxPlans, MaxOrders, MaxTries, MaxChanges,  \* bounds of the handoffs
  MaxSheets, MaxTroubles           \* bounds of the report delivery

\* Shown whole; an exact fit; a page that ends before a wide character; too many
\* pages now but not for an earlier release; a character that fits no page.
ResultTexts == {<<1, 1>>, <<2, 1, 1>>, <<1, 2, 1, 1>>, <<2, 2, 2, 1>>, <<1, 9>>}
TwoPeople == <<"p1", "p2">>

VARIABLE machine   \* the one that moves
VARIABLES t_kind, t_pc, t_live, t_fold, t_saved, t_sent, t_left, t_op,
          t_stored, t_uncertain, t_halted, t_again, t_runs, t_luck
t_vars == <<t_kind, t_pc, t_live, t_fold, t_saved, t_sent, t_left, t_op,
    t_stored, t_uncertain, t_halted, t_again, t_runs, t_luck>>
T == INSTANCE Transcript WITH Kinds <- Callers, Calls <- ToolCalls,
    Large <- LargeCalls, History <- MaxHistory, Budget <- RequestRows,
    MaxRows <- CheckpointRows, MaxRuns <- MaxTurns, MaxLuck <- MaxFaults,
    kind <- t_kind, pc <- t_pc, live <- t_live, fold <- t_fold, saved <-
    t_saved, sent <- t_sent, left <- t_left, op <- t_op, stored <- t_stored,
    uncertain <- t_uncertain, halted <- t_halted, again <- t_again, runs <-
    t_runs, luck <- t_luck
VARIABLES g_scope, g_kept, g_face, g_truth, g_reader, g_luck
g_vars == <<g_scope, g_kept, g_face, g_truth, g_reader, g_luck>>
G == INSTANCE Pages WITH Outcomes <- ResultOutcomes, Room <- PageRoom, Holds <- MessageRoom,
    MaxLuck <- StoreFaults, scope <- g_scope, kept <- g_kept, face <- g_face,
    truth <- g_truth, reader <- g_reader, luck <- g_luck
VARIABLES h_files, h_doc, h_user, h_flow, h_ev, h_dir, h_work, h_pc, h_look,
          h_fault, h_base, h_past, h_agreed, h_delivered, h_ops, h_luck
h_vars == <<h_files, h_doc, h_user, h_flow, h_ev, h_dir, h_work, h_pc,
    h_look, h_fault, h_base, h_past, h_agreed, h_delivered, h_ops, h_luck>>
H == INSTANCE Handoffs WITH Chain <- Confirmers, MaxInputs <- MaxOrders,
    MaxLuck <- MaxChanges, files <- h_files, doc <- h_doc, user <- h_user,
    flow <- h_flow, ev <- h_ev, dir <- h_dir, work <- h_work, pc <- h_pc,
    look <- h_look, fault <- h_fault, base <- h_base, past <- h_past,
    agreed <- h_agreed, delivered <- h_delivered, ops <- h_ops, luck <-
    h_luck
VARIABLES r_task, r_fresh, r_event, r_rec, r_pc, r_mem, r_asked, r_rpc,
          r_rrev, r_sheets, r_luck, r_out, r_ruled
r_vars == <<r_task, r_fresh, r_event, r_rec, r_pc, r_mem, r_asked, r_rpc,
    r_rrev, r_sheets, r_luck, r_out, r_ruled>>
R == INSTANCE Reports WITH task <- r_task, fresh <- r_fresh, event <- r_event,
    rec <- r_rec, pc <- r_pc, mem <- r_mem, asked <- r_asked, rpc <- r_rpc,
    rrev <- r_rrev, sheets <- r_sheets, luck <- r_luck, out <- r_out, ruled
    <- r_ruled

ASSUME TranscriptOk == T!TranscriptAssumption
ASSUME PagesOk == G!PagesAssumption
ASSUME HandoffsOk == H!HandoffsAssumption
ASSUME ReportsOk == R!ReportsAssumption

all == <<machine, vars, t_vars, g_vars, h_vars, r_vars>>
AllInit == /\ machine \in {"StateLock", "Transcript", "Pages", "Handoffs", "Reports"}
           /\ Init /\ T!Init /\ G!Init /\ H!Init /\ R!Init
           /\ machine # "Transcript" => t_kind = "chat"
           /\ machine # "Pages" => g_kept = <<>>
AllNext ==
    \/ machine = "StateLock" /\ Next /\ UNCHANGED <<machine, t_vars, g_vars, h_vars, r_vars>>
    \/ machine = "Transcript" /\ T!Next /\ UNCHANGED <<machine, vars, g_vars, h_vars, r_vars>>
    \/ machine = "Pages" /\ G!Next /\ UNCHANGED <<machine, vars, t_vars, h_vars, r_vars>>
    \/ machine = "Handoffs" /\ H!Next /\ UNCHANGED <<machine, vars, t_vars, g_vars, r_vars>>
    \/ machine = "Reports" /\ R!Next /\ UNCHANGED <<machine, vars, t_vars, g_vars, h_vars>>
AllSpec == AllInit /\ [][AllNext]_all

\* Every request the provider gets answers each tool call exactly once,
\* right after the message that made it, whatever was folded, resumed or
\* dropped (engine.ts).
Paired == T!Paired

\* The provider is sent nothing a crash would forget: what it saw is in the
\* checkpoint (engine.ts).
SavedIsSent == T!SavedIsSent

\* Who follows the references of a large result to the end has read the
\* whole result, once and in order (tool-results.ts).
ReadsBackWhole == G!ReadsBackWhole

\* The report that is delivered holds documents each participant has read
\* and approved in those very contents (consensus.ts).
DeliveredIsAgreed == H!DeliveredIsAgreed

\* A receipt that cannot be read hides no change of the project: work
\* accepted after repairs is work during which the files stayed as they were
\* (settlement.ts).
AcceptedIsUntouched == H!AcceptedIsUntouched

\* A repair that was answered with the same defect in the same context is
\* not ordered a second time (receipt-recovery.ts).
NoVainRepair == H!NoVainRepair

\* The file of a report is sent once, but for a decision to try it again
\* (report-delivery.ts).
SentOnce == R!SentOnce

\* A group is not deleted while a report is on its way to it or waits for a
\* decision (report-delivery.ts).
GroupWaits == R!GroupWaits
=============================================================================
