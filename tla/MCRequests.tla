----------------------------- MODULE MCRequests -----------------------------
(***************************************************************************)
(* How the service asks the outside world for anything: receipts of        *)
(* operations (Operations), the messages it sends (Outbox), the mutex both *)
(* rest on (KeyedMutex), and the requests that end a task (TaskClosing).   *)
(* Each machine is checked from its own initial states while the others    *)
(* rest in theirs; they share no variable.                                 *)
(***************************************************************************)
EXTENDS Operations

CONSTANTS
    Keys, Runs,                                   \* of the mutex
    Messages, Senders, Texts, Targets, Parts,     \* of the outbox
    None

VARIABLE machine   \* the one that moves
VARIABLES k_tails, k_previous, k_pc, k_key, k_order
k_vars == <<k_tails, k_previous, k_pc, k_key, k_order>>
K == INSTANCE KeyedMutex WITH Calls <- Runs, tails <- k_tails, previous <-
    k_previous, pc <- k_pc, key <- k_key, order <- k_order
VARIABLES b_row, b_sender, b_confirmed, b_limbo, b_shown, b_given
b_vars == <<b_row, b_sender, b_confirmed, b_limbo, b_shown, b_given>>
B == INSTANCE Outbox WITH Ids <- Messages, row <- b_row, sender <- b_sender,
    confirmed <- b_confirmed, limbo <- b_limbo, shown <- b_shown, given <-
    b_given
VARIABLES c_row, c_old, c_part, c_close, c_del, c_sync, c_past, c_told,
          c_talk, c_pc, c_via, c_todo, c_cur, c_answer, c_pane, c_chat,
          c_remote, c_wire, c_luck, c_room
c_vars == <<c_row, c_old, c_part, c_close, c_del, c_sync, c_past, c_told,
    c_talk, c_pc, c_via, c_todo, c_cur, c_answer, c_pane, c_chat, c_remote,
    c_wire, c_luck, c_room>>
C == INSTANCE TaskClosing WITH Participants <- {"p"}, Origins <-
    {"default"}, MaxTroubles <- 1, MaxArrivals <- 0, row <- c_row, old <-
    c_old, part <- c_part, close <- c_close, del <- c_del, sync <- c_sync,
    past <- c_past, told <- c_told, talk <- c_talk, pc <- c_pc, via <-
    c_via, todo <- c_todo, cur <- c_cur, answer <- c_answer, pane <- c_pane,
    chat <- c_chat, remote <- c_remote, wire <- c_wire, luck <- c_luck, room
    <- c_room

ASSUME MutexOk == K!MutexAssumption
ASSUME OutboxOk == B!OutboxAssumption
ASSUME C!ClosingAssumption

all == <<machine, vars, k_vars, b_vars, c_vars>>
AllInit == /\ machine \in {"Operations", "KeyedMutex", "Outbox", "TaskClosing"}
           /\ Init /\ K!Init /\ B!Init /\ C!Init
           /\ machine # "Operations" => job = CHOOSE j \in [Calls -> [inst : Instances, id : Ids, fp : Params]] : TRUE
           /\ machine # "KeyedMutex" => k_key = [c \in Runs |-> CHOOSE k \in Keys : TRUE]
           /\ machine # "Outbox" => b_row = [o \in Messages |-> B!Absent]
           /\ machine # "TaskClosing" => c_pane = [p \in {"p"} |-> "open"] /\ c_row.keep
AllNext ==
    \/ machine = "Operations" /\ Next /\ UNCHANGED <<machine, k_vars, b_vars, c_vars>>
    \/ machine = "KeyedMutex" /\ K!Next /\ UNCHANGED <<machine, vars, b_vars, c_vars>>
    \/ machine = "Outbox" /\ B!Next /\ UNCHANGED <<machine, vars, k_vars, c_vars>>
    \/ machine = "TaskClosing" /\ C!Next /\ UNCHANGED <<machine, vars, k_vars, b_vars>>

Own == machine = "Operations"
Clean == machine = "TaskClosing"

AllSpec == AllInit /\ [][AllNext]_all
    /\ \A c \in Calls : /\ WF_vars(Own /\ (Replay(c) \/ Start(c) \/ Gate(c)))
                      /\ WF_vars(Own /\ (Succeed(c) \/ Refuse(c) \/ LoseReply(c)))
    /\ WF_c_vars(Clean /\ C!Reconcile)
    /\ WF_c_vars(Clean /\ C!InFlight("p") /\ C!PaneLands("p"))
    /\ WF_c_vars(Clean /\ c_pc = "deleting" /\ C!GroupLands)
    /\ WF_c_vars(Clean /\ c_pc = "patch" /\ C!PatchLands(C!Target))
    /\ WF_c_vars(Clean /\ C!Settle)

\* Calls under one key run in the order in which they came, also when one of
\* them fails (core/mutex.ts).
FirstComeFirstServed == K!FirstComeFirstServed

\* The chat shows every part of a message once and in order, over retries,
\* two senders and lost answers (outbox.ts).
PartsOnceInOrder == B!PartsOnceInOrder

\* A clean-up comes to its end unless an unknown outcome, or a refused
\* notice of the deletion, goes on holding it up (tasks/lifecycle.ts
\* closeTask under the tick).
ClosingEnds == C!ClosingEnds
=============================================================================
