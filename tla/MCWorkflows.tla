---------------------------- MODULE MCWorkflows -----------------------------
(***************************************************************************)
(* A workflow and its questions to the user: the plan carried out          *)
(* (Workflow), and what is asked when it cannot go on (Questions). Each    *)
(* machine is checked from its own initial states while the others rest in *)
(* theirs; they share no variable.                                         *)
(***************************************************************************)
EXTENDS MCWorkflow, TLC

CONSTANTS
    Budget,       \* inputs, words of the user and troubles of a workflow together
    NoQuestion, NoWait,
    MaxChanges,   \* new requirements while questions are asked
    MaxSends,     \* attempts of an event and of its message
    MaxLuck       \* edits, crashes, failed calls, refused and lost messages

VARIABLE machine   \* the one that moves
VARIABLES q_user, q_files, q_flow, q_ev, q_box, q_posts, q_done, q_chat,
          q_run, q_view, q_luck
q_vars == <<q_user, q_files, q_flow, q_ev, q_box, q_posts, q_done, q_chat,
    q_run, q_view, q_luck>>
Q == INSTANCE Questions WITH NoQ <- NoQuestion, NoWait <- NoWait, MaxUser <-
    MaxChanges, MaxTries <- MaxSends, MaxLuck <- MaxLuck, user <- q_user, files <- q_files, flow
    <- q_flow, ev <- q_ev, box <- q_box, posts <- q_posts, done <- q_done,
    chat <- q_chat, run <- q_run, view <- q_view, luck <- q_luck

ASSUME QuestionsOk == Q!QuestionsAssumption

\* The first participants are alike.
Peers == Permutations(Crew)
\* What a run has had of all these; a trouble counts for more once the plan
\* has been redone.
Spent == inputs + user + (MaxTrouble - trouble) * plan.version

all == <<machine, vars, q_vars>>
AllInit == /\ machine \in {"Workflow", "Questions"}
           /\ Init /\ Q!Init
           /\ machine # "Questions" => ~q_flow.scoped /\ ~q_flow.stall
AllNext ==
    \/ /\ machine = "Workflow" /\ Next /\ UNCHANGED <<machine, q_vars>>
       /\ Spent' <= Budget /\ plan'.version <= MaxPlans
    \/ machine = "Questions" /\ Q!Next /\ UNCHANGED <<machine, vars>>
AllSpec == AllInit /\ [][AllNext]_all

\* A question reaches the chat once, by the event or by the notice that asks
\* it (user-decision.ts).
AskedOnce == Q!AskedOnce

\* A question that is asked is about the project and the requirements as
\* they are then (user-decision.ts, selection-context.ts).
AskedIsCurrent == Q!AskedIsCurrent
=============================================================================
