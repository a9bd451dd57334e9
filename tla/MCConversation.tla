--------------------------- MODULE MCConversation ---------------------------
(***************************************************************************)
(* What a turn of a conversation (Turns), an activation of the leader      *)
(* (Leader), and an answer to the question of an agent (Approvals) set in  *)
(* motion. Each of the three machines is checked from its own initial      *)
(* states while the others rest in theirs; they share no variable.         *)
(***************************************************************************)
EXTENDS Turns

CONSTANTS LeaderRows, LeaderSends, LeaderChoices, LeaderOps,  \* what the leader may do
          MaxActivations, MaxLeaderTrouble,                  \* bounds of the leader
          TrustGates, MaxQuestions, MaxSeq, MaxNonces, MaxMoves, MaxTroubles  \* of approvals

ChatOfEach(m) == m

ThreeRows == {<<1, 1>>, <<1, 2>>, <<2, 1>>}
ThreeOps == {<<<<1, 1>>, "send">>, <<<<1, 1>>, "a">>, <<<<1, 2>>, "b">>}

VARIABLE machine   \* the one that moves
VARIABLES l_inbox, l_known, l_op, l_native, l_action, l_picked, l_fresh,
          l_pc, l_active, l_call, l_doubt, l_flying, l_asked, l_applied,
          l_trouble
l_vars == <<l_inbox, l_known, l_op, l_native, l_action, l_picked, l_fresh,
    l_pc, l_active, l_call, l_doubt, l_flying, l_asked, l_applied,
    l_trouble>>
L == INSTANCE Leader WITH Rows <- LeaderRows, Ops <- LeaderOps, Sends <-
    LeaderSends, Choices <- LeaderChoices, MaxTries <- MaxActivations,
    MaxTrouble <- MaxLeaderTrouble, inbox <- l_inbox, known <- l_known, op <-
    l_op, native <- l_native, action <- l_action, picked <- l_picked, fresh
    <- l_fresh, pc <- l_pc, active <- l_active, call <- l_call, doubt <-
    l_doubt, flying <- l_flying, asked <- l_asked, applied <- l_applied,
    trouble <- l_trouble
VARIABLES a_screen, a_keys, a_appr, a_ident, a_cards, a_auto, a_trust,
          a_rev, a_held, a_pc, a_seen, a_use, a_key, a_at, a_pane, a_luck,
          a_moves, a_pressed, a_round
a_vars == <<a_screen, a_keys, a_appr, a_ident, a_cards, a_auto, a_trust,
    a_rev, a_held, a_pc, a_seen, a_use, a_key, a_at, a_pane, a_luck,
    a_moves, a_pressed, a_round>>
A == INSTANCE Approvals WITH Gates <- TrustGates, screen <- a_screen, keys
    <- a_keys, appr <- a_appr, ident <- a_ident, cards <- a_cards, auto <-
    a_auto, trust <- a_trust, rev <- a_rev, held <- a_held, pc <- a_pc, seen
    <- a_seen, use <- a_use, key <- a_key, at <- a_at, pane <- a_pane, luck
    <- a_luck, moves <- a_moves, pressed <- a_pressed, round <- a_round

ASSUME ApprovalsOk == A!ApprovalsAssumption
ASSUME LeaderOk == L!LeaderAssumption

all == <<machine, vars, l_vars, a_vars>>
AllInit == /\ machine \in {"Turns", "Leader", "Approvals"}
           /\ Init /\ L!Init /\ A!Init
AllNext ==
    \/ machine = "Turns" /\ Next /\ UNCHANGED <<machine, l_vars, a_vars>>
    \/ machine = "Leader" /\ L!Next /\ UNCHANGED <<machine, vars, a_vars>>
    \/ machine = "Approvals" /\ A!Next /\ UNCHANGED <<machine, vars, l_vars>>
AllSpec == AllInit /\ [][AllNext]_all

\* An activation that is run again does not repeat an effect of the one
\* before it (leader-session-engine.ts).
LeaderEffectOnce == L!EffectOnce

\* An approval lets one key through, and a directory is trusted once, however
\* many cards, clicks, selections and restarts there are (approvals.ts:251).
OneKeyEach == A!OneKeyEach

\* A second key at one state of the agent only after proof of the first one
\* (approvals.ts:79-127, 340-347).
NextKeyAfterProof == A!NextKeyAfterProof
=============================================================================
