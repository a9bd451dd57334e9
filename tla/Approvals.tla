------------------------------ MODULE Approvals ------------------------------
(***************************************************************************)
(* Who may press a key in the pane of a blocked participant: the owner on  *)
(* a card (app/approvals.ts), the automatic selector                       *)
(* (app/automatic-approvals.ts) and the startup trust of a directory       *)
(* (app/directory-trust.ts), each through the guarded writes of            *)
(* herdr/control.ts.  One execution; the service's `blocked` hook          *)
(* (app/application.ts) is the caller "hook", a click is the caller        *)
(* "click".                                                                *)
(*                                                                         *)
(* A sight is what one reading of the pane shows: which question, which    *)
(* row is marked, the agent's stateSeq.  What a key does is up to the      *)
(* agent.  pressed is history.                                             *)
(***************************************************************************)
EXTENDS Integers, Sequences, FiniteSets

CONSTANTS
    Gates,          \* the questions that are startup trust menus
    MaxQuestions,   \* bound: questions of the agent
    MaxSeq,         \* bound: values of stateSeq
    MaxNonces,      \* bound: approvals
    MaxMoves,       \* bound: things that happen in the terminal or to the task
    MaxTroubles     \* bound: lost answers and crashes

ApprovalsAssumption ==
    /\ {MaxQuestions, MaxSeq, MaxNonces, MaxMoves, MaxTroubles} \subseteq Nat
    /\ MaxQuestions >= 1                    \* the execution starts at a question
    /\ Gates \subseteq 1..MaxQuestions

MaxAttempts == 3
Callers == {"hook", "click"}
Nonces  == 1..MaxNonces
Keys    == {"pick", "down"}
Rounds  == 3
Sights  == [q : 0..MaxQuestions, row : {1, 2}, seq : 0..MaxSeq]     \* q = 0: not blocked

VARIABLES
    screen, keys,   \* the pane, and a key that was written and is not handled yet
    appr, ident,    \* approvals, and approval_identity: stateSeq -> nonce
    cards,          \* nonces whose card is in the chat
    auto,           \* automatic_approval_decisions of this execution: newest, attempts of the epoch
    trust,          \* directory_trust_effects with its operation, and the attempts of the model
    rev, held,      \* the user's input revision; a queued control, a pause or a revoked owner
    pc, seen, use, key,     \* a caller: its place, its sight, its approval (0: trust), its key
    round,          \* how often a caller has begun to look at the pane
    at,             \* input revision the hook decided on
    pane,           \* the caller that is in AgentControl.serial
    luck, moves,
    pressed         \* the approvals of the keys written, 0 for trust

world == <<screen, keys, cards, rev, held>>
store == <<appr, ident, auto, trust>>
caller == <<pc, seen, use, key, at, pane, round>>
vars  == <<world, store, caller, luck, moves, pressed>>

Approval == [sight : Sights, consumed : BOOLEAN, invalid : BOOLEAN, nav : BOOLEAN, again : BOOLEAN,
             confirmed : BOOLEAN, pub : {"none", "sending", "uncertain", "retryable", "sent"}]
TypeOK ==
    /\ screen \in Sights /\ keys \in Seq(Keys)
    /\ appr \in Seq(Approval) /\ Len(appr) <= MaxNonces
    /\ ident \in [0..MaxSeq -> 0..MaxNonces] /\ cards \subseteq Nonces
    /\ auto \in [st : {"none", "selecting", "executing", "executed", "failed", "uncertain", "waiting"},
                 tries : 0..MaxAttempts, epoch : 0..MaxNonces]
    /\ trust \in [st : {"none", "pending", "uncertain", "done"}, tries : 0..MaxAttempts]
    /\ rev \in 0..MaxMoves /\ held \in BOOLEAN /\ at \in 0..MaxMoves
    /\ pc \in [Callers -> {"off", "trust", "select", "publish", "posting", "ask", "guard", "validate",
                           "look", "before", "connect", "written", "refresh"}]
    /\ seen \in [Callers -> Sights] /\ use \in [Callers -> 0..MaxNonces] /\ key \in [Callers -> Keys]
    /\ round \in [Callers -> 0..Rounds]
    /\ pane \in Callers \cup {"free"}
    /\ luck \in 0..MaxTroubles /\ moves \in 0..MaxMoves

NoSight == [q |-> 0, row |-> 1, seq |-> 0]
Init ==
    /\ screen = [q |-> 1, row |-> 1, seq |-> 0] /\ keys = <<>>
    /\ appr = <<>> /\ ident = [s \in 0..MaxSeq |-> 0] /\ cards = {}
    /\ auto = [st |-> "none", tries |-> 0, epoch |-> 0] /\ trust = [st |-> "none", tries |-> 0]
    /\ rev = 0 /\ held = FALSE /\ at = 0
    /\ pc = [c \in Callers |-> "off"] /\ seen = [c \in Callers |-> NoSight]
    /\ use = [c \in Callers |-> 0] /\ key = [c \in Callers |-> "pick"] /\ pane = "free"
    /\ luck = MaxTroubles /\ moves = MaxMoves /\ pressed = <<>> /\ round = [c \in Callers |-> 0]

Trouble == luck > 0 /\ luck' = luck - 1 /\ UNCHANGED moves
Move    == moves > 0 /\ moves' = moves - 1 /\ UNCHANGED luck
Smooth  == UNCHANGED <<luck, moves>>
Go(c, place) == pc' = [pc EXCEPT ![c] = place]
\* A caller that is done keeps nothing.
Locals == <<seen, use, key, round>>
Leave(c) ==
    /\ Go(c, "off") /\ seen' = [seen EXCEPT ![c] = NoSight] /\ use' = [use EXCEPT ![c] = 0]
    /\ key' = [key EXCEPT ![c] = "pick"] /\ round' = [round EXCEPT ![c] = 0]
Blocked(s) == s.q # 0
Free(c) == pane' = IF pane = c THEN "free" ELSE pane
-----------------------------------------------------------------------------
(* Approvals *)

Void(p) == [p EXCEPT !.consumed = TRUE, !.nav = FALSE, !.again = FALSE, !.invalid = TRUE]
Invalidated(a) == [n \in DOMAIN a |-> Void(a[n])]
NewApproval(s) == [sight |-> s, consumed |-> FALSE, invalid |-> FALSE, nav |-> FALSE, again |-> FALSE,
                   confirmed |-> FALSE, pub |-> "none"]

\* Mutant: an approval that was used makes room for another one.
KeptIfUnused(p, s) ==
    IF p.nav THEN p.sight = s
    ELSE ~p.again /\ (p.pub \in {"sending", "uncertain"} \/ (~p.consumed /\ p.sight = s))
\* create(): the approval of this stateSeq stays unless it was confirmed as
\* navigation, may be observed again, or was never used and its menu changed.
Kept(p, s) ==
    IF p.nav THEN p.sight = s
    ELSE ~p.again /\ (p.consumed \/ p.pub \in {"sending", "uncertain"} \/ p.sight = s)

\* The approvals, the identities and the nonce after create(s).
Create(a, i, s) ==
    LET n == i[s.seq]
        old == n # 0 /\ (Kept(a[n], s) \/ Len(a) = MaxNonces)
        retired == IF n # 0 /\ ~a[n].nav /\ ~a[n].again
                   THEN [a EXCEPT ![n].consumed = TRUE, ![n].invalid = TRUE] ELSE a
    IN IF old THEN [appr |-> a, ident |-> i, nonce |-> n]
       ELSE [appr |-> Append(retired, NewApproval(s)), ident |-> [i EXCEPT ![s.seq] = Len(a) + 1],
             nonce |-> Len(a) + 1]
RoomFor(s) == ident[s.seq] # 0 \/ Len(appr) < MaxNonces

Epoch == Cardinality({n \in DOMAIN appr : appr[n].confirmed})
Frozen == trust.st \in {"pending", "uncertain"} \/ auto.st \in {"executing", "uncertain"}

-----------------------------------------------------------------------------
(* The hook: trust, then the selector, then a card *)

Observe ==
    /\ pc["hook"] = "off" /\ Blocked(screen) /\ ~Frozen
    /\ seen' = [seen EXCEPT !["hook"] = screen]
    /\ Go("hook", IF screen.q \in Gates /\ trust.st = "none" /\ trust.tries < MaxAttempts THEN "trust" ELSE "select")
    /\ UNCHANGED <<world, store, use, key, at, pane, round, pressed>> /\ Smooth

\* The attempt is counted before the model is asked; its tool leaves a receipt
\* before it looks at the pane.
AskTrust ==
    /\ pc["hook"] = "trust"
    /\ \/ /\ ~held /\ Go("hook", "guard") /\ use' = [use EXCEPT !["hook"] = 0]
          /\ key' = [key EXCEPT !["hook"] = "pick"]
          /\ trust' = [st |-> "pending", tries |-> trust.tries + 1] /\ UNCHANGED <<seen, round>>
       \/ Leave("hook") /\ trust' = [trust EXCEPT !.tries = @ + 1]
    /\ UNCHANGED <<world, appr, ident, auto, at, pane, pressed>> /\ Smooth

\* The selector: one decision of an input revision per attempt, three of them
\* until a confirmed key starts another epoch.
Tries == IF auto.epoch = Epoch THEN auto.tries ELSE 0
MaySelect ==
    /\ ~held /\ screen = seen["hook"] /\ auto.st \notin {"executing", "uncertain"}
    /\ auto.epoch = Epoch => auto.st \notin {"waiting"} /\ auto.tries < MaxAttempts
Select ==
    /\ pc["hook"] = "select" /\ MaySelect /\ ~Frozen /\ RoomFor(seen["hook"])
    /\ LET m == Create(appr, ident, seen["hook"]) IN
       /\ appr' = m.appr /\ ident' = m.ident
       /\ IF m.appr[m.nonce].consumed \/ m.appr[m.nonce].sight # seen["hook"]
          THEN Go("hook", "publish") /\ UNCHANGED <<auto, use, key, at>>
          ELSE /\ at' = rev /\ use' = [use EXCEPT !["hook"] = m.nonce]
               /\ \/ /\ \E k \in Keys : key' = [key EXCEPT !["hook"] = k]
                     /\ auto' = [st |-> "executing", tries |-> Tries + 1, epoch |-> Epoch]
                     /\ Go("hook", "ask")
                  \/ /\ auto' = [st |-> "waiting", tries |-> Tries + 1, epoch |-> Epoch]
                     /\ Go("hook", "publish") /\ UNCHANGED key
    /\ UNCHANGED <<world, trust, seen, pane, round, pressed>> /\ Smooth
NoSelect ==
    /\ pc["hook"] = "select" /\ Go("hook", "publish")
    /\ UNCHANGED <<world, store, seen, use, key, at, pane, round, pressed>> /\ Smooth

\* The pane is read again: somebody may have answered meanwhile.
Publish ==
    /\ pc["hook"] = "publish"
    /\ IF held \/ ~Blocked(screen) \/ ~RoomFor(screen)
       THEN Leave("hook") /\ UNCHANGED <<appr, ident, cards>>
       ELSE LET m == Create(appr, ident, screen)
                a == m.appr[m.nonce]
                post == ~a.consumed /\ a.pub \in {"none", "retryable"}
            IN /\ appr' = IF post THEN [m.appr EXCEPT ![m.nonce].pub = "sending"] ELSE m.appr
               /\ ident' = m.ident
               /\ IF post THEN Go("hook", "posting") /\ use' = [use EXCEPT !["hook"] = m.nonce]
                               /\ cards' = cards \cup {m.nonce} /\ UNCHANGED <<seen, key, round>>
                  ELSE Leave("hook") /\ UNCHANGED cards
    /\ UNCHANGED <<screen, keys, rev, held, auto, trust, at, pane, pressed>> /\ Smooth
Posted(p) ==
    /\ pc["hook"] = "posting" /\ (p = "sent" \/ luck > 0)
    /\ appr' = [appr EXCEPT ![use["hook"]].pub = p] /\ Leave("hook")
    /\ IF p = "sent" THEN Smooth ELSE Trouble
    /\ UNCHANGED <<world, ident, auto, trust, at, pane, pressed>>

\* A click of the owner; the inbox runs the clicks of a pane one at a time.
Click(n, k) ==
    /\ pc["click"] = "off" /\ n \in cards /\ Go("click", "ask")
    /\ use' = [use EXCEPT !["click"] = n] /\ key' = [key EXCEPT !["click"] = k]
    /\ UNCHANGED <<world, store, seen, at, pane, round, pressed>> /\ Move
-----------------------------------------------------------------------------
(* answer(): consumed, guarded, written, read back *)

NotExecuted(c, code) ==
    IF c = "hook" THEN auto' = [auto EXCEPT !.st = IF code = "unknown" THEN "uncertain" ELSE "failed"] ELSE UNCHANGED auto

Answering(c) ==
    use[c] # 0 /\ pc[c] \in {"guard", "validate", "look", "before", "connect", "written", "refresh"}

\* Mutant: an approval that was used may be used again.
OpenAlways(n) == TRUE
OpenFor(n) == ~appr[n].consumed
Ask(c) ==
    /\ pc[c] = "ask" /\ \A d \in Callers : ~Answering(d)
    /\ IF OpenFor(use[c])
       THEN /\ appr' = [appr EXCEPT ![use[c]].consumed = TRUE]
            /\ Go(c, "guard") /\ UNCHANGED <<auto, Locals>>
       ELSE Leave(c) /\ NotExecuted(c, "failed") /\ UNCHANGED appr
    /\ UNCHANGED <<world, ident, trust, at, pane, pressed>> /\ Smooth

\* The scope of the automatic key, and the assertCurrent of each caller.
Gone(c) == use[c] # 0 /\ c = "hook" /\ (held \/ rev # at)
ScopeLost(c) ==
    \/ Gone(c)
    \/ use[c] # 0 /\ c = "hook" /\ trust.st \in {"pending", "uncertain"}
Vetoed(c) ==
    \/ use[c] = 0 /\ held
    \/ use[c] # 0 /\ appr[use[c]].invalid
    \/ ScopeLost(c)

SightOf(c) == IF use[c] = 0 THEN seen[c] ELSE appr[use[c]].sight
SameMenu(s) == screen.q = s.q /\ screen.row = s.row
PaneFree(c) == pane = "free"

\* One caller after the other; then three rounds, each reads the agent and
\* after it the pane.
Enter(c) ==
    /\ pc[c] = "guard" /\ PaneFree(c)
    /\ pane' = c /\ round' = [round EXCEPT ![c] = 1] /\ Go(c, "validate")
    /\ UNCHANGED <<world, store, seen, use, key, at, pressed>> /\ Smooth

\* A check failed, no key left.  A card may be asked about again when only the
\* sight or the scope changed; a vetoed trust was no attempt.
Drop(c, again) ==
    /\ Leave(c) /\ Free(c)
    /\ IF use[c] = 0
       THEN /\ trust' = [st |-> "none", tries |-> IF again THEN trust.tries ELSE trust.tries - 1]
            /\ UNCHANGED <<appr, auto>>
       ELSE /\ appr' = [n \in DOMAIN appr |-> [Void(appr[n]) EXCEPT !.again = again /\ n = use[c]]]
            /\ NotExecuted(c, "failed") /\ UNCHANGED trust
On(c, place) == Go(c, place) /\ UNCHANGED <<appr, auto, trust, pane, Locals>>
NextRound(c) ==
    /\ Go(c, "validate") /\ round' = [round EXCEPT ![c] = @ + 1]
    /\ UNCHANGED <<appr, auto, trust, pane, use, key>>

Validate(c) ==
    /\ pc[c] = "validate"
    /\ IF Blocked(screen) /\ screen.seq = SightOf(c).seq THEN On(c, "look") ELSE Drop(c, TRUE)
    /\ UNCHANGED <<world, ident, at, pressed>> /\ Smooth

\* checkScreen: each reading is compared with the sight of the approval, and
\* the last one is followed by assertCurrent without a pause.
Look(c) ==
    /\ pc[c] = "look" /\ use[c] # 0
    /\ IF ~SameMenu(SightOf(c)) THEN Drop(c, TRUE)
       ELSE IF round[c] = 1 THEN NextRound(c) /\ UNCHANGED seen
       ELSE IF round[c] = 2 THEN On(c, "before")
       ELSE IF Vetoed(c) THEN Drop(c, ScopeLost(c))
       ELSE On(c, "connect")
    /\ UNCHANGED <<world, ident, at, pressed>> /\ Smooth
\* beforeWrite: the automatic key asks for its scope and its screen again.
Before(c) ==
    /\ pc[c] = "before"
    /\ IF Gone(c) \/ (c = "hook" /\ screen # seen[c]) THEN Drop(c, TRUE)
       ELSE NextRound(c) /\ UNCHANGED seen
    /\ UNCHANGED <<world, ident, at, pressed>> /\ Smooth
\* The directory: the first reading must be a trust menu, the second one like
\* it; the third round has no reading, only the veto.
LookTrust(c) ==
    /\ pc[c] = "look" /\ use[c] = 0
    /\ \/ /\ round[c] = 1 /\ screen.q \in Gates /\ NextRound(c)
          /\ seen' = [seen EXCEPT ![c].q = screen.q, ![c].row = screen.row]
       \/ round[c] = 2 /\ SameMenu(seen[c]) /\ NextRound(c) /\ UNCHANGED seen
       \/ round[c] = 1 /\ screen.q \notin Gates /\ Drop(c, TRUE)
       \/ round[c] = 2 /\ ~SameMenu(seen[c]) /\ Drop(c, TRUE)
       \/ round[c] = 3 /\ ~Vetoed(c) /\ On(c, "connect")
       \/ round[c] = 3 /\ Vetoed(c) /\ Drop(c, FALSE)
    /\ UNCHANGED <<world, ident, at, pressed>> /\ Smooth

\* The connection is there and the key leaves; only trust checks once more.
Write(c) ==
    /\ pc[c] = "connect" /\ (use[c] = 0 => ~held)
    /\ keys' = Append(keys, key[c]) /\ Go(c, "written")
    /\ pressed' = Append(pressed, use[c])
    /\ UNCHANGED <<screen, cards, rev, held, store, seen, use, key, at, pane, round>> /\ Smooth
TrustVetoed ==
    /\ pc["hook"] = "connect" /\ use["hook"] = 0 /\ held /\ Drop("hook", FALSE)
    /\ UNCHANGED <<world, ident, at, pressed>> /\ Smooth

\* The readback: the question is gone, or the marked row is another one.
Changed(c) == screen.q # SightOf(c).q \/ screen.row # SightOf(c).row
Unknown(c) ==
    IF use[c] = 0 THEN trust' = [trust EXCEPT !.st = "uncertain"] /\ UNCHANGED <<appr, auto>>
    ELSE appr' = Invalidated(appr) /\ NotExecuted(c, "unknown") /\ UNCHANGED trust

ReadBack(c) ==
    /\ pc[c] = "written" /\ Free(c)
    /\ \/ Changed(c) /\ Smooth /\ Go(c, "refresh") /\ UNCHANGED <<appr, auto, trust, Locals>>
       \/ Unknown(c) /\ Leave(c) /\ IF Changed(c) THEN Trouble ELSE Smooth
    /\ UNCHANGED <<world, ident, at, pressed>>
NotConnected(c) ==
    /\ pc[c] = "connect" /\ Trouble /\ Free(c) /\ Leave(c)
    /\ IF use[c] = 0 THEN trust' = [trust EXCEPT !.st = "none"] /\ UNCHANGED <<appr, auto>> ELSE Unknown(c)
    /\ UNCHANGED <<world, ident, at, pressed>>

\* refreshNavigation, or the end of trust: every card of the pane is void; a
\* menu that is still there gets an approval of its own.
Refresh(c) ==
    LET n == use[c]
        done == [k \in DOMAIN appr |-> IF k # n THEN Void(appr[k])
                    ELSE [Void(appr[k]) EXCEPT !.confirmed = TRUE, !.nav = Blocked(screen)]]
        m == Create(done, ident, screen)
        void == n # 0 /\ appr[n].invalid        \* somebody made it void meanwhile
        lost == n # 0 /\ ~void /\ ~Changed(c)    \* the old menu is back
    IN
    /\ pc[c] = "refresh" /\ Leave(c)
    /\ IF lost THEN Unknown(c) /\ UNCHANGED ident
       ELSE /\ trust' = IF n = 0 THEN [trust EXCEPT !.st = "done"] ELSE trust
            /\ auto' = IF n # 0 /\ c = "hook" THEN [auto EXCEPT !.st = "executed"] ELSE auto
            /\ IF void THEN UNCHANGED <<appr, ident>>
               ELSE IF n = 0 \/ ~Blocked(screen) \/ ~RoomFor(screen) THEN appr' = done /\ UNCHANGED ident
               ELSE appr' = m.appr /\ ident' = m.ident
    /\ UNCHANGED <<world, at, pane, pressed>> /\ Smooth
-----------------------------------------------------------------------------
(* The agent, its terminal, the user and the process *)

NextScreens(s) ==
    {[q |-> IF s.q = 0 THEN 0 ELSE x, row |-> 1, seq |-> y] :
        x \in {0} \cup ((s.q + 1)..MaxQuestions), y \in {s.seq} \cup ((s.seq + 1)..MaxSeq)}
\* A key may do nothing; "down" moves the mark, "pick" answers the question.
Handle ==
    /\ keys # <<>> /\ keys' = Tail(keys)
    /\ \/ Head(keys) = "down" /\ Blocked(screen) /\ screen' = [screen EXCEPT !.row = 3 - @]
       \/ Head(keys) = "pick" /\ Blocked(screen) /\ screen' \in NextScreens(screen)
       \/ UNCHANGED screen
    /\ UNCHANGED <<cards, rev, held, store, caller, luck, moves, pressed>>

\* Somebody types in the terminal, or the agent goes on by itself.
Native ==
    /\ Move
    /\ screen' \in NextScreens(screen) \cup {[screen EXCEPT !.seq = IF @ < MaxSeq THEN @ + 1 ELSE @]}
    /\ UNCHANGED <<keys, cards, rev, held, store, caller, pressed>>
\* A message, a pause, a queued control, a revoked owner - and its end.
Say == Move /\ rev' = rev + 1 /\ UNCHANGED <<screen, keys, cards, held, store, caller, pressed>>
Hold == Move /\ held' = ~held /\ UNCHANGED <<screen, keys, cards, rev, store, caller, pressed>>

Crash ==
    /\ Trouble /\ pc' = [c \in Callers |-> "off"] /\ pane' = "free"
    /\ seen' = [c \in Callers |-> NoSight] /\ use' = [c \in Callers |-> 0]
    /\ key' = [c \in Callers |-> "pick"] /\ round' = [c \in Callers |-> 0]
    /\ UNCHANGED <<world, store, at, pressed>>

Answer(c) ==
    \/ Ask(c) \/ Enter(c) \/ Validate(c) \/ Look(c) \/ Before(c) \/ LookTrust(c)
    \/ Write(c) \/ ReadBack(c) \/ NotConnected(c) \/ Refresh(c)
Next ==
    \/ Observe \/ AskTrust \/ Select \/ NoSelect \/ Publish \/ TrustVetoed
    \/ Handle \/ Native \/ Say \/ Hold \/ Crash
    \/ \E p \in {"sent", "retryable", "uncertain"} : Posted(p)
    \/ \E n \in Nonces, k \in Keys : Click(n, k)
    \/ \E c \in Callers : Answer(c)
Spec == Init /\ [][Next]_vars
-----------------------------------------------------------------------------
\* One approval lets one key through, whoever uses it, through crashes and
\* cards that are asked about again; and a directory is trusted once.
OneKeyEach ==
    \A i, j \in DOMAIN pressed : i # j => pressed[i] # pressed[j]

\* After a key that went out at one state of the agent the next one goes out
\* at that state only when the first was seen to have worked.
NextKeyAfterProof ==
    \A i, j \in DOMAIN pressed :
        /\ i < j /\ pressed[i] # 0 /\ pressed[j] # 0
        /\ appr[pressed[i]].sight.seq = appr[pressed[j]].sight.seq
        => appr[pressed[i]].confirmed

\* After an automatic key whose effect is not known nothing is pressed without
\* the user: neither by the selector nor by the startup trust.
UnknownFreezes ==
    [][Len(pressed') > Len(pressed) /\ pc["hook"] = "connect" /\ pc'["hook"] = "written" =>
        /\ auto.st # "uncertain"
        /\ trust.st # "uncertain"
        /\ (use["hook"] = 0 => \A i \in DOMAIN pressed : pressed[i] # 0)]_vars

\* No automatic key leaves after the user said or queued something.
VetoHolds ==
    [][Len(pressed') > Len(pressed) /\ pc["hook"] = "connect" /\ pc'["hook"] = "written" =>
        ~held /\ (use["hook"] # 0 => rev = at)]_vars
=============================================================================
