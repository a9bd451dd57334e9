------------------------------ MODULE Transcript ------------------------------
(* What the model is shown.  A turn (sessions.ts) or a leader's activation      *)
(* (leader-session-engine.ts) runs the engine's loop: each request carries a    *)
(* view of the transcript that fits the budget, older rows folded into one      *)
(* summary; every row that ends is written to a checkpoint; a result too large  *)
(* for a message is replaced by a durable reference or, when it cannot be       *)
(* stored, by a marker that stops the turn.  After a crash the transcript is    *)
(* rebuilt from the checkpoint and the receipts of the calls.  A row is         *)
(* reduced to its role, the calls it holds, and how a result reads.             *)
EXTENDS Integers, Sequences, FiniteSets, SequencesExt

CONSTANTS
  Kinds,      \* which callers are studied: "chat", "leader"
  Calls,      \* the calls the model may make, each once: 1..n
  Large,      \* those whose result no message can hold
  History,    \* rows of earlier conversation
  Budget,     \* rows one request may carry
  MaxRows,    \* rows a leader's checkpoint may hold
  MaxRuns,    \* times a turn may be run
  MaxLuck     \* writes, summaries and providers that fail

VARIABLES
  kind,       \* whose transcript it is
  pc,         \* where the run stands
  live,       \* the rows the engine holds in memory
  fold,       \* the first row kept, and what the summary before it tells
  saved,      \* the checkpoint
  sent,       \* the last request the provider received
  left,       \* calls of the last answer that have not run
  op,         \* each call's receipt
  stored,     \* results kept in the result store
  uncertain,  \* a write of this run may or may not have happened
  halted,     \* why no further request may be sent
  again,      \* the answer was sent back once for its claims
  runs, luck

vars == <<kind, pc, live, fold, saved, sent, left, op, stored, uncertain, halted, again,
          runs, luck>>

TranscriptAssumption ==
  /\ Kinds \subseteq {"chat", "leader"} /\ Large \subseteq Calls
  /\ Calls \subseteq Nat /\ IsFiniteSet(Calls)
  /\ {History, Budget, MaxRows, MaxRuns, MaxLuck} \subseteq Nat

-----------------------------------------------------------------------------
(* Rows. *)
Row(role, calls, says, body) ==
  [role |-> role, calls |-> calls, says |-> says, body |-> body, told |-> {}]
User(role) == Row(role, <<>>, "", "")          \* "old", "request" or "again"
Result(c, says, body) == Row("result", <<c>>, says, body)
Summary(told) == [User("summary") EXCEPT !.told = told]
IsUser(r) == r.role \in {"old", "request", "again", "summary"}
Told(rows) == UNION {rows[i].told \cup (IF rows[i].role = "result" THEN {rows[i].calls[1]} ELSE {}) :
                     i \in 1..Len(rows)}

NoFold == [from |-> 1, told |-> {}]

(* The rows a request carries: those before the fold are one summary. *)
View(rows, f) ==
  IF f.from = 1 THEN rows
  ELSE <<Summary(f.told)>> \o SubSeq(rows, f.from, Len(rows))

(* The fold ends at the last row of the user. *)
\* Mutant: it ends at the last row.
BoundaryAnywhere(rows) == Len(rows)
Boundary(rows) ==
  CHOOSE i \in 1..Len(rows) : IsUser(rows[i]) /\ \A j \in (i + 1)..Len(rows) : ~IsUser(rows[j])

Folded(rows, f) ==
  [from |-> Boundary(rows), told |-> f.told \cup Told(SubSeq(rows, f.from, Boundary(rows) - 1))]

-----------------------------------------------------------------------------
(* The leader's checkpoint. *)

(* The current request comes first, once. *)
\* Mutant: it stays where it was, among the rows that may be dropped.
PinnedNot(rows) == [pinned |-> <<>>, rest |-> rows]
Pinned(rows) ==
  [pinned |-> <<User("request")>>,
   rest |-> FlattenSeq([i \in 1..Len(rows) |->
                          IF rows[i].role = "request" THEN <<>> ELSE <<rows[i]>>])]

(* A batch is an answer with the results that follow it, or one row. *)
Starts(rows) == {i \in 1..Len(rows) : i = 1 \/ rows[i].role # "result"}

(* Whole batches are dropped, oldest first, until the rest fits beside the      *)
(* summary of what was dropped.  The last batch is summarised only when it is   *)
(* the only one.                                                                *)
Capped(pinned, rows) ==
  LET n == Len(rows)
      Kept(cut) == SubSeq(rows, cut, n)
      Fits(cut) == Len(pinned) + (n + 1 - cut) + (IF cut > 1 THEN 1 ELSE 0) <= MaxRows
      Cuts == {cut \in Starts(rows) \cup {1, n + 1} : Fits(cut) \/ cut = n + 1}
      cut == CHOOSE c \in Cuts : \A d \in Cuts : c <= d
      last == CHOOSE i \in Starts(rows) \cup {1} : \A j \in Starts(rows) : j <= i
      gone == IF cut = n + 1 /\ last > 1 THEN last ELSE cut
  IN  pinned \o Kept(cut)
      \o (IF cut > 1 THEN <<Summary(Told(SubSeq(rows, 1, gone - 1)))>> ELSE <<>>)

Kept(rows) ==
  IF kind = "chat" THEN rows
  ELSE LET p == Pinned(rows) IN Capped(p.pinned, p.rest)

-----------------------------------------------------------------------------
(* Recovery. *)

Archived(c, fails) == c \in Large => ~fails \/ c \in stored
Body(c, fails) == IF c \notin Large THEN "whole" ELSE IF Archived(c, fails) THEN "reference" ELSE "marker"

(* A call without its result is closed from its receipt: a leader does not      *)
(* take a missing receipt for proof that nothing happened.                      *)
\* Mutant: a call whose result was not recorded is taken not to have happened.
ClosedUndone(c, fails) == Result(c, "not_executed", "whole")
Closed(c, fails) ==
  IF op[c] = "done" THEN Result(c, "done", Body(c, fails))
  ELSE Result(c, IF kind = "leader" /\ op[c] = "none" THEN "unknown" ELSE "not_executed", "whole")

(* The row a result belongs to is the nearest before it that is not a result. *)
Owner(rows, i) ==
  CHOOSE j \in 0..(i - 1) :
    /\ j = 0 \/ rows[j].role # "result"
    /\ \A h \in (j + 1)..(i - 1) : rows[h].role = "result"

RecoveredRow(rows, i, fails) ==
  LET r == rows[i]
      own == Owner(rows, i)
      mine(c) == {j \in (i + 1)..Len(rows) :
                    rows[j].role = "result" /\ Owner(rows, j) = i /\ rows[j].calls = <<c>>}
      Answer(c) == IF mine(c) = {} THEN Closed(c, fails) ELSE rows[CHOOSE j \in mine(c) : TRUE]
  IN  CASE r.role = "broken" -> <<>>
        [] r.role = "answer" -> <<r>> \o [k \in 1..Len(r.calls) |-> Answer(r.calls[k])]
        [] r.role = "result" /\ own > 0 /\ rows[own].role \in {"answer", "broken"} -> <<>>
        [] OTHER -> <<r>>

Recovered(rows, fails) == FlattenSeq([i \in 1..Len(rows) |-> RecoveredRow(rows, i, fails)])

-----------------------------------------------------------------------------
Init ==
  /\ kind \in Kinds
  /\ pc = "idle" /\ live = <<>> /\ fold = NoFold /\ saved = <<>> /\ sent = <<>> /\ left = <<>>
  /\ op = [c \in Calls |-> "none"]
  /\ stored = {} /\ uncertain = FALSE /\ halted = "no" /\ again = FALSE
  /\ runs = 0 /\ luck = MaxLuck

Trouble == luck > 0 /\ luck' = luck - 1
Fresh == pc' = "ask" /\ sent' = <<>> /\ left' = <<>> /\ fold' = NoFold /\ halted' = "no" /\ again' = FALSE
Unchanged(rest) == UNCHANGED <<kind, op, stored, runs>> /\ UNCHANGED rest

(* A row ends: it is in the transcript, and the checkpoint is written; a write  *)
(* that fails ends the run.                                                     *)
Ends(row, next) ==
  /\ live' = Append(live, row)
  /\ \/ saved' = Kept(View(live', fold)) /\ pc' = next /\ UNCHANGED <<halted, luck>>
     \/ Trouble /\ UNCHANGED saved /\ pc' = "settle"
        /\ halted' = IF halted = "no" THEN "checkpoint" ELSE halted

Begin ==
  /\ pc = "idle" /\ runs = 0 /\ runs' = 1
  /\ live' = [i \in 1..(History + 1) |-> User(IF i > History THEN "request" ELSE "old")]
  /\ saved' = Kept(live')
  /\ Fresh /\ uncertain' = FALSE
  /\ UNCHANGED <<kind, op, stored, luck>>

(* The next request: what fits is sent; what does not is folded, and the fold   *)
(* is in the checkpoint before the request that depends on it.                  *)
Ask ==
  /\ pc = "ask" /\ halted = "no"
  /\ Len(View(live, fold)) <= Budget
  /\ sent' = View(live, fold) /\ pc' = "think"
  /\ Unchanged(<<live, fold, saved, left, uncertain, halted, again, luck>>)

\* Mutant: the fold is written with the next row that ends.
PersistedLater(rows) == UNCHANGED saved
Persisted(rows) == saved' = Kept(rows)

Foldable == Boundary(live) > fold.from
AskFolded ==
  /\ pc = "ask" /\ halted = "no"
  /\ Len(View(live, fold)) > Budget /\ Foldable
  /\ fold' = Folded(live, fold)
  /\ LET v == View(live, fold') IN
       /\ Persisted(v)
       /\ IF Len(v) <= Budget THEN sent' = v /\ pc' = "think" /\ UNCHANGED halted
          ELSE halted' = "budget" /\ UNCHANGED <<sent, pc>>
  /\ Unchanged(<<live, left, uncertain, again, luck>>)

(* Nothing can be folded, the summary or its checkpoint failed. *)
CannotAsk ==
  /\ pc = "ask" /\ halted = "no"
  /\ Len(View(live, fold)) > Budget
  /\ \/ ~Foldable /\ halted' = "budget" /\ UNCHANGED <<fold, luck>>
     \/ Foldable /\ Trouble /\ halted' = "budget" /\ UNCHANGED fold
     \/ Foldable /\ Trouble /\ halted' = "checkpoint" /\ fold' = Folded(live, fold)
  /\ Unchanged(<<pc, live, saved, sent, left, uncertain, again>>)

(* A request that must not be sent ends the loop with a broken answer. *)
Refuse ==
  /\ pc = "ask" /\ halted # "no"
  /\ Ends(Row("broken", <<>>, "", ""), "settle")
  /\ Unchanged(<<fold, sent, left, uncertain, again>>)

(* The provider answers: a text, one or two calls, or it fails. *)
Unused == {c \in Calls : \A i \in 1..Len(live) : c \notin ToSet(live[i].calls)} \ Told(live)
Ready == {c \in Unused : op[c] = "none"}
Batches(n) ==   \* the first n of them
  {s \in [1..n -> Ready] :
     \A c \in Ready : \A k \in 1..n : c < s[k] <=> \E j \in 1..(k - 1) : s[j] = c}
Speak == pc = "think" /\ Ends(Row("text", <<>>, "", ""), "settle")
         /\ Unchanged(<<fold, sent, left, uncertain, again>>)
Call ==
  /\ pc = "think"
  /\ \E n \in 1..2 : \E batch \in Batches(n) :
       Ends(Row("answer", batch, "", ""), "tools") /\ left' = batch
  /\ Unchanged(<<fold, sent, uncertain, again>>)
Break == pc = "think" /\ Ends(Row("broken", <<>>, "", ""), "settle")
         /\ Unchanged(<<fold, sent, left, uncertain, again>>)

(* A call runs: its receipt first, then the effect, then its result.            *)
Start ==
  /\ pc = "tools" /\ left # <<>> /\ op[Head(left)] = "none" /\ ~uncertain
  /\ op' = [op EXCEPT ![Head(left)] = "pending"]
  /\ UNCHANGED <<kind, pc, live, fold, saved, sent, left, stored, uncertain, halted, again, runs, luck>>

Returned(c, says, body) ==
  /\ left' = Tail(left)
  /\ Ends(Result(c, says, body), IF Len(left) > 1 THEN "tools" ELSE "ask")

(* A result no message holds is stored and shown by reference; one that cannot  *)
(* be stored is a marker, and no request follows it.                            *)
\* Mutant: the turn goes on with the marker.
HaltsNot(c, fails) == halted
Halts(c, fails) == IF halted = "no" /\ ~Archived(c, fails) THEN "lossy" ELSE halted
Return ==
  /\ pc = "tools" /\ left # <<>> /\ op[Head(left)] = "pending"
  /\ LET c == Head(left) IN
       \E fails \in BOOLEAN :
         /\ fails => luck > 0 /\ c \in Large
         /\ op' = [op EXCEPT ![c] = "done"]
         /\ stored' = IF c \in Large /\ ~fails THEN stored \cup {c} ELSE stored
         /\ left' = Tail(left)
         /\ live' = Append(live, Result(c, "done", Body(c, fails)))
         /\ saved' = Kept(View(live', fold))
         /\ halted' = Halts(c, fails)
         /\ luck' = IF fails THEN luck - 1 ELSE luck
         /\ pc' = IF Len(left) > 1 THEN "tools" ELSE "ask"
  /\ UNCHANGED <<kind, fold, sent, uncertain, again, runs>>

(* A result whose row cannot be written. *)
ReturnUnsaved ==
  /\ pc = "tools" /\ left # <<>> /\ op[Head(left)] = "pending" /\ Trouble
  /\ LET c == Head(left) IN
       /\ op' = [op EXCEPT ![c] = "done"]
       /\ stored' = IF c \in Large THEN stored \cup {c} ELSE stored
       /\ live' = Append(live, Result(c, "done", Body(c, FALSE)))
  /\ left' = <<>> /\ pc' = "settle" /\ halted' = IF halted = "no" THEN "checkpoint" ELSE halted
  /\ UNCHANGED <<kind, fold, saved, sent, uncertain, again, runs>>

(* The call is refused or its end is unknown; after an unknown one no write     *)
(* begins.                                                                      *)
ReturnNothing ==
  /\ pc = "tools" /\ left # <<>>
  /\ LET c == Head(left) IN
       \/ /\ op[c] = "pending"
          /\ op' = [op EXCEPT ![c] = "unknown"] /\ uncertain' = TRUE
          /\ Returned(c, "unknown", "whole")
       \/ /\ op[c] = "none" /\ uncertain
          /\ Returned(c, "not_executed", "whole") /\ UNCHANGED <<op, uncertain>>
  /\ UNCHANGED <<kind, fold, sent, stored, again, runs>>

(* The loop ended.  An answer that claims more than its tools show is sent      *)
(* back once; a leader's is not.                                                *)
Claims ==
  /\ pc = "settle" /\ halted = "no" /\ live[Len(live)].role = "text"
  /\ kind = "chat" /\ ~again /\ again' = TRUE
  /\ Ends(User("again"), "ask")
  /\ Unchanged(<<fold, sent, left, uncertain>>)

Rest(p) == pc' = p /\ live' = <<>> /\ sent' = <<>> /\ left' = <<>> /\ fold' = NoFold
           /\ halted' = "no" /\ again' = FALSE /\ uncertain' = FALSE
           /\ UNCHANGED <<kind, saved, op, stored, runs, luck>>
Finish == pc = "settle" /\ halted = "no" /\ live[Len(live)].role = "text" /\ Rest("finished")
Fail ==
  /\ pc = "settle" /\ (halted # "no" \/ live[Len(live)].role # "text")
  /\ Rest(IF kind = "chat" /\ halted \in {"budget", "lossy"} THEN "refused" ELSE "down")
Crash == pc \notin {"idle", "down", "refused", "finished"} /\ Rest("down")

(* The turn is taken up again, unless a call of it is not settled: what the     *)
(* checkpoint holds is completed from the receipts, and the model is asked to   *)
(* go on.                                                                       *)
Resume ==
  /\ pc = "down" /\ runs < MaxRuns /\ runs' = runs + 1
  /\ \A c \in Calls : op[c] \notin {"pending", "unknown"}
  /\ \E fails \in BOOLEAN :
       LET base == Kept(saved)
           rows == Recovered(base, fails)
       IN  /\ fails => luck > 0
           /\ luck' = IF fails THEN luck - 1 ELSE luck
           /\ stored' = IF fails THEN stored
                        ELSE stored \cup {c \in Large : c \in Told(rows) /\ c \notin Told(base)}
           /\ uncertain' = \E i \in 1..Len(rows) : rows[i].role = "result" /\ rows[i].says = "unknown"
           /\ live' = Append(rows, User("again"))
           /\ saved' = Kept(live')
  /\ Fresh
  /\ UNCHANGED <<kind, op>>

Next ==
  \/ Begin \/ Ask \/ AskFolded \/ CannotAsk \/ Refuse \/ Speak \/ Call \/ Break
  \/ Start \/ Return \/ ReturnUnsaved \/ ReturnNothing
  \/ Claims \/ Finish \/ Fail \/ Crash \/ Resume
Spec == Init /\ [][Next]_vars

-----------------------------------------------------------------------------
(* A request pairs every call of an answer with its result, in order, and       *)
(* holds no result without its call: the fold and the recovery split no batch.  *)
Paired ==
  \A i \in 1..Len(sent) :
    /\ sent[i].role = "answer" =>
         \A k \in 1..Len(sent[i].calls) :
           i + k <= Len(sent) /\ sent[i + k].role = "result" /\ sent[i + k].calls = <<sent[i].calls[k]>>
    /\ sent[i].role = "result" =>
         \E j \in 1..(i - 1) : \E k \in 1..Len(sent[j].calls) :
           sent[j].role = "answer" /\ j + k = i /\ sent[j].calls[k] = sent[i].calls[1]

(* What a request says of a call is what happened: nothing that was done reads  *)
(* as not executed, nothing else reads as done, and (in a chat) nothing done is *)
(* missing from it.                                                             *)
ToldTruly ==
  /\ \A i \in 1..Len(sent) :
       sent[i].role = "result" => ((sent[i].says = "done") <=> (op[sent[i].calls[1]] = "done"))
  /\ pc = "think" /\ kind = "chat" => {c \in Calls : op[c] = "done"} \subseteq Told(sent)

(* While the provider works on a chat's request, the checkpoint holds exactly   *)
(* that request: a crash takes up what was asked, not an unfolded history.      *)
SavedIsSent == pc = "think" /\ kind = "chat" => saved = sent

(* A leader's checkpoint begins with the request of the activation, once.       *)
PinStays ==
  kind = "leader" /\ saved # <<>> =>
    saved[1].role = "request" /\ \A i \in 2..Len(saved) : saved[i].role # "request"

(* A result whose body could be neither shown nor stored is in no later request *)
(* of the run that lost it: a marker in a request was in the one before.        *)
Markers(rows) == {rows[i].calls : i \in {j \in 1..Len(rows) : rows[j].body = "marker"}}
LossStops == [][sent # <<>> => Markers(sent') \subseteq Markers(sent)]_vars

(* The user's request itself is in every request to the provider, whatever was  *)
(* folded: engine.ts says it is never summarised away.                          *)
RequestStays == pc = "think" => \E i \in 1..Len(sent) : sent[i].role = "request"

(* What a leader's checkpoint dropped is told by the summary in its place.      *)
DroppedIsTold == pc = "think" /\ kind = "leader" => {c \in Calls : op[c] = "done"} \subseteq Told(sent)
=============================================================================
