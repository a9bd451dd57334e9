----------------------------- MODULE TaskClosing -----------------------------
(***************************************************************************)
(* How one task with a chat group and a remote (Feishu) task ends:         *)
(* tasks/lifecycle.ts, driven by reconcile() and action() of               *)
(* tasks/service.ts.  Both run under the mutex of the task, so they are    *)
(* one process here, `pc`, that stops at every await; messages, the remote *)
(* side, decisions about unknown outcomes and crashes come in between.     *)
(*                                                                         *)
(* The statuses starting, running, review, paused, blocked and attention   *)
(* are one here, "active".  Receipts follow Operations.tla, reduced to the *)
(* one caller the mutex admits.  A field that reconcile() changes shortly  *)
(* before its next save is saved at once: the only such field that a crash *)
(* can lose (groupRetentionSource) is computed again from the same rows.   *)
(* Panes that a task gets while it runs are there from the start, and a    *)
(* message that is submitted twice (task_actions) is one action.           *)
(***************************************************************************)
EXTENDS Integers, FiniteSets

CONSTANTS
    Participants,
    Origins,         \* groupRetentionSource of the task at the start
    MaxTroubles,     \* bound: lost and refused requests, failed reads, crashes
    MaxArrivals      \* bound: messages that reach or leave the chat by themselves

ASSUME ClosingAssumption ==
    /\ IsFiniteSet(Participants)
    /\ Origins \subseteq {"explicit", "default", "legacy"}
    /\ MaxTroubles \in Nat
    /\ MaxArrivals \in Nat

VARIABLES
    row,        \* the task row
    old,        \* what rows of earlier versions say about keeping the group
    part,       \* participant -> status
    close,      \* participant -> receipt of `${participant}:close`
    del,        \* receipt of `${task}:delete-group`
    sync,       \* completion_sync with the receipt it names
    past,       \* an earlier completion write never got its answer
    told,       \* the two notices: before_close, before_group_delete
    talk,       \* inbox and outbox rows of the chat
    pc,         \* where the holder of the task's mutex waits
    via,        \* "reconcile" or "action"
    todo,       \* participants closeTask has not come to
    cur,        \* participant whose pane is being closed
    answer,     \* "unknown" when that is what the last retry action was told
    pane, chat, remote,   \* the other side: panes, the group, remote completion
    wire,       \* requests that may still take effect
    luck, room  \* what is left of MaxTroubles and MaxArrivals

rows  == <<row, old, part, close, del, sync, past, told>>
world == <<pane, chat, remote, wire>>
vars  == <<rows, talk, pc, via, todo, cur, answer, world, luck, room>>

Receipts == [state : {"none", "pending", "done", "failed", "uncertain"},
             choice : {"none", "treat_done", "retry", "abandon"}, again : BOOLEAN]
NoReceipt == [state |-> "none", choice |-> "none", again |-> FALSE]

Rows == [st : {"active", "completed", "destroying", "destroyed"},
         req : {"none", "complete", "reopen"},   \* completionRequest
         close : BOOLEAN,                        \* closeRequested
         keep : BOOLEAN,                         \* keepGroup
         src : {"explicit", "default", "legacy"},\* groupRetentionSource
         acc : BOOLEAN,                          \* completedAt is set
         dead : BOOLEAN]                         \* groupDeleted

Places == {"free", "group", "sync", "patch", "again", "remote", "close",
           "observe", "notice", "evidence", "panes", "closing", "barrier",
           "notify", "recheck", "deleting", "deleted", "finish", "rest"}

TypeOK ==
    /\ row \in Rows
    /\ old \in {"none", "keep", "drop", "keepAll"}
    /\ part \in [Participants -> {"live", "gone", "removed"}]
    /\ close \in [Participants -> Receipts]
    /\ del \in Receipts
    /\ sync \in [req : {"none", "complete", "reopen"}, op : Receipts]
    /\ past \in BOOLEAN
    /\ told \in [close : {"none", "lost", "done"}, delete : {"none", "refused", "lost", "done"}]
    /\ talk \in [in : {"clear", "open", "stuck"}, out : {"clear", "open", "stuck"}]
    /\ pc \in Places
    /\ via \in {"reconcile", "action"}
    /\ todo \subseteq Participants
    /\ cur \in Participants
    /\ answer \in {"none", "unknown"}
    /\ pane \in [Participants -> {"none", "open", "closed"}]
    /\ chat \in {"alive", "dissolved"}
    /\ remote \in BOOLEAN
    /\ wire \in [panes : SUBSET Participants, group : BOOLEAN, patch : SUBSET BOOLEAN]
    /\ luck \in 0..MaxTroubles
    /\ room \in 0..MaxArrivals

Closing == row.st \in {"destroying", "destroyed"}
Busy    == pc # "free"

\* A receipt without an outcome, and one that nobody decided about either.
Kept(r)    == r.state \in {"pending", "uncertain"}
Unknown(r) == Kept(r) /\ r.choice = "none"
InFlight(p) == pc = "closing" /\ cur = p

Init ==
    /\ row \in {r \in Rows : /\ r.src \in Origins
                             /\ r.req = "none" /\ ~r.close /\ ~r.dead
                             /\ r.st \in {"active", "completed"}
                             /\ r.acc = (r.st = "completed")
                             /\ r.st = "completed" => r.src = "legacy"}
    /\ old \in IF row.src = "legacy" THEN {"none", "keep", "drop", "keepAll"} ELSE {"none"}
    /\ pane \in [Participants -> {"none", "open", "closed"}]
    /\ part = [p \in Participants |-> IF pane[p] = "closed" THEN "removed" ELSE "live"]
    /\ close = [p \in Participants |->
                   IF pane[p] = "closed" THEN [NoReceipt EXCEPT !.state = "done"] ELSE NoReceipt]
    /\ del = NoReceipt
    /\ sync = [req |-> "none", op |-> NoReceipt]
    /\ past = FALSE
    /\ told = [close |-> "none", delete |-> "none"]
    /\ talk = [in |-> "clear", out |-> "clear"]
    /\ pc = "free" /\ via = "reconcile" /\ todo = {}
    /\ cur \in Participants   \* read only in "closing"
    /\ answer = "none"
    /\ chat = "alive"
    /\ remote = row.acc
    /\ wire = [panes |-> {}, group |-> FALSE, patch |-> {}]
    /\ luck = MaxTroubles
    /\ room = MaxArrivals

Trouble == luck > 0 /\ luck' = luck - 1

\* An error ends reconcile() or action(); its text is saved in the row.
Throw == pc' = "free" /\ via' = "reconcile" /\ todo' = {}
Fails == Throw /\ UNCHANGED <<rows, talk, cur, answer, world, room>>

Move(from, to) ==
    /\ pc = from /\ pc' = to
    /\ UNCHANGED <<rows, talk, via, todo, cur, answer, world, luck, room>>
-----------------------------------------------------------------------------
(* requestAction *)

\* resolveGroupRetention: a task of an earlier version keeps its group only
\* if one of its recorded actions said so.
Resolved(r) ==
    IF r.src # "legacy" THEN r
    ELSE [r EXCEPT !.keep = old \in {"keep", "keepAll"},
                   !.src = IF old = "none" THEN "default" ELSE "explicit"]

Ending == {"complete", "close", "destroy"}

\* The chat of a destroyed task that kept it is to be closed after all.
ClosesKept(a, word) ==
    /\ row.st = "destroyed" /\ ~row.dead /\ word = "drop"
    /\ a = "destroy" \/ (a = "close" /\ row.acc)

WithWord(a, word) ==
    LET said == IF word = "none" THEN row
                ELSE [row EXCEPT !.keep = (word = "keep"), !.src = "explicit"]
    IN IF a \in Ending THEN Resolved(said) ELSE said

\* group_deletion_started: too late to keep a group.
\* Mutant: the receipt of the deletion is not looked at.
KeepableByRow(word) == word = "keep" => ~row.dead
Keepable(word) == word = "keep" => ~row.dead /\ del.state \in {"none", "failed"}

\* task_destroyed, with the one exception.
Lives(a, word) == row.st = "destroyed" => ClosesKept(a, word)

Allows(a, word, exec) ==
    /\ Lives(a, word)
    /\ exec => a = "complete" /\ row.st # "destroying"
    /\ word # "none" => a \in Ending
    /\ Keepable(word)
    /\ exec => WithWord(a, word).keep /\ ~row.dead
    /\ row.st = "destroying" => a = "destroy" \/ (a \in {"complete", "close"} /\ row.close)
    /\ row.st = "completed" => a # "retry"

\* After the mutation action() synchronises the completion at once.
SyncDue(r) == r.req # "none" /\ r.st \notin {"destroying", "destroyed"}

Mutate(r) ==
    /\ row' = r
    /\ answer' = "none"
    /\ IF SyncDue(r) THEN pc' = "sync" /\ via' = "action" ELSE UNCHANGED <<pc, via>>
    /\ UNCHANGED <<old, part, close, del, told, talk, todo, cur, world, luck, room>>

\* A repeated end of a task that is being cleaned up, the end of a kept chat,
\* and destroy, which drops the completion it overtakes.
End(a, word) ==
    /\ ~Busy /\ a \in Ending
    /\ Allows(a, word, FALSE)
    /\ Closing \/ a = "destroy"
    /\ UNCHANGED <<sync, past>>
    /\ LET r == WithWord(a, word) IN
       Mutate(IF row.st = "destroying" /\ a # "destroy" THEN r
              ELSE [r EXCEPT !.st = "destroying", !.req = "none", !.close = FALSE])

\* Mutant: the request is named after the action.
GoalByName(a) == a

Goal(a) == IF a = "reopen" THEN "reopen" ELSE "complete"

\* Mutant: an opposite request does not look at the receipt of the one before.
MayTurnAlways(goal) == TRUE

\* completion_pending: the opposite of a write that may have happened.
MayTurn(goal) ==
    \/ row.req \in {"none", goal}
    \/ sync.op.state \in {"none", "failed"}

\* complete, close and reopen: a repeated request goes on with its target and
\* only clears a refusal, any other request gets a target of its own.
Request(a, word, exec) ==
    /\ ~Busy /\ ~Closing /\ a \in {"complete", "close", "reopen"}
    /\ Allows(a, word, exec)
    /\ MayTurn(Goal(a))
    /\ IF row.req = Goal(a)
       THEN /\ sync' = IF sync.op.state = "failed" THEN [sync EXCEPT !.op = NoReceipt] ELSE sync
            /\ UNCHANGED past
       ELSE /\ sync' = [req |-> Goal(a), op |-> NoReceipt]
            /\ past' = (past \/ Kept(sync.op))
    /\ Mutate([WithWord(a, word) EXCEPT
                  !.req = Goal(a), !.close = (a = "close" \/ (a = "complete" /\ ~exec))])

\* resetFailed() of every receipt of the task refuses while a row has no
\* outcome, whether or not somebody decided about it.
SomeKept == past \/ Kept(sync.op) \/ Kept(del) \/ \E p \in Participants : Kept(close[p])

RetryTask ==
    /\ ~Busy
    /\ Allows("retry", "none", FALSE)
    /\ ~row.close
    /\ IF SomeKept
       THEN /\ answer' = "unknown"
            /\ UNCHANGED <<rows, talk, pc, via, todo, cur, world, luck, room>>
       ELSE /\ sync' = IF sync.op.state = "failed" THEN [sync EXCEPT !.op = NoReceipt] ELSE sync
            /\ UNCHANGED past
            /\ Mutate([row EXCEPT !.st = "active"])
-----------------------------------------------------------------------------
(* reconcile: the group, the completion, the remote task *)

Begin ==
    /\ ~Busy
    /\ pc' = "group"
    /\ answer' = "none"
    /\ UNCHANGED <<rows, talk, via, todo, cur, world, luck, room>>

AfterGroup(r) ==
    IF r.st = "destroyed" THEN "free" ELSE IF SyncDue(r) THEN "sync" ELSE "remote"

\* syncGroupState: a group that is gone, however it went, closes the task; the
\* read also settles a deletion whose answer was lost.
SeesDissolved ==
    /\ pc = "group"
    /\ IF row.dead THEN row.st # "destroyed" ELSE chat = "dissolved"
    /\ row' = [row EXCEPT !.dead = TRUE, !.req = "none", !.close = FALSE,
                          !.st = IF @ = "destroyed" THEN @ ELSE "destroying"]
    /\ del' = IF ~row.dead /\ Unknown(del) THEN [del EXCEPT !.choice = "treat_done"] ELSE del
    /\ pc' = AfterGroup(row')
    /\ UNCHANGED <<old, part, close, sync, past, told, talk, via, todo, cur, answer, world, luck, room>>

\* The group is there, or the polling interval has not passed.
SeesNoChange == (row.dead => row.st = "destroyed") /\ Move("group", AfterGroup(row))

\* A read of the platform fails: the group, the completion before or after the
\* write, or the agents and outputs of the participants.
ReadFails == pc \in {"group", "sync", "again", "observe"} /\ Trouble /\ Fails

SyncSkipped == via = "reconcile" /\ Move("sync", "remote")

Target == row.req = "complete"

\* The remote side is as requested: the status follows, and a write without an
\* answer is settled by this reading of its target.
\* Mutant: the write stays unknown.
ConfirmedUnsettled ==
    /\ row' = [row EXCEPT !.st = IF Target THEN "completed" ELSE "active",
                          !.acc = Target, !.req = "none"]
    /\ UNCHANGED sync

Confirmed ==
    /\ row' = [row EXCEPT !.st = IF Target THEN "completed" ELSE "active",
                          !.acc = Target, !.req = "none"]
    /\ sync' = IF Unknown(sync.op) THEN [sync EXCEPT !.op.choice = "treat_done"] ELSE sync

AfterSync == IF via = "action" THEN "free" ELSE "close"

Confirm ==
    /\ pc \in {"sync", "again"}
    /\ remote = Target
    /\ Confirmed
    /\ pc' = AfterSync /\ via' = "reconcile"
    /\ UNCHANGED <<old, part, close, del, past, told, talk, todo, cur, answer, world, luck, room>>

\* The write leaves under its receipt, or the receipt answers for it.
Write ==
    /\ pc = "sync" /\ remote # Target
    /\ sync.op.state = "none"
    /\ sync' = [sync EXCEPT !.op.state = "pending"]
    /\ wire' = [wire EXCEPT !.patch = @ \cup {Target}]
    /\ pc' = "patch"
    /\ UNCHANGED <<row, old, part, close, del, past, told, talk, via, todo, cur, answer, pane, chat, remote, luck, room>>

WrittenBefore ==
    /\ remote # Target
    /\ sync.op.state = "done" \/ sync.op.choice = "treat_done"
    /\ Move("sync", "again")

\* A refused write waits for the user, an unknown one for a reading of it.
WriteWaits ==
    /\ pc = "sync" /\ remote # Target
    /\ sync.op.state \in {"pending", "failed", "uncertain"} /\ sync.op.choice = "none"
    /\ Fails /\ UNCHANGED luck

WriteAnswered ==
    /\ pc = "patch" /\ Target \notin wire.patch
    /\ sync' = [sync EXCEPT !.op.state = "done"]
    /\ pc' = "again"
    /\ UNCHANGED <<row, old, part, close, del, past, told, talk, via, todo, cur, answer, world, luck, room>>

WriteRefused ==
    /\ pc = "patch" /\ Target \in wire.patch
    /\ Trouble /\ Throw
    /\ sync' = [sync EXCEPT !.op.state = "failed"]
    /\ wire' = [wire EXCEPT !.patch = @ \ {Target}]
    /\ UNCHANGED <<row, old, part, close, del, past, told, talk, cur, answer, pane, chat, remote, room>>

WriteLost ==
    /\ pc = "patch"
    /\ Trouble /\ Throw
    /\ sync' = [sync EXCEPT !.op.state = "uncertain"]
    /\ UNCHANGED <<row, old, part, close, del, past, told, talk, cur, answer, world, room>>

\* The write was answered and the target does not show: only read again.
NotYet ==
    /\ pc = "again" /\ remote # Target
    /\ pc' = AfterSync /\ via' = "reconcile"
    /\ UNCHANGED <<rows, talk, todo, cur, answer, world, luck, room>>

\* resolveCompletedRetention, for the completed tasks of earlier versions.
Retained(r) ==
    IF r.st = "completed" /\ r.req = "none" /\ r.src = "legacy"
    THEN [Resolved(r) EXCEPT !.close = (old # "keepAll")]
    ELSE r

ReadsRemote == row.req = "none" /\ row.st \in {"active", "completed"}
               /\ ~(row.st = "completed" /\ row.close)

\* readRemote: somebody ticked the remote task, which ends it like `close`.
RemoteDone ==
    /\ pc = "remote" /\ ReadsRemote
    /\ remote /\ ~row.acc
    /\ row' = [Resolved(row) EXCEPT !.acc = TRUE, !.st = "completed", !.close = TRUE]
    /\ pc' = "close"
    /\ UNCHANGED <<old, part, close, del, sync, past, told, talk, via, todo, cur, answer, world, luck, room>>

\* Nothing new, nothing to read, or not read in this poll.
RemoteSame == Move("remote", "close")

\* A failed read keeps the error for later and lets the clean-up go on; it
\* only ends a reconcile that has nothing to clean up.
RemoteFails ==
    /\ pc = "remote" /\ ReadsRemote
    /\ Trouble
    /\ row' = Retained(row)
    /\ pc' = IF row'.close THEN "close" ELSE "free"
    /\ UNCHANGED <<old, part, close, del, sync, past, told, talk, via, todo, cur, answer, world, room>>
-----------------------------------------------------------------------------
(* closeTask *)

\* Mutants: a task closes with its completion still to be synchronised; a
\* clean-up that a crash interrupted is not taken up again.
ClosesUnconfirmed(r) == r.st = "destroying" \/ r.close

ClosesOnce(r) == r.close /\ r.st = "completed" /\ r.req = "none"

\* The flag alone closes nothing: the completion has to be confirmed first.
Closes(r) == r.st = "destroying" \/ (r.close /\ r.st = "completed" /\ r.req = "none")

Close ==
    /\ pc \in {"close", "rest"}
    /\ LET r == Retained(row)
           c == [r EXCEPT !.close = @ \/ (pc = "rest" /\ r.st = "completed" /\ r.req = "none" /\ ~r.keep)]
       IN IF Closes(c)
          THEN /\ row' = Resolved([c EXCEPT !.st = "destroying"])
               /\ pc' = "observe"
          ELSE /\ row' = c
               /\ pc' = IF pc = "rest" \/ c.close THEN "free" ELSE "rest"
    /\ UNCHANGED <<old, part, close, del, sync, past, told, talk, via, todo, cur, answer, world, luck, room>>

\* observeTask: an agent that is not there any more is gone, though the shell
\* in its pane may still be.
Observe ==
    /\ pc = "observe"
    /\ \E exited \in SUBSET {p \in Participants : part[p] = "live" /\ pane[p] = "open"} :
          part' = [p \in Participants |->
                      IF p \in exited \/ (part[p] = "live" /\ pane[p] = "closed")
                      THEN "gone" ELSE part[p]]
    /\ pc' = IF row.dead \/ told.close = "done" THEN "evidence" ELSE "notice"
    /\ UNCHANGED <<row, old, close, del, sync, past, told, talk, via, todo, cur, answer, world, luck, room>>

\* before_close was delivered, or there was nothing to say, or no text for it.
CloseTold ==
    /\ pc = "notice" /\ told.close # "lost"
    /\ told' = [told EXCEPT !.close = "done"]
    /\ pc' = "evidence"
    /\ UNCHANGED <<row, old, part, close, del, sync, past, talk, via, todo, cur, answer, world, luck, room>>

\* Its delivery is refused, and tried again next time; or it is unknown, and
\* stays in the outbox.
CloseNotTold ==
    /\ pc = "notice" /\ told.close # "lost"
    /\ Trouble /\ Throw
    /\ \/ UNCHANGED <<told, talk>>
       \/ /\ told' = [told EXCEPT !.close = "lost"]
          /\ talk' = [talk EXCEPT !.out = "stuck"]
    /\ UNCHANGED <<row, old, part, close, del, sync, past, cur, answer, world, room>>

\* The outbox refuses to send it again; when the error text of the task has
\* changed the notice has a new id and is sent as a new message.
CloseTellAgain ==
    /\ pc = "notice" /\ told.close = "lost"
    /\ told' = [told EXCEPT !.close = "done"]
    /\ pc' = "evidence"
    /\ UNCHANGED <<row, old, part, close, del, sync, past, talk, via, todo, cur, answer, world, luck, room>>

CloseUnknown == pc = "notice" /\ told.close = "lost" /\ Fails /\ UNCHANGED luck

Provable(p) == Unknown(close[p]) /\ ~InFlight(p) /\ pane[p] = "closed"

Decided(p, c) == [close EXCEPT ![p].choice = c]

\* reconcileUncertain: a pane that does not exist settles its unknown close; a
\* query that fails settles nothing.
Evidence ==
    /\ pc = "evidence"
    /\ \E asked \in SUBSET {p \in Participants : Provable(p)} :
          close' = [p \in Participants |->
                       IF p \in asked THEN [close[p] EXCEPT !.choice = "treat_done"] ELSE close[p]]
    /\ pc' = "panes"
    /\ todo' = Participants
    /\ UNCHANGED <<row, old, part, del, sync, past, told, talk, via, cur, answer, world, luck, room>>

\* No pane, or its close is known, assumed or given up.
\* Mutant: a participant whose agent is gone needs no close.
SettledPaneIfGone(p) ==
    \/ pane[p] = "none" \/ part[p] \in {"removed", "gone"}
    \/ close[p].state = "done" \/ close[p].choice \in {"treat_done", "abandon"}

SettledPane(p) ==
    \/ pane[p] = "none" \/ part[p] = "removed"
    \/ close[p].state = "done" \/ close[p].choice \in {"treat_done", "abandon"}

SkipPane(p) ==
    /\ pc = "panes" /\ p \in todo /\ SettledPane(p)
    /\ todo' = todo \ {p}
    /\ part' = IF pane[p] = "none" THEN part
               ELSE [part EXCEPT ![p] = IF @ = "removed" \/ close[p].choice = "abandon"
                                        THEN "removed" ELSE "gone"]
    /\ UNCHANGED <<row, old, close, del, sync, past, told, talk, pc, via, cur, answer, world, luck, room>>

\* A close that nobody decided about stops the clean-up.
UnknownPane(p) ==
    /\ pc = "panes" /\ p \in todo /\ part[p] # "removed" /\ Unknown(close[p])
    /\ Fails /\ UNCHANGED luck

\* A first close, one more after a refusal, or the one retry that was granted.
ClosePane(p) ==
    /\ pc = "panes" /\ p \in todo /\ ~SettledPane(p) /\ ~Unknown(close[p])
    /\ close' = [close EXCEPT ![p] =
                    [NoReceipt EXCEPT !.state = "pending", !.again = Kept(close[p])]]
    /\ wire' = [wire EXCEPT !.panes = @ \cup {p}]
    /\ cur' = p
    /\ pc' = "closing"
    /\ UNCHANGED <<row, old, part, del, sync, past, told, talk, via, todo, answer, pane, chat, remote, luck, room>>

PaneClosed ==
    /\ pc = "closing" /\ pane[cur] = "closed"
    /\ close' = [close EXCEPT ![cur].state = "done"]
    /\ part' = [part EXCEPT ![cur] = "gone"]
    /\ todo' = todo \ {cur}
    /\ wire' = [wire EXCEPT !.panes = @ \ {cur}]
    /\ pc' = "panes"
    /\ UNCHANGED <<row, old, del, sync, past, told, talk, via, cur, answer, pane, chat, remote, luck, room>>

PaneRefused ==
    /\ pc = "closing" /\ pane[cur] = "open"
    /\ Trouble /\ Throw
    /\ close' = [close EXCEPT ![cur].state = "failed"]
    /\ wire' = [wire EXCEPT !.panes = IF close[cur].again THEN @ ELSE @ \ {cur}]
    /\ UNCHANGED <<row, old, part, del, sync, past, told, talk, cur, answer, pane, chat, remote, room>>

PaneLost ==
    /\ pc = "closing"
    /\ Trouble /\ Throw
    /\ close' = [close EXCEPT ![cur].state = "uncertain"]
    /\ UNCHANGED <<row, old, part, del, sync, past, told, talk, cur, answer, world, room>>
-----------------------------------------------------------------------------
(* deleteTaskGroup *)

\* Every pane is done with; the chat stays if it is kept or gone already.
ToBarrier == todo = {} /\ Move("panes", IF row.keep \/ row.dead THEN "finish" ELSE "barrier")

\* Mutant: what the service still has to say does not count.
ReadyIncoming == talk.in = "clear" /\ told.delete \in {"none", "done"}

\* canDeleteTaskGroup: nothing of the chat is queued, running, unknown or
\* undelivered, a notice of this very clean-up included.
Ready == talk.in = "clear" /\ talk.out = "clear" /\ told.delete \in {"none", "done"}

NotReady == ~Ready /\ \E from \in {"barrier", "recheck"} : Move(from, "free")

Notify == Ready /\ told.delete = "none" /\ Move("barrier", "notify")

DeleteTold ==
    /\ pc = "notify"
    /\ told' = [told EXCEPT !.delete = "done"]
    /\ pc' = "recheck"
    /\ UNCHANGED <<row, old, part, close, del, sync, past, talk, via, todo, cur, answer, world, luck, room>>

\* Refused or unknown: either way its outbox row is not delivered.
DeleteNotTold ==
    /\ pc = "notify"
    /\ Trouble /\ Throw
    /\ \E outcome \in {"refused", "lost"} : told' = [told EXCEPT !.delete = outcome]
    /\ UNCHANGED <<row, old, part, close, del, sync, past, talk, cur, answer, world, room>>

MayDelete == pc = "recheck" \/ (pc = "barrier" /\ told.delete = "done")

\* From the last look at the barrier to the request only promise callbacks
\* run: no message comes in between.
Delete ==
    /\ MayDelete /\ Ready
    /\ del.state \in {"none", "failed"}
    /\ del' = [NoReceipt EXCEPT !.state = "pending"]
    /\ wire' = [wire EXCEPT !.group = TRUE]
    /\ pc' = "deleting"
    /\ UNCHANGED <<row, old, part, close, sync, past, told, talk, via, todo, cur, answer, pane, chat, remote, luck, room>>

\* A receipt that was done, or proved done, before a crash answers for the call.
DeletedBefore ==
    /\ MayDelete /\ Ready
    /\ del.state = "done" \/ del.choice = "treat_done"
    /\ row' = [row EXCEPT !.dead = TRUE]
    /\ pc' = "finish"
    /\ UNCHANGED <<old, part, close, del, sync, past, told, talk, via, todo, cur, answer, world, luck, room>>

DeleteUnknown == MayDelete /\ Ready /\ Unknown(del) /\ Fails /\ UNCHANGED luck

GroupDeleted ==
    /\ pc = "deleting" /\ chat = "dissolved"
    /\ del' = [del EXCEPT !.state = "done"]
    /\ wire' = [wire EXCEPT !.group = FALSE]
    /\ pc' = "deleted"
    /\ UNCHANGED <<row, old, part, close, sync, past, told, talk, via, todo, cur, answer, pane, chat, remote, luck, room>>

\* The row is saved after its receipt.
MarkDeleted ==
    /\ pc = "deleted"
    /\ row' = [row EXCEPT !.dead = TRUE]
    /\ pc' = "finish"
    /\ UNCHANGED <<old, part, close, del, sync, past, told, talk, via, todo, cur, answer, world, luck, room>>

GroupRefused ==
    /\ pc = "deleting" /\ wire.group
    /\ Trouble /\ Throw
    /\ del' = [del EXCEPT !.state = "failed"]
    /\ wire' = [wire EXCEPT !.group = FALSE]
    /\ UNCHANGED <<row, old, part, close, sync, past, told, talk, cur, answer, pane, chat, remote, room>>

GroupLost ==
    /\ pc = "deleting"
    /\ Trouble /\ Throw
    /\ del' = [del EXCEPT !.state = "uncertain"]
    /\ UNCHANGED <<row, old, part, close, sync, past, told, talk, cur, answer, world, room>>

Finish ==
    /\ pc = "finish"
    /\ row' = [row EXCEPT !.st = "destroyed", !.req = "none"]
    /\ pc' = "free"
    /\ UNCHANGED <<old, part, close, del, sync, past, told, talk, via, todo, cur, answer, world, luck, room>>
-----------------------------------------------------------------------------
(* What happens meanwhile *)

\* A decision about an unknown close, by its owner or, short of giving it up,
\* by pi; the uncertain-effect resolver, which takes another lock, also finds
\* its own evidence.
Decide(p) ==
    /\ Unknown(close[p]) /\ ~InFlight(p)
    /\ \E c \in {"treat_done", "retry", "abandon"} :
          /\ c = "retry" => ~close[p].again
          /\ close' = [close EXCEPT ![p].choice = c]
    /\ UNCHANGED <<row, old, part, del, sync, past, told, talk, pc, via, todo, cur, answer, world, luck, room>>

\* A user writes to the chat, or the service does.
Arrive ==
    /\ room > 0 /\ room' = room - 1
    /\ chat = "alive"
    /\ \/ talk.in = "clear" /\ talk' = [talk EXCEPT !.in = "open"]
       \/ talk.out = "clear" /\ talk' = [talk EXCEPT !.out = "open"]
    /\ UNCHANGED <<rows, pc, via, todo, cur, answer, world, luck>>

Settled == [talk EXCEPT !.in = IF @ = "open" THEN "clear" ELSE @,
                        !.out = IF @ = "open" THEN "clear" ELSE @]

\* The message is handled, its answer delivered.
Settle ==
    /\ talk # Settled
    /\ talk' = Settled
    /\ UNCHANGED <<rows, pc, via, todo, cur, answer, world, luck, room>>

\* A turn that was interrupted, or a delivery without an answer.
Stick ==
    /\ Trouble
    /\ \/ talk.in = "open" /\ talk' = [talk EXCEPT !.in = "stuck"]
       \/ talk.out = "open" /\ talk' = [talk EXCEPT !.out = "stuck"]
    /\ UNCHANGED <<rows, pc, via, todo, cur, answer, world, room>>

PaneLands(p) ==
    /\ p \in wire.panes
    /\ wire' = [wire EXCEPT !.panes = @ \ {p}]
    /\ pane' = [pane EXCEPT ![p] = "closed"]
    /\ UNCHANGED <<rows, talk, pc, via, todo, cur, answer, chat, remote, luck, room>>

GroupLands ==
    /\ wire.group
    /\ wire' = [wire EXCEPT !.group = FALSE]
    /\ chat' = "dissolved"
    /\ UNCHANGED <<rows, talk, pc, via, todo, cur, answer, pane, remote, luck, room>>

PatchLands(v) ==
    /\ v \in wire.patch
    /\ wire' = [wire EXCEPT !.patch = @ \ {v}]
    /\ remote' = v
    /\ UNCHANGED <<rows, talk, pc, via, todo, cur, answer, pane, chat, luck, room>>

\* Somebody ticks the remote task or takes the tick back, dissolves the group,
\* or closes a pane in herdr.
Outside ==
    /\ Trouble
    /\ \/ remote' = ~remote /\ UNCHANGED <<pane, chat>>
       \/ chat' = "dissolved" /\ UNCHANGED <<pane, remote>>
       \/ \E p \in Participants : /\ pane[p] = "open"
                                  /\ pane' = [pane EXCEPT ![p] = "closed"]
                                  /\ UNCHANGED <<chat, remote>>
    /\ UNCHANGED <<rows, talk, pc, via, todo, cur, answer, wire, room>>

Crash == Busy /\ Trouble /\ Fails

Act ==
    \/ \E a \in Ending, word \in {"none", "keep", "drop"} : End(a, word)
    \/ \E a \in {"complete", "close", "reopen"}, word \in {"none", "keep", "drop"}, exec \in BOOLEAN :
          Request(a, word, exec)
    \/ RetryTask

Reconcile ==
    \/ Begin \/ SeesDissolved \/ SeesNoChange
    \/ SyncSkipped \/ Confirm \/ Write \/ WrittenBefore \/ WriteWaits \/ WriteAnswered \/ NotYet
    \/ RemoteDone \/ RemoteSame
    \/ Close \/ Observe \/ CloseTold \/ CloseTellAgain \/ CloseUnknown \/ Evidence
    \/ \E p \in Participants : SkipPane(p) \/ UnknownPane(p) \/ ClosePane(p)
    \/ PaneClosed \/ ToBarrier \/ NotReady \/ Notify \/ DeleteTold
    \/ Delete \/ DeletedBefore \/ DeleteUnknown \/ GroupDeleted \/ MarkDeleted \/ Finish

Failure ==
    \/ ReadFails \/ WriteRefused \/ WriteLost \/ RemoteFails \/ CloseNotTold
    \/ PaneRefused \/ PaneLost \/ DeleteNotTold \/ GroupRefused \/ GroupLost

Lands ==
    \/ \E p \in Participants : PaneLands(p)
    \/ GroupLands
    \/ \E v \in BOOLEAN : PatchLands(v)

Next ==
    \/ Act \/ Reconcile \/ Failure \/ Lands
    \/ \E p \in Participants : Decide(p)
    \/ Arrive \/ Settle \/ Stick \/ Outside \/ Crash

\* The tick of the service reconciles every task again and again, a call waits
\* for its answer, and messages are handled; nobody has to decide anything, a
\* lost request need not land, and users need do nothing.
Fairness ==
    /\ WF_vars(Reconcile)
    /\ WF_vars(\E p \in Participants : InFlight(p) /\ PaneLands(p))
    /\ WF_vars(pc = "deleting" /\ GroupLands)
    /\ WF_vars(pc = "patch" /\ PatchLands(Target))
    /\ WF_vars(Settle)

Spec == Init /\ [][Next]_vars /\ Fairness
-----------------------------------------------------------------------------
(* Properties *)

\* The chat is the last thing to go: when the request to delete it leaves, the
\* task is being cleaned up, nobody wants the chat kept, every pane is closed
\* or somebody decided about it, and nothing in or out of the chat is open.
\* (deleteTaskGroup, canDeleteTaskGroup)
GroupLast ==
    [][~wire.group /\ wire'.group =>
          /\ row.st = "destroying" /\ ~row.keep
          /\ talk.in = "clear" /\ talk.out = "clear" /\ told.delete = "done"
          /\ \A p \in Participants :
                pane[p] # "open" \/ close[p].choice \in {"treat_done", "abandon"}]_vars

\* While the row says that the chat is kept, no deletion is under way that
\* could still prove it wrong. (the group_deletion_started refusal)
KeepIsKept == row.keep => ~wire.group

\* What the rows say of the end is so: a group is called deleted only when it is
\* dissolved, and a destroyed task has no open pane that nobody decided about,
\* and no chat unless it is kept; a chat called kept is not being deleted.
\* (closeTask, syncGroupState)
EndIsTrue ==
    /\ KeepIsKept
    /\ row.dead => chat = "dissolved"
    /\ row.st = "destroyed" =>
          /\ row.keep \/ row.dead
          /\ \A p \in Participants :
                pane[p] # "open" \/ close[p].choice \in {"treat_done", "abandon"}

\* reconcile() starts to clean up for a dissolved group or for a task that is
\* completed with nothing left to synchronise, never on the close flag alone.
ClosesWhenConfirmed ==
    [][Busy /\ ~Closing /\ row'.st = "destroying" =>
          row'.dead \/ (row.st = "completed" /\ row.req = "none")]_vars

\* The opposite of a completion write is not prepared while that write may
\* still happen for all the service knows. (completion_pending)
NoOppositeWrite == [][sync'.req # sync.req => ~Unknown(sync.op)]_vars

\* A task that wants nothing more of its remote task has no completion write
\* left without a decision. (syncCompletion)
SyncSettled == row.req = "none" /\ ~Closing => ~Unknown(sync.op)

Orphaned(p) == Unknown(close[p]) /\ ~InFlight(p)
HeldByUnknown ==
    \/ told.close = "lost" \/ told.delete = "lost"
    \/ talk.in = "stuck" \/ talk.out = "stuck"
    \/ Unknown(del) /\ pc # "deleting"
    \/ \E p \in Participants : Orphaned(p)

\* A clean-up comes to its end unless an unknown outcome, or a refused notice
\* of the deletion, goes on holding it up. (closeTask under the tick)
ClosingEnds ==
    <>[]~(HeldByUnknown \/ told.delete = "refused")
        => (row.st = "destroying" ~> row.st = "destroyed")

\* What was refused was not done and can be done again: only unknown outcomes
\* hold a clean-up up. (outbox.ts keeps a refused message "retryable")
OnlyUnknownHolds ==
    <>[]~HeldByUnknown => (row.st = "destroying" ~> row.st = "destroyed")

\* A retry is refused for an unknown outcome only while there is one; a
\* receipt that was decided is no longer unknown. (service.ts, reconcile)
DecidedIsNotUnknown ==
    [][answer' = "unknown" /\ answer # "unknown" =>
          \/ Unknown(sync.op) \/ Unknown(del)
          \/ \E p \in Participants : Unknown(close[p])]_vars
=============================================================================
