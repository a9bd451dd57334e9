------------------------------- MODULE Turns -------------------------------
(* Conversation turns: runtime/sessions.ts, runtime/engine.ts,             *)
(* runtime/recovery.ts, runtime/turn-settlement.ts and the message callback *)
(* of the inbox (app/messages.ts, app/application.ts).                      *)
(*                                                                          *)
(* A message is answered by one model turn in the session it was accepted   *)
(* in.  The model calls write tools; each call has a durable receipt.  A    *)
(* turn may fail, time out, be cancelled by a reset of its session, or die  *)
(* with the process, and is then resumed, at most MaxTries times, from its  *)
(* checkpoint.  A tool that was running when its turn was given up goes on. *)
(* The transcript is abstracted: the receipts decide what may happen, and a *)
(* resumed model may call anything again.                                   *)
EXTENDS Naturals, FiniteSets

CONSTANTS Messages,      \* what the user sends; numbers, in order of arrival
          ChatOf(_),     \* the chat a message is sent in
          Commands,      \* the messages that say /clear
          Writes,        \* write tools, each with one set of arguments
          Wishes,        \* the tools that ask for the end of their session
          MaxTries,      \* attempts of a turn and of an inbox row (the code's 3)
          MaxSessions, MaxTrouble, MaxOrders

ASSUME TurnsAssumption ==
    /\ Messages \subseteq Nat \ {0} /\ Commands \subseteq Messages
    /\ MaxTries \in Nat \ {0} /\ MaxSessions \in Nat \ {0}
    /\ Wishes \subseteq {"reset", "archive"} /\ Wishes \cap Writes = {}

VARIABLES session,   \* sessions and their pending requests
          made,      \* how many sessions exist
          selected,  \* per chat, the session new messages go to
          row,       \* inbox rows
          turn,      \* turn receipts
          effect,    \* pi_operations, per message and tool
          reply,     \* delivery state of the answers, and of their outbox rows
          pc, doubt, cancelled, again,  \* the running reply() calls
          flying,    \* tool calls whose external call has not answered
          applied,   \* how often the world saw each effect
          trouble, orders

store == <<session, made, selected, turn, effect, reply>>
calls == <<pc, doubt, cancelled, again, flying>>
luck == <<trouble, orders>>
vars == <<store, row, calls, applied, luck>>

Ops == Writes \cup Wishes
NoWish == [w \in Wishes |-> 0]           \* 0: nobody asked
Sessions == 1 .. MaxSessions
Chats == {ChatOf(m) : m \in Messages}
Rows == [st : {"none", "queued", "processing", "done", "failed", "uncertain"},
         ses : 0 .. MaxSessions, gen : Nat, tries : 0 .. MaxTries, soft : BOOLEAN]
Receipts == [st : {"none", "running", "finished", "failed"}, gen : Nat, tries : 0 .. MaxTries]
Fresh == [gen |-> 0, archived |-> FALSE, wish |-> NoWish]

TypeOK ==
    /\ session \in [Sessions -> [gen : Nat, archived : BOOLEAN, wish : [Wishes -> {0} \cup Messages]]]
    /\ made \in Sessions /\ selected \in [Chats -> Sessions]
    /\ row \in [Messages -> Rows] /\ turn \in [Messages -> Receipts]
    /\ effect \in [Messages -> [Ops -> {"none", "pending", "complete", "unclear", "refused"}]]
    /\ reply \in [Messages -> {"none", "prepared", "sending", "retryable", "uncertain", "delivered"}]
    /\ pc \in [Messages -> {"idle", "entering", "preparing", "thinking", "calling",
                            "answered", "sending"}]
    /\ doubt \subseteq Messages /\ cancelled \subseteq Messages /\ again \subseteq Messages
    /\ flying \subseteq Messages \X Ops /\ applied \in [Messages -> [Ops -> Nat]]

Init ==
    /\ session = [s \in Sessions |-> Fresh] /\ made = 1
    /\ selected = [c \in Chats |-> 1]
    /\ row = [m \in Messages |-> [st |-> "none", ses |-> 0, gen |-> 0, tries |-> 0, soft |-> TRUE]]
    /\ turn = [m \in Messages |-> [st |-> "none", gen |-> 0, tries |-> 0]]
    /\ effect = [m \in Messages |-> [o \in Ops |-> "none"]]
    /\ reply = [m \in Messages |-> "none"]
    /\ pc = [m \in Messages |-> "idle"]
    /\ doubt = {} /\ cancelled = {} /\ again = {} /\ flying = {}
    /\ applied = [m \in Messages |-> [o \in Ops |-> 0]]
    /\ trouble = MaxTrouble /\ orders = MaxOrders

Trouble == trouble > 0 /\ trouble' = trouble - 1
Go(m, place) == pc' = [pc EXCEPT ![m] = place]
Home(m) == session[row[m].ses]
Active(s) == {m \in Messages : row[m].ses = s /\ pc[m] \in {"preparing", "thinking", "calling"}}

----------------------------------------------------------------------------
(* What the receipts of a turn say *)

\* Mutant: an answer that says "unknown" counts as an answer.
UnclearPending(m) == \E o \in Ops : effect[m][o] = "pending"
\* recovery.ts: some effect of the turn has no answer, or its answer is "unknown".
Unclear(m) == \E o \in Ops : effect[m][o] \in {"pending", "unclear"}

\* SessionService.canRecover
CanRecover(m) ==
    \/ turn[m].st = "none" /\ ~Home(m).archived
    \/ /\ turn[m].st # "none" /\ turn[m].gen = Home(m).gen
       /\ \/ turn[m].st = "finished"
          \/ ~Home(m).archived /\ turn[m].tries < MaxTries /\ ~Unclear(m)

\* Application.canRetryMessage: a finished answer may be delivered again as long
\* as its outbox row allows it, an unfinished turn only after a passing error.
MayRetry(m, soft, sent) ==
    /\ row[m].tries < MaxTries /\ row[m].gen = Home(m).gen /\ CanRecover(m)
    /\ IF turn[m].st = "finished" THEN sent # "uncertain" ELSE soft

\* How a failed callback leaves its row (Inbox.runLane).
Left(m, soft, sent, outcome) ==
    row' = [row EXCEPT ![m].soft = soft,
                       ![m].st = IF MayRetry(m, soft, sent) THEN "queued" ELSE outcome]
Failed(m, soft, outcome) == Left(m, soft, reply[m], outcome)

----------------------------------------------------------------------------
(* The message comes in and is taken *)

\* A message is bound to the session its chat has selected; an archived one is
\* replaced by a new one.
Accept(m) ==
    LET s == selected[ChatOf(m)]
        n == IF session[s].archived THEN made + 1 ELSE s IN
    /\ row[m].st = "none" /\ \A k \in Messages : k < m => row[k].st # "none"
    /\ n \in Sessions
    /\ made' = IF n > made THEN n ELSE made
    /\ selected' = [selected EXCEPT ![ChatOf(m)] = n]
    /\ row' = [row EXCEPT ![m].st = "queued", ![m].ses = n, ![m].gen = session[n].gen]
    /\ UNCHANGED <<session, turn, effect, reply, calls, applied, luck>>

\* One row of a chat at a time.  A message of a reset or archived session is
\* refused, unless its answer is already there or it is a command.
Take(m) ==
    LET t == turn[m].st = "finished"
        open == row[m].gen = Home(m).gen
                /\ (m \in Commands \/ ~Home(m).archived \/ t) IN
    /\ row[m].st = "queued"
    /\ \A k \in Messages : ChatOf(k) = ChatOf(m) =>
          /\ row[k].st # "processing"
          /\ k < m => row[k].st # "queued"
    /\ row' = [row EXCEPT ![m].tries = @ + 1,
                          ![m].st = IF open THEN "processing" ELSE "failed",
                          ![m].soft = open]
    /\ Go(m, IF open THEN "entering" ELSE "idle")
    /\ UNCHANGED <<store, doubt, cancelled, again, flying, applied, luck>>

\* Mutant: a resumed turn forgets what it had asked for.
RestoredNot(m, s) == session
\* restoreDeferredRequests: the confirmed requests of this turn are asked again.
Restored(m, s) ==
    [session EXCEPT ![s].wish =
        [w \in Wishes |-> IF effect[m][w] = "complete" THEN m ELSE @[w]]]

\* The turn's receipt is opened and its checkpoint saved.
Opened(m) ==
    turn' = [turn EXCEPT ![m] = [st |-> "running", gen |-> Home(m).gen, tries |-> @.tries + 1]]

\* runReply up to its first wait, once the session's mutex is free.
Enter(m) ==
    /\ pc[m] = "entering" /\ m \notin Commands /\ Active(row[m].ses) = {}
    /\ doubt' = doubt \ {m} /\ cancelled' = cancelled \ {m} /\ again' = again \ {m}
    /\ \/ /\ turn[m].st = "finished" /\ Go(m, "answered")
          /\ UNCHANGED <<row, turn, session>>
       \/ /\ turn[m].st \in {"running", "failed"} /\ ~CanRecover(m) /\ Go(m, "idle")
          /\ Failed(m, FALSE, "uncertain") /\ UNCHANGED <<turn, session>>
       \/ /\ turn[m].st = "none" /\ Home(m).archived /\ Go(m, "idle")
          /\ Failed(m, FALSE, "failed") /\ UNCHANGED <<turn, session>>
       \/ /\ turn[m].st \in {"running", "failed"} /\ CanRecover(m)
          /\ Opened(m) /\ Go(m, "thinking")
          /\ session' = Restored(m, row[m].ses)
          /\ UNCHANGED row
       \/ /\ turn[m].st = "none" /\ ~Home(m).archived /\ Go(m, "preparing")
          /\ UNCHANGED <<row, turn, session>>
    /\ UNCHANGED <<made, selected, effect, reply, flying, applied, luck>>

\* The history is ready (prepareHistory): the turn begins, unless the session
\* was reset or archived meanwhile.
Begin(m) ==
    /\ pc[m] = "preparing"
    /\ IF m \in cancelled \/ row[m].gen # Home(m).gen
       THEN Failed(m, FALSE, "failed") /\ Go(m, "idle") /\ UNCHANGED turn
       ELSE Opened(m) /\ Go(m, "thinking") /\ UNCHANGED row
    /\ UNCHANGED <<session, made, selected, effect, reply, doubt, cancelled, again, flying,
                   applied, luck>>

\* Memory or the summarising model fails: nothing was begun.
CannotPrepare(m) ==
    /\ pc[m] = "preparing" /\ Trouble
    /\ Failed(m, TRUE, "uncertain") /\ Go(m, "idle")
    /\ UNCHANGED <<store, doubt, cancelled, again, flying, applied, orders>>

----------------------------------------------------------------------------
(* The model calls tools *)

\* Mutant: a receipt is bound to one call of the model, not to what it asks.
KnownByCall(m, o) == effect[m][o] = "pending"
\* wrapTool: these receipts answer the call by themselves.
Known(m, o) == effect[m][o] \in {"pending", "complete", "unclear"}

\* Mutant: the receipt is written when the answer is there.
RecordedLater(m, o) == effect
\* wrapTool: the receipt is written before the tool runs.
Recorded(m, o) == [effect EXCEPT ![m][o] = "pending"]

\* A write tool is called; after an unconfirmed effect no write is.
Call(m, o) ==
    /\ pc[m] = "thinking" /\ m \notin cancelled /\ m \notin doubt
    /\ IF Known(m, o)
       THEN /\ doubt' = IF effect[m][o] = "complete" THEN doubt ELSE doubt \cup {m}
            /\ UNCHANGED <<effect, flying, pc>>
       ELSE /\ effect' = Recorded(m, o)
            /\ flying' = flying \cup {<<m, o>>} /\ Go(m, "calling") /\ UNCHANGED doubt
    /\ UNCHANGED <<session, made, selected, turn, reply, row, cancelled, again, applied, luck>>

Landed(m, o, st) ==
    /\ flying' = flying \ {<<m, o>>}
    /\ effect' = [effect EXCEPT ![m][o] = st]
    /\ pc' = [pc EXCEPT ![m] = IF @ = "calling" THEN "thinking" ELSE @]
Applied(m, o) == applied' = [applied EXCEPT ![m][o] = @ + 1]

\* The tool answers: done, refused, an answer that says "unknown", or a failure
\* nobody can interpret.
ToolAnswers(m, o) ==
    /\ <<m, o>> \in flying /\ o \in Writes
    /\ \/ Landed(m, o, "complete") /\ Applied(m, o) /\ UNCHANGED <<doubt, trouble>>
       \/ Landed(m, o, "refused") /\ Trouble /\ UNCHANGED <<doubt, applied>>
       \/ /\ Trouble
          /\ \E st \in {"unclear", "pending"} : Landed(m, o, st)
          /\ doubt' = IF pc[m] = "calling" THEN doubt \cup {m} ELSE doubt
          /\ Applied(m, o) \/ UNCHANGED applied
    /\ UNCHANGED <<session, made, selected, turn, reply, row, cancelled, again, orders>>

\* requestReset, requestArchive: only the running turn of the session's current
\* generation may ask; the request waits for the answer.
Asks(m, o) ==
    LET ok == /\ pc[m] \in {"thinking", "calling"} /\ turn[m].st = "running"
              /\ turn[m].gen = Home(m).gen /\ ~Home(m).archived IN
    /\ <<m, o>> \in flying /\ o \in Wishes
    /\ Landed(m, o, IF ok THEN "complete" ELSE "refused")
    /\ session' = IF ok THEN [session EXCEPT ![row[m].ses].wish[o] = m] ELSE session
    /\ UNCHANGED <<made, selected, turn, reply, row, doubt, cancelled, again, applied, luck>>

\* The request has become too large and the checkpoint was provably reduced:
\* once, and only with every effect confirmed, the model is asked again.
Reduce(m) ==
    /\ pc[m] = "thinking" /\ m \notin again /\ ~Unclear(m) /\ Trouble
    /\ again' = again \cup {m} /\ doubt' = doubt \ {m}
    /\ UNCHANGED <<store, row, pc, cancelled, flying, applied, orders>>

----------------------------------------------------------------------------
(* The turn ends *)

Unasked(m) == [session EXCEPT ![row[m].ses].wish = [w \in Wishes |-> IF @[w] = m THEN 0 ELSE @[w]]]

\* The model, its transport or the checkpoint fails, the answer is refused, an
\* operation's time is up, or the session was reset: the running tool is left.
Fail(m) ==
    /\ pc[m] \in {"thinking", "calling"}
    /\ IF m \in cancelled THEN UNCHANGED trouble ELSE Trouble
    /\ session' = Unasked(m)
    /\ turn' = [turn EXCEPT ![m].st = "failed"]
    /\ Go(m, "idle")
    /\ \E soft \in BOOLEAN : Failed(m, soft, "uncertain")
    /\ UNCHANGED <<made, selected, effect, reply, doubt, cancelled, again, flying, applied, orders>>

\* The answer, the end of the turn and what it asked for are one transaction.
Finish(m) ==
    LET s == row[m].ses
        reset == "reset" \in Wishes /\ session[s].wish["reset"] = m
        archive == "archive" \in Wishes /\ session[s].wish["archive"] = m IN
    /\ pc[m] = "thinking" /\ m \notin cancelled /\ turn[m].gen = Home(m).gen
    /\ reset => made < MaxSessions
    /\ turn' = [turn EXCEPT ![m].st = "finished"]
    /\ reply' = [reply EXCEPT ![m] = "prepared"]
    /\ made' = IF reset THEN made + 1 ELSE made
    /\ selected' = IF reset THEN [selected EXCEPT ![ChatOf(m)] = made + 1] ELSE selected
    /\ session' = [Unasked(m) EXCEPT ![s].archived = @ \/ reset \/ archive]
    /\ Go(m, "answered")
    /\ UNCHANGED <<effect, row, doubt, cancelled, again, flying, applied, luck>>

\* rotateEntry: /clear archives the session and selects a new one, once.
Rotate(m) ==
    LET s == row[m].ses IN
    /\ pc[m] = "entering" /\ m \in Commands /\ Active(s) = {}
    /\ \/ /\ turn[m].st = "finished" /\ Go(m, "answered")
          /\ UNCHANGED <<session, made, selected, turn, reply, row>>
       \/ /\ turn[m].st = "none" /\ Home(m).archived /\ Go(m, "idle")
          /\ Failed(m, FALSE, "failed")
          /\ UNCHANGED <<session, made, selected, turn, reply>>
       \/ /\ turn[m].st = "none" /\ ~Home(m).archived /\ made < MaxSessions
          /\ turn' = [turn EXCEPT ![m] = [st |-> "finished", gen |-> Home(m).gen, tries |-> 0]]
          /\ reply' = [reply EXCEPT ![m] = "prepared"]
          /\ made' = made + 1 /\ selected' = [selected EXCEPT ![ChatOf(m)] = made + 1]
          /\ session' = [session EXCEPT ![s].archived = TRUE, ![s].wish = NoWish]
          /\ Go(m, "answered") /\ UNCHANGED row
    /\ UNCHANGED <<effect, doubt, cancelled, again, flying, applied, luck>>

\* deliverReply up to the outbox: an answer of an older generation is not sent.
Deliver(m) ==
    /\ pc[m] = "answered"
    /\ IF reply[m] = "delivered" \/ turn[m].gen # Home(m).gen
       THEN row' = [row EXCEPT ![m].st = "done"] /\ Go(m, "idle") /\ UNCHANGED reply
       ELSE reply' = [reply EXCEPT ![m] = "sending"] /\ Go(m, "sending") /\ UNCHANGED row
    /\ UNCHANGED <<session, made, selected, turn, effect, doubt, cancelled, again, flying,
                   applied, luck>>

\* The outbox answers: delivered, refused, or nobody knows.
Sent(m) ==
    /\ pc[m] = "sending" /\ Go(m, "idle")
    /\ \/ /\ reply' = [reply EXCEPT ![m] = "delivered"]
          /\ row' = [row EXCEPT ![m].st = "done"] /\ UNCHANGED trouble
       \/ /\ Trouble /\ reply' = [reply EXCEPT ![m] = "retryable"]
          /\ Left(m, FALSE, "retryable", "failed")
       \/ /\ Trouble /\ reply' = [reply EXCEPT ![m] = "uncertain"]
          /\ Left(m, FALSE, "uncertain", "uncertain")
    /\ UNCHANGED <<session, made, selected, turn, effect, doubt, cancelled, again, flying,
                   applied, orders>>

----------------------------------------------------------------------------
(* The user's session orders, and the process *)

Ordered == orders > 0 /\ orders' = orders - 1

\* clear: the running turn is cancelled and the generation ends.
Clear(s) ==
    /\ s <= made /\ Ordered
    /\ session' = [session EXCEPT ![s].gen = @ + 1, ![s].wish = NoWish]
    /\ cancelled' = cancelled \cup Active(s)
    /\ UNCHANGED <<made, selected, turn, effect, reply, row, pc, doubt, again, flying, applied,
                   trouble>>
Archive(s) ==
    /\ s <= made /\ ~session[s].archived /\ Ordered
    /\ session' = [session EXCEPT ![s].archived = TRUE,
                                  ![s].wish = [w \in Wishes |-> IF w = "archive" THEN 0 ELSE @[w]]]
    /\ cancelled' = cancelled \cup Active(s)
    /\ UNCHANGED <<made, selected, turn, effect, reply, row, pc, doubt, again, flying, applied,
                   trouble>>
Restore(s) ==
    /\ s <= made /\ session[s].archived /\ Ordered
    /\ session' = [session EXCEPT ![s].archived = FALSE]
    /\ UNCHANGED <<made, selected, turn, effect, reply, row, calls, applied, trouble>>

\* The process dies and starts again: calls that were out may have arrived, and
\* every row that did not finish is looked at once more.
Crash ==
    LET lost == [m \in Messages |-> IF reply[m] = "sending" /\ pc[m] = "sending"
                                    THEN "uncertain" ELSE reply[m]]
        soft(m) == row[m].st = "processing" \/ row[m].soft
        due(m) == row[m].st \in {"processing", "failed", "uncertain"} IN
    /\ Trouble
    /\ \E seen \in SUBSET {c \in flying : c[2] \in Writes} :
          applied' = [m \in Messages |-> [o \in Ops |->
                        applied[m][o] + (IF <<m, o>> \in seen THEN 1 ELSE 0)]]
    /\ reply' = lost /\ pc' = [m \in Messages |-> "idle"]
    /\ doubt' = {} /\ cancelled' = {} /\ again' = {} /\ flying' = {}
    /\ row' = [m \in Messages |->
          IF due(m) /\ MayRetry(m, soft(m), lost[m])
          THEN [row[m] EXCEPT !.st = "queued"]
          ELSE IF row[m].st = "processing" THEN [row[m] EXCEPT !.st = "uncertain"] ELSE row[m]]
    /\ UNCHANGED <<session, made, selected, turn, effect, orders>>

Next ==
    \/ \E m \in Messages :
          \/ Accept(m) \/ Take(m) \/ Enter(m) \/ Begin(m) \/ CannotPrepare(m)
          \/ Reduce(m) \/ Fail(m) \/ Finish(m) \/ Rotate(m) \/ Deliver(m) \/ Sent(m)
          \/ \E o \in Ops : Call(m, o) \/ ToolAnswers(m, o) \/ Asks(m, o)
    \/ \E s \in Sessions : Clear(s) \/ Archive(s) \/ Restore(s)
    \/ Crash

Spec == Init /\ [][Next]_vars

----------------------------------------------------------------------------
(* Properties *)

\* A tool call of a turn takes effect at most once, whatever was retried,
\* resumed or left running (wrapTool, recoverMessages).
EffectOnce == \A m \in Messages, o \in Ops : applied[m][o] <= 1

\* No write of a turn is started while another of the same turn may or may not
\* have happened, in the same run or in a resumed one.
NothingPastUnknown ==
    [][\A m \in Messages, o \in Ops :
          <<m, o>> \in flying' \ flying =>
             \A p \in Ops : effect[m][p] \notin {"pending", "unclear"}
                            /\ <<m, p>> \notin flying]_vars

\* A turn that ends well carries out what it was told was scheduled, even when
\* an earlier attempt asked for it, and only that.
WishIsKept ==
    [][\A m \in Messages \ Commands :
          turn[m].st = "running" /\ turn'[m].st = "finished" =>
             LET s == row[m].ses IN
             /\ session'[s].archived <=> \E w \in Wishes : effect[m][w] = "complete"
             /\ "reset" \in Wishes /\ effect[m]["reset"] = "complete" =>
                   selected'[ChatOf(m)] # s /\ ~session'[selected'[ChatOf(m)]].archived]_vars

\* The proof that lets a group be deleted over an exhausted turn
\* (proveInertExhaustedTurn).
Settled(m) ==
    /\ row[m].st = "uncertain" /\ row[m].soft /\ row[m].tries >= MaxTries
    /\ turn[m].st = "failed" /\ turn[m].tries >= MaxTries
    /\ turn[m].gen = row[m].gen /\ row[m].gen = Home(m).gen /\ ~Home(m).archived
    /\ \A o \in Ops : effect[m][o] = "none"

\* An exhausted turn with an empty journal has done nothing and never will.
SettledIsInert ==
    [][\A m \in Messages : Settled(m) =>
          \A o \in Ops : applied[m][o] = 0 /\ applied'[m][o] = 0]_vars
============================================================================
