------------------------------ MODULE Questions ------------------------------
(* What a stuck task asks its owner (user-decision.ts, selection-context.ts,      *)
(* scope-decision.ts, role-conflicts.ts, runner.ts, workflow-notifications.ts).   *)
(* A node is blocked and only the owner can help.  The orchestrator compiles a    *)
(* question from what it observed, bound to the user's revision, the workflow's   *)
(* facts and the bytes of the project; it is sent as the message of a wait event, *)
(* or, when the leader only deferred, as a progress notice of the reconciliation, *)
(* which runs beside the orchestrator.  The files are what the node was given     *)
(* (version 0) or have been edited (version 1), and may be put back.              *)
EXTENDS Integers, FiniteSets

CONSTANTS
  NoQ, NoWait,
  MaxUser,     \* new requirements of the user
  MaxTries,    \* attempts of an event, and of a message (MAX_ATTEMPTS)
  MaxLuck      \* edits, crashes, failed calls, refused and lost messages


VARIABLES
  user,     \* the user's revision
  files,    \* the project: 0 as dispatched, 1 edited
  flow,     \* the stored workflow
  ev,       \* decision events, by user revision and project version
  box,      \* outbox rows of the events' messages
  posts,    \* outbox rows of notices, by question
  done,     \* notices recorded as done
  chat,     \* how often each question reached the chat
  run,      \* the orchestrator's step
  view,     \* the notice's step
  luck
out == <<box, posts, done, chat>>
vars == <<user, files, flow, ev, out, run, view, luck>>

Keys == (0..MaxUser) \X {0, 1}
Status == {"ready", "system", "failed"}
Facts == [key : Keys, user : 0..MaxUser, grown : BOOLEAN, files : {0, 1}, why : {"wait", "defer"}]
Questions == [key : Keys, user : 0..MaxUser, grown : BOOLEAN, files : {0, 1},
              why : {"wait", "defer"}, st : Status]
About(q) == [key |-> q.key, user |-> q.user, grown |-> q.grown, files |-> q.files, why |-> q.why]
NoRow == [q |-> NoQ, st |-> "none"]

QuestionsAssumption ==
  {MaxUser, MaxLuck} \subseteq Nat /\ MaxTries \in Nat \ {0} /\ NoQ \notin Questions

Idle == [at |-> "idle", key |-> <<0, 0>>, back |-> "none", m |-> 0, seen |-> 0, q |-> NoQ, moved |-> FALSE]
Nobody == [at |-> "idle", seen |-> 0, q |-> NoQ, moved |-> FALSE]

Init ==
  /\ user = 0 /\ files = 0
  /\ \E scoped \in BOOLEAN, stall \in BOOLEAN :
       flow = [user |-> 0, grown |-> FALSE, wait |-> NoWait, q |-> NoQ, scoped |-> scoped, stall |-> stall]
  /\ ev = [k \in Keys |-> [st |-> "none", act |-> "none", told |-> FALSE, note |-> "none",
                           runs |-> 0, sends |-> 0]]
  /\ box = [k \in Keys |-> NoRow] /\ posts = {} /\ done = {}
  /\ chat = [f \in {} |-> 0]
  /\ run = Idle /\ view = Nobody /\ luck = MaxLuck

Trouble == luck > 0 /\ luck' = luck - 1
Calm == UNCHANGED luck
Go(place) == run' = [run EXCEPT !.at = place]
Home == run' = Idle
Event(e) == ev' = [ev EXCEPT ![run.key] = e]
Cur == run.key[1] = user
E == ev[run.key]

-----------------------------------------------------------------------------
(* The user and the files.                                                        *)
Require ==
  /\ user < MaxUser
  /\ user' = user + 1
  /\ UNCHANGED <<files, flow, ev, out, run, view, luck>>

Edit ==
  /\ Trouble
  /\ files' = 1 - files
  /\ run' = [run EXCEPT !.moved = run.at # "idle"]
  /\ view' = [view EXCEPT !.moved = view.at # "idle"]
  /\ UNCHANGED <<user, flow, ev, out>>

-----------------------------------------------------------------------------
(* What can be asked: an open issue whose last answer was about these files; a    *)
(* breach of the document scope observed again now; a role nobody may fill, once  *)
(* the participant was seen to have edited.                                       *)
Scope(m) == IF flow.scoped /\ m # 0 THEN {"scope"} ELSE {}
Roles == IF flow.grown THEN {"roles"} ELSE {}
Sources(m) == Scope(m) \cup Roles \cup (IF m = 0 THEN {"issue"} ELSE {})

(* Without a source there is nothing to ask; an observed constraint is its own    *)
(* question; otherwise a restricted model words it, or finds nothing to ask.      *)
Verdicts(m) ==
  IF Sources(m) = {} THEN {"system"}
  ELSE IF Scope(m) \cup Roles # {} THEN {"ready"}
  ELSE {"ready", "system"}

(* A question of the stored workflow is about its revision and facts. *)
Fits(q) == q # NoQ /\ q.user = flow.user /\ q.grown = flow.grown

-----------------------------------------------------------------------------
(* The orchestrator's tick.  Who blocked a node and was seen to have edited       *)
(* counts as an author from then on.                                              *)
Tick ==
  /\ run.at = "idle"
  /\ flow' = [flow EXCEPT !.grown = @ \/ files # 0]
  /\ Go("scan")
  /\ UNCHANGED <<user, files, ev, out, view, luck>>

(* A message that was never handed over, or whose refusal is recorded, may be     *)
(* sent again.                                                                    *)
Again(k) == box[k].st \in {"none", "prepared", "retryable", "delivered"}
Recovered(k) ==
  IF ev[k].act = "wait" /\ ~ev[k].told /\ ev[k].note \in {"sending", "uncertain"} /\ Again(k)
  THEN [ev[k] EXCEPT !.note = "retryable", !.st = IF @ = "superseded" THEN @ ELSE "done"]
  ELSE ev[k]

(* An event cut off in its step is taken up again; one of an older revision is over. *)
Reconciled ==
  [k \in Keys |-> LET e == Recovered(k) IN
     IF k[1] # user /\ e.st \notin {"none", "done"} THEN [e EXCEPT !.st = "superseded"]
     ELSE IF e.st = "processing" THEN [e EXCEPT !.st = "pending"] ELSE e]
Live(st) == {k \in Keys : k[1] = user /\ Reconciled[k].st = st}
Unsent == {k \in Live("done") : Reconciled[k].act = "wait" /\ ~Reconciled[k].told}
Committed == {k \in Live("pending") : Reconciled[k].act = "wait"}
For(k, place, back) == run' = [run EXCEPT !.at = place, !.key = k, !.back = back]

Scan ==
  /\ run.at = "scan"
  /\ ev' = Reconciled
  /\ IF Live("attention") # {}
     THEN \E k \in Live("attention") : For(k, "alert", "none") /\ UNCHANGED flow
     ELSE IF Unsent # {} THEN \E k \in Unsent : For(k, "base", "notify") /\ UNCHANGED flow
     ELSE IF flow.user # user
     THEN /\ flow' = [flow EXCEPT !.user = user, !.wait = NoWait, !.q = NoQ, !.stall = FALSE]
          /\ Home
     ELSE IF Committed # {} THEN \E k \in Committed : For(k, "execute", "apply") /\ UNCHANGED flow
     ELSE IF Live("done") # {} THEN Home /\ UNCHANGED flow
     ELSE For(<<user, files>>, "pick", "none") /\ UNCHANGED flow
  /\ UNCHANGED <<user, files, out, view, luck>>

(* An event asks for attention once, unless its own message is unclear or spent. *)
Alert ==
  /\ run.at = "alert"
  /\ Event([E EXCEPT !.told = @ \/ (E.note # "uncertain" /\ E.sends < MaxTries)])
  /\ Home
  /\ UNCHANGED <<user, files, flow, out, view, luck>>

(* The event of these facts and files: one that is over stays over; a wait for    *)
(* evidence lasts while nothing changed.                                          *)
Over(e) == e.st \in {"done", "superseded", "attention"}
Pick ==
  /\ run.at = "pick"
  /\ IF Over(E) \/ flow.wait = <<run.key, files, flow.grown>>
     THEN Home /\ UNCHANGED <<flow, ev>>
     ELSE /\ flow' = [flow EXCEPT !.wait = NoWait]
          /\ Event([E EXCEPT !.st = "processing", !.runs = @ + 1])
          /\ run' = [run EXCEPT !.at = "choose", !.seen = files]
  /\ UNCHANGED <<user, files, out, view, luck>>

(* A failed step: replaced facts end the event, other failures are repeated.      *)
Failed(code) ==
  /\ Event([E EXCEPT !.st = IF code \in {"superseded", "changed"} THEN "superseded"
                            ELSE IF E.runs >= MaxTries THEN "attention" ELSE "pending"])
  /\ Home

(* The leader commits the wait, or defers. *)
Choose ==
  /\ run.at = "choose"
  /\ \/ ~Cur /\ Calm /\ Failed("superseded")
     \/ Cur /\ Calm /\ Event([E EXCEPT !.act = "wait"]) /\ For(run.key, "base", "apply")
     \/ Cur /\ Calm /\ UNCHANGED ev /\ For(run.key, "base", "defer")
     \/ Trouble /\ Failed("error")
  /\ UNCHANGED <<user, files, flow, out, view>>

Execute ==
  /\ run.at = "execute"
  /\ Event([E EXCEPT !.st = "processing", !.runs = @ + 1])
  /\ Go("base")
  /\ UNCHANGED <<user, files, flow, out, view, luck>>

-----------------------------------------------------------------------------
(* prepareUserDecision: the files are read before and after every await.  A       *)
(* retry of a message that is overtaken is left as it is.                         *)
Dropped(code) ==
  IF run.back = "notify"
  THEN /\ ev' = IF code = "changed" THEN [ev EXCEPT ![run.key].st = "superseded"] ELSE ev
       /\ Home
  ELSE Failed(code)

Read ==
  /\ run.at \in {"base", "check", "save", "last"}
  /\ run' = CASE run.at = "base"  -> [run EXCEPT !.at = "check", !.m = files]
              [] run.at = "check" -> [run EXCEPT !.at = "checked", !.seen = files]
              [] run.at = "save"  -> [run EXCEPT !.at = "saved", !.seen = files]
              [] run.at = "last"  -> [run EXCEPT !.at = "end", !.seen = files]
  /\ UNCHANGED <<user, files, flow, ev, out, view, luck>>

Same == run.seen = run.m /\ (E.act = "wait" => run.key[2] = run.m)

Ask ==
  /\ run.at = "checked" /\ Cur /\ Same
  /\ LET new == [key |-> run.key, user |-> flow.user, grown |-> flow.grown, files |-> run.m,
                 why |-> IF run.back = "defer" THEN "defer" ELSE "wait", st |-> "system"]
     IN  IF flow.q # NoQ /\ About(flow.q) = About(new)
         THEN Go("last") /\ Calm
         ELSE \E st \in Status :
                /\ run' = [run EXCEPT !.at = "save", !.q = [new EXCEPT !.st = st]]
                /\ \/ st \in Verdicts(run.m) /\ Calm
                   \/ st = "failed" /\ Verdicts(run.m) = {"ready", "system"} /\ Trouble
  /\ UNCHANGED <<user, files, flow, ev, out, view>>

Save ==
  /\ run.at = "saved" /\ Cur /\ Same
  /\ flow' = [flow EXCEPT !.q = run.q]
  /\ run' = [run EXCEPT !.at = "last", !.q = NoQ]
  /\ UNCHANGED <<user, files, ev, out, view, luck>>

(* It is ready: the wait is applied and sent; the deferral waits for evidence and *)
(* gives its attempt back.                                                        *)
Prepared ==
  /\ run.at = "end" /\ Cur /\ Same
  /\ IF run.back = "defer"
     THEN /\ flow' = [flow EXCEPT !.wait = <<run.key, run.m, flow.grown>>]
          /\ Event([E EXCEPT !.st = "pending", !.runs = @ - 1])
          /\ Home
     ELSE Event([E EXCEPT !.st = "done"]) /\ Go("notify") /\ UNCHANGED flow
  /\ UNCHANGED <<user, files, out, view, luck>>

Overtaken ==
  /\ run.at \in {"checked", "saved", "end"}
  /\ \/ ~Cur /\ Dropped("superseded")
     \/ Cur /\ ~Same /\ Dropped("changed")
  /\ UNCHANGED <<user, files, flow, out, view, luck>>

-----------------------------------------------------------------------------
(* The message of a wait: a send that was cut off is unclear and raised; else the *)
(* files are read once more and the stored question must still be the event's.    *)
Notify ==
  /\ run.at = "notify"
  /\ IF ~Cur THEN Dropped("superseded")
     ELSE IF E.note = "uncertain" THEN Home /\ UNCHANGED ev
     ELSE IF E.note = "sending"
     THEN Event([E EXCEPT !.note = "uncertain", !.st = "attention"]) /\ Home
     ELSE run' = [run EXCEPT !.at = "text", !.seen = files] /\ UNCHANGED ev
  /\ UNCHANGED <<user, files, flow, out, view, luck>>

Text ==
  /\ run.at = "text"
  /\ IF ~Cur THEN Dropped("superseded")
     ELSE IF ~Fits(flow.q) \/ flow.q.key # run.key \/ flow.q.files # run.seen
     THEN Event([E EXCEPT !.st = "superseded"]) /\ Home
     ELSE Event([E EXCEPT !.note = "sending", !.sends = @ + 1]) /\ run' = [run EXCEPT !.at = "send", !.q = flow.q]
  /\ UNCHANGED <<user, files, flow, out, view, luck>>

(* What the send came to. *)
Sent == Event([E EXCEPT !.note = "sent", !.told = TRUE]) /\ Home
Refused == Event([E EXCEPT !.note = "retryable", !.st = IF E.sends >= MaxTries THEN "attention" ELSE @]) /\ Home
Unclear == Event([E EXCEPT !.note = "uncertain", !.st = "attention"]) /\ Home

(* The outbox: another text under the same number is refused, a delivered one is  *)
(* answered from its row, one cut off is unclear.                                 *)
Send ==
  /\ run.at = "send"
  /\ LET row == box[run.key] IN
     IF row.st # "none" /\ row.q # run.q THEN Refused /\ UNCHANGED box
     ELSE IF row.st = "delivered" THEN Sent /\ UNCHANGED box
     ELSE IF row.st \in {"sending", "uncertain"} THEN Unclear /\ UNCHANGED box
     ELSE /\ box' = [box EXCEPT ![run.key] = [q |-> run.q, st |-> "sending"]]
          /\ Go("wire") /\ UNCHANGED ev
  /\ UNCHANGED <<user, files, flow, posts, done, chat, view, luck>>

Arrived(q) == LET f == About(q) IN
  chat' = [g \in DOMAIN chat \cup {f} |-> (IF g \in DOMAIN chat THEN chat[g] ELSE 0) + (IF g = f THEN 1 ELSE 0)]
Row(st) == box' = [box EXCEPT ![run.key].st = st]

Wire ==
  /\ run.at = "wire"
  /\ \/ Calm /\ Arrived(run.q) /\ Row("delivered") /\ Sent
     \/ Trouble /\ Row("retryable") /\ Refused /\ UNCHANGED chat
     \/ Trouble /\ (Arrived(run.q) \/ UNCHANGED chat) /\ Row("uncertain") /\ Unclear
  /\ UNCHANGED <<user, files, flow, posts, done, view>>

-----------------------------------------------------------------------------
(* The progress notice.  A question is looked up only for the user's newest       *)
(* revision; the files are read, and it must then still be the stored question.   *)
Before == flow.q # NoQ /\ (flow.stall \/ flow.wait # NoWait) /\ flow.user = user

Look ==
  /\ view.at = "idle" /\ Before
  /\ view' = [at |-> "look", seen |-> files, q |-> flow.q, moved |-> FALSE]
  /\ UNCHANGED <<user, files, flow, ev, out, run, luck>>

After == /\ flow.user = user /\ Fits(flow.q) /\ About(flow.q) = About(view.q)
         /\ view.q.files = view.seen

\* Mutant: the question of a wait event is also the notice's to send.
SilentNot(q) == FALSE
Silent(q) == ev[q.key].act = "wait" /\ q.key[1] = user

Posted(st) == {p \in posts : p.st = st /\ p.q = About(view.q)}
Post(st) == posts' = {p \in posts : p.q # About(view.q)} \cup {[q |-> About(view.q), st |-> st]}

(* One notice per question; an unclear one is never sent again. *)
Show ==
  /\ view.at = "look"
  /\ IF ~After \/ Silent(view.q) \/ About(view.q) \in done
        \/ Posted("sending") \cup Posted("uncertain") # {}
     THEN view' = Nobody /\ UNCHANGED out
     ELSE IF Posted("delivered") # {}
     THEN done' = done \cup {About(view.q)} /\ view' = Nobody /\ UNCHANGED <<box, posts, chat>>
     ELSE Post("sending") /\ view' = [view EXCEPT !.at = "wire"] /\ UNCHANGED <<box, done, chat>>
  /\ UNCHANGED <<user, files, flow, ev, run, luck>>

Noticed ==
  /\ view.at = "wire"
  /\ view' = Nobody
  /\ \/ Calm /\ Arrived(view.q) /\ Post("delivered") /\ done' = done \cup {About(view.q)}
     \/ Trouble /\ Post("retryable") /\ UNCHANGED <<chat, done>>
     \/ Trouble /\ (Arrived(view.q) \/ UNCHANGED chat) /\ Post("uncertain") /\ UNCHANGED done
  /\ UNCHANGED <<user, files, flow, ev, box, run>>

-----------------------------------------------------------------------------
(* A crash ends both; a message on the wire may have arrived. *)
Crash ==
  /\ run.at # "idle" \/ view.at # "idle"
  /\ Trouble
  /\ \/ run.at = "wire" /\ Arrived(run.q)
     \/ view.at = "wire" /\ Arrived(view.q)
     \/ UNCHANGED chat
  /\ Home /\ view' = Nobody
  /\ UNCHANGED <<user, files, flow, ev, box, posts, done>>

Step == \/ Tick \/ Scan \/ Alert \/ Pick \/ Choose \/ Execute \/ Read \/ Ask \/ Save \/ Prepared
        \/ Overtaken \/ Notify \/ Text \/ Send \/ Wire
Notice == Look \/ Show \/ Noticed
Next == Step \/ Notice \/ Require \/ Edit \/ Crash
Spec == Init /\ [][Next]_vars
(* The orchestrator ticks and the reconciliation runs again and again. *)
FairSpec == Spec /\ WF_vars(Step) /\ WF_vars(Notice)

-----------------------------------------------------------------------------
TypeOK ==
  /\ flow.q \in Questions \cup {NoQ} /\ DOMAIN chat \subseteq Facts
  /\ \A k \in Keys : {ev[k].runs, ev[k].sends} \subseteq Nat

(* A question that is put on the wire, by a wait or by a notice, first or again,  *)
(* is about the user's newest revision and the facts the workflow holds now, and  *)
(* about the files as they are, unless they changed while it was on its way.      *)
(* (workflow-notifications.ts workflowWaitText, currentTaskUserDecision)          *)
AskedIsCurrent ==
  [][/\ run.at = "send" /\ run'.at = "wire" =>
          run.q.grown = flow.grown /\ (run.q.files = files \/ run.moved)
     /\ view.at = "look" /\ view'.at = "wire" =>
          /\ view.q.user = user /\ view.q.grown = flow.grown
          /\ view.q.files = files \/ view.moved]_vars

(* The owner is never asked the same question twice, whichever of the wait, its   *)
(* retries, the notice or a restart sends it.  (workflow-notifications.ts         *)
(* workflowNotice, outbox.ts send)                                                *)
AskedOnce == \A f \in DOMAIN chat : chat[f] <= 1

(* A task only its owner can move on asks, or asks for attention; selection-      *)
(* context.ts:162 has a question about changed files put together again from the  *)
(* current facts.                                                                 *)
Asked == \/ \E k \in Keys : ev[k].told \/ ev[k].st = "attention"
         \/ done # {} \/ \E p \in posts : p.st \in {"sending", "uncertain"}
QuestionServed == <>[](flow.user = 0 /\ user = 0) => <>Asked
=============================================================================
