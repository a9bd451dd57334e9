------------------------------- MODULE Reports -------------------------------
(***************************************************************************)
(* The delivery of a frozen report: its event's notification               *)
(* (app/task-orchestrator.ts, orchestration/report-cleanup.ts), the file   *)
(* and the summary card of orchestration/report-delivery.ts, and the three *)
(* levels that decide a file whose fate is unknown (app/uncertain-*.ts).   *)
(*                                                                         *)
(* One report of a group task, delivered as an attachment.  A request      *)
(* counts as shown from the moment it leaves until it is refused.          *)
(***************************************************************************)
EXTENDS Integers, Sequences

CONSTANTS MaxSheets,    \* bound: decision cards
          MaxTroubles   \* bound: refused or lost answers, crashes

ReportsAssumption == {MaxSheets, MaxTroubles} \subseteq Nat

Limit == 3

VARIABLES
    task,       \* the task is open, completing, or its group is gone
    fresh,      \* requirements, report and workspace are those of the event
    event,      \* the deliver event: st, notificationState, attempts, kind of error
    rec,        \* workflow_report_deliveries
    pc, mem,    \* the delivery that runs, and its record in memory
    asked, rpc, rrev,   \* uncertain_pi_attempts by revision; the resolver, and the revision it holds
    sheets,     \* uncertain_cards of the file
    luck,
    out, ruled  \* requests that left and were not refused; decisions to try again

delivery == <<event, rec, pc, mem>>
resolver == <<asked, rpc, rrev, sheets>>
vars == <<task, fresh, delivery, resolver, luck, out, ruled>>

Choices == {"done", "retry", "abandon"}
Record == [st : {"none", "kept", "retired"}, key : BOOLEAN, retried : BOOLEAN, res : Choices \cup {"none"},
           file : {"prepared", "uploading", "uploaded", "sending", "delivered", "uncertain", "retryable"},
           card : {"prepared", "sending", "delivered", "uncertain", "retryable"}]
TypeOK ==
    /\ task \in {"open", "completing", "gone"} /\ fresh \in BOOLEAN
    /\ event \in [st : {"done", "attention", "superseded"}, tries : 0..Limit,
                  ns : {"none", "sending", "uncertain", "retryable", "sent"},
                  err : {"none", "failed", "unknown", "contract"}]
    /\ rec \in Record /\ mem \in Record
    /\ pc \in {"off", "prepare", "file", "mayUpload", "uploading", "maySend", "sending", "mayCard", "card", "end"}
    /\ asked \in [0..1 -> BOOLEAN] /\ rpc \in {"off", "pi", "publish", "posting"} /\ rrev \in 0..1
    /\ sheets \in Seq([rev : 0..1, used : BOOLEAN, old : BOOLEAN,
                       pub : {"sending", "sent", "uncertain", "retryable"}]) /\ Len(sheets) <= MaxSheets
    /\ luck \in 0..MaxTroubles /\ ruled \in 0..1
    /\ out \in [uploads : 0..3, shows : 0..3, cards : 0..2]

NewRecord == [st |-> "kept", file |-> "prepared", key |-> FALSE, retried |-> FALSE, res |-> "none", card |-> "prepared"]
Init ==
    /\ task = "open" /\ fresh = TRUE
    /\ event = [st |-> "done", ns |-> "none", tries |-> 0, err |-> "none"]
    /\ rec = [NewRecord EXCEPT !.st = "none"] /\ pc = "off" /\ mem = NewRecord
    /\ asked = [r \in 0..1 |-> FALSE] /\ rpc = "off" /\ rrev = 0 /\ sheets = <<>>
    /\ luck = MaxTroubles /\ out = [uploads |-> 0, shows |-> 0, cards |-> 0] /\ ruled = 0

Trouble == luck > 0 /\ luck' = luck - 1
Go(p) == pc' = p
Save(r) == mem' = r /\ rec' = r
-----------------------------------------------------------------------------
(* What the record says *)

Notified == event.ns = "sent"
BodyConfirmed(r) == r.res = "done" \/ r.file = "delivered"
Confirmed(r) == BodyConfirmed(r) /\ r.card = "delivered"

\* Mutant: a file on its way may be decided.
NeverInFlight == FALSE
InFlight == pc \in {"mayUpload", "uploading", "maySend", "sending"}
Sending == pc \notin {"off", "prepare"}

\* retireObsolete: the event was superseded, or is stale and not notified, and
\* nothing about file or card is unknown.
Obsolete ==
    /\ rec.st = "kept" /\ ~Sending /\ ~Confirmed(rec)
    /\ rec.card \in {"prepared", "retryable", "delivered"}
    /\ rec.file \in {"prepared", "uploaded", "retryable", "delivered"}
    /\ \/ event.st = "superseded"
       \/ event.st = "done" /\ ~Notified /\ event.ns # "none" /\ ~fresh
Retired == rec.st = "retired" \/ Obsolete
\* What every reader of the record leaves behind.
Swept == IF Obsolete THEN [rec EXCEPT !.st = "retired"] ELSE rec

FileAbandoned == rec.res = "abandon" /\ rec.card \notin {"sending", "uncertain"}
\* Mutant: a decision does not make a delivery retryable.
RetryableUndecided ==
    \/ rec.st = "none"
    \/ ~Retired /\ rec.file \in {"prepared", "uploaded", "retryable", "delivered"}
Retryable ==
    \/ rec.st = "none"
    \/ /\ ~Retired /\ rec.res # "abandon"
       /\ rec.res # "none" \/ rec.file \in {"prepared", "uploaded", "retryable", "delivered"}
       /\ rec.card \in {"prepared", "retryable", "delivered"}

\* Mutant: only records hold the group, an intent to deliver does not.
Undelivered == Sending \/ ~(FileAbandoned \/ Retired \/ Confirmed(rec))
PendingRecord == rec.st # "none" /\ Undelivered
\* Without a record only another report frees the group; whatever makes the
\* event stale is taken for one.
PendingInChat ==
    IF rec.st # "none" THEN Undelivered
    ELSE event.st \in {"done", "attention"} /\ ~Notified /\ fresh
-----------------------------------------------------------------------------
(* The event: recovery and notification *)

\* A completing task finishes only a current event that is done.
Reachable ==
    \/ task = "open"
    \/ task = "completing" /\ fresh /\ event.st = "done" /\ rec.st # "retired"

Recover ==
    /\ Reachable /\ pc = "off" /\ event.ns \in {"sending", "uncertain"}
    /\ event.st # "superseded" /\ event.err # "contract"
    /\ (Confirmed(rec) /\ fresh) \/ Retryable
    /\ event' = [event EXCEPT !.ns = IF Confirmed(rec) /\ fresh THEN "sent" ELSE "retryable",
                              !.st = "done", !.err = "none"]
    /\ rec' = Swept
    /\ UNCHANGED <<task, fresh, pc, mem, resolver, luck, out, ruled>>

Notify ==
    /\ Reachable /\ fresh /\ pc = "off" /\ event.st = "done"
    /\ \/ /\ event.ns = "sending" /\ ~Retryable /\ ~Confirmed(rec)
          /\ event' = [event EXCEPT !.ns = "uncertain", !.st = "attention", !.err = "unknown"]
          /\ UNCHANGED pc
       \/ /\ event.ns \in {"none", "retryable"} /\ Go("prepare")
          /\ event' = [event EXCEPT !.ns = "sending", !.tries = IF @ < Limit THEN @ + 1 ELSE @]
    /\ UNCHANGED <<task, fresh, rec, mem, resolver, luck, out, ruled>>

Failed(outcome) ==
    event' = CASE outcome = "unknown"  -> [event EXCEPT !.ns = "uncertain", !.st = "attention", !.err = "unknown"]
               [] outcome = "contract" -> [event EXCEPT !.st = "attention", !.err = "contract"]
               [] outcome = "refused"  -> [event EXCEPT !.ns = "retryable", !.err = "failed",
                                               !.st = IF event.tries = Limit THEN "attention" ELSE "done"]

Supersede ==
    /\ task = "open" /\ ~fresh /\ pc = "off" /\ event.st = "attention"
    /\ event' = [event EXCEPT !.st = "superseded"]
    /\ UNCHANGED <<task, fresh, rec, pc, mem, resolver, luck, out, ruled>>
-----------------------------------------------------------------------------
(* The delivery *)

Prepare ==
    /\ pc = "prepare"
    /\ IF Retired THEN rec' = Swept /\ Failed("refused") /\ Go("off") /\ UNCHANGED mem
       ELSE /\ Save(IF rec.st = "none" THEN NewRecord ELSE rec)
            /\ Go("file") /\ UNCHANGED event
    /\ UNCHANGED <<task, fresh, resolver, luck, out, ruled>>

\* A decision to retry is used up before anything leaves.
\* Mutant: it stays, so it is used again after the next unknown outcome.
RetryStays(r) == [r EXCEPT !.file = IF r.key THEN "uploaded" ELSE "prepared", !.retried = TRUE]
Resumed(r) == [r EXCEPT !.file = IF r.key THEN "uploaded" ELSE "prepared", !.res = "none", !.retried = TRUE]
\* Mutant: the card does not wait for the file.
FileLater ==
    /\ pc = "file" /\ Save(mem) /\ Go("mayCard")
    /\ UNCHANGED <<task, fresh, event, resolver, luck, out, ruled>>
File ==
    LET r == IF mem.res = "retry" THEN Resumed(mem) ELSE mem IN
    /\ pc = "file" /\ Save(r)
    /\ CASE r.res = "done" \/ (r.res # "abandon" /\ r.file = "delivered") -> Go("mayCard") /\ UNCHANGED event
         [] r.res = "abandon" -> Failed("refused") /\ Go("off")
         [] r.res \notin {"done", "abandon"} /\ r.file \in {"uploading", "sending", "uncertain"} ->
                Failed("unknown") /\ Go("off")
         [] OTHER -> Go(IF r.key THEN "maySend" ELSE "mayUpload") /\ UNCHANGED event
    /\ UNCHANGED <<task, fresh, resolver, luck, out, ruled>>

\* beforeSend: the revision, the contract and the workspace, once more.
Guard == fresh /\ task # "gone"
Vetoed ==
    /\ pc \in {"mayUpload", "maySend", "mayCard"} /\ ~Guard /\ Go("off")
    /\ \E o \in {"refused", "contract"} : Failed(o)
    /\ Save(mem)
    /\ UNCHANGED <<task, fresh, resolver, luck, out, ruled>>
Upload ==
    /\ pc = "mayUpload" /\ Guard /\ Go("uploading") /\ Save([mem EXCEPT !.file = "uploading"])
    /\ out' = [out EXCEPT !.uploads = @ + 1]
    /\ UNCHANGED <<task, fresh, event, resolver, luck, ruled>>
Show ==
    /\ pc = "maySend" /\ Guard /\ Go("sending") /\ Save([mem EXCEPT !.file = "sending"])
    /\ out' = [out EXCEPT !.shows = @ + 1]
    /\ UNCHANGED <<task, fresh, event, resolver, luck, ruled>>
SendCard ==
    /\ pc = "mayCard"
    /\ CASE mem.card = "delivered" -> Go("end") /\ UNCHANGED <<event, mem, rec, out>>
         [] mem.card \in {"sending", "uncertain"} -> Go("off") /\ Failed("unknown") /\ UNCHANGED <<mem, rec, out>>
         [] OTHER -> /\ Guard /\ Go("card") /\ Save([mem EXCEPT !.card = "sending"])
                     /\ out' = [out EXCEPT !.cards = @ + 1] /\ UNCHANGED event
    /\ UNCHANGED <<task, fresh, resolver, luck, ruled>>

Sent ==
    /\ \/ pc = "uploading" /\ Save([mem EXCEPT !.file = "uploaded", !.key = TRUE]) /\ Go("maySend")
       \/ pc = "sending" /\ Save([mem EXCEPT !.file = "delivered"]) /\ Go("mayCard")
       \/ pc = "card" /\ Save([mem EXCEPT !.card = "delivered"]) /\ Go("end")
    /\ UNCHANGED <<task, fresh, event, resolver, luck, out, ruled>>
Refused ==
    /\ Trouble /\ Failed("refused") /\ Go("off")
    /\ \/ pc = "uploading" /\ Save([mem EXCEPT !.file = "retryable"]) /\ out' = [out EXCEPT !.uploads = @ - 1]
       \/ pc = "sending" /\ Save([mem EXCEPT !.file = "retryable"]) /\ out' = [out EXCEPT !.shows = @ - 1]
       \/ pc = "card" /\ Save([mem EXCEPT !.card = "retryable"]) /\ out' = [out EXCEPT !.cards = @ - 1]
    /\ UNCHANGED <<task, fresh, resolver, ruled>>
Lost ==
    /\ Trouble /\ Failed("unknown") /\ Go("off")
    /\ \/ pc \in {"uploading", "sending"} /\ Save([mem EXCEPT !.file = "uncertain"])
       \/ pc = "card" /\ Save([mem EXCEPT !.card = "uncertain"])
    /\ UNCHANGED <<task, fresh, resolver, out, ruled>>
Finish ==
    /\ pc = "end" /\ Go("off")
    /\ event' = [event EXCEPT !.ns = "sent", !.err = "none"]
    /\ UNCHANGED <<task, fresh, rec, mem, resolver, luck, out, ruled>>
-----------------------------------------------------------------------------
(* A file whose fate is unknown *)

Revision == IF rec.retried THEN 1 ELSE 0
Listed ==
    /\ rec.st = "kept" /\ ~InFlight /\ rec.res = "none"
    /\ rec.file \in {"uploading", "sending", "uncertain"}
Options == IF rec.retried THEN {"done", "abandon"} ELSE Choices
Rule(c) == rec' = [rec EXCEPT !.res = c] /\ ruled' = IF c = "retry" THEN ruled + 1 ELSE ruled

\* The attempt is written before the model is asked.
AskPi ==
    /\ rpc = "off" /\ Listed /\ rrev' = Revision
    /\ IF asked[Revision] THEN rpc' = "publish" /\ UNCHANGED asked
       ELSE rpc' = "pi" /\ asked' = [asked EXCEPT ![Revision] = TRUE]
    /\ UNCHANGED <<task, fresh, delivery, sheets, luck, out, ruled>>
Current == Listed /\ Revision = rrev
PiAnswers ==
    /\ rpc = "pi"
    /\ \/ ~Current /\ rpc' = "off" /\ UNCHANGED <<rec, ruled>>
       \/ Current /\ rpc' = "off" /\ \E c \in Options : Rule(c)
       \/ Current /\ rpc' = "publish" /\ UNCHANGED <<rec, ruled>>
    /\ UNCHANGED <<task, fresh, event, pc, mem, asked, rrev, sheets, luck, out>>

\* The card of the revision: one that may have been shown is never sent again.
Mine == {i \in DOMAIN sheets : sheets[i].rev = rrev}
Last == CHOOSE i \in Mine : \A j \in Mine : j <= i
Post ==
    /\ rpc = "publish"
    /\ LET stop == \/ ~Current \/ task = "gone"
                   \/ /\ Mine # {}
                      /\ \/ sheets[Last].used \/ sheets[Last].pub \in {"sending", "uncertain"}
                         \/ sheets[Last].pub = "sent" /\ ~sheets[Last].old
           again == Mine # {} /\ ~sheets[Last].old
           retired == IF Mine # {} THEN [sheets EXCEPT ![Last].used = TRUE] ELSE sheets
       IN CASE stop -> rpc' = "off" /\ UNCHANGED sheets
            [] ~stop /\ again -> rpc' = "posting" /\ sheets' = [sheets EXCEPT ![Last].pub = "sending"]
            [] ~stop /\ ~again /\ Len(sheets) < MaxSheets ->
                   /\ rpc' = "posting"
                   /\ sheets' = Append(retired, [rev |-> rrev, used |-> FALSE, old |-> FALSE, pub |-> "sending"])
            [] OTHER -> rpc' = "off" /\ UNCHANGED sheets
    /\ UNCHANGED <<task, fresh, delivery, asked, rrev, luck, out, ruled>>
Posted(p) ==
    /\ rpc = "posting" /\ rpc' = "off"
    /\ IF p = "sent" THEN UNCHANGED luck ELSE Trouble
    /\ sheets' = [sheets EXCEPT ![Last].pub = p]
    /\ UNCHANGED <<task, fresh, delivery, asked, rrev, out, ruled>>
Expire(i) ==
    /\ ~sheets[i].old /\ sheets' = [sheets EXCEPT ![i].old = TRUE]
    /\ UNCHANGED <<task, fresh, delivery, asked, rpc, rrev, luck, out, ruled>>

\* A click is used up before it is applied.
Click(i, c) ==
    /\ sheets[i].pub # "retryable" /\ ~sheets[i].used /\ ~sheets[i].old
    /\ task # "gone" /\ Listed /\ sheets[i].rev = Revision /\ c \in Options
    /\ sheets' = [sheets EXCEPT ![i].used = TRUE] /\ Rule(c)
    /\ UNCHANGED <<task, fresh, event, pc, mem, asked, rpc, rrev, luck, out>>
-----------------------------------------------------------------------------
(* The user, the group, the process *)

\* A new requirement, another report, a changed file.
Revise == fresh /\ fresh' = FALSE /\ UNCHANGED <<task, delivery, resolver, luck, out, ruled>>
Complete == task = "open" /\ task' = "completing" /\ UNCHANGED <<fresh, delivery, resolver, luck, out, ruled>>
DeleteGroup ==
    /\ task = "completing" /\ ~PendingInChat /\ task' = "gone" /\ rec' = Swept
    /\ UNCHANGED <<fresh, event, pc, mem, resolver, luck, out, ruled>>
Crash ==
    /\ Trouble /\ Go("off") /\ rpc' = "off"
    /\ UNCHANGED <<task, fresh, event, rec, mem, asked, rrev, sheets, out, ruled>>

Work == Recover \/ Notify \/ Prepare \/ File \/ Vetoed \/ Upload \/ Show \/ SendCard \/ Sent \/ Finish
Resolve == AskPi \/ PiAnswers \/ Post \/ Posted("sent")
Next ==
    \/ Work \/ Resolve \/ Supersede \/ Refused \/ Lost
    \/ Posted("uncertain") \/ Posted("retryable")
    \/ \E i \in DOMAIN sheets : Expire(i) \/ \E c \in Choices : Click(i, c)
    \/ Revise \/ Complete \/ DeleteGroup \/ Crash
Spec == Init /\ [][Next]_vars /\ WF_vars(Work) /\ WF_vars(Resolve) /\ WF_vars(DeleteGroup)
-----------------------------------------------------------------------------
\* The file is uploaded and shown once, and once more for each decision to try
\* again; the card is sent once.
SentOnce == out.uploads <= 1 + ruled /\ out.shows <= 1 + ruled /\ out.cards <= 1

\* A decision stands until a retry is used up: no write of the delivery's copy
\* and no later decision replaces it.
DecisionStands ==
    [][rec.res # "none" /\ rec'.res # rec.res => rec.res = "retry" /\ rec'.retried]_vars

\* The summary follows the file, or the decision that the file is there.
CardLast == out.cards > 0 => rec.file = "delivered" \/ rec.res = "done"

\* The group outlives its report: it is deleted when the report was delivered,
\* given up or is stale, and nothing of it is still on its way.
GroupWaits ==
    task = "gone" =>
        /\ pc \notin {"uploading", "sending", "card"}
        /\ Confirmed(rec) \/ FileAbandoned \/ ~fresh

\* While the task is open a decision about the file is carried out, until the
\* report is stale or its attempts are used up.
Served ==
    \/ rec.res = "none" \/ Confirmed(rec) \/ rec.card \in {"sending", "uncertain"}
    \/ ~fresh \/ event.err \in {"failed", "contract"}
DecisionServed == rec.res \in {"done", "retry"} ~> (Served \/ task # "open")

\* A task that was completed meanwhile: its group waits for the report, so the
\* decision is carried out there too ("Re-enter the one existing
\* notification/reconciliation chain before deleting its chat").
DecisionFreesGroup == rec.res \in {"done", "retry"} ~> (Served \/ task = "gone")
=============================================================================
