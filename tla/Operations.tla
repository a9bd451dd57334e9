----------------------------- MODULE Operations -----------------------------
(***************************************************************************)
(* The durable operation receipts of src/storage/operations.ts, the        *)
(* shutdown gate that src/tasks/operations.ts puts in front of them, and   *)
(* the deletion of refused receipts that the task code performs between    *)
(* two attempts.                                                           *)
(*                                                                         *)
(* Several Operations objects (instances) work over one Store: the task    *)
(* scheduler's, the application's, the one built on the spot to resolve a  *)
(* receipt.  Each has its own KeyedMutex, so only the receipt and the      *)
(* process-wide set of active ids separate calls of different instances.   *)
(* A crash loses every volatile thing and keeps the receipts; a request    *)
(* that already left the process may still take effect afterwards.         *)
(***************************************************************************)
EXTENDS Naturals, Sequences

CONSTANTS
    Ids,          \* operation ids
    Calls,        \* callers of run()
    Instances,    \* Operations objects over the same store
    Gated,        \* those of Instances that are TaskOperations
    Params,       \* fingerprints of the parameters
    Resettable,   \* ids whose refused receipts some code path deletes
    MaxRetries    \* bound: decisions to retry, per id

ASSUME OperationsAssumption ==
    /\ Gated \subseteq Instances
    /\ Resettable \subseteq Ids
    /\ MaxRetries \in Nat

VARIABLES
    receipt,   \* receipt[o]: the stored row, or Absent       (durable)
    active,    \* ids some run() is performing                (volatile)
    line,      \* line[i, o]: the calls in the KeyedMutex     (volatile)
    pc,        \* pc[c]: where call c stands                  (volatile)
    job,       \* job[c]: instance, id and fingerprint of c   (volatile)
    answer,    \* answer[c]: what the last run() of c told it (volatile)
    stopped,   \* instances whose abort signal has fired      (volatile)
    effects,   \* effects[o]: times the effect of o happened  (outside)
    limbo,     \* limbo[o]: requests that may yet take effect (outside)
    retries    \* retries[o]: decisions to retry o            (history)

store    == <<receipt, retries>>
process  == <<active, line, pc, job, answer, stopped>>
world    == <<effects, limbo>>
vars     == <<receipt, active, line, pc, job, answer, stopped,
              effects, limbo, retries>>

States  == {"pending", "done", "failed", "uncertain"}
Choices == {"treat_done", "retry", "abandon"}
Absent  == [state |-> "absent"]

\* A row that run() replaced; it keeps its state and its resolution.
Attempts == [state : States, choice : Choices \cup {"none"}]
Receipts == [state : States, choice : Choices \cup {"none"}, fp : Params,
             history : Seq(Attempts)]

Answers == {"none", "ok", "assumed", "not_executed", "unknown"}

Waiting    == "waiting"
Performing == "performing"   \* the request left, its effect has not happened
Applied    == "applied"      \* its effect happened, the reply has not come
Live(c)    == pc[c] \in {Performing, Applied}

TypeOK ==
    /\ receipt \in [Ids -> Receipts \cup {Absent}]
    /\ active \subseteq Ids
    /\ line \in [Instances \X Ids -> Seq(Calls)]
    /\ pc \in [Calls -> {"idle", Waiting, Performing, Applied}]
    /\ job \in [Calls -> [inst : Instances, id : Ids, fp : Params]]
    /\ answer \in [Calls -> Answers]
    /\ stopped \subseteq Gated
    /\ effects \in [Ids -> Nat]
    /\ limbo \in [Ids -> Nat]
    /\ retries \in [Ids -> Nat]

Init ==
    /\ receipt = [o \in Ids |-> Absent]
    /\ active = {}
    /\ line = [x \in Instances \X Ids |-> << >>]
    /\ pc = [c \in Calls |-> "idle"]
    /\ job \in [Calls -> [inst : Instances, id : Ids, fp : Params]]
    /\ answer = [c \in Calls |-> "none"]
    /\ stopped = {}
    /\ effects = [o \in Ids |-> 0]
    /\ limbo = [o \in Ids |-> 0]
    /\ retries = [o \in Ids |-> 0]
-----------------------------------------------------------------------------
(* run() *)

Slot(c) == <<job[c].inst, job[c].id>>
Row(c)  == receipt[job[c].id]

\* TaskOperations.run refuses before it queues; everyone else just queues.
Submit(c, i, o, p) ==
    /\ pc[c] = "idle"
    /\ i \notin stopped
    /\ pc' = [pc EXCEPT ![c] = Waiting]
    /\ job' = [job EXCEPT ![c] = [inst |-> i, id |-> o, fp |-> p]]
    /\ answer' = [answer EXCEPT ![c] = "none"]
    /\ line' = [line EXCEPT ![<<i, o>>] = Append(@, c)]
    /\ UNCHANGED <<receipt, active, stopped, effects, limbo, retries>>

MyTurn(c) ==
    /\ pc[c] = Waiting
    /\ line[Slot(c)] # << >>
    /\ Head(line[Slot(c)]) = c

\* The finally of KeyedMutex.run lets the next call of the id in.
Leave(c, a) ==
    /\ pc' = [pc EXCEPT ![c] = "idle"]
    /\ answer' = [answer EXCEPT ![c] = a]
    /\ line' = [line EXCEPT ![Slot(c)] = Tail(@)]

Conflict(c) == Row(c) # Absent /\ Row(c).fp # job[c].fp

\* Mutants: a pending row lets another call through; so does an unknown one; a
\* row that was decided to count as done is reported as done.
RecordedPendingPasses(c) ==
    IF Row(c) = Absent THEN "none"
    ELSE IF Conflict(c) THEN "not_executed"
    ELSE CASE Row(c).state = "done"   -> "ok"
           [] Row(c).state = "failed" -> "not_executed"
           [] OTHER -> IF Row(c).state = "pending" \/ Row(c).choice = "retry" THEN "none" ELSE "unknown"

RecordedUnknownPasses(c) ==
    IF Row(c) = Absent THEN "none"
    ELSE IF Conflict(c) THEN "not_executed"
    ELSE CASE Row(c).state = "done"   -> "ok"
           [] Row(c).state = "failed" -> "not_executed"
           [] OTHER                   -> "none"

RecordedAssumedIsDone(c) ==
    IF Row(c) = Absent THEN "none"
    ELSE IF Conflict(c) THEN "not_executed"
    ELSE CASE Row(c).state = "done"   -> "ok"
           [] Row(c).state = "failed" -> "not_executed"
           [] OTHER -> CASE Row(c).choice = "treat_done" -> "ok"
                         [] Row(c).choice = "abandon"    -> "not_executed"
                         [] Row(c).choice = "retry"      -> "none"
                         [] OTHER                        -> "unknown"

\* What an earlier row answers; "none" when it lets the call through.
Recorded(c) ==
    IF Row(c) = Absent THEN "none"
    ELSE IF Conflict(c) THEN "not_executed"
    ELSE CASE Row(c).state = "done"   -> "ok"
           [] Row(c).state = "failed" -> "not_executed"
           [] OTHER -> CASE Row(c).choice = "treat_done" -> "assumed"
                         [] Row(c).choice = "abandon"    -> "not_executed"
                         [] Row(c).choice = "retry"      -> "none"
                         [] OTHER                        -> "unknown"

\* Mutant: a call waits for the outcome of an unknown row.
ReplayKnownOnly(c) ==
    /\ MyTurn(c)
    /\ Recorded(c) \notin {"none", "unknown"}
    /\ Leave(c, Recorded(c))
    /\ UNCHANGED <<receipt, active, job, stopped, effects, limbo, retries>>

\* An earlier receipt answers the call: nothing is performed.
Replay(c) ==
    /\ MyTurn(c)
    /\ Recorded(c) # "none"
    /\ Leave(c, Recorded(c))
    /\ UNCHANGED <<receipt, active, job, stopped, effects, limbo, retries>>

\* Mutant: the row that is replaced is not added to the history.
ArchiveForgets(r) == IF r = Absent THEN << >> ELSE r.history

Archive(r) ==
    IF r = Absent THEN << >>
    ELSE Append(r.history, [state |-> r.state, choice |-> r.choice])

Fresh(c, s) ==
    [state |-> s, choice |-> "none", fp |-> job[c].fp,
     history |-> Archive(Row(c))]

\* Mutant: only the first assertActive, in front of the queue, is there.
StartUngated(c) ==
    /\ MyTurn(c)
    /\ Recorded(c) = "none"
    /\ receipt' = [receipt EXCEPT ![job[c].id] = Fresh(c, "pending")]
    /\ active' = active \cup {job[c].id}
    /\ pc' = [pc EXCEPT ![c] = Performing]
    /\ limbo' = [limbo EXCEPT ![job[c].id] = @ + 1]
    /\ UNCHANGED <<line, job, answer, stopped, effects, retries>>

\* The pending row is written and the request leaves in one synchronous
\* stretch: nothing of this process can run in between.
Start(c) ==
    /\ MyTurn(c)
    /\ Recorded(c) = "none"
    /\ job[c].inst \notin stopped
    /\ receipt' = [receipt EXCEPT ![job[c].id] = Fresh(c, "pending")]
    /\ active' = active \cup {job[c].id}
    /\ pc' = [pc EXCEPT ![c] = Performing]
    /\ limbo' = [limbo EXCEPT ![job[c].id] = @ + 1]
    /\ UNCHANGED <<line, job, answer, stopped, effects, retries>>

\* The abort signal fired while the call queued: the second assertActive,
\* inside perform, refuses; the refusal is stored like any other.
Gate(c) ==
    /\ MyTurn(c)
    /\ Recorded(c) = "none"
    /\ job[c].inst \in stopped
    /\ receipt' = [receipt EXCEPT ![job[c].id] = Fresh(c, "failed")]
    /\ Leave(c, "not_executed")
    /\ UNCHANGED <<active, job, stopped, effects, limbo, retries>>

Settle(c, s, a) ==
    /\ receipt' = [receipt EXCEPT ![job[c].id].state = s]
    /\ active' = active \ {job[c].id}
    /\ Leave(c, a)
    /\ UNCHANGED <<job, stopped, retries>>

Succeed(c) ==
    /\ pc[c] = Applied
    /\ Settle(c, "done", "ok")
    /\ UNCHANGED <<effects, limbo>>

\* Mutant: an error after the effect is taken for a refusal.
RefuseAnytime(c) ==
    /\ Live(c)
    /\ Settle(c, "failed", "not_executed")
    /\ limbo' = [limbo EXCEPT ![job[c].id] = @ - 1]
    /\ UNCHANGED effects

\* isNotExecuted(error): the other side proved that it did nothing.
Refuse(c) ==
    /\ pc[c] = Performing
    /\ Settle(c, "failed", "not_executed")
    /\ limbo' = [limbo EXCEPT ![job[c].id] = @ - 1]
    /\ UNCHANGED effects

\* Mutant: every error counts as a refusal.
LoseReplyAsFailed(c) ==
    /\ Live(c)
    /\ Settle(c, "failed", "not_executed")
    /\ UNCHANGED <<effects, limbo>>

\* Any other error: a timeout, a lost reply, a bug in the callback.
LoseReply(c) ==
    /\ Live(c)
    /\ Settle(c, "uncertain", "unknown")
    /\ UNCHANGED <<effects, limbo>>
-----------------------------------------------------------------------------
(* resolve(), resetFailed() and what happens around the store *)

RetriedBefore(r) ==
    \E k \in 1..Len(r.history) : r.history[k].choice = "retry"

Resolve(o, choice) ==
    /\ receipt[o] # Absent
    /\ receipt[o].state \in {"pending", "uncertain"}
    /\ o \notin active
    /\ receipt[o].choice = "none"
    /\ choice = "retry" => /\ ~RetriedBefore(receipt[o])
                           /\ retries[o] < MaxRetries
    /\ receipt' = [receipt EXCEPT ![o].choice = choice]
    /\ retries' = IF choice = "retry"
                  THEN [retries EXCEPT ![o] = @ + 1] ELSE retries
    /\ UNCHANGED <<process, world>>

\* Mutants: done rows are deleted too; unknown rows are.
ResetSettled(o) ==
    /\ o \in Resettable
    /\ receipt[o].state \in {"failed", "done"}
    /\ receipt' = [receipt EXCEPT ![o] = Absent]
    /\ UNCHANGED <<process, world, retries>>

ResetUnknown(o) ==
    /\ o \in Resettable
    /\ receipt[o].state \in {"failed", "uncertain"}
    /\ receipt' = [receipt EXCEPT ![o] = Absent]
    /\ UNCHANGED <<process, world, retries>>

\* The row goes with its history and its fingerprint.
ResetFailed(o) ==
    /\ o \in Resettable
    /\ receipt[o].state = "failed"
    /\ receipt' = [receipt EXCEPT ![o] = Absent]
    /\ UNCHANGED <<process, world, retries>>

\* TaskService.stop; attachPlatform then builds another instance.
Stop(i) ==
    /\ i \in Gated \ stopped
    /\ stopped' = stopped \cup {i}
    /\ UNCHANGED <<receipt, active, line, pc, job, answer, world, retries>>

Crash ==
    /\ active' = {}
    /\ line' = [x \in Instances \X Ids |-> << >>]
    /\ pc' = [c \in Calls |-> "idle"]
    /\ answer' = [c \in Calls |-> "none"]
    /\ stopped' = {}
    /\ UNCHANGED <<job, store, world>>

\* The effect of a running request happens.
Land(c) ==
    /\ pc[c] = Performing
    /\ pc' = [pc EXCEPT ![c] = Applied]
    /\ effects' = [effects EXCEPT ![job[c].id] = @ + 1]
    /\ limbo' = [limbo EXCEPT ![job[c].id] = @ - 1]
    /\ UNCHANGED <<active, line, job, answer, stopped, store>>

Underway(o) == \E c \in Calls : pc[c] = Performing /\ job[c].id = o

\* The effect of a request whose caller gave up or died happens after all.
LandLate(o) ==
    /\ limbo[o] > (IF Underway(o) THEN 1 ELSE 0)
    /\ effects' = [effects EXCEPT ![o] = @ + 1]
    /\ limbo' = [limbo EXCEPT ![o] = @ - 1]
    /\ UNCHANGED <<process, store>>
-----------------------------------------------------------------------------
CallStep(c) ==
    \/ Replay(c)
    \/ Start(c)
    \/ Gate(c)
    \/ Land(c)
    \/ Succeed(c)
    \/ Refuse(c)
    \/ LoseReply(c)

Next ==
    \/ \E c \in Calls, i \in Instances, o \in Ids, p \in Params :
          Submit(c, i, o, p)
    \/ \E c \in Calls : CallStep(c)
    \/ \E o \in Ids, choice \in Choices : Resolve(o, choice)
    \/ \E o \in Ids : ResetFailed(o)
    \/ \E i \in Instances : Stop(i)
    \/ \E o \in Ids : LandLate(o)
    \/ Crash

Spec == Init /\ [][Next]_vars

\* Every external call has a time limit, so a running request is answered;
\* the promise queue then admits the next call.  Nobody has to decide, reset,
\* stop or crash.
Fairness ==
    \A c \in Calls :
        /\ WF_vars(Replay(c) \/ Start(c) \/ Gate(c))
        /\ WF_vars(Succeed(c) \/ Refuse(c) \/ LoseReply(c))

FairSpec == Spec /\ Fairness
-----------------------------------------------------------------------------
(* Properties *)

\* One id is never performed by two calls at once, whichever instances they
\* came through: the pending row and the shared active set keep a second
\* instance out although the mutexes are separate.
SingleFlight ==
    \A c, d \in Calls :
        Live(c) /\ Live(d) /\ job[c].id = job[d].id => c = d

\* Everything that happened or may still happen for an id is paid for by the
\* first attempt or by an explicit decision to retry, across crashes, lost
\* replies, late effects and deleted receipts.
NoBlindReplay ==
    \A o \in Ids : effects[o] + limbo[o] <= 1 + retries[o]

\* A caller that was told its operation succeeded is never told so for an
\* effect that did not happen.
OkMeansApplied ==
    \A c \in Calls : answer[c] = "ok" => effects[job[c].id] > 0

\* An unknown operation is retried at most once, as long as nobody deletes
\* its refused receipt.
RetryOnceWhileKept ==
    \A o \in Ids \ Resettable : retries[o] <= 1

\* A settled or decided row is final: done stays done, a decision to treat an
\* operation as done or to abandon it is never overwritten or deleted.
Final(r) ==
    /\ r # Absent
    /\ \/ r.state = "done"
       \/ r.choice \in {"treat_done", "abandon"}

FinalStays ==
    [][\A o \in Ids : Final(receipt[o]) => receipt'[o] = receipt[o]]_vars

\* A row that nobody is working on and whose outcome is unknown changes only
\* by an explicit decision that keeps everything else of it.
Unknown(o) ==
    /\ receipt[o] # Absent
    /\ receipt[o].state \in {"pending", "uncertain"}
    /\ receipt[o].choice = "none"
    /\ o \notin active

UnknownNeedsDecision ==
    [][\A o \in Ids : Unknown(o) =>
          receipt'[o] \in {receipt[o]} \cup
             {[receipt[o] EXCEPT !.choice = choice] : choice \in Choices}]_vars

\* Once a task instance has been told to stop, none of its calls submits a
\* new request, however long it had been queued.
StopGatesEffects ==
    [][\A c \in Calls :
          ~Live(c) /\ Live(c)' => job'[c].inst \notin stopped]_vars

\* Every call that got into the queue is answered.
CallsReturn == \A c \in Calls : pc[c] = Waiting ~> pc[c] = "idle"

\* The receipts implement the ledger.
Ledger == INSTANCE EffectLedger WITH
    permit <- [o \in Ids |-> 1 + retries[o] - effects[o] - limbo[o]],
    travel <- limbo,
    effect <- effects

ImplementsLedger == Ledger!LedgerSpec
=============================================================================
