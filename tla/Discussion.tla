----------------------------- MODULE Discussion -----------------------------
(***************************************************************************)
(* A round-robin discussion: what participants say natively is captured,   *)
(* shown to the user and handed to the next participant (tasks/observe.ts, *)
(* relayDiscussion of tasks/send.ts, the hooks of app/application.ts and   *)
(* the resume of tasks/service.ts).  One process, the holder of the task's *)
(* mutex, makes ticks; `pc` is the await it stands at.  The participants   *)
(* speak, sessions are cleared, panes disappear, requests land late, users *)
(* pause and resume, and the process crashes in between.                   *)
(*                                                                         *)
(* Outputs are numbered in the order they are said; said[o] is the speaker.*)
(* What sending an input does in detail is Execution.tla, what posting a   *)
(* message does is Outbox.tla.                                             *)
(***************************************************************************)
EXTENDS Integers, Sequences, FiniteSets, FiniteSetsExt, SequencesExt

CONSTANTS
    N,              \* participants 1..N in the order of the roster
    MaxOutputs,     \* bound: final records said in all
    MaxTroubles,    \* bound: refused or lost requests, lost panes, new sessions, crashes
    MaxWords        \* bound: pauses and resumes of the user

DiscussionAssumption ==
    N \in Nat \ {0, 1} /\ MaxOutputs \in Nat /\ MaxTroubles \in Nat /\ MaxWords \in Nat

Members  == 1..N
Outputs == 1..MaxOutputs
Relays  == Outputs \X {"relay", "resume"}   \* operation ids: of a hand-over, of one after a resume
NoRelay == <<0, "relay">>

VARIABLES
    active, paused,     \* discussion.activeParticipant and .paused, with who paused it
    st, sent,           \* participant status and initialSent
    cursor, base,       \* transcript cursor, participant_input_baseline
    awaits,             \* participant_awaiting_output
    book,               \* captured outputs in the order of task_output_sequence
    note, box, shown,   \* pending_outputs, rows of the outbox, messages the user sees
    relay, settled,     \* pending_relays, task_settled_outputs
    op, row, applied,   \* receipts, input_deliveries and task_input_applied of hand-overs
    pc, cur, at, snap, inp,   \* the holder: place, participant, position in book, status read, hand-over
    said, busy, alive, old,   \* native: records, running turns, panes, what older sessions said
    wire, landed,       \* requests under way, how often they arrived
    luck, words

rows   == <<active, paused, st, sent, cursor, base, awaits, book, relay, settled, op, row, applied>>
told   == <<note, box, shown>>
holder == <<pc, cur, at, snap, inp>>
native == <<said, busy, alive, old, wire, landed>>
bounds == <<luck, words>>
vars   == <<rows, told, holder, native, bounds>>

Rows  == [seq : 0..MaxOutputs, now : BOOLEAN]   \* outputSequence, pauseRevision is current
NoRow == [seq |-> 0, now |-> FALSE]

TypeOK ==
    /\ active \in Members /\ paused \in {"no", "auto", "user"}
    /\ st \in [Members -> {"idle", "working", "gone"}] /\ sent \in [Members -> BOOLEAN]
    /\ cursor \in [Members -> 0..MaxOutputs] /\ base \in [Members -> 0..MaxOutputs]
    /\ awaits \in [Members -> BOOLEAN]
    /\ book \in Seq(Outputs) /\ IsInjective(book)
    /\ note \in [Outputs -> {"none", "new", "sending", "retryable", "uncertain"}]
    /\ box \in [Outputs -> {"none", "sending", "delivered", "retryable", "uncertain"}]
    /\ shown \in [Outputs -> Nat] /\ landed \in [Relays -> Nat]
    /\ relay \subseteq ToSet(book) /\ settled \subseteq ToSet(book)
    /\ op \in [Relays -> {"none", "pending", "done", "failed", "uncertain", "proven"}]
    /\ row \in [Relays -> Rows] /\ applied \subseteq Relays /\ wire \subseteq Relays
    /\ pc \in {"free", "proof", "look", "page", "sample", "deliver", "tell", "telling", "posted",
               "shown", "relay", "next", "baseline", "write", "echo", "settled", "handed"}
    /\ cur \in Members /\ at \in 1..(MaxOutputs + 1) /\ snap \in {"idle", "working"}
    /\ inp \in Relays \cup {NoRelay}
    /\ said \in Seq(Members) /\ Len(said) <= MaxOutputs
    /\ busy \in [Members -> BOOLEAN] /\ alive \in [Members -> BOOLEAN]
    /\ old \in [Members -> 0..MaxOutputs]
    /\ luck \in 0..MaxTroubles /\ words \in 0..MaxWords

\* The first participant has the task and works; nobody else was asked yet.
Init ==
    /\ active = 1 /\ paused = "no"
    /\ st = [p \in Members |-> IF p = 1 THEN "working" ELSE "idle"]
    /\ sent = [p \in Members |-> p = 1] /\ awaits = sent
    /\ cursor = [p \in Members |-> 0] /\ base = cursor
    /\ book = <<>> /\ relay = {} /\ settled = {}
    /\ note = [o \in Outputs |-> "none"] /\ box = note
    /\ shown = [o \in Outputs |-> 0]
    /\ op = [r \in Relays |-> "none"] /\ row = [r \in Relays |-> NoRow] /\ applied = {}
    /\ pc = "free" /\ cur = 1 /\ at = 1 /\ snap = "idle" /\ inp = NoRelay
    /\ said = <<>> /\ busy = sent /\ alive = [p \in Members |-> TRUE]
    /\ old = cursor /\ wire = {} /\ landed = [r \in Relays |-> 0]
    /\ luck = MaxTroubles /\ words = MaxWords

Trouble == luck > 0 /\ luck' = luck - 1 /\ UNCHANGED words
Word    == words > 0 /\ words' = words - 1 /\ UNCHANGED luck
Enough  == UNCHANGED bounds

Go(place) == pc' = place /\ UNCHANGED <<cur, at, snap, inp>>
Leave     == pc' = "free" /\ cur' = 1 /\ at' = 1 /\ snap' = "idle" /\ inp' = NoRelay

NextOf(p)  == (p % N) + 1
Target(r)  == NextOf(said[r[1]])
Visible(p) == {o \in DOMAIN said : said[o] = p /\ o > old[p]}   \* in the native session
Latest(p)  == IF Visible(p) = {} THEN 0 ELSE Max(Visible(p))    \* sampleLastReply
Unknown(o) == \E r \in Relays : o[r] \in {"pending", "uncertain"}

\* The catch of reconcile(): an unknown outcome pauses the scheduling.
Caught(o) == IF Unknown(o) /\ paused = "no" THEN "auto" ELSE paused
-----------------------------------------------------------------------------
(* recoverInitialInputs: the native record of an input proves it *)

Tick ==
    /\ pc = "free" /\ Go("proof") /\ UNCHANGED <<rows, told, native>> /\ Enough

Provable(r) ==
    /\ r \notin applied /\ row[r] # NoRow /\ alive[Target(r)]
    /\ \/ op[r] \in {"done", "proven"}
       \/ op[r] \in {"pending", "uncertain"} /\ landed[r] > 0 /\ old[Target(r)] <= row[r].seq

Settled(p, seq) == \E i \in DOMAIN book : i > seq /\ said[book[i]] = p /\ book[i] \in settled

Prove(r) ==
    LET p == Target(r) IN
    /\ pc = "proof" /\ Provable(r)
    /\ op' = [op EXCEPT ![r] = IF @ = "done" THEN @ ELSE "proven"]
    /\ applied' = applied \cup {r}
    /\ sent' = [sent EXCEPT ![p] = TRUE]
    /\ awaits' = [awaits EXCEPT ![p] = @ \/ ~Settled(p, row[r].seq)]
    /\ active' = p
    /\ paused' = IF paused = "auto" /\ ~Unknown(op') /\ row[r].now THEN "no" ELSE paused
    /\ UNCHANGED <<st, cursor, base, book, relay, settled, row, told, holder, native>> /\ Enough

Proofs ==
    /\ pc = "proof" /\ \A r \in Relays : ~Provable(r)
    /\ pc' = "look" /\ cur' = 1 /\ UNCHANGED <<at, snap, inp, rows, told, native>> /\ Enough
-----------------------------------------------------------------------------
(* observeTask: the status first, then the new records, then the last one *)

NextPerson ==
    IF cur < N THEN pc' = "look" /\ cur' = cur + 1 /\ UNCHANGED <<at, snap, inp>>
    ELSE pc' = "deliver" /\ at' = 1 /\ UNCHANGED <<cur, snap, inp>>

\* recordOutput and captureOutput, one transaction: a record is captured once.
captured == <<book, relay, note>>
Record(o) ==
    IF o \in ToSet(book) THEN UNCHANGED captured
    ELSE /\ book' = Append(book, o) /\ relay' = relay \cup {o}
         /\ note' = [note EXCEPT ![o] = "new"]
\* Any final reply counts that is no baseline; the code may leave out one that reads
\* like the last output.
LastReply == IF Latest(cur) \in {0, base[cur]} THEN UNCHANGED captured ELSE Record(Latest(cur))

Look ==
    /\ pc = "look" /\ alive[cur] /\ st[cur] # "gone"
    /\ snap' = IF busy[cur] THEN "working" ELSE "idle"
    /\ pc' = "page" /\ UNCHANGED <<cur, at, inp>>
    /\ IF old[cur] > cursor[cur]        \* another native session: the turn is gone
       THEN /\ awaits' = [awaits EXCEPT ![cur] = FALSE]
            /\ relay' = {o \in relay : said[o] # cur}
            /\ cursor' = [cursor EXCEPT ![cur] = Len(said)]
            /\ base' = [base EXCEPT ![cur] = Latest(cur)]
       ELSE UNCHANGED <<awaits, relay, cursor, base>>
    /\ UNCHANGED <<active, paused, st, sent, book, settled, op, row, applied, told, native>> /\ Enough

\* A read that fails ends the tick.
LookFails ==
    /\ pc \in {"look", "page", "sample", "next"} /\ Trouble /\ Leave
    /\ paused' = Caught(op)
    /\ UNCHANGED <<active, st, sent, cursor, base, awaits, book, relay, settled, op, row, applied, told, native>>

\* A definite absence pauses; the last reply is saved before the pane is forgotten.
Gone ==
    /\ pc = "look" /\ ~alive[cur] /\ st[cur] # "gone"
    /\ st' = [st EXCEPT ![cur] = "gone"]
    /\ paused' = IF paused = "no" THEN "auto" ELSE paused
    /\ IF sent[cur] THEN LastReply ELSE UNCHANGED captured
    /\ NextPerson
    /\ UNCHANGED <<active, sent, cursor, base, awaits, settled, op, row, applied, box, shown, native>> /\ Enough

Skip ==
    /\ pc = "look" /\ st[cur] = "gone" /\ NextPerson
    /\ UNCHANGED <<rows, told, native>> /\ Enough

\* Every new record of the page has a transaction of its own, in their order; the
\* cursor moves after the last one.
Fresh == {o \in Visible(cur) : sent[cur] /\ o > cursor[cur] /\ o \notin ToSet(book)}

Entry ==
    /\ pc = "page"
    /\ \E o \in Fresh : (\A other \in Fresh : o <= other) /\ Record(o)
    /\ st' = [st EXCEPT ![cur] = snap]
    /\ UNCHANGED <<active, paused, sent, cursor, base, awaits, settled, op, row, applied, box, shown, holder, native>>
    /\ Enough

Page ==
    /\ pc = "page" /\ Fresh = {}
    /\ cursor' = [cursor EXCEPT ![cur] = Len(said)]
    /\ st' = [st EXCEPT ![cur] = snap]
    /\ IF sent[cur] /\ snap = "idle" THEN Go("sample") ELSE NextPerson
    /\ UNCHANGED <<active, paused, sent, base, awaits, book, relay, settled, op, row, applied, told, native>> /\ Enough

Sample ==
    /\ pc = "sample" /\ LastReply /\ NextPerson
    /\ UNCHANGED <<active, paused, st, sent, cursor, base, awaits, settled, op, row, applied, box, shown, native>>
    /\ Enough
-----------------------------------------------------------------------------
(* deliverOutput, the output hook and the outbox *)

\* Mutant: a refused delivery is not taken up again.
OnlyNew  == {i \in DOMAIN book : i >= at /\ note[book[i]] = "new"}
Waiting  == {i \in DOMAIN book : i >= at /\ note[book[i]] # "none"}
Here     == book[Min(Waiting)]
GoOn     == pc' = "deliver" /\ at' = at + 1 /\ UNCHANGED <<cur, snap, inp>>
OnlyNote(o, state) ==
    note' = [note EXCEPT ![o] = state] /\ UNCHANGED <<rows, box, shown, native>>

Confirmed(o) == box[o] = "delivered"                                     \* outputConfirmed
Resumable(o) == note[o] \in {"sending", "uncertain"} /\ box[o] \in {"none", "retryable"}   \* outputRetryable
Tellable(o)  == note[o] \in {"new", "retryable"} \/ Confirmed(o) \/ Resumable(o)

Deliver ==
    /\ pc = "deliver" /\ Waiting # {} /\ Tellable(Here)
    /\ OnlyNote(Here, "sending") /\ at' = Min(Waiting)
    /\ pc' = "tell" /\ UNCHANGED <<cur, snap, inp>> /\ Enough

\* Without proof, an interrupted delivery is unknown and never repeated.
DeliverUnknown ==
    /\ pc = "deliver" /\ Waiting # {} /\ ~Tellable(Here)
    /\ OnlyNote(Here, "uncertain") /\ at' = Min(Waiting) + 1
    /\ pc' = "deliver" /\ UNCHANGED <<cur, snap, inp>> /\ Enough

\* Mutant: the outbox posts whatever its row says.
TellAgain ==
    /\ pc = "tell" /\ Go("telling") /\ box' = [box EXCEPT ![book[at]] = "sending"]
    /\ UNCHANGED <<rows, note, shown, native>> /\ Enough
\* Outbox.send returns at once for a delivered row; a hand-over to it never
\* meets a row without an outcome.
Tell ==
    /\ pc = "tell" /\ box[book[at]] \notin {"sending", "uncertain"}
    /\ IF box[book[at]] = "delivered" THEN Go("shown") /\ UNCHANGED box
       ELSE Go("telling") /\ box' = [box EXCEPT ![book[at]] = "sending"]
    /\ UNCHANGED <<rows, note, shown, native>> /\ Enough

\* The message appears; then its answer arrives, and then the row is deleted.
Post ==
    /\ pc = "telling" /\ shown' = [shown EXCEPT ![book[at]] = @ + 1]
    /\ Go("posted") /\ UNCHANGED <<rows, note, box, native>> /\ Enough
Posted ==
    /\ pc = "posted" /\ box' = [box EXCEPT ![book[at]] = "delivered"]
    /\ Go("shown") /\ UNCHANGED <<rows, note, shown, native>> /\ Enough
Told == pc = "shown" /\ OnlyNote(book[at], "none") /\ GoOn /\ Enough

TellFails(state) ==
    /\ \/ pc = "telling" /\ state \in {"retryable", "uncertain"}
       \/ pc = "posted" /\ state = "uncertain"
    /\ Trouble
    /\ box' = [box EXCEPT ![book[at]] = state] /\ note' = [note EXCEPT ![book[at]] = state]
    /\ GoOn /\ UNCHANGED <<rows, shown, native>>

AllTold ==
    /\ pc = "deliver" /\ Waiting = {} /\ pc' = "relay" /\ at' = 1
    /\ UNCHANGED <<cur, snap, inp, rows, told, native>> /\ Enough
-----------------------------------------------------------------------------
(* flushPendingTaskEvents and relayDiscussion *)

Pending   == {i \in DOMAIN book : i >= at /\ book[i] \in relay}
It        == book[Min(Pending)]
IsLast(o) == ~\E i, j \in DOMAIN book : i < j /\ book[i] = o /\ book[j] \in relay /\ said[book[j]] = said[o]
Past      == pc' = "relay" /\ at' = Min(Pending) + 1 /\ UNCHANGED <<cur, snap, inp>>

\* Of the records of one turn only the last is handed over.
RelayOlder ==
    /\ pc = "relay" /\ Pending # {} /\ ~IsLast(It)
    /\ relay' = relay \ {It} /\ Past
    /\ UNCHANGED <<active, paused, st, sent, cursor, base, awaits, book, settled, op, row, applied, told, native>> /\ Enough

\* Mutant: the status of the speaker is not asked.
AnyStatus(p) == TRUE
Rested(p) == st[p] = "idle"

\* The speaker still works, or is gone.
RelayWaits ==
    /\ pc = "relay" /\ Pending # {} /\ IsLast(It) /\ ~Rested(said[It])
    /\ Past /\ UNCHANGED <<rows, told, native>> /\ Enough

Mine(p) == active = p

\* The turn is settled; then the next one gets it, later or never.
Relay ==
    LET p == said[It] IN
    /\ pc = "relay" /\ Pending # {} /\ IsLast(It) /\ Rested(p)
    /\ settled' = settled \cup {It} /\ awaits' = [awaits EXCEPT ![p] = FALSE]
    /\ IF Mine(p) /\ paused = "no" /\ st[NextOf(p)] # "gone"
       THEN /\ pc' = "next" /\ cur' = NextOf(p) /\ at' = Min(Pending) /\ inp' = <<It, "relay">>
            /\ UNCHANGED <<snap, relay>>
       ELSE Past /\ relay' = IF Mine(p) THEN relay ELSE relay \ {It}
    /\ UNCHANGED <<active, paused, st, sent, cursor, base, book, op, row, applied, told, native>> /\ Enough

AllRelayed ==
    /\ pc = "relay" /\ Pending = {} /\ Leave /\ UNCHANGED <<rows, told, native>> /\ Enough

GiveUp == IF inp[2] = "relay" THEN pc' = "relay" /\ at' = at + 1 /\ UNCHANGED <<cur, snap, inp>> ELSE Leave
Failed(o) == op' = o /\ paused' = Caught(o) /\ Leave   \* the send throws, the tick ends

\* The next participant is asked whether it can take an input now.
NextBusy ==
    /\ pc = "next" /\ alive[cur] /\ busy[cur]
    /\ st' = [st EXCEPT ![cur] = "working"] /\ GiveUp
    /\ UNCHANGED <<active, paused, sent, cursor, base, awaits, book, relay, settled, op, row, applied, told, native>> /\ Enough

NextReady ==
    /\ pc = "next" /\ alive[cur] /\ ~busy[cur] /\ op[inp] \in {"none", "failed", "done", "proven"}
    /\ st' = [st EXCEPT ![cur] = "idle"]
    /\ IF op[inp] \in {"none", "failed"}
       THEN Go("baseline") /\ op' = [op EXCEPT ![inp] = "pending"]
       ELSE Go("settled") /\ UNCHANGED op
    /\ UNCHANGED <<active, paused, sent, cursor, base, awaits, book, relay, settled, row, applied, told, native>> /\ Enough

NextUnknown ==
    /\ pc = "next"
    /\ ~alive[cur] \/ (~busy[cur] /\ op[inp] \in {"pending", "uncertain"})
    /\ Failed(op)
    /\ UNCHANGED <<active, st, sent, cursor, base, awaits, book, relay, settled, row, applied, told, native>> /\ Enough

\* captureInputBaseline and prepareInputDelivery
Baseline ==
    /\ pc = "baseline"
    /\ base' = [base EXCEPT ![cur] = Latest(cur)]
    /\ row' = [row EXCEPT ![inp] = [seq |-> Len(book), now |-> TRUE]]
    /\ Go("write")
    /\ UNCHANGED <<active, paused, st, sent, cursor, awaits, book, relay, settled, op, applied, told, native>> /\ Enough

Write ==
    /\ pc = "write" /\ wire' = wire \cup {inp} /\ Go("echo")
    /\ UNCHANGED <<rows, told, said, busy, alive, old, landed>> /\ Enough

SendRefused ==
    /\ pc \in {"baseline", "write"} /\ Trouble /\ Failed([op EXCEPT ![inp] = "failed"])
    /\ UNCHANGED <<active, st, sent, cursor, base, awaits, book, relay, settled, row, applied, told, native>>

Echoed ==
    /\ pc = "echo" /\ landed[inp] > 0 /\ inp \notin wire
    /\ op' = [op EXCEPT ![inp] = "done"] /\ Go("settled")
    /\ UNCHANGED <<active, paused, st, sent, cursor, base, awaits, book, relay, settled, row, applied, told, native>> /\ Enough

NotEchoed ==
    /\ pc = "echo" /\ Trouble /\ Failed([op EXCEPT ![inp] = "uncertain"])
    /\ UNCHANGED <<active, st, sent, cursor, base, awaits, book, relay, settled, row, applied, told, native>>

\* The verification has a deadline: what never arrived is unknown, too.
Unheard ==
    /\ pc = "echo" /\ landed[inp] = 0 /\ inp \notin wire /\ Failed([op EXCEPT ![inp] = "uncertain"])
    /\ UNCHANGED <<active, st, sent, cursor, base, awaits, book, relay, settled, row, applied, told, native>> /\ Enough

Apply ==
    /\ pc = "settled"
    /\ IF inp \in applied THEN UNCHANGED <<applied, awaits, sent, st, active>>
       ELSE /\ applied' = applied \cup {inp}
            /\ awaits' = [awaits EXCEPT ![cur] = TRUE] /\ sent' = [sent EXCEPT ![cur] = TRUE]
            /\ st' = [st EXCEPT ![cur] = "working"] /\ active' = cur
    /\ IF inp[2] = "relay" THEN Go("handed") ELSE Leave
    /\ UNCHANGED <<paused, cursor, base, book, relay, settled, op, row, told, native>> /\ Enough

Handed ==
    /\ pc = "handed" /\ relay' = relay \ {inp[1]} /\ GiveUp
    /\ UNCHANGED <<active, paused, st, sent, cursor, base, awaits, book, settled, op, row, applied, told, native>> /\ Enough
-----------------------------------------------------------------------------
(* The user, the participants and the process *)

Pause ==
    /\ pc = "free" /\ Word /\ paused' = "user"
    /\ row' = [r \in Relays |-> [row[r] EXCEPT !.now = FALSE]]
    /\ UNCHANGED <<active, st, sent, cursor, base, awaits, book, relay, settled, op, applied, told, holder, native>>

\* A resume hands the last captured output over again, under an id of its own.
Resume ==
    /\ pc = "free" /\ Word /\ paused' = "no"
    /\ LET o == Last(book) IN
       IF book # <<>> /\ st[said[o]] = "idle" /\ active = said[o] /\ st[NextOf(said[o])] # "gone"
       THEN pc' = "next" /\ cur' = NextOf(said[o]) /\ inp' = <<o, "resume">> /\ UNCHANGED <<at, snap>>
       ELSE UNCHANGED holder
    /\ UNCHANGED <<active, st, sent, cursor, base, awaits, book, relay, settled, op, row, applied, told, native>>

Land(r) ==
    /\ r \in wire /\ wire' = wire \ {r}
    /\ IF alive[Target(r)]
       THEN busy' = [busy EXCEPT ![Target(r)] = TRUE] /\ landed' = [landed EXCEPT ![r] = @ + 1]
       ELSE UNCHANGED <<busy, landed>>
    /\ UNCHANGED <<rows, told, holder, said, alive, old>> /\ Enough

Say(p) ==
    /\ busy[p] /\ Len(said) < MaxOutputs /\ said' = Append(said, p)
    /\ UNCHANGED <<rows, told, holder, busy, alive, old, wire, landed>> /\ Enough

\* A turn ends after at least one final record.
Rest(p) ==
    /\ busy[p] /\ (Len(said) < MaxOutputs => said # <<>> /\ Last(said) = p)
    /\ busy' = [busy EXCEPT ![p] = FALSE]
    /\ UNCHANGED <<rows, told, holder, said, alive, old, wire, landed>> /\ Enough

Clear(p) ==
    /\ alive[p] /\ said # <<>> /\ Trouble
    /\ old' = [old EXCEPT ![p] = Len(said)] /\ busy' = [busy EXCEPT ![p] = FALSE]
    /\ UNCHANGED <<rows, told, holder, said, alive, wire, landed>>

Lose(p) ==
    /\ alive[p] /\ Trouble /\ alive' = [alive EXCEPT ![p] = FALSE]
    /\ busy' = [busy EXCEPT ![p] = FALSE]
    /\ UNCHANGED <<rows, told, holder, said, old, wire, landed>>

Crash == pc # "free" /\ Trouble /\ Leave /\ UNCHANGED <<rows, told, native>>

Holder ==
    \/ Tick \/ (\E r \in Relays : Prove(r)) \/ Proofs \/ Look \/ Gone \/ Skip \/ Entry \/ Page \/ Sample
    \/ Deliver \/ DeliverUnknown \/ Tell \/ Post \/ Posted \/ Told \/ AllTold
    \/ RelayOlder \/ RelayWaits \/ Relay \/ AllRelayed
    \/ NextBusy \/ NextReady \/ NextUnknown \/ Baseline \/ Write \/ Echoed \/ Unheard \/ Apply \/ Handed

Troubles ==
    \/ LookFails \/ SendRefused \/ NotEchoed \/ Crash
    \/ \E state \in {"retryable", "uncertain"} : TellFails(state)
    \/ \E p \in Members : Clear(p) \/ Lose(p)

Native == \E p \in Members : Say(p) \/ Rest(p)
Arrive == \E r \in Relays : Land(r)

Next == Holder \/ Troubles \/ Native \/ Arrive \/ Pause \/ Resume
Spec == Init /\ [][Next]_vars

\* The tick comes again and again (the timer of service.ts), requests arrive and
\* turns end; troubles and users' words need not happen.
FairSpec == Spec /\ WF_vars(Holder) /\ WF_vars(Arrive) /\ WF_vars(Native)
-----------------------------------------------------------------------------
\* Nothing a participant said is shown twice, whatever is refused, lost or
\* interrupted between the outbox row and the pending output.
ShownOnce == \A o \in Outputs : shown[o] <= 1

\* Without a resume of the user nobody is asked while somebody else works: the
\* turn passes on when it is settled, and a late input leaves the old one aside.
Resumed    == \E o \in Outputs : op[<<o, "resume">>] # "none"
OneSpeaker == Resumed \/ Cardinality({p \in Members : busy[p]}) <= 1

\* Every captured output is shown in the end, or is known to be unknown.
EveryOutputTold == \A o \in Outputs : o \in ToSet(book) ~> note[o] \in {"none", "uncertain"}

\* When everything is quiet, the last word of the participant whose turn it is
\* was handed on ("Temporary waits keep their durable handoff", tasks/send.ts).
Quiet ==
    /\ pc = "free" /\ paused = "no" /\ wire = {} /\ ~Unknown(op)
    /\ \A p \in Members : alive[p] /\ ~busy[p] /\ st[p] = "idle" /\ old[p] = 0 /\ ~awaits[p]
HandoffKept ==
    (Quiet /\ ~Resumed /\ Latest(active) \in settled \ relay) => landed[<<Latest(active), "relay">>] > 0
=============================================================================
