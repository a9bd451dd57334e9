-------------------------------- MODULE Inbox --------------------------------
(***************************************************************************)
(* The durable inbox of src/app/inbox.ts: enqueue, the lanes that drain()  *)
(* starts, what a lane writes when the handler of a message ends, the      *)
(* notice that tells a chat its message was given up, shutdown and the     *)
(* recovery in the constructor.                                            *)
(*                                                                         *)
(* Code between two awaits is one step, so drain() claims every due notice *)
(* and starts its lanes at once, and a lane that finishes a message begins *)
(* the next one in the same step.  The handler and canRetry() are the      *)
(* application's: any outcome may come back.  The notice goes through the  *)
(* outbox, whose receipt for it is the variable outbox.                    *)
(***************************************************************************)
EXTENDS Naturals, Sequences, FiniteSets

CONSTANTS
    Messages, Lanes,
    LaneOf,        \* the lane (owner and chat) of a message
    Concurrency,   \* lanes one drain() lets run
    MaxAttempts,   \* attempts of a message before it is given up
    None

ASSUME InboxAssumption ==
    /\ LaneOf \in [Messages -> Lanes]
    /\ Concurrency \in Nat \ {0} /\ MaxAttempts \in Nat \ {0}
    /\ None \notin Messages

VARIABLES
    arrived,    \* messages in the order of their sequence numbers  (durable)
    record,     \* record[m]: its row                               (durable)
    outbox,     \* outbox[m]: receipt of m's interruption notice    (durable)
    lane,       \* lane[l]: what runLane(l) is doing                (volatile)
    notifying,  \* notifying[m]: how far notifyFailure(m) has got   (volatile)
    stopped,    \* shutdown() was called                            (volatile)
    starts,     \* starts[m]: times the handler was run on m        (history)
    copies      \* copies[m]: notices for m the chat received       (outside)

vars == <<arrived, record, outbox, lane, notifying, stopped, starts, copies>>

Absent == [state |-> "absent", tries |-> 0, waiting |-> FALSE,
           notice |-> "none", noticeWaiting |-> FALSE]

Records == [state : {"absent", "queued", "processing", "done", "failed",
                     "uncertain"},
            tries : 0..MaxAttempts,
            waiting : BOOLEAN,         \* nextAttemptAt is still to come
            notice : {"none", "pending", "attempted", "delivered"},
            noticeWaiting : BOOLEAN]   \* so is failureNoticeNextAttemptAt

Off == [pc |-> "off", msg |-> None, row |-> Absent]

TypeOK ==
    /\ arrived \in Seq(Messages)
    /\ record \in [Messages -> Records]
    /\ outbox \in [Messages -> {"none", "sending", "delivered", "retryable",
                                "uncertain"}]
    /\ lane \in [Lanes -> [pc : {"off", "processing", "notifying"},
                           msg : Messages \cup {None}, row : Records]]
    /\ notifying \in [Messages -> {"no", "claimed", "sending"}]
    /\ stopped \in BOOLEAN
    /\ starts \in [Messages -> Nat]
    /\ copies \in [Messages -> Nat]

Init ==
    /\ arrived = << >>
    /\ record = [m \in Messages |-> Absent]
    /\ outbox = [m \in Messages |-> "none"]
    /\ lane = [l \in Lanes |-> Off]
    /\ notifying = [m \in Messages |-> "no"]
    /\ stopped = FALSE
    /\ starts = [m \in Messages |-> 0]
    /\ copies = [m \in Messages |-> 0]

Position(m) == CHOOSE i \in 1..Len(arrived) : arrived[i] = m

\* A second delivery of a known event changes nothing; after shutdown() an
\* event is refused and not acknowledged.
Enqueue(m) ==
    /\ ~stopped
    /\ record[m] = Absent
    /\ arrived' = Append(arrived, m)
    /\ record' = [record EXCEPT ![m].state = "queued"]
    /\ UNCHANGED <<outbox, lane, notifying, stopped, starts, copies>>
-----------------------------------------------------------------------------
(* Lanes.  The operators take the rows as they are at that point of a step *)

\* Mutant: messages that wait for a retry are passed over.
QueuedDue(rows, l) ==
    {m \in Messages : /\ LaneOf[m] = l /\ rows[m].state = "queued"
                      /\ ~rows[m].waiting}

Queued(rows, l) ==
    {m \in Messages : LaneOf[m] = l /\ rows[m].state = "queued"}

First(ms) == CHOOSE m \in ms : \A n \in ms : Position(m) <= Position(n)

\* The loop of runLane goes on: its oldest queued message is due.
GoesOn(rows, l) ==
    /\ ~stopped
    /\ Queued(rows, l) # {}
    /\ ~rows[First(Queued(rows, l))].waiting

Started(rows, ls) == {First(Queued(rows, l)) : l \in {k \in ls : GoesOn(rows, k)}}

\* The lanes ls take their next messages, or end.
Advance(rows, ls) ==
    LET ms == Started(rows, ls)
        begun == [m \in Messages |->
                    IF m \in ms
                    THEN [rows[m] EXCEPT !.state = "processing", !.tries = @ + 1]
                    ELSE rows[m]]
    IN  /\ record' = begun
        /\ starts' = [m \in Messages |-> starts[m] + (IF m \in ms THEN 1 ELSE 0)]
        /\ lane' = [l \in Lanes |->
                      IF l \notin ls THEN lane[l]
                      ELSE IF ~GoesOn(rows, l) THEN Off
                      ELSE LET m == First(Queued(rows, l))
                           IN  [pc |-> "processing", msg |-> m, row |-> begun[m]]]

\* canResumeOutbox: the notice can be entered again without being doubled.
Resumable(m) == outbox[m] \in {"none", "retryable", "delivered"}

NoticeDue(row, m) ==
    /\ notifying[m] = "no"
    /\ \/ row.notice = "pending"
       \/ row.notice = "attempted" /\ Resumable(m)
    /\ ~row.noticeWaiting

Claimed(row) == [row EXCEPT !.notice = "attempted", !.noticeWaiting = FALSE]

\* drain() walks the due rows in order and starts the lane of each while
\* there is room; a lane whose oldest message is not due takes room and ends.
Eligible(rows) ==
    {l \in Lanes : /\ lane[l].pc = "off"
                   /\ \E m \in Queued(rows, l) : ~rows[m].waiting}

FirstDue(rows, l) == First({m \in Queued(rows, l) : ~rows[m].waiting})

Room == Concurrency - Cardinality({l \in Lanes : lane[l].pc # "off"})

Chosen(rows) ==
    {l \in Eligible(rows) :
        Cardinality({k \in Eligible(rows) :
            Position(FirstDue(rows, k)) < Position(FirstDue(rows, l))}) < Room}

Drain ==
    /\ ~stopped
    /\ LET due  == {m \in Messages : NoticeDue(record[m], m)}
           rows == [m \in Messages |->
                      IF m \in due THEN Claimed(record[m]) ELSE record[m]]
       IN  /\ due # {} \/ Chosen(rows) # {}
           /\ notifying' = [m \in Messages |->
                              IF m \in due THEN "claimed" ELSE notifying[m]]
           /\ Advance(rows, Chosen(rows))
    /\ UNCHANGED <<arrived, outbox, stopped, copies>>
-----------------------------------------------------------------------------
(* The handler of a message ends.  The row written back is the one read    *)
(* when the message was taken.                                             *)

Complete(l) ==
    /\ lane[l].pc = "processing"
    /\ LET m == lane[l].msg
       IN  Advance([record EXCEPT ![m] =
                      [lane[l].row EXCEPT !.state = "done", !.waiting = FALSE]],
                   {l})
    /\ UNCHANGED <<arrived, outbox, notifying, stopped, copies>>

\* canRetry() said yes: the message waits for its next attempt, its lane ends.
Retry(l) ==
    /\ lane[l].pc = "processing"
    /\ ~stopped
    /\ lane[l].row.tries < MaxAttempts
    /\ record' = [record EXCEPT ![lane[l].msg] =
                    [lane[l].row EXCEPT !.state = "queued", !.waiting = TRUE,
                                        !.notice = "none"]]
    /\ lane' = [lane EXCEPT ![l] = Off]
    /\ UNCHANGED <<arrived, outbox, notifying, stopped, starts, copies>>

\* The message is given up; unless the service is stopping the lane tells
\* the chat before it goes on.
Fail(l, how) ==
    /\ lane[l].pc = "processing"
    /\ LET m == lane[l].msg
           row == [lane[l].row EXCEPT !.state = how, !.waiting = FALSE,
                                      !.notice = "pending"]
           rows == [record EXCEPT ![m] = row]
       IN  IF ~stopped /\ NoticeDue(row, m)
           THEN /\ record' = [rows EXCEPT ![m] = Claimed(row)]
                /\ notifying' = [notifying EXCEPT ![m] = "claimed"]
                /\ lane' = [lane EXCEPT ![l].pc = "notifying"]
                /\ UNCHANGED starts
           ELSE Advance(rows, {l}) /\ UNCHANGED notifying
    /\ UNCHANGED <<arrived, outbox, stopped, copies>>
-----------------------------------------------------------------------------
(* notifyFailure after its claim *)

\* It ends with row as the row of m; a lane that waits for it goes on.
EndNotice(m, row) ==
    /\ notifying' = [notifying EXCEPT ![m] = "no"]
    /\ LET l == LaneOf[m]
           mine == lane[l].pc = "notifying" /\ lane[l].msg = m
       IN  Advance([record EXCEPT ![m] = row], IF mine THEN {l} ELSE {})
    /\ UNCHANGED <<arrived, stopped>>

Delivered(m) == [record[m] EXCEPT !.notice = "delivered"]
\* A refusal is retried later, if the claim is still the latest word.
Refused(m) == IF record[m].notice = "attempted"
              THEN [record[m] EXCEPT !.notice = "pending", !.noticeWaiting = TRUE]
              ELSE record[m]

\* The callback has nothing to tell: AI is off, the session was cleared.
NoticeSkip(m) ==
    /\ notifying[m] = "claimed"
    /\ EndNotice(m, Delivered(m))
    /\ UNCHANGED <<outbox, copies>>

\* No platform is attached.
NoticeUnplaced(m) ==
    /\ notifying[m] = "claimed"
    /\ outbox[m] \in {"none", "retryable"}
    /\ EndNotice(m, Refused(m))
    /\ UNCHANGED <<outbox, copies>>

\* Mutant: a notice whose delivery is unknown is sent again.
NoticeSendAgain(m) ==
    /\ notifying[m] = "claimed"
    /\ outbox[m] \in {"none", "retryable", "uncertain"}
    /\ outbox' = [outbox EXCEPT ![m] = "sending"]
    /\ notifying' = [notifying EXCEPT ![m] = "sending"]
    /\ UNCHANGED <<arrived, record, lane, stopped, starts, copies>>

NoticeSend(m) ==
    /\ notifying[m] = "claimed"
    /\ outbox[m] \in {"none", "retryable"}
    /\ outbox' = [outbox EXCEPT ![m] = "sending"]
    /\ notifying' = [notifying EXCEPT ![m] = "sending"]
    /\ UNCHANGED <<arrived, record, lane, stopped, starts, copies>>

\* The outbox already knows: delivered, or not to be sent again.
NoticeKnown(m) ==
    /\ notifying[m] = "claimed"
    /\ outbox[m] \in {"delivered", "sending", "uncertain"}
    /\ EndNotice(m, IF outbox[m] = "delivered" THEN Delivered(m) ELSE record[m])
    /\ UNCHANGED <<outbox, copies>>

NoticeSent(m) ==
    /\ notifying[m] = "sending"
    /\ outbox' = [outbox EXCEPT ![m] = "delivered"]
    /\ copies' = [copies EXCEPT ![m] = @ + 1]
    /\ EndNotice(m, Delivered(m))

NoticeRefused(m) ==
    /\ notifying[m] = "sending"
    /\ outbox' = [outbox EXCEPT ![m] = "retryable"]
    /\ EndNotice(m, Refused(m))
    /\ UNCHANGED copies

NoticeLost(m, arrives) ==
    /\ notifying[m] = "sending"
    /\ outbox' = [outbox EXCEPT ![m] = "uncertain"]
    /\ copies' = [copies EXCEPT ![m] = @ + arrives]
    /\ EndNotice(m, record[m])
-----------------------------------------------------------------------------
(* Time, shutdown and restart *)

RetryDue(m) ==
    /\ record[m].waiting
    /\ record' = [record EXCEPT ![m].waiting = FALSE]
    /\ UNCHANGED <<arrived, outbox, lane, notifying, stopped, starts, copies>>

NoticeRetryDue(m) ==
    /\ record[m].noticeWaiting
    /\ record' = [record EXCEPT ![m].noticeWaiting = FALSE]
    /\ UNCHANGED <<arrived, outbox, lane, notifying, stopped, starts, copies>>

Shutdown ==
    /\ ~stopped
    /\ stopped' = TRUE
    /\ UNCHANGED <<arrived, record, outbox, lane, notifying, starts, copies>>

\* Mutants: recovery has no bound; it starts counting again; it leaves alone
\* what was being handled.
RecoveredUnbounded(m, yes) ==
    IF record[m].state \in {"processing", "failed", "uncertain"} /\ m \in yes
    THEN [record[m] EXCEPT !.state = "queued", !.waiting = FALSE]
    ELSE IF record[m].state = "processing"
    THEN [record[m] EXCEPT !.state = "uncertain", !.notice = "pending"]
    ELSE record[m]

RecoveredAnew(m, yes) ==
    IF /\ record[m].state \in {"processing", "failed", "uncertain"}
       /\ record[m].tries < MaxAttempts /\ m \in yes
    THEN [record[m] EXCEPT !.state = "queued", !.waiting = FALSE, !.tries = 0]
    ELSE IF record[m].state = "processing"
    THEN [record[m] EXCEPT !.state = "uncertain", !.notice = "pending"]
    ELSE record[m]

RecoveredSettledOnly(m, yes) ==
    IF /\ record[m].state \in {"failed", "uncertain"}
       /\ record[m].tries < MaxAttempts /\ m \in yes
    THEN [record[m] EXCEPT !.state = "queued", !.waiting = FALSE]
    ELSE record[m]

\* The constructor over the rows of a previous process; yes holds the
\* messages for which canRetry() answers yes now.
Recovered(m, yes) ==
    IF /\ record[m].state \in {"processing", "failed", "uncertain"}
       /\ record[m].tries < MaxAttempts /\ m \in yes
    THEN [record[m] EXCEPT !.state = "queued", !.waiting = FALSE]
    ELSE IF record[m].state = "processing"
    THEN [record[m] EXCEPT !.state = "uncertain", !.notice = "pending"]
    ELSE record[m]

\* The process ends, orderly or not, and comes back.  A notice on its way
\* may still reach the chat.
Restart ==
    /\ \E yes \in SUBSET Messages :
          record' = [m \in Messages |-> Recovered(m, yes)]
    /\ lane' = [l \in Lanes |-> Off]
    /\ notifying' = [m \in Messages |-> "no"]
    /\ stopped' = FALSE
    /\ \E late \in SUBSET {m \in Messages : notifying[m] = "sending"} :
          copies' = [m \in Messages |-> copies[m] + (IF m \in late THEN 1 ELSE 0)]
    /\ UNCHANGED <<arrived, outbox, starts>>

NoticeStep(m) ==
    \/ NoticeSkip(m) \/ NoticeUnplaced(m) \/ NoticeSend(m) \/ NoticeKnown(m)
    \/ NoticeSent(m) \/ NoticeRefused(m)
    \/ \E arrives \in {0, 1} : NoticeLost(m, arrives)

HandlerEnds(l) == \/ Complete(l) \/ Retry(l)
                  \/ \E how \in {"failed", "uncertain"} : Fail(l, how)

Next ==
    \/ \E m \in Messages : Enqueue(m)
    \/ Drain
    \/ \E l \in Lanes : HandlerEnds(l)
    \/ \E m \in Messages : NoticeStep(m)
    \/ \E m \in Messages : RetryDue(m) \/ NoticeRetryDue(m)
    \/ Shutdown
    \/ Restart

Spec == Init /\ [][Next]_vars

\* The service drains on every tick, handlers and sends have time limits,
\* and the clock goes on.
Fairness ==
    /\ WF_vars(Drain)
    /\ \A l \in Lanes : WF_vars(HandlerEnds(l))
    /\ \A m \in Messages : WF_vars(NoticeStep(m)) /\ WF_vars(RetryDue(m))

FairSpec == Spec /\ Fairness
-----------------------------------------------------------------------------
(* Properties *)

\* A message is handled at most MaxAttempts times, counting the attempts
\* that a crash cut short: a message that kills the service cannot do so
\* for ever.
AttemptsBounded == \A m \in Messages : starts[m] <= MaxAttempts

Before(m, n) == Position(m) < Position(n)

\* A lane keeps the order of its chat: no message is taken while an older one
\* of the same lane waits, is retried or is being handled.
LaneInOrder ==
    [][\A n \in Messages : starts'[n] > starts[n] =>
          \A m \in Messages :
             LaneOf[m] = LaneOf[n] /\ m # n /\ record[m] # Absent /\ Before(m, n)
                => record'[m].state \notin {"queued", "processing"}]_vars

\* Lanes and rows agree: the handler runs on exactly the rows that say so,
\* whatever notices and stale rows were written in between.
HandlerMatchesRow ==
    \A m \in Messages :
        record[m].state = "processing" <=>
            /\ lane[LaneOf[m]].pc = "processing"
            /\ lane[LaneOf[m]].msg = m

\* A chat is told at most once that one of its messages was interrupted,
\* through refusals, lost replies, overlapping drains and restarts.
NoticeOnce == \A m \in Messages : copies[m] <= 1

\* What the notice says: automatic recovery did not succeed.  It is claimed
\* only for a message that is given up.
NoticeMeansGivenUp ==
    [][\A m \in Messages : notifying[m] = "no" /\ notifying'[m] = "claimed"
          => record'[m].state \in {"failed", "uncertain"}]_vars

\* Every accepted message is settled unless the service stops.
AcceptedSettles ==
    \A m \in Messages :
        record[m].state \in {"queued", "processing"} ~>
            record[m].state \in {"done", "failed", "uncertain"} \/ stopped
=============================================================================
