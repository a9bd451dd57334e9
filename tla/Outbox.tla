------------------------------- MODULE Outbox -------------------------------
(***************************************************************************)
(* Outbox.send of src/app/outbox.ts: a text is cut into parts, each part   *)
(* is one platform request, and the row is written before and after each.  *)
(* Callers may send the same id at the same time and again after an error; *)
(* nothing but the row keeps them apart.  Rows that older versions left    *)
(* have no envelope: their reply target is not known.                      *)
(*                                                                         *)
(* A request whose reply is lost, or whose sender crashed, may reach the   *)
(* chat later.                                                             *)
(***************************************************************************)
EXTENDS Naturals, Sequences

CONSTANTS
    Ids, Senders,
    Texts,      \* chat and text of a message, as one value
    Targets,    \* the message a reply is attached to, or none
    Parts,      \* number of parts of a text
    None

OutboxAssumption == Parts \in Nat \ {0} /\ None \notin Targets \cup Texts \cup Ids

VARIABLES
    row,      \* row[o]: the outbox row, or Absent                  (durable)
    sender,   \* sender[s]: idle, or the request s waits for        (volatile)
    confirmed,\* ids a caller was told were sent                   (history)
    limbo,    \* requests that may yet reach the chat               (outside)
    shown,    \* shown[o]: the parts of o in the chat, in order     (outside)
    given     \* given[o]: text and target of every request for o   (history)

vars == <<row, sender, confirmed, limbo, shown, given>>

Absent == [state |-> "absent"]
Rows == [state : {"prepared", "sending", "delivered", "uncertain", "retryable"},
         text : Texts,
         envelope : Targets \cup {None},   \* None: written by an old version
         ids : 0..Parts,                   \* parts with a message id
         refused : BOOLEAN,                \* the error is a definite refusal
         failed : BOOLEAN]                 \* there is an error

Idle == [pc |-> "idle", id |-> None, part |-> 0]
Requests == [id : Ids, part : 1..Parts]

TypeOK ==
    /\ row \in [Ids -> Rows \cup {Absent}]
    /\ \A s \in Senders : sender[s] = Idle \/
          sender[s] \in [pc : {"sending", "arrived"}, id : Ids, part : 1..Parts]
    /\ confirmed \subseteq Ids
    /\ limbo \subseteq Requests
    /\ shown \in [Ids -> Seq(1..Parts)]
    /\ given \in [Ids -> SUBSET (Texts \X Targets)]

\* What an old version can have left behind: the states of a row, with the
\* parts that reached the chat.
OldRows ==
    {r \in Rows :
        /\ r.envelope = None /\ r.state # "sending"
        /\ r.state = "delivered" <=> r.ids = Parts
        /\ r.state \in {"retryable", "uncertain"} <=> r.failed
        /\ r.refused <=> r.state = "retryable"}

Init ==
    /\ row \in [Ids -> {Absent} \cup OldRows]
    /\ sender = [s \in Senders |-> Idle]
    /\ confirmed = {}
    /\ limbo = {}
    /\ shown = [o \in Ids |-> IF row[o] = Absent THEN << >>
                              ELSE [i \in 1..row[o].ids |-> i]]
    /\ given = [o \in Ids |-> {}]
-----------------------------------------------------------------------------
Legacy(r) == r # Absent /\ r.envelope = None

\* Mutant: the reply target is not compared.
ConflictOfText(r, x, t) == r # Absent /\ r.text # x

\* The stored row is about another message, or about another reply target.
Conflict(r, x, t) ==
    r # Absent /\ (r.text # x \/ (~Legacy(r) /\ r.envelope # t))

\* An old row may go out again only if nothing of it ever did.
Unsent(r) ==
    /\ r.ids = 0
    /\ \/ r.state = "prepared" /\ ~r.failed
       \/ r.state = "retryable" /\ r.refused

\* Mutants: rows whose outcome is unknown are sent again; rows of a crashed
\* sender are; delivered ones are.
AdmitsUncertain(r, x, t) ==
    /\ ~Conflict(r, x, t)
    /\ r # Absent => /\ r.state \in {"prepared", "retryable", "uncertain"}
                     /\ Legacy(r) => Unsent(r)

AdmitsSending(r, x, t) ==
    /\ ~Conflict(r, x, t)
    /\ r # Absent => /\ r.state \in {"prepared", "retryable", "sending"}
                     /\ Legacy(r) => Unsent(r)

AdmitsDelivered(r, x, t) ==
    /\ ~Conflict(r, x, t)
    /\ r # Absent => /\ r.state \in {"prepared", "retryable", "delivered"}
                     /\ Legacy(r) => Unsent(r)

\* The row lets send() go on to the platform.
Admits(r, x, t) ==
    /\ ~Conflict(r, x, t)
    /\ r # Absent => /\ r.state \in {"prepared", "retryable"}
                     /\ Legacy(r) => Unsent(r)

\* The row send() works on: the stored one with its envelope, or a new one.
Opened(r, x, t) ==
    IF r = Absent
    THEN [state |-> "prepared", text |-> x, envelope |-> t, ids |-> 0,
          refused |-> FALSE, failed |-> FALSE]
    ELSE [r EXCEPT !.envelope = t]

\* Up to the first request nothing waits: no other send() can see the row
\* in between.
Send(s, o, x, t) ==
    /\ sender[s] = Idle
    /\ Admits(row[o], x, t)
    /\ row' = [row EXCEPT ![o] = [Opened(row[o], x, t) EXCEPT !.state = "sending"]]
    /\ sender' = [sender EXCEPT ![s] =
                    [pc |-> "sending", id |-> o, part |-> row'[o].ids + 1]]
    /\ given' = [given EXCEPT ![o] = @ \cup {<<x, t>>}]
    /\ UNCHANGED <<confirmed, limbo, shown>>

\* Mutant: a message that is being sent counts as sent.
AnswerEarly(s, o, x, t) ==
    /\ sender[s] = Idle
    /\ ~Admits(row[o], x, t)
    /\ confirmed' = IF /\ ~Conflict(row[o], x, t)
                       /\ row[o].state \in {"sending", "delivered"}
                       /\ ~Legacy(row[o])
                    THEN confirmed \cup {o} ELSE confirmed
    /\ UNCHANGED <<row, sender, limbo, shown, given>>

\* The row answers instead: delivered before, or not to be sent.
Answer(s, o, x, t) ==
    /\ sender[s] = Idle
    /\ ~Admits(row[o], x, t)
    /\ confirmed' = IF /\ ~Conflict(row[o], x, t)
                       /\ row[o].state = "delivered" /\ ~Legacy(row[o])
                    THEN confirmed \cup {o} ELSE confirmed
    /\ UNCHANGED <<row, sender, limbo, shown, given>>

\* The request of s reaches the chat.
Arrive(s) ==
    /\ sender[s].pc = "sending"
    /\ sender' = [sender EXCEPT ![s].pc = "arrived"]
    /\ shown' = [shown EXCEPT ![sender[s].id] = Append(@, sender[s].part)]
    /\ UNCHANGED <<row, confirmed, limbo, given>>

\* Mutant: the part that goes out next is counted already.
CountedAhead(r, n) ==
    [r EXCEPT !.ids = n + 1, !.state = IF n = Parts THEN "delivered" ELSE "prepared"]

\* The row a part with a message id leaves behind.
Counted(r, n) ==
    [r EXCEPT !.ids = n, !.state = IF n = Parts THEN "delivered" ELSE "prepared"]

\* Its reply carries a message id: the next part goes out in the same step.
PartSent(s) ==
    /\ sender[s].pc = "arrived"
    /\ LET o == sender[s].id
           n == sender[s].part
           r == Counted(row[o], n)
       IN  IF n = Parts
           THEN /\ row' = [row EXCEPT ![o] = r]
                /\ sender' = [sender EXCEPT ![s] = Idle]
                /\ confirmed' = confirmed \cup {o}
           ELSE /\ row' = [row EXCEPT ![o] = [r EXCEPT !.state = "sending"]]
                /\ sender' = [sender EXCEPT ![s] =
                                [pc |-> "sending", id |-> o, part |-> n + 1]]
                /\ UNCHANGED confirmed
    /\ UNCHANGED <<limbo, shown, given>>

Throw(s, state) ==
    /\ row' = [row EXCEPT ![sender[s].id] =
                 [@ EXCEPT !.state = state, !.failed = TRUE,
                           !.refused = (state = "retryable")]]
    /\ sender' = [sender EXCEPT ![s] = Idle]
    /\ UNCHANGED <<confirmed, shown, given>>

\* The platform proves that it did not send the part.
PartRefused(s) ==
    /\ sender[s].pc = "sending"
    /\ Throw(s, "retryable")
    /\ UNCHANGED limbo

Request(s) == [id |-> sender[s].id, part |-> sender[s].part]

\* A time-out, a lost reply, a reply without a message id.
PartLost(s) ==
    /\ sender[s].pc \in {"sending", "arrived"}
    /\ Throw(s, "uncertain")
    /\ limbo' = limbo \cup (IF sender[s].pc = "sending" THEN {Request(s)} ELSE {})

ArriveLate(q) ==
    /\ q \in limbo
    /\ limbo' = limbo \ {q}
    /\ shown' = [shown EXCEPT ![q.id] = Append(@, q.part)]
    /\ UNCHANGED <<row, sender, confirmed, given>>

Lost ==
    /\ sender' = [s \in Senders |-> Idle]
    /\ UNCHANGED confirmed
    /\ limbo' = limbo \cup {Request(s) : s \in {z \in Senders :
                                                 sender[z].pc = "sending"}}

Crash ==
    /\ \E s \in Senders : sender[s] # Idle
    /\ Lost
    /\ UNCHANGED <<row, shown, given>>

\* The crash comes between the two writes in front of a request.
CrashBeforeFirst(o, x, t) ==
    /\ Admits(row[o], x, t)
    /\ row' = [row EXCEPT ![o] = Opened(row[o], x, t)]
    /\ Lost
    /\ UNCHANGED <<shown, given>>

CrashBetweenParts(s) ==
    /\ sender[s].pc = "arrived"
    /\ row' = [row EXCEPT ![sender[s].id] = Counted(@, sender[s].part)]
    /\ Lost
    /\ UNCHANGED <<shown, given>>

SenderStep(s) ==
    Arrive(s) \/ PartSent(s) \/ PartRefused(s) \/ PartLost(s)

Next ==
    \/ \E s \in Senders, o \in Ids, x \in Texts, t \in Targets :
          Send(s, o, x, t) \/ Answer(s, o, x, t)
    \/ \E s \in Senders : SenderStep(s) \/ CrashBetweenParts(s)
    \/ \E q \in Requests : ArriveLate(q)
    \/ \E o \in Ids, x \in Texts, t \in Targets : CrashBeforeFirst(o, x, t)
    \/ Crash

Spec == Init /\ [][Next]_vars
-----------------------------------------------------------------------------
(* Properties *)

\* The chat sees the parts of a message once each and in order, whoever
\* sends it, however often, and whatever is lost on the way.
PartsOnceInOrder ==
    \A o \in Ids : \A i \in 1..Len(shown[o]) : shown[o][i] = i

\* A caller that is told "sent" can rely on the whole text being there.
OkMeansShown ==
    \A o \in confirmed : Len(shown[o]) = Parts

\* A delivered row stands for the whole text in the chat, and every message
\* id in a row for a part that arrived.
RowIsTrue ==
    \A o \in Ids : row[o] # Absent =>
        /\ row[o].ids <= Len(shown[o])
        /\ row[o].state = "delivered" => Len(shown[o]) = Parts

\* All requests for an id carry the same text and the same reply target.
OneEnvelope == \A o \in Ids : \A e, f \in given[o] : e = f

\* A row whose outcome is unknown is never sent again, by anyone.
Unknown(o) ==
    /\ row[o] # Absent
    /\ row[o].state \in {"sending", "uncertain"}
    /\ \A s \in Senders : sender[s].id # o

UnknownStays ==
    [][\A o \in Ids : Unknown(o) => Unknown(o)' /\ row'[o] = row[o]]_vars
=============================================================================
