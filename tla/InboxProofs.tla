----------------------------- MODULE InboxProofs -----------------------------
(***************************************************************************)
(* What the durable inbox of Inbox.tla keeps, for any set of messages and  *)
(* lanes and any limits.  The invariant relates three records of the same  *)
(* facts: the rows, which survive a restart, the lanes of the process, and *)
(* what the outbox says of a notice.  The lanes take their next messages   *)
(* in the middle of a step, so the relation between rows and lanes is      *)
(* stated for any rows and with the lanes that are about to move left out. *)
(***************************************************************************)
EXTENDS Inbox, WellFoundedInduction, TLAPS

Lines == [pc : {"off", "processing", "notifying"},
          msg : Messages \cup {None}, row : Records]

Known(m) == \E i \in 1..Len(arrived) : arrived[i] = m

(* The rows agree with what every lane outside ls does: the handler runs on *)
(* the rows that say so, the copy a lane holds counts the same attempts,    *)
(* and whoever waits has an attempt left.                                   *)
Held(rows, ls) ==
    \A m \in Messages :
        /\ rows[m].state = "processing" <=>
              /\ LaneOf[m] \notin ls
              /\ lane[LaneOf[m]].pc = "processing" /\ lane[LaneOf[m]].msg = m
        /\ rows[m].state = "processing" => lane[LaneOf[m]].row.tries = rows[m].tries
        /\ starts[m] = rows[m].tries
        /\ rows[m].state = "queued" => rows[m].tries < MaxAttempts
        /\ rows[m].state # "absent" => Known(m)

(* A lane at work has a message of its own chat.                            *)
LaneSound(l) == lane[l].pc # "off" => lane[l].msg \in Messages /\ LaneOf[lane[l].msg] = l

(* What a receipt says of the notice it stands for.                         *)
NoticeSound(m) ==
    /\ copies[m] <= 1
    /\ outbox[m] \in {"none", "retryable"} => copies[m] = 0
    /\ notifying[m] = "sending" => outbox[m] = "sending" /\ copies[m] = 0

IInv == /\ TypeOK
        /\ Held(record, {})
        /\ \A l \in Lanes : LaneSound(l)
        /\ \A m \in Messages : NoticeSound(m)

(***************************************************************************)
(* The oldest of some messages                                             *)
(***************************************************************************)
LEMMA Least ==
  ASSUME NEW T \in SUBSET Nat, T # {}
  PROVE  \E i \in T : \A j \in T : i <= j
  <1> DEFINE R == {ss \in Nat \X Nat : ss[1] < ss[2]}
  <1>1. IsWellFoundedOn(R, Nat)
    BY NatLessThanWellFounded DEF OpToRel
  <1>2. \A x, y \in Nat : <<y, x>> \notin R => x <= y
    OBVIOUS
  <1> HIDE DEF R
  <1>3. \E x \in T : \A y \in T : <<y, x>> \notin R
    BY <1>1, WFMin
  <1> QED
    BY <1>2, <1>3

LEMMA PositionOf ==
  ASSUME TypeOK, NEW m, Known(m)
  PROVE  Position(m) \in Nat
  BY DEF Position, Known, TypeOK

LEMMA Oldest ==
  ASSUME TypeOK, NEW ms \in SUBSET Messages, ms # {}, \A m \in ms : Known(m)
  PROVE  First(ms) \in ms /\ \A n \in ms : Position(First(ms)) <= Position(n)
  <1> DEFINE T == {Position(m) : m \in ms}
  <1>1. T \in SUBSET Nat /\ T # {}
    BY PositionOf
  <1>2. PICK i \in T : \A j \in T : i <= j
    BY <1>1, Least
  <1>3. PICK m \in ms : i = Position(m)
    OBVIOUS
  <1>4. \A n \in ms : Position(m) <= Position(n)
    BY <1>2, <1>3
  <1> QED
    BY <1>4 DEF First

(***************************************************************************)
(* Lanes that take their next messages                                     *)
(***************************************************************************)
LEMMA Start ==
  ASSUME TypeOK, NEW rows \in [Messages -> Records], NEW ls \in SUBSET Lanes,
         Held(rows, ls)
  PROVE  /\ \A l \in ls : GoesOn(rows, l) =>
               LET m == First(Queued(rows, l))
               IN  /\ m \in Messages /\ LaneOf[m] = l /\ rows[m].state = "queued"
                   /\ \A n \in Queued(rows, l) : Position(m) <= Position(n)
         /\ Started(rows, ls) \subseteq Messages
         /\ \A m \in Messages : m \in Started(rows, ls) <=>
               /\ LaneOf[m] \in ls /\ GoesOn(rows, LaneOf[m])
               /\ m = First(Queued(rows, LaneOf[m]))
  <1>1. ASSUME NEW l \in ls, GoesOn(rows, l)
        PROVE  LET m == First(Queued(rows, l))
               IN  /\ m \in Messages /\ LaneOf[m] = l /\ rows[m].state = "queued"
                   /\ \A n \in Queued(rows, l) : Position(m) <= Position(n)
    <2>1. Queued(rows, l) # {} /\ Queued(rows, l) \in SUBSET Messages
      BY <1>1 DEF GoesOn, Queued
    <2>2. \A m \in Queued(rows, l) : Known(m)
      BY DEF Queued, Held
    <2> QED
      BY <2>1, <2>2, Oldest DEF Queued
  <1> QED
    BY <1>1 DEF Started

LEMMA RowTaken ==
  ASSUME NEW r \in Records, r.tries + 1 \in 0..MaxAttempts
  PROVE  LET q == [r EXCEPT !.state = "processing", !.tries = @ + 1]
         IN  q \in Records /\ q.state = "processing" /\ q.tries = r.tries + 1
  BY DEF Records

LEMMA Moves ==
  ASSUME TypeOK, InboxAssumption, NEW rows \in [Messages -> Records],
         NEW ls \in SUBSET Lanes, Held(rows, ls), Advance(rows, ls),
         \A l \in Lanes : LaneSound(l), arrived' = arrived
  PROVE  /\ record' \in [Messages -> Records] /\ lane' \in [Lanes -> Lines]
         /\ starts' \in [Messages -> Nat]
         /\ Held(record, {})' /\ \A l \in Lanes : LaneSound(l)'
  <1> DEFINE ms == Started(rows, ls)
             begun == [m \in Messages |->
                         IF m \in ms
                         THEN [rows[m] EXCEPT !.state = "processing", !.tries = @ + 1]
                         ELSE rows[m]]
  <1>1. /\ record' = begun
        /\ starts' = [m \in Messages |-> starts[m] + (IF m \in ms THEN 1 ELSE 0)]
        /\ lane' = [l \in Lanes |->
                      IF l \notin ls THEN lane[l]
                      ELSE IF ~GoesOn(rows, l) THEN Off
                      ELSE LET m == First(Queued(rows, l))
                           IN  [pc |-> "processing", msg |-> m, row |-> begun[m]]]
    BY DEF Advance
  <1>2. /\ lane \in [Lanes -> Lines] /\ starts \in [Messages -> Nat]
        /\ LaneOf \in [Messages -> Lanes] /\ MaxAttempts \in Nat
    BY DEF TypeOK, Lines, InboxAssumption
  <1>3. /\ \A l \in ls : GoesOn(rows, l) =>
              /\ First(Queued(rows, l)) \in ms /\ First(Queued(rows, l)) \in Messages
              /\ LaneOf[First(Queued(rows, l))] = l
        /\ \A m \in Messages : m \in ms <=>
              /\ LaneOf[m] \in ls /\ GoesOn(rows, LaneOf[m])
              /\ m = First(Queued(rows, LaneOf[m]))
        /\ \A m \in ms : rows[m].state = "queued"
    BY Start DEF Started
  <1> HIDE DEF ms
  <1>4. ASSUME NEW m \in ms, m \in Messages
        PROVE  /\ begun[m] \in Records /\ begun[m].state = "processing"
               /\ begun[m].tries = rows[m].tries + 1
    <2>1. rows[m] \in Records /\ rows[m].tries \in 0..MaxAttempts
          /\ rows[m].tries < MaxAttempts
      BY <1>3, <1>4 DEF Held, Records
    <2>2. begun[m] = [rows[m] EXCEPT !.state = "processing", !.tries = @ + 1]
      BY <1>4
    <2>3. rows[m].tries + 1 \in 0..MaxAttempts
      BY <1>2, <2>1
    <2> HIDE DEF begun
    <2> DEFINE q == [rows[m] EXCEPT !.state = "processing", !.tries = @ + 1]
    <2>4. q \in Records /\ q.state = "processing" /\ q.tries = rows[m].tries + 1
      BY <2>1, <2>3, RowTaken
    <2> HIDE DEF q
    <2>5. begun[m] = q
      BY <2>2 DEF q
    <2> QED
      BY <2>4, <2>5
  <1>5. \A m \in Messages \ ms : begun[m] = rows[m]
    OBVIOUS
  <1>6. begun \in [Messages -> Records]
    BY <1>4, <1>5
  <1> HIDE DEF begun
  <1>7. Off \in Lines /\ Off.pc = "off"
    BY <1>2 DEF Off, Lines, Absent, Records
  <1>8. lane' \in [Lanes -> Lines]
    <2>1. ASSUME NEW l \in ls, GoesOn(rows, l)
          PROVE  [pc |-> "processing", msg |-> First(Queued(rows, l)),
                  row |-> begun[First(Queued(rows, l))]] \in Lines
      BY <1>3, <1>6, <2>1 DEF Lines
    <2> QED
      BY <1>1, <1>2, <1>7, <2>1
  <1>9. starts' \in [Messages -> Nat]
    BY <1>1, <1>2
  <1>10. \A l \in Lanes : LaneSound(l)'
    BY <1>1, <1>3, <1>7 DEF LaneSound
  <1>11. \A m \in Messages :
            record'[m].state = "processing" <=>
              lane'[LaneOf[m]].pc = "processing" /\ lane'[LaneOf[m]].msg = m
    BY <1>1, <1>2, <1>3, <1>4, <1>5, <1>7 DEF Held
  <1>12. \A m \in Messages :
            record'[m].state = "processing" => lane'[LaneOf[m]].row.tries = record'[m].tries
    BY <1>1, <1>2, <1>3, <1>4, <1>5 DEF Held
  <1>13. \A m \in Messages : starts'[m] = record'[m].tries
    BY <1>1, <1>2, <1>4, <1>5 DEF Held
  <1>14. \A m \in Messages :
            /\ record'[m].state = "queued" => record'[m].tries < MaxAttempts
            /\ record'[m].state # "absent" => Known(m)'
    <2>1. \A m \in Messages : Known(m)' = Known(m)
      BY DEF Known
    <2>2. ASSUME NEW m \in Messages
          PROVE  /\ record'[m].state = "queued" => record'[m].tries < MaxAttempts
                 /\ record'[m].state # "absent" => Known(m)
      <3>1. /\ rows[m].state = "queued" => rows[m].tries < MaxAttempts
            /\ rows[m].state # "absent" => Known(m)
        BY DEF Held
      <3> QED
        BY <1>1, <1>3, <1>4, <1>5, <3>1
    <2> QED
      BY <2>1, <2>2
  <1>15. Held(record, {})'
    <2>1. ASSUME NEW m \in Messages
          PROVE  /\ record'[m].state = "processing" <=>
                        lane'[LaneOf[m]].pc = "processing" /\ lane'[LaneOf[m]].msg = m
                 /\ record'[m].state = "processing" =>
                        lane'[LaneOf[m]].row.tries = record'[m].tries
                 /\ starts'[m] = record'[m].tries
                 /\ record'[m].state = "queued" => record'[m].tries < MaxAttempts
                 /\ record'[m].state # "absent" => Known(m)'
      BY <1>11, <1>12, <1>13, <1>14
    <2> QED
      BY ONLY <2>1 DEF Held
  <1> QED
    BY <1>1, <1>6, <1>8, <1>9, <1>10, <1>15

(* An edit of rows that touches neither their state nor their attempts.     *)
LEMMA Touched ==
  ASSUME TypeOK, NEW rows \in [Messages -> Records], NEW ls \in SUBSET Lanes,
         Held(record, {}),
         \A m \in Messages : rows[m].state = record[m].state /\ rows[m].tries = record[m].tries,
         \A l \in ls : lane[l].pc # "processing"
  PROVE  Held(rows, ls)
  BY DEF Held

(* The message of a lane gets its outcome; the lane is about to move on.    *)
LEMMA Settled ==
  ASSUME TypeOK, InboxAssumption, Held(record, {}), NEW l \in Lanes, LaneSound(l),
         lane[l].pc = "processing", NEW row \in Records,
         row.state \in {"done", "failed", "uncertain"}, row.tries = lane[l].row.tries
  PROVE  /\ [record EXCEPT ![lane[l].msg] = row] \in [Messages -> Records]
         /\ Held([record EXCEPT ![lane[l].msg] = row], {l})
  <1>1. /\ lane[l].msg \in Messages /\ LaneOf[lane[l].msg] = l
        /\ record \in [Messages -> Records]
    BY DEF LaneSound, TypeOK
  <1>2. PICK m \in Messages : m = lane[l].msg
    BY <1>1
  <1>3. record[m].state = "processing" /\ row.tries = record[m].tries
    BY <1>1, <1>2 DEF Held
  <1> DEFINE rows == [record EXCEPT ![m] = row]
  <1>4. rows[m] = row /\ \A n \in Messages \ {m} : rows[n] = record[n]
    BY <1>1
  <1>5. rows \in [Messages -> Records]
    BY <1>1
  <1> HIDE DEF rows
  <1>6. Held(rows, {l})
    BY <1>1, <1>2, <1>3, <1>4 DEF Held
  <1> QED
    BY <1>2, <1>5, <1>6 DEF rows

(* The steps in which lanes take their next messages: from which rows, and  *)
(* which lanes.                                                             *)
Advancing == \E rows \in [Messages -> Records], ls \in SUBSET Lanes :
                /\ Held(rows, ls) /\ Advance(rows, ls) /\ arrived' = arrived

Sound == InboxAssumption /\ TypeOK /\ Held(record, {}) /\ \A l \in Lanes : LaneSound(l)

LEMMA DrainAdvances ==
  ASSUME Sound, Drain
  PROVE  Advancing
  <1>1. record \in [Messages -> Records] /\ TypeOK /\ Held(record, {})
    BY DEF Sound, TypeOK
  <1> DEFINE due == {m \in Messages : NoticeDue(record[m], m)}
             rows == [m \in Messages |->
                        IF m \in due THEN Claimed(record[m]) ELSE record[m]]
  <1>2. Advance(rows, Chosen(rows)) /\ arrived' = arrived
    BY DEF Drain
  <1>3. Chosen(rows) \in SUBSET Lanes /\ \A l \in Chosen(rows) : lane[l].pc = "off"
    BY DEF Chosen, Eligible
  <1>4. \A r \in Records : /\ Claimed(r) \in Records
                           /\ Claimed(r).state = r.state /\ Claimed(r).tries = r.tries
    BY DEF Claimed, Records
  <1> HIDE DEF due
  <1>5. /\ rows \in [Messages -> Records]
        /\ \A m \in Messages : rows[m].state = record[m].state
                                /\ rows[m].tries = record[m].tries
    BY <1>1, <1>4
  <1>6. PICK ls \in SUBSET Lanes : ls = Chosen(rows)
    BY <1>3
  <1> HIDE DEF rows
  <1>7. Held(rows, ls)
    BY <1>1, <1>3, <1>5, <1>6, Touched
  <1> QED
    BY <1>2, <1>5, <1>6, <1>7 DEF Advancing

LEMMA CompleteAdvances ==
  ASSUME Sound, NEW l \in Lanes, Complete(l)
  PROVE  Advancing
  <1> DEFINE row == [lane[l].row EXCEPT !.state = "done", !.waiting = FALSE]
             rows == [record EXCEPT ![lane[l].msg] = row]
  <1>1. /\ Advance(rows, {l}) /\ arrived' = arrived /\ lane[l].pc = "processing"
    BY DEF Complete
  <1>2. row \in Records /\ row.state = "done" /\ row.tries = lane[l].row.tries
    <2>1. lane[l].row \in Records
      BY DEF Sound, TypeOK
    <2> QED
      BY <2>1 DEF Records
  <1> HIDE DEF row
  <1>3. rows \in [Messages -> Records] /\ Held(rows, {l})
    BY <1>1, <1>2, Settled DEF Sound
  <1> HIDE DEF rows
  <1> QED
    BY <1>1, <1>3 DEF Advancing

LEMMA NoticeAdvances ==
  ASSUME Sound, NEW m \in Messages, NoticeStep(m), ~NoticeSend(m)
  PROVE  Advancing
  <1>1. /\ record \in [Messages -> Records] /\ LaneOf \in [Messages -> Lanes]
        /\ TypeOK /\ Held(record, {})
    BY DEF Sound, TypeOK, InboxAssumption
  <1>2. \A row \in {Delivered(m), Refused(m), record[m]} :
          row \in Records /\ row.state = record[m].state /\ row.tries = record[m].tries
    <2>1. record[m] \in Records
      BY <1>1
    <2>2. /\ Delivered(m) \in Records /\ Delivered(m).state = record[m].state
          /\ Delivered(m).tries = record[m].tries
      BY <2>1 DEF Delivered, Records
    <2>3. /\ Refused(m) \in Records /\ Refused(m).state = record[m].state
          /\ Refused(m).tries = record[m].tries
      BY <2>1 DEF Refused, Records
    <2> QED
      BY <2>1, <2>2, <2>3
  <1>3. PICK row \in {Delivered(m), Refused(m), record[m]} : EndNotice(m, row)
    BY DEF NoticeStep, NoticeSkip, NoticeUnplaced, NoticeKnown, NoticeSent, NoticeRefused,
           NoticeLost
  <1> DEFINE rows == [record EXCEPT ![m] = row]
             mine == lane[LaneOf[m]].pc = "notifying" /\ lane[LaneOf[m]].msg = m
  <1>4. Advance(rows, IF mine THEN {LaneOf[m]} ELSE {}) /\ arrived' = arrived
    BY <1>3 DEF EndNotice
  <1>5. PICK ls \in SUBSET Lanes : ls = IF mine THEN {LaneOf[m]} ELSE {}
    BY <1>1
  <1>6. \A l \in ls : lane[l].pc # "processing"
    BY <1>5
  <1>7. /\ rows \in [Messages -> Records]
        /\ \A n \in Messages : rows[n].state = record[n].state
                                /\ rows[n].tries = record[n].tries
    BY <1>1, <1>2
  <1> HIDE DEF rows, mine
  <1>8. Held(rows, ls)
    BY <1>1, <1>6, <1>7, Touched
  <1> QED
    BY <1>4, <1>5, <1>7, <1>8 DEF Advancing

(* Giving a message up either does that, or leaves the lane to its notice.  *)
LEMMA FailAdvances ==
  ASSUME Sound, NEW l \in Lanes, NEW how \in {"failed", "uncertain"}, Fail(l, how)
  PROVE  \/ Advancing
         \/ /\ starts' = starts /\ arrived' = arrived
            /\ lane[l].pc = "processing" /\ lane' = [lane EXCEPT ![l].pc = "notifying"]
            /\ \E row \in Records : /\ record' = [record EXCEPT ![lane[l].msg] = row]
                                    /\ row.state = how /\ row.tries = lane[l].row.tries
  <1> DEFINE m == lane[l].msg
             row == [lane[l].row EXCEPT !.state = how, !.waiting = FALSE,
                                        !.notice = "pending"]
             rows == [record EXCEPT ![m] = row]
  <1>1. /\ lane[l].pc = "processing" /\ arrived' = arrived
        /\ \/ Advance(rows, {l})
           \/ /\ record' = [rows EXCEPT ![m] = Claimed(row)]
              /\ lane' = [lane EXCEPT ![l].pc = "notifying"]
              /\ starts' = starts
    BY DEF Fail
  <1>2. row \in Records /\ row.state = how /\ row.tries = lane[l].row.tries
    <2>1. lane[l].row \in Records
      BY DEF Sound, TypeOK
    <2> QED
      BY <2>1 DEF Records
  <1>3. Claimed(row) \in Records /\ Claimed(row).state = how
        /\ Claimed(row).tries = lane[l].row.tries
    BY <1>2 DEF Claimed, Records
  <1> HIDE DEF row
  <1>4. rows \in [Messages -> Records] /\ Held(rows, {l})
    BY <1>1, <1>2, Settled DEF Sound
  <1>5. [rows EXCEPT ![m] = Claimed(row)] = [record EXCEPT ![m] = Claimed(row)]
    <2>1. record \in [Messages -> Records] /\ m \in Messages
      BY <1>1 DEF Sound, TypeOK, LaneSound
    <2> QED
      BY <2>1
  <1> HIDE DEF rows
  <1> QED
    BY <1>1, <1>3, <1>4, <1>5 DEF Advancing

LEMMA Kept ==
  ASSUME [Next]_vars, InboxAssumption, TypeOK, Held(record, {}),
         \A l \in Lanes : LaneSound(l)
  PROVE  /\ record' \in [Messages -> Records] /\ lane' \in [Lanes -> Lines]
         /\ starts' \in [Messages -> Nat]
         /\ Held(record, {})' /\ \A l \in Lanes : LaneSound(l)'
  <1> DEFINE Goal == /\ record' \in [Messages -> Records] /\ lane' \in [Lanes -> Lines]
                     /\ starts' \in [Messages -> Nat]
                     /\ Held(record, {})' /\ \A l \in Lanes : LaneSound(l)'
  <1>1. /\ record \in [Messages -> Records] /\ lane \in [Lanes -> Lines]
        /\ starts \in [Messages -> Nat] /\ LaneOf \in [Messages -> Lanes]
        /\ arrived \in Seq(Messages) /\ MaxAttempts \in Nat \ {0}
    BY DEF TypeOK, Lines, InboxAssumption
  <1>2. ASSUME lane' = lane, starts' = starts, arrived' = arrived,
               record' \in [Messages -> Records],
               \A m \in Messages : record'[m].state = record[m].state
                                    /\ record'[m].tries = record[m].tries
        PROVE  Goal
    BY <1>1, <1>2 DEF Held, LaneSound, Known
  <1>3. ASSUME NEW rows \in [Messages -> Records], NEW ls \in SUBSET Lanes,
               Held(rows, ls), Advance(rows, ls), arrived' = arrived
        PROVE  Goal
    BY <1>3, Moves
  <1> SUFFICES Goal
    OBVIOUS
  <1> HIDE DEF Goal
  <1>4. ASSUME NEW m \in Messages, Enqueue(m)
        PROVE  Goal
    <2>1. /\ record' = [record EXCEPT ![m].state = "queued"]
          /\ lane' = lane /\ starts' = starts /\ arrived' = Append(arrived, m)
          /\ record[m].tries = 0 /\ record[m].state = "absent"
      BY <1>4 DEF Enqueue, Absent
    <2>2. record' \in [Messages -> Records]
      <3>1. [record[m] EXCEPT !.state = "queued"] \in Records
        BY <1>1, ZenonT(30) DEF Records
      <3> QED
        BY <1>1, <2>1, <3>1
    <2>3. Known(m)' /\ \A n \in Messages : Known(n) => Known(n)'
      <3>1. /\ Len(arrived') = Len(arrived) + 1 /\ Len(arrived) \in Nat
            /\ arrived'[Len(arrived) + 1] = m
            /\ \A i \in 1..Len(arrived) : arrived'[i] = arrived[i]
        BY <1>1, <2>1
      <3> QED
        BY <3>1 DEF Known
    <2>4. /\ record'[m].state = "queued" /\ record'[m].tries = 0
          /\ \A n \in Messages \ {m} : record'[n] = record[n]
      BY <1>1, <2>1 DEF Records
    <2>5. Held(record, {})'
      BY <1>1, <2>1, <2>3, <2>4 DEF Held
    <2> QED
      BY <1>1, <2>1, <2>2, <2>5 DEF Goal, LaneSound
  <1>5. ASSUME Advancing
        PROVE  Goal
    BY <1>3, <1>5 DEF Advancing
  <1>6. ASSUME NEW m \in Messages, NoticeSend(m)
        PROVE  Goal
    BY <1>1, <1>2, <1>6 DEF NoticeSend
  <1>7. ASSUME NEW l \in Lanes, Retry(l)
        PROVE  Goal
    <2> DEFINE m == lane[l].msg
               row == [lane[l].row EXCEPT !.state = "queued", !.waiting = TRUE,
                                          !.notice = "none"]
    <2>1. /\ lane[l].pc = "processing" /\ lane[l].row.tries < MaxAttempts
          /\ record' = [record EXCEPT ![m] = row] /\ lane' = [lane EXCEPT ![l] = Off]
          /\ starts' = starts /\ arrived' = arrived
      BY <1>7 DEF Retry
    <2>2. row \in Records /\ row.state = "queued" /\ row.tries = lane[l].row.tries
      <3>1. lane[l].row \in Records
        BY <1>1 DEF Lines
      <3> QED
        BY <3>1 DEF Records
    <2>3. /\ m \in Messages /\ LaneOf[m] = l /\ record[m].state = "processing"
          /\ row.tries = record[m].tries
      BY <1>1, <2>1, <2>2 DEF LaneSound, Held
    <2> HIDE DEF m, row
    <2>4. /\ record' \in [Messages -> Records] /\ record'[m] = row
          /\ \A n \in Messages \ {m} : record'[n] = record[n]
      BY <1>1, <2>1, <2>2, <2>3
    <2>5. Off \in Lines /\ Off.pc = "off"
      BY <1>1 DEF Off, Lines, Absent, Records
    <2>6. /\ lane' \in [Lanes -> Lines] /\ lane'[l].pc = "off"
          /\ \A k \in Lanes \ {l} : lane'[k] = lane[k]
      BY <1>1, <2>1, <2>5
    <2>7. \A n \in Messages : Known(n)' = Known(n)
      BY <2>1 DEF Known
    <2>8. ASSUME NEW n \in Messages
          PROVE  /\ record'[n].state = "processing" <=>
                        lane'[LaneOf[n]].pc = "processing" /\ lane'[LaneOf[n]].msg = n
                 /\ record'[n].state = "processing" =>
                        lane'[LaneOf[n]].row.tries = record'[n].tries
                 /\ starts'[n] = record'[n].tries
                 /\ record'[n].state = "queued" => record'[n].tries < MaxAttempts
                 /\ record'[n].state # "absent" => Known(n)'
      <3>1. CASE n = m
        <4>1. /\ record'[n] = row /\ lane'[LaneOf[n]].pc = "off" /\ starts'[n] = starts[n]
              /\ Known(n)' = Known(n)
          BY <2>1, <2>3, <2>4, <2>6, <2>7, <3>1
        <4>2. starts[n] = record[n].tries
          BY DEF Held
        <4>3. Known(n)
          BY <2>3, <3>1 DEF Held
        <4> QED
          BY <2>1, <2>2, <2>3, <3>1, <4>1, <4>2, <4>3
      <3>2. CASE n # m
        BY <1>1, <2>1, <2>3, <2>4, <2>6, <2>7, <3>2 DEF Held, m
      <3> QED
        BY <3>1, <3>2
    <2>9. Held(record, {})'
      BY <2>1, <2>8 DEF Held
    <2> QED
      BY <1>1, <2>1, <2>4, <2>6, <2>9 DEF Goal, LaneSound
  <1>8. ASSUME NEW l \in Lanes, lane[l].pc = "processing", starts' = starts,
               arrived' = arrived, lane' = [lane EXCEPT ![l].pc = "notifying"],
               NEW row \in Records, row.state \in {"failed", "uncertain"},
               row.tries = lane[l].row.tries, record' = [record EXCEPT ![lane[l].msg] = row]
        PROVE  Goal
    <2> DEFINE m == lane[l].msg
    <2>1. /\ m \in Messages /\ LaneOf[m] = l
          /\ record[m].state = "processing" /\ record[m].tries = lane[l].row.tries
      BY <1>1, <1>8 DEF LaneSound, Held
    <2> HIDE DEF m
    <2>2. /\ record' \in [Messages -> Records] /\ record'[m] = row
          /\ \A n \in Messages \ {m} : record'[n] = record[n]
      BY <1>1, <1>8, <2>1 DEF m
    <2>3. /\ lane' \in [Lanes -> Lines] /\ lane'[l].pc = "notifying" /\ lane'[l].msg = m
          /\ \A k \in Lanes \ {l} : lane'[k] = lane[k]
      BY <1>1, <1>8, <2>1 DEF Lines, m
    <2>4. \A n \in Messages : Known(n)' = Known(n)
      BY <1>8 DEF Known
    <2>5. Held(record, {})'
      BY <1>1, <1>8, <2>1, <2>2, <2>3, <2>4 DEF Held, m
    <2>6. \A k \in Lanes : LaneSound(k)'
      BY <2>1, <2>3 DEF LaneSound
    <2> QED
      BY <1>1, <1>8, <2>2, <2>3, <2>5, <2>6 DEF Goal
  <1>9. Sound
    BY DEF Sound
  <1>10. ASSUME NEW l \in Lanes, NEW how \in {"failed", "uncertain"}, Fail(l, how)
        PROVE  Goal
    BY <1>5, <1>8, <1>9, <1>10, FailAdvances
  <1>11. ASSUME NEW m \in Messages, RetryDue(m) \/ NoticeRetryDue(m)
         PROVE  Goal
    <2>1. \/ record' = [record EXCEPT ![m].waiting = FALSE]
          \/ record' = [record EXCEPT ![m].noticeWaiting = FALSE]
      BY <1>11 DEF RetryDue, NoticeRetryDue
    <2>2. \A q \in {[record[m] EXCEPT !.waiting = FALSE],
                    [record[m] EXCEPT !.noticeWaiting = FALSE]} :
             q \in Records /\ q.state = record[m].state /\ q.tries = record[m].tries
      <3>1. record[m] \in Records
        BY <1>1
      <3> QED
        BY <3>1 DEF Records
    <2>3. \E q \in {[record[m] EXCEPT !.waiting = FALSE],
                    [record[m] EXCEPT !.noticeWaiting = FALSE]} :
             record' = [record EXCEPT ![m] = q]
      BY <2>1
    <2>4. /\ record' \in [Messages -> Records]
          /\ \A n \in Messages : record'[n].state = record[n].state
                                  /\ record'[n].tries = record[n].tries
      BY <1>1, <2>2, <2>3
    <2> QED
      BY <1>2, <1>11, <2>4 DEF RetryDue, NoticeRetryDue
  <1>12. CASE Shutdown \/ UNCHANGED vars
    BY <1>1, <1>2, <1>12 DEF Shutdown, vars
  <1>13. CASE Restart
    <2>1. PICK yes \in SUBSET Messages : record' = [m \in Messages |-> Recovered(m, yes)]
      BY <1>13, Zenon DEF Restart
    <2>2. /\ lane' = [l \in Lanes |-> Off] /\ starts' = starts /\ arrived' = arrived
      BY <1>13 DEF Restart
    <2>3. ASSUME NEW m \in Messages
          PROVE  /\ Recovered(m, yes) \in Records
                 /\ Recovered(m, yes).tries = record[m].tries
                 /\ Recovered(m, yes).state # "processing"
                 /\ Recovered(m, yes).state # "absent" => record[m].state # "absent"
                 /\ Recovered(m, yes).state = "queued" =>
                       record[m].state = "queued" \/ record[m].tries < MaxAttempts
      <3>1. record[m] \in Records
        BY <1>1
      <3> QED
        BY <3>1 DEF Recovered, Records
    <2>4. Off \in Lines /\ Off.pc = "off"
      BY <1>1 DEF Off, Lines, Absent, Records
    <2>5. \A m \in Messages : Known(m)' = Known(m)
      BY <2>2 DEF Known
    <2>6. Held(record, {})'
      BY <1>1, <2>1, <2>2, <2>3, <2>4, <2>5 DEF Held
    <2> QED
      BY <1>1, <2>1, <2>2, <2>3, <2>4, <2>6 DEF Goal, LaneSound
  <1> QED
    BY <1>4, <1>5, <1>6, <1>7, <1>9, <1>10, <1>11, <1>12, <1>13, DrainAdvances,
       CompleteAdvances, NoticeAdvances DEF Next, HandlerEnds

LEMMA ToldOnce ==
  ASSUME [Next]_vars, TypeOK, \A m \in Messages : NoticeSound(m)
  PROVE  /\ outbox' \in [Messages -> {"none", "sending", "delivered", "retryable",
                                      "uncertain"}]
         /\ notifying' \in [Messages -> {"no", "claimed", "sending"}]
         /\ copies' \in [Messages -> Nat]
         /\ \A m \in Messages : NoticeSound(m)'
  <1> DEFINE Receipts == {"none", "sending", "delivered", "retryable", "uncertain"}
             Stages == {"no", "claimed", "sending"}
             Goal == /\ outbox' \in [Messages -> Receipts]
                     /\ notifying' \in [Messages -> Stages]
                     /\ copies' \in [Messages -> Nat]
                     /\ \A m \in Messages : NoticeSound(m)'
  <1>1. /\ outbox \in [Messages -> Receipts] /\ notifying \in [Messages -> Stages]
        /\ copies \in [Messages -> Nat]
    BY DEF TypeOK
  <1>2. ASSUME outbox' = outbox, copies' = copies, notifying' \in [Messages -> Stages],
               \A m \in Messages : notifying'[m] = "sending" => notifying[m] = "sending"
        PROVE  Goal
    BY <1>1, <1>2 DEF NoticeSound
  <1>3. ASSUME NEW m \in Messages, notifying' = [notifying EXCEPT ![m] = "no"],
               NEW how \in {"delivered", "retryable", "uncertain"},
               outbox' = [outbox EXCEPT ![m] = how], notifying[m] = "sending",
               \/ copies' = copies
               \/ how # "retryable" /\ \E n \in {0, 1} : copies' = [copies EXCEPT ![m] = @ + n]
        PROVE  Goal
    BY <1>1, <1>3 DEF NoticeSound
  <1>4. CASE \/ \E m \in Messages : Enqueue(m) \/ RetryDue(m) \/ NoticeRetryDue(m)
             \/ \E l \in Lanes : Complete(l) \/ Retry(l)
             \/ Shutdown \/ UNCHANGED vars
    BY <1>1, <1>2, <1>4 DEF Enqueue, RetryDue, NoticeRetryDue, Complete, Retry, Shutdown, vars
  <1>5. CASE Drain
    BY <1>1, <1>2, <1>5 DEF Drain
  <1>6. ASSUME NEW l \in Lanes, NEW how \in {"failed", "uncertain"}, Fail(l, how)
        PROVE  Goal
    <2>1. /\ outbox' = outbox /\ copies' = copies
          /\ \/ notifying' = notifying
             \/ notifying' = [notifying EXCEPT ![lane[l].msg] = "claimed"]
      BY <1>6 DEF Fail
    <2> QED
      BY <1>1, <1>2, <2>1
  <1>7. ASSUME NEW m \in Messages, NoticeStep(m)
        PROVE  Goal
    <2>1. CASE NoticeSkip(m) \/ NoticeUnplaced(m) \/ NoticeKnown(m)
      BY <1>1, <1>2, <2>1 DEF NoticeSkip, NoticeUnplaced, NoticeKnown, EndNotice
    <2>2. CASE NoticeSend(m)
      BY <1>1, <2>2 DEF NoticeSend, NoticeSound
    <2>3. CASE NoticeSent(m) \/ NoticeRefused(m) \/ \E n \in {0, 1} : NoticeLost(m, n)
      BY <1>3, <2>3 DEF NoticeSent, NoticeRefused, NoticeLost, EndNotice
    <2> QED
      BY <1>7, <2>1, <2>2, <2>3 DEF NoticeStep
  <1>8. CASE Restart
    <2>1. /\ notifying' = [m \in Messages |-> "no"] /\ outbox' = outbox
          /\ \E late \in SUBSET {m \in Messages : notifying[m] = "sending"} :
                copies' = [m \in Messages |-> copies[m] + (IF m \in late THEN 1 ELSE 0)]
      BY <1>8 DEF Restart
    <2> QED
      BY <1>1, <2>1 DEF NoticeSound
  <1> QED
    BY <1>4, <1>5, <1>6, <1>7, <1>8 DEF Next, HandlerEnds

(***************************************************************************)
(* The invariant and what follows from it                                  *)
(***************************************************************************)
LEMMA Initially ==
  ASSUME InboxAssumption, Init
  PROVE  IInv
  <1>1. Absent \in Records /\ Absent.state = "absent" /\ Absent.tries = 0
    BY DEF Absent, Records, InboxAssumption
  <1>2. TypeOK
    <2>1. lane \in [Lanes -> Lines]
      BY <1>1 DEF Init, Off, Lines
    <2>2. record \in [Messages -> Records]
      BY <1>1 DEF Init
    <2> QED
      <3>1. /\ outbox \in [Messages -> {"none", "sending", "delivered", "retryable",
                                        "uncertain"}]
            /\ notifying \in [Messages -> {"no", "claimed", "sending"}]
            /\ starts \in [Messages -> Nat] /\ copies \in [Messages -> Nat]
            /\ stopped \in BOOLEAN
        BY DEF Init
      <3>2. arrived \in Seq(Messages)
        BY DEF Init
      <3> QED
        BY ONLY <2>1, <2>2, <3>1, <3>2 DEF TypeOK, Lines
  <1>3. Held(record, {}) /\ \A l \in Lanes : LaneSound(l)
    BY <1>1 DEF Init, Held, LaneSound, Off, InboxAssumption
  <1>4. \A m \in Messages : NoticeSound(m)
    BY DEF Init, NoticeSound
  <1> QED
    BY <1>2, <1>3, <1>4 DEF IInv

LEMMA Inductive ==
  ASSUME InboxAssumption, IInv, [Next]_vars
  PROVE  IInv'
  <1>1. TypeOK /\ Held(record, {}) /\ (\A l \in Lanes : LaneSound(l))
        /\ \A m \in Messages : NoticeSound(m)
    BY DEF IInv
  <1>2. /\ record' \in [Messages -> Records] /\ lane' \in [Lanes -> Lines]
        /\ starts' \in [Messages -> Nat]
        /\ Held(record, {})' /\ \A l \in Lanes : LaneSound(l)'
    BY <1>1, Kept
  <1>3. /\ outbox' \in [Messages -> {"none", "sending", "delivered", "retryable",
                                     "uncertain"}]
        /\ notifying' \in [Messages -> {"no", "claimed", "sending"}]
        /\ copies' \in [Messages -> Nat]
        /\ \A m \in Messages : NoticeSound(m)'
    BY <1>1, ToldOnce
  <1>4. arrived' \in Seq(Messages) /\ stopped' \in BOOLEAN
    <2>1. /\ arrived' = arrived \/ \E m \in Messages : arrived' = Append(arrived, m)
          /\ stopped' = stopped \/ stopped' \in BOOLEAN
      BY DEF Next, vars, Enqueue, Drain, HandlerEnds, Complete, Retry, Fail, NoticeStep,
             NoticeSkip, NoticeUnplaced, NoticeSend, NoticeKnown, NoticeSent, NoticeRefused,
             NoticeLost, EndNotice, RetryDue, NoticeRetryDue, Shutdown, Restart
    <2>2. arrived \in Seq(Messages) /\ stopped \in BOOLEAN
      BY <1>1 DEF TypeOK
    <2> QED
      BY ONLY <2>1, <2>2
  <1>5. TypeOK'
    BY <1>2, <1>3, <1>4 DEF TypeOK, Lines
  <1> QED
    BY <1>2, <1>3, <1>5 DEF IInv

LEMMA Invariance == Spec => []IInv
  <1>1. Init => IInv
    BY InboxAssumption, Initially
  <1>2. IInv /\ [Next]_vars => IInv'
    BY InboxAssumption, Inductive
  <1> QED
    BY <1>1, <1>2, PTL DEF Spec

(* Every row, lane and receipt keeps its type; in particular the attempts  *)
(* of a message stay within the limit.                                     *)
THEOREM TypeCorrect == Spec => []TypeOK
  BY Invariance, PTL DEF IInv

(* The handler of a message runs at most MaxAttempts times, whatever        *)
(* crashes, retries and stale copies of rows come between.                  *)
THEOREM AttemptsAreBounded == Spec => []AttemptsBounded
  <1>1. IInv => AttemptsBounded
    BY InboxAssumption DEF IInv, TypeOK, Held, Records, AttemptsBounded
  <1> QED
    BY <1>1, Invariance, PTL

(* The rows that say a handler runs are those of the lanes that run one.    *)
THEOREM RowsMatchHandlers == Spec => []HandlerMatchesRow
  <1>1. IInv => HandlerMatchesRow
    BY DEF IInv, Held, HandlerMatchesRow
  <1> QED
    BY <1>1, Invariance, PTL

(* A chat is told at most once that a message of it was given up, through   *)
(* refusals, lost replies, restarts and notices that arrive after them.     *)
THEOREM ToldAtMostOnce == Spec => []NoticeOnce
  <1>1. IInv => NoticeOnce
    BY DEF IInv, NoticeSound, NoticeOnce
  <1> QED
    BY <1>1, Invariance, PTL

(* The lanes ls that take their next messages, from any rows, take no       *)
(* message past an older one of the same chat that is not settled.          *)
LEMMA TakenInOrder ==
  ASSUME InboxAssumption, TypeOK, NEW rows \in [Messages -> Records],
         NEW ls \in SUBSET Lanes, Held(rows, ls), Advance(rows, ls),
         NEW n \in Messages, starts'[n] > starts[n],
         NEW m \in Messages, LaneOf[m] = LaneOf[n], m # n, Before(m, n)
  PROVE  record'[m].state \notin {"queued", "processing"}
  <1>1. /\ starts' = [k \in Messages |->
                         starts[k] + (IF k \in Started(rows, ls) THEN 1 ELSE 0)]
        /\ starts \in [Messages -> Nat]
    BY DEF Advance, TypeOK
  <1>2. n \in Started(rows, ls)
    BY <1>1
  <1>3. /\ LaneOf[n] \in ls /\ GoesOn(rows, LaneOf[n])
        /\ n = First(Queued(rows, LaneOf[n]))
        /\ \A k \in Queued(rows, LaneOf[n]) : Position(n) <= Position(k)
        /\ m \notin Started(rows, ls)
    BY <1>2, Start
  <1>4. record'[m] = rows[m]
    BY <1>3 DEF Advance
  <1>5. rows[m].state # "processing"
    BY <1>3 DEF Held
  <1>6. ASSUME rows[m].state = "queued"
        PROVE  FALSE
    <2>1. m \in Queued(rows, LaneOf[n]) /\ Position(n) <= Position(m)
      BY <1>3, <1>6 DEF Queued
    <2>2. Known(m) /\ Known(n)
      BY <1>3, <1>6, Start DEF Held
    <2>3. Position(m) \in Nat /\ Position(n) \in Nat
      BY <2>2, PositionOf
    <2> QED
      BY <2>1, <2>3 DEF Before
  <1> QED
    BY <1>4, <1>5, <1>6

(* A lane keeps the order of its chat: a handler starts only when every     *)
(* older message of the chat is settled.                                    *)
THEOREM ChatsAreHandledInOrder == Spec => LaneInOrder
  <1> DEFINE Step == \A n \in Messages : starts'[n] > starts[n] =>
                        \A m \in Messages :
                           LaneOf[m] = LaneOf[n] /\ m # n
                           /\ record[m] # Absent /\ Before(m, n)
                              => record'[m].state \notin {"queued", "processing"}
  <1>1. IInv /\ [Next]_vars => Step
    <2> SUFFICES ASSUME IInv, [Next]_vars, NEW n \in Messages, starts'[n] > starts[n],
                        NEW m \in Messages, LaneOf[m] = LaneOf[n], m # n, Before(m, n)
                 PROVE  record'[m].state \notin {"queued", "processing"}
      OBVIOUS
    <2>1. TypeOK /\ Held(record, {}) /\ \A l \in Lanes : LaneSound(l)
      BY DEF IInv
    <2>2. starts' # starts /\ Sound
      BY <2>1, InboxAssumption DEF TypeOK, Sound
    <2>3. ASSUME NEW rows \in [Messages -> Records], NEW ls \in SUBSET Lanes,
                 Held(rows, ls), Advance(rows, ls)
          PROVE  record'[m].state \notin {"queued", "processing"}
      BY <2>1, <2>3, InboxAssumption, TakenInOrder
    <2>4. \E rows \in [Messages -> Records], ls \in SUBSET Lanes :
             Held(rows, ls) /\ Advance(rows, ls)
      <3>1. CASE Advancing
        BY <3>1 DEF Advancing
      <3>2. CASE \E l \in Lanes, how \in {"failed", "uncertain"} : Fail(l, how)
        BY <2>2, <3>1, <3>2, FailAdvances
      <3>3. CASE \/ Drain \/ \E l \in Lanes : Complete(l)
                 \/ \E m2 \in Messages : NoticeStep(m2) /\ ~NoticeSend(m2)
        BY <2>2, <3>1, <3>3, DrainAdvances, CompleteAdvances, NoticeAdvances
      <3> QED
        BY <2>2, <3>2, <3>3 DEF Next, HandlerEnds, vars, Enqueue, Retry, NoticeSend,
           RetryDue, NoticeRetryDue, Shutdown, Restart
    <2> QED
      BY <2>3, <2>4
  <1> QED
    BY <1>1, Invariance, PTL DEF Spec, LaneInOrder
=============================================================================
