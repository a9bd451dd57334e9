----------------------------- MODULE TurnsProofs -----------------------------
(***************************************************************************)
(* Proofs about Turns for every set of messages, chats, sessions and tools *)
(* and every bound, and about the two machines beside it: the writes of    *)
(* the leader (Leader) and the keys of approvals (Approvals).              *)
(***************************************************************************)
EXTENDS MCConversation, Integers, Sequences, TLAPS

(***************************************************************************)
(* The inductive invariant                                                 *)
(***************************************************************************)

Effects == {"none", "pending", "complete", "unclear", "refused"}
SessionRows == [gen : Nat, archived : BOOLEAN, wish : [Wishes -> {0} \cup Messages]]
Places == {"idle", "entering", "preparing", "thinking", "calling", "answered", "sending"}
Deliveries == {"none", "prepared", "sending", "retryable", "uncertain", "delivered"}

(* A row that waits has an attempt left, a row that came in has a session, *)
(* and only a row that is being processed has a running reply().           *)
RowSound(m) ==
    /\ row[m].st = "none" => row[m].tries = 0
    /\ row[m].st = "queued" => row[m].tries < MaxTries
    /\ row[m].st # "none" => row[m].ses \in Sessions
    /\ pc[m] # "idle" => row[m].st = "processing"

(* A turn is begun by preparing, and thinks only while its receipt runs;   *)
(* without a receipt it has no effects.                                    *)
TurnSound(m) ==
    /\ turn[m].st = "none" => turn[m].tries = 0 /\ \A o \in Ops : effect[m][o] = "none"
    /\ pc[m] = "preparing" => turn[m].st = "none"
    /\ pc[m] \in {"thinking", "calling"} => turn[m].st = "running"

(* The journal and the world: a tool that runs is pending and has not      *)
(* acted, and what never ran or was refused has not acted.                 *)
JournalSound(m) ==
    \A o \in Ops :
        /\ applied[m][o] <= 1
        /\ <<m, o>> \in flying => effect[m][o] = "pending" /\ applied[m][o] = 0
        /\ effect[m][o] \in {"none", "refused"} => applied[m][o] = 0

(* A model that is not in doubt has every effect confirmed, but for the    *)
(* one tool that runs for it.                                              *)
DoubtSound(m) ==
    /\ pc[m] = "thinking" /\ m \notin doubt => ~Unclear(m)
    /\ pc[m] = "calling" =>
         /\ m \notin doubt
         /\ \A o \in Ops : effect[m][o] # "unclear"
         /\ \A o, p \in Ops : effect[m][o] = "pending" /\ effect[m][p] = "pending" => o = p

IInv == /\ TypeOK
        /\ \A m \in Messages : RowSound(m) /\ TurnSound(m) /\ JournalSound(m) /\ DoubtSound(m)

(***************************************************************************)
(* A table of tables with one entry changed                                *)
(***************************************************************************)
LEMMA TableEdit ==
  ASSUME NEW S, NEW T, NEW V, NEW f \in [S -> [T -> V]],
         NEW a \in S, NEW b \in T, NEW c \in V
  PROVE  LET g == [f EXCEPT ![a][b] = c]
         IN  /\ g \in [S -> [T -> V]]
             /\ g[a][b] = c
             /\ \A x \in S, y \in T : <<x, y>> # <<a, b>> => g[x][y] = f[x][y]
  OBVIOUS

LEMMA CountEdit ==
  ASSUME NEW S, NEW T, NEW f \in [S -> [T -> Nat]], NEW a \in S, NEW b \in T
  PROVE  LET g == [f EXCEPT ![a][b] = @ + 1]
         IN  /\ g \in [S -> [T -> Nat]]
             /\ g[a][b] = f[a][b] + 1
             /\ \A x \in S, y \in T : <<x, y>> # <<a, b>> => g[x][y] = f[x][y]
  OBVIOUS

LEMMA Stuttering ==
  ASSUME UNCHANGED vars
  PROVE  /\ session' = session /\ made' = made /\ selected' = selected
         /\ row' = row /\ turn' = turn /\ effect' = effect /\ reply' = reply
         /\ pc' = pc /\ doubt' = doubt /\ cancelled' = cancelled /\ again' = again
         /\ flying' = flying /\ applied' = applied
  BY DEF vars, store, calls, luck

LEMMA PcType ==
  ASSUME TypeOK, [Next]_vars
  PROVE  pc' \in [Messages -> Places]
  <1>1. pc \in [Messages -> Places]
    BY DEF TypeOK, Places
  <1>2. ASSUME NEW m \in Messages, \E place \in Places : Go(m, place)
        PROVE  pc' \in [Messages -> Places]
    BY <1>1, <1>2 DEF Go
  <1>3. ASSUME NEW m \in Messages,
               \/ Take(m) \/ Enter(m) \/ Begin(m) \/ CannotPrepare(m) \/ Fail(m)
               \/ Finish(m) \/ Rotate(m) \/ Deliver(m) \/ Sent(m)
        PROVE  pc' \in [Messages -> Places]
    <2>1. \E place \in Places : Go(m, place)
      BY <1>3 DEF Take, Enter, Begin, CannotPrepare, Fail, Finish, Rotate, Deliver, Sent, Places
    <2> QED
      BY <1>2, <2>1
  <1>4. ASSUME NEW m \in Messages, Accept(m) \/ Reduce(m)
        PROVE  pc' \in [Messages -> Places]
    BY <1>1, <1>4 DEF Accept, Reduce, calls
  <1>5. ASSUME NEW m \in Messages, NEW o \in Ops,
               Call(m, o) \/ ToolAnswers(m, o) \/ Asks(m, o)
        PROVE  pc' \in [Messages -> Places]
    BY <1>1, <1>5 DEF Call, ToolAnswers, Asks, Landed, Go, Places
  <1>6. ASSUME NEW s \in Sessions, Clear(s) \/ Archive(s) \/ Restore(s)
        PROVE  pc' \in [Messages -> Places]
    BY <1>1, <1>6 DEF Clear, Archive, Restore, calls
  <1>7. CASE Crash
    BY <1>7 DEF Crash, Places
  <1>8. CASE UNCHANGED vars
    BY <1>1, <1>8, Stuttering
  <1> QED
    BY <1>3, <1>4, <1>5, <1>6, <1>7, <1>8 DEF Next

LEMMA ReplyType ==
  ASSUME TypeOK, [Next]_vars
  PROVE  reply' \in [Messages -> Deliveries]
  <1>1. reply \in [Messages -> Deliveries]
    BY DEF TypeOK, Deliveries
  <1>2. ASSUME NEW m \in Messages,
               Finish(m) \/ Rotate(m) \/ Deliver(m) \/ Sent(m)
        PROVE  reply' \in [Messages -> Deliveries]
    <2>1. \/ UNCHANGED reply
          \/ \E st \in Deliveries : reply' = [reply EXCEPT ![m] = st]
      BY <1>2 DEF Finish, Rotate, Deliver, Sent, Deliveries
    <2> QED
      BY <1>1, <2>1
  <1>3. ASSUME NEW m \in Messages,
               \/ Accept(m) \/ Take(m) \/ Enter(m) \/ Begin(m) \/ CannotPrepare(m)
               \/ Reduce(m) \/ Fail(m)
        PROVE  reply' \in [Messages -> Deliveries]
    BY <1>1, <1>3 DEF Accept, Take, Enter, Begin, CannotPrepare, Reduce, Fail, store
  <1>4. ASSUME NEW m \in Messages, NEW o \in Ops,
               Call(m, o) \/ ToolAnswers(m, o) \/ Asks(m, o)
        PROVE  reply' \in [Messages -> Deliveries]
    BY <1>1, <1>4 DEF Call, ToolAnswers, Asks
  <1>5. ASSUME NEW s \in Sessions, Clear(s) \/ Archive(s) \/ Restore(s)
        PROVE  reply' \in [Messages -> Deliveries]
    BY <1>1, <1>5 DEF Clear, Archive, Restore
  <1>6. CASE Crash
    BY <1>1, <1>6 DEF Crash, Deliveries
  <1>7. CASE UNCHANGED vars
    BY <1>1, <1>7, Stuttering
  <1> QED
    BY <1>2, <1>3, <1>4, <1>5, <1>6, <1>7 DEF Next

LEMMA ChatType ==
  ASSUME TypeOK, [Next]_vars
  PROVE  made' \in Sessions /\ selected' \in [Chats -> Sessions]
  <1>1. made \in Sessions /\ selected \in [Chats -> Sessions]
    BY DEF TypeOK
  <1> DEFINE Goal == made' \in Sessions /\ selected' \in [Chats -> Sessions]
  <1>2. ASSUME NEW m \in Messages, Accept(m) PROVE Goal
    <2>1. PICK n \in Sessions : /\ made' = made \/ made' = n
                               /\ selected' = [selected EXCEPT ![ChatOf(m)] = n]
      BY <1>2 DEF Accept
    <2> QED
      BY <1>1, <2>1
  <1>3. ASSUME NEW m \in Messages, Finish(m) \/ Rotate(m) PROVE Goal
    <2>1. \/ UNCHANGED <<made, selected>>
          \/ /\ made < MaxSessions /\ made' = made + 1
             /\ selected' = [selected EXCEPT ![ChatOf(m)] = made + 1]
      BY <1>3 DEF Finish, Rotate
    <2>2. made < MaxSessions => made + 1 \in Sessions
      BY <1>1, TurnsAssumption DEF Sessions
    <2>3. CASE /\ made < MaxSessions /\ made' = made + 1
               /\ selected' = [selected EXCEPT ![ChatOf(m)] = made + 1]
      <3>1. PICK n \in Sessions : n = made + 1
        BY <2>2, <2>3
      <3>2. made' = n /\ selected' = [selected EXCEPT ![ChatOf(m)] = n]
        BY <2>3, <3>1
      <3> QED
        BY <1>1, <3>2
    <2> QED
      BY <1>1, <2>1, <2>3
  <1>4. ASSUME NEW m \in Messages,
               \/ Take(m) \/ Enter(m) \/ Begin(m) \/ CannotPrepare(m) \/ Reduce(m)
               \/ Fail(m) \/ Deliver(m) \/ Sent(m)
        PROVE  Goal
    BY <1>1, <1>4 DEF Take, Enter, Begin, CannotPrepare, Reduce, Fail, Deliver, Sent, store
  <1>5. ASSUME NEW m \in Messages, NEW o \in Ops,
               Call(m, o) \/ ToolAnswers(m, o) \/ Asks(m, o)
        PROVE  Goal
    BY <1>1, <1>5 DEF Call, ToolAnswers, Asks
  <1>6. ASSUME NEW s \in Sessions, Clear(s) \/ Archive(s) \/ Restore(s) PROVE Goal
    BY <1>1, <1>6 DEF Clear, Archive, Restore
  <1>7. CASE Crash
    BY <1>1, <1>7 DEF Crash
  <1>8. CASE UNCHANGED vars
    BY <1>1, <1>8, Stuttering
  <1> QED
    BY <1>2, <1>3, <1>4, <1>5, <1>6, <1>7, <1>8 DEF Next

(***************************************************************************)
(* Rows                                                                    *)
(***************************************************************************)
RowStates == {"none", "queued", "processing", "done", "failed", "uncertain"}

(* What a callback that ended badly leaves of its row                      *)
Returned(m, r) ==
    /\ r \in Rows /\ r.ses = row[m].ses /\ r.gen = row[m].gen /\ r.tries = row[m].tries
    /\ r.st \in {"queued", "done", "failed", "uncertain"}
    /\ r.st = "queued" => r.tries < MaxTries

LEMMA LeftRow ==
  ASSUME row \in [Messages -> Rows], NEW m \in Messages, NEW x \in BOOLEAN, NEW sent,
         NEW outcome \in {"failed", "uncertain"}, Left(m, x, sent, outcome)
  PROVE  \E r : Returned(m, r) /\ row' = [row EXCEPT ![m] = r]
  <1>1. PICK st \in {"queued", outcome} :
           /\ row' = [row EXCEPT ![m] = [row[m] EXCEPT !.soft = x, !.st = st]]
           /\ st = "queued" => row[m].tries < MaxTries
    BY DEF Left, MayRetry
  <1>2. row[m] \in Rows /\ st \in RowStates
    BY DEF RowStates
  <1> DEFINE r == [row[m] EXCEPT !.soft = x, !.st = st]
  <1>3. /\ r \in Rows /\ r.st = st
        /\ r.ses = row[m].ses /\ r.gen = row[m].gen /\ r.tries = row[m].tries
    BY <1>2 DEF Rows, RowStates
  <1>4. Returned(m, r)
    BY <1>1, <1>3 DEF Returned
  <1> QED
    BY <1>1, <1>4

LEMMA RowNext ==
  ASSUME TypeOK, \A m \in Messages : RowSound(m), [Next]_vars
  PROVE  row' \in [Messages -> Rows] /\ \A m \in Messages : RowSound(m)'
  <1> DEFINE Goal == row' \in [Messages -> Rows] /\ \A m \in Messages : RowSound(m)'
  <1>1. /\ row \in [Messages -> Rows]
        /\ pc \in [Messages -> Places]
        /\ session \in [Sessions -> SessionRows]
    BY DEF TypeOK, Places, SessionRows
  <1>2. ASSUME row' = row, \A k \in Messages : pc'[k] # "idle" => pc[k] # "idle"
        PROVE  Goal
    BY <1>1, <1>2 DEF RowSound
  <1>3. ASSUME NEW m \in Messages, pc[m] # "idle", pc' = [pc EXCEPT ![m] = "idle"],
               \E r : Returned(m, r) /\ row' = [row EXCEPT ![m] = r]
        PROVE  Goal
    <2>1. PICK r : Returned(m, r) /\ row' = [row EXCEPT ![m] = r]
      BY <1>3
    <2>2. row' \in [Messages -> Rows]
      BY <1>1, <2>1 DEF Returned
    <2>3. RowSound(m)'
      BY <1>1, <1>3, <2>1 DEF RowSound, Returned
    <2>4. \A k \in Messages \ {m} : RowSound(k)'
      BY <1>1, <1>3, <2>1 DEF RowSound
    <2> QED
      BY <2>2, <2>3, <2>4
  <1>4. ASSUME NEW m \in Messages, Accept(m) PROVE Goal
    <2>1. PICK n \in Sessions :
             row' = [row EXCEPT ![m] = [row[m] EXCEPT !.st = "queued", !.ses = n,
                                                      !.gen = session[n].gen]]
      BY <1>4 DEF Accept
    <2>2. row[m].st = "none" /\ pc' = pc
      BY <1>4 DEF Accept, calls
    <2> DEFINE r == [row[m] EXCEPT !.st = "queued", !.ses = n, !.gen = session[n].gen]
    <2>3. r \in Rows /\ r.st = "queued" /\ r.ses = n /\ r.tries = 0 /\ 0 < MaxTries
      <3>1. row[m] \in Rows /\ row[m].tries = 0 /\ session[n] \in SessionRows
        BY <1>1, <2>2 DEF RowSound
      <3>2. session[n].gen \in Nat /\ n \in 0 .. MaxSessions /\ 0 < MaxTries
        BY <3>1, TurnsAssumption DEF SessionRows, Sessions
      <3>3. \A g \in Nat, z \in 0 .. MaxSessions :
               LET e == [row[m] EXCEPT !.st = "queued", !.ses = z, !.gen = g]
               IN  e \in Rows /\ e.st = "queued" /\ e.ses = z /\ e.tries = row[m].tries
        BY <3>1 DEF Rows
      <3> QED
        BY <3>1, <3>2, <3>3
    <2>4. row' \in [Messages -> Rows] /\ row'[m] = r
      BY <1>1, <2>1, <2>3
    <2>5. RowSound(m)'
      BY <2>2, <2>3, <2>4 DEF RowSound
    <2>6. \A k \in Messages \ {m} : RowSound(k)'
      BY <1>1, <2>1, <2>2 DEF RowSound
    <2> QED
      BY <2>4, <2>5, <2>6
  <1>5. ASSUME NEW m \in Messages, Take(m) PROVE Goal
    <2>1. PICK open \in BOOLEAN :
             /\ row' = [row EXCEPT ![m] = [row[m] EXCEPT !.tries = @ + 1,
                          !.st = IF open THEN "processing" ELSE "failed", !.soft = open]]
             /\ pc' = [pc EXCEPT ![m] = IF open THEN "entering" ELSE "idle"]
      BY <1>5 DEF Take, Go
    <2>2. row[m].st = "queued"
      BY <1>5 DEF Take
    <2> DEFINE r == [row[m] EXCEPT !.tries = @ + 1,
                          !.st = IF open THEN "processing" ELSE "failed", !.soft = open]
    <2>3. /\ r \in Rows /\ r.st = IF open THEN "processing" ELSE "failed"
          /\ r.ses = row[m].ses
      <3>1. row[m] \in Rows /\ row[m].tries < MaxTries
        BY <1>1, <2>2 DEF RowSound
      <3>2. row[m].tries + 1 \in 0 .. MaxTries
        BY <3>1, TurnsAssumption DEF Rows
      <3> QED
        BY <3>1, <3>2 DEF Rows
    <2>4. row' \in [Messages -> Rows] /\ row'[m] = r
      BY <1>1, <2>1, <2>3
    <2>5. pc'[m] # "idle" => open
      BY <1>1, <2>1
    <2>6. RowSound(m)'
      BY <2>2, <2>3, <2>4, <2>5 DEF RowSound
    <2>7. \A k \in Messages \ {m} : RowSound(k)'
      BY <1>1, <2>1 DEF RowSound
    <2> QED
      BY <2>4, <2>6, <2>7
  <1>6. ASSUME NEW m \in Messages, pc[m] # "idle", pc' = [pc EXCEPT ![m] = "idle"],
               NEW x \in BOOLEAN, NEW sent, NEW outcome \in {"failed", "uncertain"},
               Left(m, x, sent, outcome)
        PROVE  Goal
    <2>1. \E r : Returned(m, r) /\ row' = [row EXCEPT ![m] = r]
      BY <1>1, <1>6, LeftRow
    <2> QED
      BY <1>3, <1>6, <2>1
  <1>7. ASSUME NEW m \in Messages, Enter(m) \/ Begin(m) \/ Rotate(m) PROVE Goal
    <2>1. pc[m] # "idle"
      BY <1>7 DEF Enter, Begin, Rotate
    <2>2. \/ row' = row /\ \E place \in Places : Go(m, place)
          \/ Go(m, "idle") /\ \E outcome \in {"failed", "uncertain"} : Failed(m, FALSE, outcome)
      BY <1>7 DEF Enter, Begin, Rotate, Places
    <2>3. CASE row' = row /\ \E place \in Places : Go(m, place)
      BY <1>1, <1>2, <2>1, <2>3 DEF Go
    <2>4. CASE Go(m, "idle") /\ \E outcome \in {"failed", "uncertain"} : Failed(m, FALSE, outcome)
      BY <1>6, <2>1, <2>4 DEF Go, Failed
    <2> QED
      BY <2>2, <2>3, <2>4
  <1>8. ASSUME NEW m \in Messages, CannotPrepare(m) \/ Fail(m) PROVE Goal
    <2>1. /\ pc[m] # "idle" /\ Go(m, "idle")
          /\ \E x \in BOOLEAN : Failed(m, x, "uncertain")
      BY <1>8 DEF CannotPrepare, Fail
    <2> QED
      BY <1>6, <2>1 DEF Go, Failed
  <1>9. ASSUME NEW m \in Messages, pc[m] # "idle", Go(m, "idle"),
               row' = [row EXCEPT ![m].st = "done"]
        PROVE  Goal
    <2> DEFINE r == [row[m] EXCEPT !.st = "done"]
    <2>1. Returned(m, r)
      BY <1>1 DEF Returned, Rows
    <2>2. row' = [row EXCEPT ![m] = r]
      BY <1>9
    <2> HIDE DEF r
    <2> QED
      BY <1>3, <1>9, <2>1, <2>2 DEF Go
  <1>10. ASSUME NEW m \in Messages, Deliver(m) PROVE Goal
    <2>1. /\ pc[m] # "idle"
          /\ \/ row' = [row EXCEPT ![m].st = "done"] /\ Go(m, "idle")
             \/ row' = row /\ Go(m, "sending")
      BY <1>10 DEF Deliver
    <2>2. CASE row' = row /\ Go(m, "sending")
      BY <1>1, <1>2, <2>1, <2>2 DEF Go
    <2> QED
      BY <1>9, <2>1, <2>2
  <1>11. ASSUME NEW m \in Messages, Sent(m) PROVE Goal
    <2>1. /\ pc[m] # "idle" /\ Go(m, "idle")
          /\ \/ row' = [row EXCEPT ![m].st = "done"]
             \/ Left(m, FALSE, "retryable", "failed")
             \/ Left(m, FALSE, "uncertain", "uncertain")
      BY <1>11 DEF Sent
    <2> QED
      BY <1>6, <1>9, <2>1 DEF Go
  <1>12. ASSUME NEW m \in Messages, Reduce(m) \/ Finish(m) PROVE Goal
    <2>1. row' = row /\ (pc' = pc \/ (pc[m] # "idle" /\ Go(m, "answered")))
      BY <1>12 DEF Reduce, Finish
    <2> QED
      BY <1>1, <1>2, <2>1 DEF Go
  <1>13. ASSUME NEW m \in Messages, NEW o \in Ops,
                Call(m, o) \/ ToolAnswers(m, o) \/ Asks(m, o)
         PROVE  Goal
    <2>1. row' = row
      BY <1>13 DEF Call, ToolAnswers, Asks
    <2>2. \/ pc' = pc
          \/ pc[m] # "idle" /\ Go(m, "calling")
          \/ pc' = [pc EXCEPT ![m] = IF @ = "calling" THEN "thinking" ELSE @]
      BY <1>13 DEF Call, ToolAnswers, Asks, Landed
    <2> QED
      BY <1>1, <1>2, <2>1, <2>2 DEF Go
  <1>14. ASSUME NEW s \in Sessions, Clear(s) \/ Archive(s) \/ Restore(s) PROVE Goal
    BY <1>2, <1>14 DEF Clear, Archive, Restore, calls
  <1>15. CASE Crash
    <2>1. \A k \in Messages : pc'[k] = "idle"
      BY <1>15 DEF Crash
    <2>2. PICK sent, soft :
             row' = [m \in Messages |->
               IF /\ row[m].st \in {"processing", "failed", "uncertain"}
                  /\ MayRetry(m, soft[m], sent[m])
               THEN [row[m] EXCEPT !.st = "queued"]
               ELSE IF row[m].st = "processing" THEN [row[m] EXCEPT !.st = "uncertain"]
               ELSE row[m]]
      <3> DEFINE lost == [m \in Messages |-> IF reply[m] = "sending" /\ pc[m] = "sending"
                                             THEN "uncertain" ELSE reply[m]]
                 mild == [m \in Messages |-> row[m].st = "processing" \/ row[m].soft]
      <3>1. row' = [m \in Messages |->
               IF /\ row[m].st \in {"processing", "failed", "uncertain"}
                  /\ MayRetry(m, mild[m], lost[m])
               THEN [row[m] EXCEPT !.st = "queued"]
               ELSE IF row[m].st = "processing" THEN [row[m] EXCEPT !.st = "uncertain"]
               ELSE row[m]]
        BY <1>15, Zenon DEF Crash
      <3> QED
        BY <3>1
    <2>3. ASSUME NEW m \in Messages
          PROVE  row'[m] \in Rows /\ RowSound(m)'
      <3>1. row[m] \in Rows
        BY <1>1
      <3>2. CASE row'[m] = [row[m] EXCEPT !.st = "queued"] /\ row[m].tries < MaxTries
                 /\ row[m].st # "none"
        BY <2>1, <3>1, <3>2 DEF RowSound, Rows
      <3>3. CASE row'[m] = [row[m] EXCEPT !.st = "uncertain"] /\ row[m].st = "processing"
        BY <2>1, <3>1, <3>3 DEF RowSound, Rows
      <3>4. CASE row'[m] = row[m]
        BY <2>1, <3>1, <3>4 DEF RowSound
      <3> QED
        BY <2>2, <3>2, <3>3, <3>4 DEF MayRetry
    <2> QED
      BY <2>2, <2>3
  <1>16. CASE UNCHANGED vars
    BY <1>2, <1>16, Stuttering
  <1> QED
    BY <1>4, <1>5, <1>7, <1>8, <1>10, <1>11, <1>12, <1>13, <1>14, <1>15, <1>16 DEF Next

(***************************************************************************)
(* Turns                                                                   *)
(***************************************************************************)
LEMMA TurnNext ==
  ASSUME TypeOK,
         \A m \in Messages : RowSound(m) /\ TurnSound(m) /\ JournalSound(m), [Next]_vars
  PROVE  turn' \in [Messages -> Receipts] /\ \A m \in Messages : TurnSound(m)'
  <1> DEFINE Goal == turn' \in [Messages -> Receipts] /\ \A m \in Messages : TurnSound(m)'
  <1>1. /\ turn \in [Messages -> Receipts]
        /\ pc \in [Messages -> Places]
        /\ effect \in [Messages -> [Ops -> Effects]]
    BY DEF TypeOK, Places, Effects
  <1>2. ASSUME NEW m \in Messages, pc[m] # "idle"
        PROVE  Home(m).gen \in Nat
    <2>1. row[m].ses \in Sessions
      BY <1>2 DEF RowSound
    <2>2. session[row[m].ses] \in SessionRows
      BY <2>1 DEF TypeOK, SessionRows
    <2> QED
      BY <2>2 DEF Home, SessionRows
  <1>3. ASSUME turn' = turn, effect' = effect,
               \A k \in Messages : pc'[k] \in {"preparing", "thinking", "calling"}
                                      => pc'[k] = pc[k]
        PROVE  Goal
    BY <1>1, <1>3 DEF TurnSound
  <1>4. ASSUME NEW m \in Messages, turn' = turn, effect' = effect,
               NEW place \in {"idle", "entering", "answered", "sending"}, Go(m, place)
        PROVE  Goal
    BY <1>1, <1>3, <1>4 DEF Go
  <1>5. ASSUME NEW m \in Messages, effect' = effect, NEW t \in Receipts, t.st # "none",
               turn' = [turn EXCEPT ![m] = t],
               NEW place \in Places \ {"preparing", "calling"}, Go(m, place),
               place = "thinking" => t.st = "running"
        PROVE  Goal
    <2>1. turn' \in [Messages -> Receipts] /\ turn'[m] = t /\ pc'[m] = place
      BY <1>1, <1>5 DEF Go
    <2>2. \A k \in Messages \ {m} : turn'[k] = turn[k] /\ pc'[k] = pc[k]
      BY <1>1, <1>5 DEF Go
    <2>3. TurnSound(m)'
      BY <1>5, <2>1 DEF TurnSound
    <2>4. \A k \in Messages \ {m} : TurnSound(k)'
      BY <1>5, <2>2 DEF TurnSound
    <2> QED
      BY <2>1, <2>3, <2>4
  <1>6. ASSUME NEW m \in Messages, pc[m] # "idle", turn[m].tries < MaxTries,
               effect' = effect, Opened(m), Go(m, "thinking")
        PROVE  Goal
    <2> DEFINE t == [st |-> "running", gen |-> Home(m).gen, tries |-> turn[m].tries + 1]
    <2>1. turn[m] \in Receipts
      BY <1>1
    <2>2. turn[m].tries + 1 \in 0 .. MaxTries
      BY <1>6, <2>1, TurnsAssumption DEF Receipts
    <2>3. t \in Receipts /\ t.st = "running"
      BY <1>2, <1>6, <2>2 DEF Receipts
    <2>4. turn' = [turn EXCEPT ![m] = t]
      BY <1>6 DEF Opened
    <2> HIDE DEF t
    <2> QED
      BY <1>5, <1>6, <2>3, <2>4 DEF Places
  <1>7. ASSUME NEW m \in Messages, Enter(m) PROVE Goal
    <2>1. pc[m] # "idle" /\ effect' = effect
      BY <1>7 DEF Enter
    <2>2. \/ turn' = turn /\ (Go(m, "answered") \/ Go(m, "idle"))
          \/ turn[m].tries < MaxTries /\ Opened(m) /\ Go(m, "thinking")
          \/ turn[m].st = "none" /\ turn' = turn /\ Go(m, "preparing")
      BY <1>7 DEF Enter, CanRecover
    <2>3. CASE turn[m].st = "none" /\ turn' = turn /\ Go(m, "preparing")
      BY <1>1, <2>1, <2>3 DEF Go, TurnSound
    <2> QED
      BY <1>4, <1>6, <2>1, <2>2, <2>3
  <1>8. ASSUME NEW m \in Messages, Begin(m) PROVE Goal
    <2>1. /\ pc[m] = "preparing" /\ effect' = effect
          /\ \/ turn' = turn /\ Go(m, "idle")
             \/ Opened(m) /\ Go(m, "thinking")
      BY <1>8 DEF Begin
    <2>2. turn[m].tries < MaxTries
      BY <2>1, TurnsAssumption DEF TurnSound
    <2> QED
      BY <1>4, <1>6, <2>1, <2>2
  <1>9. ASSUME NEW m \in Messages, Fail(m) \/ Finish(m) PROVE Goal
    <2>1. PICK st \in {"failed", "finished"} :
             turn' = [turn EXCEPT ![m] = [turn[m] EXCEPT !.st = st]]
      BY <1>9 DEF Fail, Finish
    <2>2. effect' = effect /\ (Go(m, "idle") \/ Go(m, "answered"))
      BY <1>9 DEF Fail, Finish
    <2> DEFINE t == [turn[m] EXCEPT !.st = st]
    <2>3. t \in Receipts /\ t.st # "none"
      BY <1>1 DEF Receipts
    <2>4. turn' = [turn EXCEPT ![m] = t]
      BY <2>1
    <2> HIDE DEF t
    <2> QED
      BY <1>5, <2>2, <2>3, <2>4 DEF Places
  <1>10. ASSUME NEW m \in Messages, Rotate(m) PROVE Goal
    <2>1. pc[m] # "idle" /\ effect' = effect
      BY <1>10 DEF Rotate
    <2> DEFINE t == [st |-> "finished", gen |-> Home(m).gen, tries |-> 0]
    <2>2. \/ turn' = turn /\ (Go(m, "answered") \/ Go(m, "idle"))
          \/ turn' = [turn EXCEPT ![m] = t] /\ Go(m, "answered")
      BY <1>10 DEF Rotate
    <2>3. t \in Receipts /\ t.st = "finished"
      BY <1>2, <2>1, TurnsAssumption DEF Receipts
    <2> HIDE DEF t
    <2> QED
      BY <1>4, <1>5, <2>1, <2>2, <2>3 DEF Places
  <1>11. ASSUME NEW m \in Messages,
                \/ Accept(m) \/ Take(m) \/ CannotPrepare(m) \/ Reduce(m) \/ Deliver(m)
                \/ Sent(m)
         PROVE  Goal
    <2>1. turn' = turn /\ effect' = effect
      BY <1>11 DEF Accept, Take, CannotPrepare, Reduce, Deliver, Sent, store
    <2>2. \/ pc' = pc
          \/ Go(m, "idle") \/ Go(m, "entering") \/ Go(m, "sending")
      BY <1>11 DEF Accept, Take, CannotPrepare, Reduce, Deliver, Sent, calls
    <2> QED
      BY <1>3, <1>4, <2>1, <2>2
  <1>12. ASSUME NEW m \in Messages, NEW o \in Ops, Call(m, o) PROVE Goal
    <2>1. turn' = turn /\ pc[m] = "thinking" /\ turn[m].st = "running"
      BY <1>12 DEF Call, TurnSound
    <2>2. \/ effect' = effect /\ pc' = pc
          \/ effect' = [effect EXCEPT ![m][o] = "pending"] /\ pc' = [pc EXCEPT ![m] = "calling"]
      BY <1>12 DEF Call, Recorded, Go
    <2>3. CASE effect' = [effect EXCEPT ![m][o] = "pending"] /\ pc' = [pc EXCEPT ![m] = "calling"]
      BY <1>1, <2>1, <2>3 DEF TurnSound
    <2> QED
      BY <1>3, <2>1, <2>2, <2>3
  <1>13. ASSUME NEW m \in Messages, NEW o \in Ops, ToolAnswers(m, o) \/ Asks(m, o) PROVE Goal
    <2>1. turn' = turn /\ <<m, o>> \in flying
      BY <1>13 DEF ToolAnswers, Asks
    <2>2. PICK st \in Effects : Landed(m, o, st)
      BY <1>13 DEF ToolAnswers, Asks, Effects
    <2>3. turn[m].st # "none"
      BY <2>1 DEF TurnSound, JournalSound
    <2> QED
      BY <1>1, <2>1, <2>2, <2>3 DEF Landed, TurnSound
  <1>14. ASSUME NEW s \in Sessions, Clear(s) \/ Archive(s) \/ Restore(s) PROVE Goal
    BY <1>3, <1>14 DEF Clear, Archive, Restore, calls
  <1>15. CASE Crash
    <2>1. turn' = turn /\ effect' = effect /\ \A k \in Messages : pc'[k] = "idle"
      BY <1>15 DEF Crash
    <2> QED
      BY <1>3, <2>1
  <1>16. CASE UNCHANGED vars
    BY <1>3, <1>16, Stuttering
  <1> QED
    BY <1>7, <1>8, <1>9, <1>10, <1>11, <1>12, <1>13, <1>14, <1>15, <1>16 DEF Next

(***************************************************************************)
(* The journal of effects                                                  *)
(***************************************************************************)
LEMMA JournalNext ==
  ASSUME TypeOK, \A m \in Messages : JournalSound(m), [Next]_vars
  PROVE  /\ effect' \in [Messages -> [Ops -> Effects]]
         /\ flying' \subseteq Messages \X Ops
         /\ applied' \in [Messages -> [Ops -> Nat]]
         /\ \A m \in Messages : JournalSound(m)'
  <1> DEFINE Goal == /\ effect' \in [Messages -> [Ops -> Effects]]
                     /\ flying' \subseteq Messages \X Ops
                     /\ applied' \in [Messages -> [Ops -> Nat]]
                     /\ \A m \in Messages : JournalSound(m)'
  <1>1. /\ effect \in [Messages -> [Ops -> Effects]]
        /\ flying \subseteq Messages \X Ops
        /\ applied \in [Messages -> [Ops -> Nat]]
    BY DEF TypeOK, Effects
  <1>2. ASSUME effect' = effect, flying' = flying, applied' = applied
        PROVE  Goal
    BY <1>1, <1>2 DEF JournalSound
  <1>3. ASSUME NEW m \in Messages,
               \/ Accept(m) \/ Take(m) \/ Enter(m) \/ Begin(m) \/ CannotPrepare(m)
               \/ Reduce(m) \/ Fail(m) \/ Finish(m) \/ Rotate(m) \/ Deliver(m) \/ Sent(m)
        PROVE  Goal
    BY <1>2, <1>3 DEF Accept, Take, Enter, Begin, CannotPrepare, Reduce, Fail, Finish,
                      Rotate, Deliver, Sent, store, calls
  <1>4. ASSUME NEW m \in Messages, NEW o \in Ops, Call(m, o) PROVE Goal
    <2>1. CASE Known(m, o)
      BY <1>2, <1>4, <2>1 DEF Call
    <2>2. CASE ~Known(m, o)
      <3>1. /\ effect' = [effect EXCEPT ![m][o] = "pending"]
            /\ flying' = flying \cup {<<m, o>>} /\ applied' = applied
        BY <1>4, <2>2 DEF Call, Recorded
      <3>2. applied[m][o] = 0
        BY <1>1, <2>2 DEF Known, JournalSound, Effects
      <3>3. /\ effect' \in [Messages -> [Ops -> Effects]] /\ effect'[m][o] = "pending"
            /\ \A x \in Messages, y \in Ops : <<x, y>> # <<m, o>> => effect'[x][y] = effect[x][y]
        BY <1>1, <3>1, TableEdit DEF Effects
      <3>4. ASSUME NEW k \in Messages PROVE JournalSound(k)'
        BY <1>1, <3>1, <3>2, <3>3 DEF JournalSound
      <3> QED
        BY <1>1, <3>1, <3>3, <3>4
    <2> QED
      BY <2>1, <2>2
  <1>5. ASSUME NEW m \in Messages, NEW o \in Ops, NEW st \in Effects, Landed(m, o, st),
               <<m, o>> \in flying,
               \/ applied' = applied
               \/ Applied(m, o) /\ st \notin {"none", "refused"}
        PROVE  Goal
    <2>1. applied[m][o] = 0
      BY <1>5 DEF JournalSound
    <2>2. /\ effect' \in [Messages -> [Ops -> Effects]] /\ effect'[m][o] = st
          /\ \A x \in Messages, y \in Ops : <<x, y>> # <<m, o>> => effect'[x][y] = effect[x][y]
      BY <1>1, <1>5, TableEdit DEF Landed
    <2>3. /\ applied' \in [Messages -> [Ops -> Nat]]
          /\ applied'[m][o] <= 1
          /\ applied'[m][o] = 0 \/ st \notin {"none", "refused"}
          /\ \A x \in Messages, y \in Ops : <<x, y>> # <<m, o>> => applied'[x][y] = applied[x][y]
      <3>1. CASE applied' = applied
        BY <1>1, <2>1, <3>1
      <3>2. CASE Applied(m, o) /\ st \notin {"none", "refused"}
        <4> DEFINE g == [applied EXCEPT ![m][o] = @ + 1]
        <4>1. /\ g \in [Messages -> [Ops -> Nat]]
              /\ g[m][o] = applied[m][o] + 1
              /\ \A x \in Messages, y \in Ops : <<x, y>> # <<m, o>> => g[x][y] = applied[x][y]
          BY <1>1, CountEdit
        <4>2. applied' = g
          BY <3>2 DEF Applied
        <4> HIDE DEF g
        <4> QED
          BY <2>1, <3>2, <4>1, <4>2
      <3> QED
        BY <1>5, <3>1, <3>2
    <2>4. flying' = flying \ {<<m, o>>}
      BY <1>5 DEF Landed
    <2>5. ASSUME NEW k \in Messages PROVE JournalSound(k)'
      BY <1>1, <2>1, <2>2, <2>3, <2>4 DEF JournalSound
    <2> QED
      BY <1>1, <2>2, <2>3, <2>4, <2>5
  <1>6. ASSUME NEW m \in Messages, NEW o \in Ops, ToolAnswers(m, o) PROVE Goal
    BY <1>5, <1>6 DEF ToolAnswers, Effects
  <1>7. ASSUME NEW m \in Messages, NEW o \in Ops, Asks(m, o) PROVE Goal
    BY <1>5, <1>7 DEF Asks, Effects
  <1>8. ASSUME NEW s \in Sessions, Clear(s) \/ Archive(s) \/ Restore(s) PROVE Goal
    BY <1>2, <1>8 DEF Clear, Archive, Restore, calls
  <1>9. CASE Crash
    <2>1. PICK seen \in SUBSET flying :
             applied' = [m \in Messages |-> [o \in Ops |->
                           applied[m][o] + (IF <<m, o>> \in seen THEN 1 ELSE 0)]]
      BY <1>9, Zenon DEF Crash
    <2>2. effect' = effect /\ flying' = {}
      BY <1>9 DEF Crash
    <2>3. applied' \in [Messages -> [Ops -> Nat]]
      BY <1>1, <2>1
    <2>4. ASSUME NEW m \in Messages PROVE JournalSound(m)'
      BY <1>1, <2>1, <2>2 DEF JournalSound
    <2> QED
      BY <1>1, <2>2, <2>3, <2>4
  <1>10. CASE UNCHANGED vars
    BY <1>2, <1>10, Stuttering
  <1> QED
    BY <1>3, <1>4, <1>6, <1>7, <1>8, <1>9, <1>10 DEF Next

LEMMA DoubtNext ==
  ASSUME TypeOK,
         \A m \in Messages : TurnSound(m) /\ JournalSound(m) /\ DoubtSound(m), [Next]_vars
  PROVE  doubt' \subseteq Messages /\ \A m \in Messages : DoubtSound(m)'
  <1> DEFINE Goal == doubt' \subseteq Messages /\ \A m \in Messages : DoubtSound(m)'
  <1>1. /\ effect \in [Messages -> [Ops -> Effects]]
        /\ doubt \subseteq Messages
        /\ pc \in [Messages -> Places]
    BY DEF TypeOK, Effects, Places
  <1>2. ASSUME effect' = effect, doubt' = doubt,
               \A k \in Messages : pc'[k] \in {"thinking", "calling"} => pc'[k] = pc[k]
        PROVE  Goal
    BY <1>1, <1>2 DEF DoubtSound, Unclear
  <1>3. ASSUME NEW m \in Messages, effect' = effect,
               doubt' = doubt \/ doubt' = doubt \ {m},
               NEW place \in Places \ {"calling"}, Go(m, place),
               place = "thinking" => ~Unclear(m)
        PROVE  Goal
    <2>1. DoubtSound(m)'
      BY <1>1, <1>3 DEF DoubtSound, Unclear, Go
    <2>2. \A k \in Messages \ {m} : DoubtSound(k)'
      BY <1>1, <1>3 DEF DoubtSound, Unclear, Go
    <2> QED
      BY <1>1, <1>3, <2>1, <2>2
  <1>4. ASSUME NEW m \in Messages, Enter(m) PROVE Goal
    <2>1. effect' = effect /\ doubt' = doubt \ {m}
      BY <1>4 DEF Enter
    <2>2. \/ Go(m, "answered") \/ Go(m, "idle") \/ Go(m, "preparing")
          \/ Go(m, "thinking") /\ ~Unclear(m)
      BY <1>4 DEF Enter, CanRecover
    <2> QED
      BY <1>3, <2>1, <2>2 DEF Places
  <1>5. ASSUME NEW m \in Messages, Begin(m) PROVE Goal
    <2>1. effect' = effect /\ doubt' = doubt /\ (Go(m, "idle") \/ Go(m, "thinking"))
      BY <1>5 DEF Begin
    <2>2. ~Unclear(m)
      BY <1>5 DEF Begin, TurnSound, Unclear
    <2> QED
      BY <1>3, <2>1, <2>2 DEF Places
  <1>6. ASSUME NEW m \in Messages, Reduce(m) PROVE Goal
    <2>1. effect' = effect /\ doubt' = doubt \ {m} /\ pc' = pc /\ ~Unclear(m) /\ pc[m] = "thinking"
      BY <1>6 DEF Reduce, store
    <2>2. Go(m, "thinking")
      BY <1>1, <2>1 DEF Go
    <2> QED
      BY <1>3, <2>1, <2>2 DEF Places
  <1>7. ASSUME NEW m \in Messages,
               \/ Take(m) \/ CannotPrepare(m) \/ Fail(m) \/ Finish(m) \/ Rotate(m)
               \/ Deliver(m) \/ Sent(m)
        PROVE  Goal
    <2>1. effect' = effect /\ doubt' = doubt
      BY <1>7 DEF Take, CannotPrepare, Fail, Finish, Rotate, Deliver, Sent, store
    <2>2. Go(m, "idle") \/ Go(m, "entering") \/ Go(m, "answered") \/ Go(m, "sending")
      BY <1>7 DEF Take, CannotPrepare, Fail, Finish, Rotate, Deliver, Sent
    <2> QED
      BY <1>3, <2>1, <2>2 DEF Places
  <1>8. ASSUME NEW m \in Messages, Accept(m) PROVE Goal
    BY <1>2, <1>8 DEF Accept, calls
  <1>9. ASSUME NEW m \in Messages, NEW o \in Ops, Call(m, o) PROVE Goal
    <2>1. pc[m] = "thinking" /\ m \notin doubt
      BY <1>9 DEF Call
    <2>2. CASE Known(m, o)
      <3>1. effect' = effect /\ pc' = pc /\ (doubt' = doubt \/ doubt' = doubt \cup {m})
        BY <1>9, <2>2 DEF Call
      <3> QED
        BY <1>1, <2>1, <3>1 DEF DoubtSound, Unclear
    <2>3. CASE ~Known(m, o)
      <3>1. /\ effect' = [effect EXCEPT ![m][o] = "pending"]
            /\ doubt' = doubt /\ pc' = [pc EXCEPT ![m] = "calling"]
        BY <1>9, <2>3 DEF Call, Recorded, Go
      <3>2. /\ effect'[m][o] = "pending"
            /\ \A x \in Messages, y \in Ops : <<x, y>> # <<m, o>> => effect'[x][y] = effect[x][y]
        BY <1>1, <3>1, TableEdit DEF Effects
      <3>3. ~Unclear(m)
        BY <2>1 DEF DoubtSound
      <3>4. ASSUME NEW k \in Messages PROVE DoubtSound(k)'
        BY <1>1, <2>1, <3>1, <3>2, <3>3 DEF DoubtSound, Unclear
      <3> QED
        BY <1>1, <3>1, <3>4
    <2> QED
      BY <2>2, <2>3
  <1>10. ASSUME NEW m \in Messages, NEW o \in Ops, NEW st \in Effects, Landed(m, o, st),
                <<m, o>> \in flying,
                \/ doubt' = IF pc[m] = "calling" THEN doubt \cup {m} ELSE doubt
                \/ doubt' = doubt /\ st \notin {"pending", "unclear"}
         PROVE  Goal
    <2>1. effect[m][o] = "pending"
      BY <1>10 DEF JournalSound
    <2>2. /\ effect'[m][o] = st
          /\ \A x \in Messages, y \in Ops : <<x, y>> # <<m, o>> => effect'[x][y] = effect[x][y]
      BY <1>1, <1>10, TableEdit DEF Landed
    <2>3. /\ pc'[m] = IF pc[m] = "calling" THEN "thinking" ELSE pc[m]
          /\ \A k \in Messages \ {m} : pc'[k] = pc[k]
      BY <1>1, <1>10 DEF Landed
    <2>4. \A k \in Messages \ {m} : DoubtSound(k)'
      BY <1>10, <2>2, <2>3 DEF DoubtSound, Unclear
    <2>5. CASE pc[m] = "calling"
      <3>1. \A p \in Ops \ {o} : effect[m][p] \notin {"pending", "unclear"}
        BY <2>1, <2>5 DEF DoubtSound
      <3> QED
        BY <1>1, <1>10, <2>2, <2>3, <2>4, <2>5, <3>1 DEF DoubtSound, Unclear
    <2>6. CASE pc[m] = "thinking"
      <3>1. m \in doubt
        BY <2>1, <2>6 DEF DoubtSound, Unclear
      <3> QED
        BY <1>1, <1>10, <2>3, <2>4, <2>6, <3>1 DEF DoubtSound
    <2>7. CASE pc[m] \notin {"calling", "thinking"}
      BY <1>1, <1>10, <2>3, <2>4, <2>7 DEF DoubtSound
    <2> QED
      BY <2>5, <2>6, <2>7
  <1>11. ASSUME NEW m \in Messages, NEW o \in Ops, ToolAnswers(m, o) PROVE Goal
    BY <1>10, <1>11 DEF ToolAnswers, Effects
  <1>12. ASSUME NEW m \in Messages, NEW o \in Ops, Asks(m, o) PROVE Goal
    BY <1>10, <1>12 DEF Asks, Effects
  <1>13. ASSUME NEW s \in Sessions, Clear(s) \/ Archive(s) \/ Restore(s) PROVE Goal
    BY <1>2, <1>13 DEF Clear, Archive, Restore, calls
  <1>14. CASE Crash
    <2>1. effect' = effect /\ doubt' = {} /\ \A k \in Messages : pc'[k] = "idle"
      BY <1>14 DEF Crash
    <2> QED
      BY <2>1 DEF DoubtSound
  <1>15. CASE UNCHANGED vars
    BY <1>2, <1>15, Stuttering
  <1> QED
    BY <1>4, <1>5, <1>6, <1>7, <1>8, <1>9, <1>11, <1>12, <1>13, <1>14, <1>15 DEF Next

(* Nothing acts but a tool that runs, not even what a crash leaves behind. *)
LEMMA OnlyRunningToolsAct ==
  ASSUME TypeOK, [Next]_vars, NEW n \in Messages, NEW w \in Ops, <<n, w>> \notin flying
  PROVE  applied'[n][w] = applied[n][w]
  <1>1. applied \in [Messages -> [Ops -> Nat]]
    BY DEF TypeOK
  <1>2. ASSUME NEW m \in Messages,
               \/ Accept(m) \/ Take(m) \/ Enter(m) \/ Begin(m) \/ CannotPrepare(m)
               \/ Reduce(m) \/ Fail(m) \/ Finish(m) \/ Rotate(m) \/ Deliver(m) \/ Sent(m)
        PROVE  applied' = applied
    BY <1>2 DEF Accept, Take, Enter, Begin, CannotPrepare, Reduce, Fail, Finish, Rotate,
                Deliver, Sent
  <1>3. ASSUME NEW m \in Messages, NEW o \in Ops, Call(m, o) \/ Asks(m, o)
        PROVE  applied' = applied
    BY <1>3 DEF Call, Asks
  <1>4. ASSUME NEW m \in Messages, NEW o \in Ops, ToolAnswers(m, o)
        PROVE  applied'[n][w] = applied[n][w]
    <2>1. <<m, o>> # <<n, w>>
      BY <1>4 DEF ToolAnswers
    <2>2. applied' = applied \/ Applied(m, o)
      BY <1>4 DEF ToolAnswers
    <2> QED
      BY <1>1, <2>1, <2>2, CountEdit DEF Applied
  <1>5. ASSUME NEW s \in Sessions, Clear(s) \/ Archive(s) \/ Restore(s)
        PROVE  applied' = applied
    BY <1>5 DEF Clear, Archive, Restore
  <1>6. CASE Crash
    <2>1. PICK seen \in SUBSET flying :
             applied' = [m \in Messages |-> [o \in Ops |->
                           applied[m][o] + (IF <<m, o>> \in seen THEN 1 ELSE 0)]]
      BY <1>6, Zenon DEF Crash
    <2>2. applied[n][w] \in Nat
      BY <1>1
    <2> QED
      BY <2>1, <2>2
  <1>7. CASE UNCHANGED vars
    BY <1>7, Stuttering
  <1> QED
    BY <1>2, <1>3, <1>4, <1>5, <1>6, <1>7 DEF Next

(***************************************************************************)
(* Sessions                                                                *)
(***************************************************************************)
Requests == [Wishes -> {0} \cup Messages]

LEMMA SessionType ==
  ASSUME TypeOK, [Next]_vars
  PROVE  session' \in [Sessions -> SessionRows]
  <1> DEFINE Goal == session' \in [Sessions -> SessionRows]
  <1>1. session \in [Sessions -> SessionRows]
    BY DEF TypeOK, SessionRows
  <1>2. ASSUME NEW s \in Sessions
        PROVE  /\ session[s].gen \in Nat /\ session[s].archived \in BOOLEAN
               /\ session[s].wish \in Requests
    BY <1>1 DEF SessionRows, Requests
  <1>3. ASSUME NEW s, NEW r,
               s \in Sessions => r \in SessionRows,
               session' = [session EXCEPT ![s] = r]
        PROVE  Goal
    BY <1>1, <1>3
  <1>4. ASSUME NEW s, NEW f, s \in Sessions => f \in Requests,
               session' = [session EXCEPT ![s] = [session[s] EXCEPT !.wish = f]]
        PROVE  Goal
    <2> DEFINE r == [session[s] EXCEPT !.wish = f]
    <2>1. s \in Sessions => r \in SessionRows
      BY <1>1, <1>4 DEF SessionRows, Requests
    <2> HIDE DEF r
    <2> QED
      BY <1>3, <1>4, <2>1 DEF r
  <1>5. ASSUME NEW m \in Messages, Enter(m) PROVE Goal
    <2>1. session' = session \/ session' = Restored(m, row[m].ses)
      BY <1>5 DEF Enter
    <2> DEFINE s == row[m].ses
               f == [w \in Wishes |-> IF effect[m][w] = "complete" THEN m
                                      ELSE session[s].wish[w]]
    <2>2. s \in Sessions => f \in Requests
      BY <1>2 DEF Requests
    <2>3. Restored(m, s) = [session EXCEPT ![s] = [session[s] EXCEPT !.wish = f]]
      BY DEF Restored
    <2> HIDE DEF f, s
    <2> QED
      BY <1>1, <1>4, <2>1, <2>2, <2>3 DEF s
  <1>6. ASSUME NEW m \in Messages, NEW b \in BOOLEAN,
               session' = [Unasked(m) EXCEPT ![row[m].ses].archived = b]
        PROVE  Goal
    <2> DEFINE s == row[m].ses
               f == [w \in Wishes |-> IF session[s].wish[w] = m THEN 0
                                      ELSE session[s].wish[w]]
               r == [session[s] EXCEPT !.wish = f, !.archived = b]
    <2>1. s \in Sessions => f \in Requests
      BY <1>2 DEF Requests
    <2>2. s \in Sessions => r \in SessionRows
      BY <1>1, <2>1 DEF SessionRows, Requests
    <2>3. Unasked(m) = [session EXCEPT ![s] = [session[s] EXCEPT !.wish = f]]
      BY DEF Unasked
    <2>4. session' = [session EXCEPT ![s] = r]
      BY <1>1, <1>6, <2>3
    <2> HIDE DEF r, s
    <2> QED
      BY <1>3, <2>2, <2>4
  <1>7. ASSUME NEW m \in Messages, Fail(m) PROVE Goal
    <2> DEFINE s == row[m].ses
               f == [w \in Wishes |-> IF session[s].wish[w] = m THEN 0
                                      ELSE session[s].wish[w]]
    <2>1. s \in Sessions => f \in Requests
      BY <1>2 DEF Requests
    <2>2. session' = [session EXCEPT ![s] = [session[s] EXCEPT !.wish = f]]
      BY <1>7 DEF Fail, Unasked
    <2> HIDE DEF f, s
    <2> QED
      BY <1>4, <2>1, <2>2
  <1>8. ASSUME NEW m \in Messages, Finish(m) PROVE Goal
    <2>1. PICK x, y, z :
             session' = [Unasked(m) EXCEPT ![row[m].ses].archived = x \/ y \/ z]
      BY <1>8 DEF Finish
    <2>2. PICK b \in BOOLEAN : b = (x \/ y \/ z)
      OBVIOUS
    <2> QED
      BY <1>6, <2>1, <2>2
  <1>9. ASSUME NEW m \in Messages, NEW o \in Ops, Asks(m, o) PROVE Goal
    <2> DEFINE s == row[m].ses
               f == [session[s].wish EXCEPT ![o] = m]
    <2>1. s \in Sessions => f \in Requests
      BY <1>2 DEF Requests
    <2>2. \/ session' = session
          \/ session' = [session EXCEPT ![s] = [session[s] EXCEPT !.wish = f]]
      BY <1>9 DEF Asks
    <2> HIDE DEF f, s
    <2> QED
      BY <1>1, <1>4, <2>1, <2>2
  <1>10. ASSUME NEW m \in Messages, Rotate(m) PROVE Goal
    <2> DEFINE s == row[m].ses
               r == [session[s] EXCEPT !.archived = TRUE, !.wish = NoWish]
    <2>1. NoWish \in Requests
      BY DEF NoWish, Requests
    <2>2. s \in Sessions => r \in SessionRows
      BY <1>1, <2>1 DEF SessionRows, Requests
    <2>3. session' = session \/ session' = [session EXCEPT ![s] = r]
      BY <1>10 DEF Rotate
    <2> HIDE DEF r, s
    <2> QED
      BY <1>1, <1>3, <2>2, <2>3
  <1>11. ASSUME NEW s \in Sessions, Clear(s) \/ Archive(s) \/ Restore(s) PROVE Goal
    <2>1. NoWish \in Requests
      BY DEF NoWish, Requests
    <2>2. CASE Clear(s)
      <3> DEFINE r == [session[s] EXCEPT !.gen = session[s].gen + 1, !.wish = NoWish]
      <3>1. session[s].gen + 1 \in Nat
        BY <1>2
      <3>2. r \in SessionRows
        BY <1>1, <2>1, <3>1 DEF SessionRows, Requests
      <3>3. session' = [session EXCEPT ![s] = r]
        BY <2>2 DEF Clear
      <3> HIDE DEF r
      <3> QED
        BY <1>3, <3>2, <3>3
    <2>3. CASE Archive(s)
      <3> DEFINE f == [w \in Wishes |-> IF w = "archive" THEN 0 ELSE session[s].wish[w]]
                 r == [session[s] EXCEPT !.archived = TRUE, !.wish = f]
      <3>1. f \in Requests
        BY <1>2 DEF Requests
      <3>2. session' = [session EXCEPT ![s] = r]
        BY <2>3 DEF Archive
      <3> HIDE DEF f
      <3>3. r \in SessionRows
        BY <1>1, <3>1 DEF SessionRows, Requests
      <3> HIDE DEF r
      <3> QED
        BY <1>3, <3>2, <3>3
    <2>4. CASE Restore(s)
      <3> DEFINE r == [session[s] EXCEPT !.archived = FALSE]
      <3>1. r \in SessionRows
        BY <1>1 DEF SessionRows
      <3>2. session' = [session EXCEPT ![s] = r]
        BY <2>4 DEF Restore
      <3> HIDE DEF r
      <3> QED
        BY <1>3, <3>1, <3>2
    <2> QED
      BY <1>11, <2>2, <2>3, <2>4
  <1>12. ASSUME NEW m \in Messages,
                \/ Accept(m) \/ Take(m) \/ Begin(m) \/ CannotPrepare(m) \/ Reduce(m)
                \/ Deliver(m) \/ Sent(m)
         PROVE  Goal
    BY <1>1, <1>12 DEF Accept, Take, Begin, CannotPrepare, Reduce, Deliver, Sent, store
  <1>13. ASSUME NEW m \in Messages, NEW o \in Ops, Call(m, o) \/ ToolAnswers(m, o) PROVE Goal
    BY <1>1, <1>13 DEF Call, ToolAnswers
  <1>14. CASE Crash
    BY <1>1, <1>14 DEF Crash
  <1>15. CASE UNCHANGED vars
    BY <1>1, <1>15, Stuttering
  <1> QED
    BY <1>5, <1>7, <1>8, <1>9, <1>10, <1>11, <1>12, <1>13, <1>14, <1>15 DEF Next

LEMMA MarksType ==
  ASSUME TypeOK, [Next]_vars
  PROVE  cancelled' \subseteq Messages /\ again' \subseteq Messages
  <1> DEFINE Goal == cancelled' \subseteq Messages /\ again' \subseteq Messages
  <1>1. cancelled \subseteq Messages /\ again \subseteq Messages
    BY DEF TypeOK
  <1>2. ASSUME NEW m \in Messages, Enter(m) \/ Reduce(m) PROVE Goal
    BY <1>1, <1>2 DEF Enter, Reduce
  <1>3. ASSUME NEW m \in Messages,
               \/ Accept(m) \/ Take(m) \/ Begin(m) \/ CannotPrepare(m) \/ Fail(m)
               \/ Finish(m) \/ Rotate(m) \/ Deliver(m) \/ Sent(m)
        PROVE  Goal
    BY <1>1, <1>3 DEF Accept, Take, Begin, CannotPrepare, Fail, Finish, Rotate, Deliver,
                      Sent, calls
  <1>4. ASSUME NEW m \in Messages, NEW o \in Ops,
               Call(m, o) \/ ToolAnswers(m, o) \/ Asks(m, o)
        PROVE  Goal
    BY <1>1, <1>4 DEF Call, ToolAnswers, Asks
  <1>5. ASSUME NEW s \in Sessions, Clear(s) \/ Archive(s) \/ Restore(s) PROVE Goal
    BY <1>1, <1>5 DEF Clear, Archive, Restore, Active, calls
  <1>6. CASE Crash
    BY <1>6 DEF Crash
  <1>7. CASE UNCHANGED vars
    BY <1>1, <1>7, Stuttering
  <1> QED
    BY <1>2, <1>3, <1>4, <1>5, <1>6, <1>7 DEF Next

(***************************************************************************)
(* The theorems                                                            *)
(***************************************************************************)
LEMMA Initially == Init => IInv
  <1> SUFFICES ASSUME Init PROVE IInv
    OBVIOUS
  <1>1. TypeOK
    <2>1. Fresh \in SessionRows
      BY DEF Fresh, SessionRows, NoWish
    <2>2. session \in [Sessions -> SessionRows]
      BY <2>1 DEF Init
    <2>3. 1 \in Sessions
      BY TurnsAssumption DEF Sessions
    <2>4. row \in [Messages -> Rows] /\ turn \in [Messages -> Receipts]
      BY TurnsAssumption DEF Init, Rows, Receipts
    <2> QED
      BY <2>2, <2>3, <2>4 DEF Init, TypeOK, SessionRows
  <1>2. ASSUME NEW m \in Messages
        PROVE  RowSound(m) /\ TurnSound(m) /\ JournalSound(m) /\ DoubtSound(m)
    BY DEF Init, RowSound, TurnSound, JournalSound, DoubtSound
  <1> QED
    BY <1>1, <1>2 DEF IInv

LEMMA Inductive == IInv /\ [Next]_vars => IInv'
  <1> SUFFICES ASSUME IInv, [Next]_vars PROVE IInv'
    OBVIOUS
  <1>1. TypeOK /\ \A m \in Messages : RowSound(m) /\ TurnSound(m) /\ JournalSound(m) /\ DoubtSound(m)
    BY DEF IInv
  <1>2. TypeOK'
    BY <1>1, PcType, ReplyType, ChatType, RowNext, TurnNext, JournalNext, DoubtNext,
       SessionType, MarksType
    DEF TypeOK, Places, Deliveries, Effects, SessionRows
  <1>3. \A m \in Messages : RowSound(m)' /\ TurnSound(m)' /\ JournalSound(m)' /\ DoubtSound(m)'
    BY <1>1, RowNext, TurnNext, JournalNext, DoubtNext
  <1> QED
    BY <1>2, <1>3 DEF IInv

LEMMA Invariance == Spec => []IInv
  BY Initially, Inductive, PTL DEF Spec

(* Types of the sessions, rows, receipts and running calls; the attempts   *)
(* of a row and of a turn stay within MaxTries.                            *)
THEOREM TypeCorrect == Spec => []TypeOK
  BY Invariance, PTL DEF IInv

(* A tool call of a turn takes effect at most once, whatever was retried,  *)
(* resumed, left running or cut short by a crash.                          *)
THEOREM OneEffectPerCall == Spec => []EffectOnce
  <1>1. IInv => EffectOnce
    BY DEF IInv, JournalSound, EffectOnce
  <1> QED
    BY <1>1, Invariance, PTL

(* No write of a turn starts while another of the same turn may or may not *)
(* have happened: the model that calls it is not in doubt, so its journal  *)
(* is settled.                                                             *)
THEOREM NothingIsWrittenPastUnknown == Spec => NothingPastUnknown
  <1> DEFINE Step == \A m \in Messages, o \in Ops :
                        <<m, o>> \in flying' \ flying =>
                           \A p \in Ops : effect[m][p] \notin {"pending", "unclear"}
                                          /\ <<m, p>> \notin flying
  <1>1. IInv /\ [Next]_vars => Step
    <2> SUFFICES ASSUME IInv, [Next]_vars PROVE Step
      OBVIOUS
    <2>1. ASSUME flying' \subseteq flying PROVE Step
      BY <2>1
    <2>2. ASSUME NEW m \in Messages, NEW o \in Ops, Call(m, o) PROVE Step
      <3>1. pc[m] = "thinking" /\ m \notin doubt /\ flying' \subseteq flying \cup {<<m, o>>}
        BY <2>2 DEF Call
      <3>2. \A p \in Ops : effect[m][p] \notin {"pending", "unclear"}
        BY <3>1 DEF IInv, DoubtSound, Unclear
      <3>3. \A p \in Ops : <<m, p>> \notin flying
        BY <3>2 DEF IInv, JournalSound
      <3> QED
        BY <3>1, <3>2, <3>3
    <2>3. ASSUME NEW m \in Messages,
                 \/ Accept(m) \/ Take(m) \/ Enter(m) \/ Begin(m) \/ CannotPrepare(m)
                 \/ Reduce(m) \/ Fail(m) \/ Finish(m) \/ Rotate(m) \/ Deliver(m) \/ Sent(m)
          PROVE  Step
      BY <2>1, <2>3 DEF Accept, Take, Enter, Begin, CannotPrepare, Reduce, Fail, Finish,
                        Rotate, Deliver, Sent, calls
    <2>4. ASSUME NEW m \in Messages, NEW o \in Ops, ToolAnswers(m, o) \/ Asks(m, o) PROVE Step
      BY <2>1, <2>4 DEF ToolAnswers, Asks, Landed
    <2>5. ASSUME NEW s \in Sessions, Clear(s) \/ Archive(s) \/ Restore(s) PROVE Step
      BY <2>1, <2>5 DEF Clear, Archive, Restore, calls
    <2>6. CASE Crash
      BY <2>1, <2>6 DEF Crash
    <2>7. CASE UNCHANGED vars
      BY <2>1, <2>7, Stuttering
    <2> QED
      BY <2>2, <2>3, <2>4, <2>5, <2>6, <2>7 DEF Next
  <1> QED
    BY <1>1, Invariance, PTL DEF Spec, NothingPastUnknown

(* An exhausted turn with an empty journal has done nothing, and the next  *)
(* step does not change that: a group may be deleted over it.              *)
THEOREM ExhaustedIsInert == Spec => SettledIsInert
  <1> DEFINE Step == \A m \in Messages : Settled(m) =>
                        \A o \in Ops : applied[m][o] = 0 /\ applied'[m][o] = 0
  <1>1. IInv /\ [Next]_vars => Step
    <2> SUFFICES ASSUME IInv, [Next]_vars, NEW m \in Messages, Settled(m), NEW o \in Ops
                 PROVE  applied[m][o] = 0 /\ applied'[m][o] = 0
      OBVIOUS
    <2>1. effect[m][o] = "none"
      BY DEF Settled
    <2>2. applied[m][o] = 0 /\ <<m, o>> \notin flying
      BY <2>1 DEF IInv, JournalSound
    <2>3. applied'[m][o] = applied[m][o]
      BY <2>2, OnlyRunningToolsAct DEF IInv
    <2> QED
      BY <2>2, <2>3
  <1> QED
    BY <1>1, Invariance, PTL DEF Spec, SettledIsInert


(***************************************************************************)
(* The leader's writes.                                                    *)
(***************************************************************************)
LeadTypes ==
  /\ l_op = [o \in LeaderOps |-> l_op[o]] /\ l_native = [o \in LeaderOps |-> l_native[o]]
  /\ l_flying = [o \in LeaderOps |-> l_flying[o]]
  /\ \A o \in LeaderOps :
       /\ l_op[o] = [st |-> l_op[o].st, by |-> l_op[o].by]
       /\ l_op[o].st \in {"none", "pending", "complete", "unknown", "refused"}
       /\ l_op[o].by \in {"none", "treat_done", "abandon"}
  /\ l_applied \in [LeaderOps -> Nat]

(* A call under way has had no effect and nothing has settled it; one that *)
(* came back, or whose delivery is open, is not called again; and what may *)
(* be called again took no effect.                                         *)
Once(o) ==
  /\ l_flying[o] = "out" =>
       l_op[o].st = "pending" /\ l_op[o].by = "none" /\ l_applied[o] = 0
  /\ l_flying[o] = "back" => L!Settled(o)
  /\ l_op[o].st \in {"none", "refused"} /\ l_op[o].by # "abandon" =>
       l_op[o].by = "none" /\ l_applied[o] = 0
  /\ l_native[o] = "failed" => l_applied[o] = 0
  /\ l_native[o] = "open" => l_op[o].st \in {"pending", "unknown"} /\ l_op[o].by = "none"
  /\ l_native[o] = "retired" =>
       /\ l_flying[o] = "no"
       /\ \/ l_op[o].st \in {"pending", "unknown"} /\ l_op[o].by = "none"
          \/ l_op[o].by = "abandon"
  /\ l_op[o].by = "treat_done" => l_native[o] = "done" /\ l_op[o].st = "complete"

LeadInv == LeadTypes /\ \A o \in LeaderOps : Once(o)

LEMMA OnceStays ==
  ASSUME NEW o \in LeaderOps, Once(o), l_op'[o] = l_op[o], l_native'[o] = l_native[o],
         l_flying'[o] = l_flying[o], l_applied'[o] = l_applied[o]
  PROVE  Once(o)'
  BY DEF Once, L!Settled

LEMMA LeadStays ==
  ASSUME LeadInv, UNCHANGED <<l_op, l_native, l_flying, l_applied>>
  PROVE  LeadInv'
  BY OnceStays DEF LeadInv, LeadTypes

LEMMA LeadCalls ==
  ASSUME LeadInv, NEW w \in L!Outward, L!Call(w)
  PROVE  LeadInv'
  <1>1. PICK o \in LeaderOps : o = <<l_active, w>>
    BY DEF L!Call
  <1>2. CASE L!Settled(o)
    BY <1>1, <1>2, LeadStays DEF L!Call
  <1>3. CASE ~L!Settled(o)
    <2>1. /\ l_op' = [l_op EXCEPT ![o] = [st |-> "pending", by |-> "none"]]
          /\ l_flying' = [l_flying EXCEPT ![o] = "out"]
          /\ UNCHANGED <<l_native, l_applied>>
      BY <1>1, <1>3 DEF L!Call
    <2>2. /\ l_op'[o] = [st |-> "pending", by |-> "none"] /\ l_flying'[o] = "out"
          /\ \A p \in LeaderOps : p # o => l_op'[p] = l_op[p] /\ l_flying'[p] = l_flying[p]
      BY <2>1 DEF LeadInv, LeadTypes
    <2>3. LeadTypes'
      BY <2>1, <2>2 DEF LeadInv, LeadTypes
    <2>4. Once(o)'
      <3>1. /\ l_op[o].by # "abandon" /\ l_op[o].st \notin {"pending", "unknown", "complete"}
            /\ Once(o)
        BY <1>3 DEF L!Settled, LeadInv
      <3>2. l_applied[o] = 0 /\ l_native[o] \notin {"open", "retired"}
        <4>1. CASE l_op[o].st \in {"none", "refused"}
          BY <3>1, <4>1 DEF Once
        <4> QED
          BY <3>1, <4>1 DEF LeadInv, LeadTypes
      <3> QED
        BY <2>1, <2>2, <3>1, <3>2 DEF Once, L!Settled
    <2>5. ASSUME NEW p \in LeaderOps, p # o
          PROVE  Once(p)'
      BY <2>1, <2>2, <2>5, OnceStays DEF LeadInv
    <2> QED
      BY <2>3, <2>4, <2>5 DEF LeadInv
  <1> QED
    BY <1>2, <1>3

(* The tool acts: its effect is new.                                       *)
LEMMA LeadActs ==
  ASSUME LeadInv, NEW o \in LeaderOps, L!Deliver(o) \/ L!Commit(o)
  PROVE  /\ LeadInv' /\ l_flying[o] = "out"
         /\ \A p \in LeaderOps : p # o => l_applied'[p] = l_applied[p]
  <1>1. /\ l_flying[o] = "out" /\ l_flying' = [l_flying EXCEPT ![o] = "back"] /\ l_op' = l_op
    BY DEF L!Deliver, L!Commit, L!Back
  <1>2. PICK st : /\ l_native' = [l_native EXCEPT ![o] = st]
                  /\ \/ st \in {"done", "open"}
                     \/ st = "failed" /\ l_applied' = l_applied
    BY DEF L!Deliver, L!Commit, L!Leaves
  <1>3. l_applied' = l_applied \/ l_applied' = [l_applied EXCEPT ![o] = @ + 1]
    BY DEF L!Deliver, L!Commit, L!Happens
  <1>4. /\ l_flying'[o] = "back" /\ l_native'[o] = st
        /\ \A p \in LeaderOps : p # o => /\ l_flying'[p] = l_flying[p]
                                         /\ l_native'[p] = l_native[p]
                                         /\ l_applied'[p] = l_applied[p]
        /\ l_applied' \in [LeaderOps -> Nat]
    BY <1>1, <1>2, <1>3 DEF LeadInv, LeadTypes
  <1>5. LeadTypes'
    BY <1>1, <1>2, <1>4 DEF LeadInv, LeadTypes
  <1>6. Once(o)'
    <2>1. l_op[o].st = "pending" /\ l_op[o].by = "none" /\ l_applied[o] = 0
      BY <1>1 DEF LeadInv, Once
    <2>2. st = "failed" => l_applied'[o] = 0
      BY <1>2, <2>1
    <2> QED
      BY <1>1, <1>2, <1>4, <2>1, <2>2 DEF Once, L!Settled
  <1>7. ASSUME NEW p \in LeaderOps, p # o
        PROVE  Once(p)'
    BY <1>1, <1>4, <1>7, OnceStays DEF LeadInv
  <1> QED
    BY <1>1, <1>4, <1>5, <1>6, <1>7 DEF LeadInv

LEMMA LeadReturns ==
  ASSUME LeadInv, NEW o \in LeaderOps, L!Return(o)
  PROVE  LeadInv'
  <1>1. PICK st \in {"complete", "refused", "unknown"} : st = L!Outcome(o)
    BY DEF L!Outcome
  <1>2. /\ l_flying[o] = "back" /\ l_flying' = [l_flying EXCEPT ![o] = "no"]
        /\ l_op' = [l_op EXCEPT ![o] = [@ EXCEPT !.st = st]]
        /\ UNCHANGED <<l_native, l_applied>>
    BY <1>1 DEF L!Return
  <1>3. Once(o)
    BY DEF LeadInv
  <1>4. /\ l_flying'[o] = "no" /\ l_op'[o] = [st |-> st, by |-> l_op[o].by]
        /\ l_op'[o].st = st /\ l_op'[o].by = l_op[o].by
        /\ \A p \in LeaderOps : p # o => l_flying'[p] = l_flying[p] /\ l_op'[p] = l_op[p]
    BY <1>2 DEF LeadInv, LeadTypes
  <1>5. LeadTypes'
    BY <1>1, <1>2, <1>4 DEF LeadInv, LeadTypes
  <1>6. Once(o)'
    <2>1. st = "refused" <=> l_native[o] = "failed"
      BY <1>1 DEF L!Outcome
    <2>2. st = "complete" <=> l_native[o] = "done"
      BY <1>1 DEF L!Outcome
    <2>3. st = "refused" /\ l_op[o].by # "abandon" => l_op[o].by = "none"
      BY <1>2, <1>3, <2>1 DEF LeadInv, LeadTypes, Once
    <2> QED
      BY <1>1, <1>2, <1>3, <1>4, <2>1, <2>2, <2>3 DEF Once
  <1>7. ASSUME NEW p \in LeaderOps, p # o
        PROVE  Once(p)'
    BY <1>2, <1>4, <1>7, OnceStays DEF LeadInv
  <1> QED
    BY <1>5, <1>6, <1>7 DEF LeadInv

LEMMA LeadReconciles ==
  ASSUME LeadInv, NEW o \in LeaderOps, L!Reconcile(o)
  PROVE  LeadInv'
  <1>1. PICK st, by :
          /\ l_op' = [l_op EXCEPT ![o] = [st |-> st, by |-> by]]
          /\ \/ l_native[o] = "done" /\ st = "complete" /\ by = "treat_done"
             \/ l_native[o] \in {"failed", "retired"} /\ st = "refused" /\ by = "abandon"
    BY DEF L!Reconcile, L!SendProved, L!ChoiceProved, L!Retired
  <1>2. l_flying[o] # "out" /\ UNCHANGED <<l_native, l_flying, l_applied>>
    BY DEF L!Reconcile
  <1>3. /\ l_op'[o] = [st |-> st, by |-> by]
        /\ \A p \in LeaderOps : p # o => l_op'[p] = l_op[p]
    BY <1>1 DEF LeadInv, LeadTypes
  <1>4. LeadTypes'
    BY <1>1, <1>2, <1>3 DEF LeadInv, LeadTypes
  <1>5. Once(o)'
    <2>1. Once(o)
      BY DEF LeadInv
    <2> QED
      BY <1>1, <1>2, <1>3, <2>1 DEF Once, L!Settled
  <1>6. ASSUME NEW p \in LeaderOps, p # o
        PROVE  Once(p)'
    BY <1>2, <1>3, <1>6, OnceStays DEF LeadInv
  <1> QED
    BY <1>4, <1>5, <1>6 DEF LeadInv

LEMMA LeadLearns ==
  ASSUME LeadInv, NEW o \in LeaderOps, L!Learn(o)
  PROVE  LeadInv'
  <1>1. PICK st \in {"done", "retired"} : l_native' = [l_native EXCEPT ![o] = st]
    BY DEF L!Learn, L!Leaves
  <1>2. /\ l_native[o] = "open" /\ l_flying[o] = "no" /\ UNCHANGED <<l_op, l_flying, l_applied>>
    BY DEF L!Learn
  <1>3. /\ l_native'[o] = st
        /\ \A p \in LeaderOps : p # o => l_native'[p] = l_native[p]
    BY <1>1 DEF LeadInv, LeadTypes
  <1>4. LeadTypes'
    BY <1>1, <1>2, <1>3 DEF LeadInv, LeadTypes
  <1>5. Once(o)'
    <2>1. Once(o)
      BY DEF LeadInv
    <2> QED
      BY <1>2, <1>3, <2>1 DEF Once, L!Settled
  <1>6. ASSUME NEW p \in LeaderOps, p # o
        PROVE  Once(p)'
    BY <1>2, <1>3, <1>6, OnceStays DEF LeadInv
  <1> QED
    BY <1>4, <1>5, <1>6 DEF LeadInv

LEMMA LeadCrashes ==
  ASSUME LeadInv, L!Crash
  PROVE  LeadInv'
  <1>1. PICK reached \in SUBSET {o \in LeaderOps : l_flying[o] = "out" /\ o[2] \in LeaderSends} :
          l_native' = [o \in LeaderOps |-> IF o \in reached THEN "open" ELSE l_native[o]]
    BY DEF L!Crash
  <1>2. l_flying' = [o \in LeaderOps |-> "no"] /\ UNCHANGED <<l_op, l_applied>>
    BY DEF L!Crash
  <1>3. LeadTypes'
    BY <1>1, <1>2 DEF LeadInv, LeadTypes
  <1>4. ASSUME NEW o \in LeaderOps
        PROVE  Once(o)'
    <2>1. Once(o)
      BY DEF LeadInv
    <2>2. l_flying'[o] = "no" /\ l_op'[o] = l_op[o] /\ l_applied'[o] = l_applied[o]
      BY <1>2
    <2>3. \/ l_native'[o] = l_native[o]
          \/ l_native'[o] = "open" /\ l_flying[o] = "out"
      BY <1>1
    <2> QED
      BY <2>1, <2>2, <2>3 DEF Once, L!Settled
  <1> QED
    BY <1>3, <1>4 DEF LeadInv

LEMMA LeadInit == L!Init => LeadInv
  BY DEF L!Init, L!Untouched, LeadInv, LeadTypes, Once, L!Settled

LEMMA LeadNext == LeadInv /\ [L!Next]_(L!vars) => LeadInv'
  <1> SUFFICES ASSUME LeadInv, [L!Next]_(L!vars)
               PROVE  LeadInv'
    OBVIOUS
  <1>1. CASE UNCHANGED L!vars
    BY <1>1, LeadStays DEF L!vars, L!sheet
  <1>2. ASSUME NEW k \in LeaderRows, L!Activate(k) \/ L!TurnAway(k)
        PROVE  LeadInv'
    BY <1>2, LeadStays DEF L!Activate, L!TurnAway, L!sheet
  <1>3. CASE L!Record \/ L!GiveUp \/ \E e \in L!Events : L!Overtake(e)
    BY <1>3, LeadStays DEF L!Record, L!GiveUp, L!Overtake, L!sheet
  <1> QED
    BY <1>1, <1>2, <1>3, LeadCalls, LeadActs, LeadReturns, LeadReconciles, LeadLearns,
       LeadCrashes DEF L!Next

(* Of the leader's writes: what is under way has had no effect, and what   *)
(* may be called again neither (leader-session-engine.ts, wrapTool).       *)
THEOREM LeadInvariant == L!Spec => []LeadInv
  BY LeadInit, LeadNext, PTL DEF L!Spec

(* A write of the leader takes effect at most once, over every activation, *)
(* lost answer and crash, and an abandoned one not any more                *)
(* (leader-session-engine.ts, leader-receipts.ts).                         *)
THEOREM LeaderActsOnce == L!Spec => LeaderEffectOnce
  <1> DEFINE New == \A o \in LeaderOps :
                      l_applied'[o] # l_applied[o] => l_applied[o] = 0 /\ l_op[o].by = "none"
  <1>1. LeadInv /\ [L!Next]_(L!vars) => [New]_(L!vars)
    <2> SUFFICES ASSUME LeadInv, L!Next, NEW o \in LeaderOps, l_applied'[o] # l_applied[o]
                 PROVE  l_applied[o] = 0 /\ l_op[o].by = "none"
      OBVIOUS
    <2>1. PICK p \in LeaderOps : L!Deliver(p) \/ L!Commit(p)
      BY DEF L!Next, L!Activate, L!TurnAway, L!Call, L!Return, L!Reconcile, L!Learn, L!Record,
             L!GiveUp, L!Crash, L!Overtake
    <2>2. o = p /\ l_flying[o] = "out"
      BY <2>1, LeadActs
    <2> QED
      BY <2>2 DEF LeadInv, Once
  <1> QED
    BY <1>1, LeadInvariant, PTL DEF L!Spec, LeaderEffectOnce, L!EffectOnce

(***************************************************************************)
(* The keys of approvals.                                                  *)
(***************************************************************************)
BeforeKey == {"guard", "validate", "look", "before", "connect"}
InHand == BeforeKey \cup {"written", "refresh"}
KeyPlaces == InHand \cup {"off", "trust", "select", "publish", "posting", "ask"}
Numbers == 1..Len(a_appr)

ApprTypes ==
  /\ a_screen \in A!Sights /\ a_appr \in Seq(A!Approval)
  /\ a_ident \in [0..MaxSeq -> 0..Len(a_appr)] /\ a_cards \subseteq Numbers
  /\ a_trust \in [st : {"none", "pending", "uncertain", "done"}, tries : Int]
  /\ a_pc \in [A!Callers -> KeyPlaces] /\ a_seen \in [A!Callers -> A!Sights]
  /\ a_use \in [A!Callers -> 0..Len(a_appr)]
  /\ a_pressed \in Seq(0..Len(a_appr))

(* An approval is used by one caller, which wrote nothing for it yet.      *)
Using(c) == a_pc[c] \in InHand /\ a_use[c] # 0
Pressing(c) == a_pc[c] \in BeforeKey
OneUser == \A c, d \in A!Callers : Using(c) /\ Using(d) => c = d
Consumed ==
  /\ \A c \in A!Callers : Using(c) => a_appr[a_use[c]].consumed
  /\ \A c \in A!Callers : Pressing(c) => \A i \in DOMAIN a_pressed : a_pressed[i] # a_use[c]
  /\ \A i \in DOMAIN a_pressed : a_pressed[i] # 0 => a_appr[a_pressed[i]].consumed
(* Trust is under way in the hook alone, and has its receipt then.         *)
Trusting(c) == a_pc[c] \in InHand /\ a_use[c] = 0
Trusted ==
  /\ a_pc["hook"] = "trust" => a_trust.st = "none"
  /\ \A c \in A!Callers : Trusting(c) => c = "hook" /\ a_trust.st = "pending"
  /\ \A c \in A!Callers : a_pc[c] = "ask" => a_use[c] # 0
  /\ \A i \in DOMAIN a_pressed : a_pressed[i] = 0 => a_trust.st # "none"

ApprInv == ApprTypes /\ OneUser /\ Consumed /\ Trusted /\ A!OneKeyEach

-----------------------------------------------------------------------------
(* How approvals change: none goes, none changes its sight, and one that   *)
(* was used stays so.                                                      *)
Grown(a, b, i) ==
  /\ b \in Seq(A!Approval) /\ Len(a) <= Len(b)
  /\ i \in [0..MaxSeq -> 0..Len(b)]
  /\ \A n \in 1..Len(a) : b[n].sight = a[n].sight /\ (a[n].consumed => b[n].consumed)

LEMMA BoundOk == MaxSeq \in Nat /\ MaxQuestions \in Nat /\ MaxQuestions >= 1
  BY ApprovalsOk DEF A!ApprovalsAssumption

LEMMA SameGrown ==
  ASSUME NEW a \in Seq(A!Approval), NEW i \in [0..MaxSeq -> 0..Len(a)]
  PROVE  Grown(a, a, i)
  BY DEF Grown

LEMMA GrownOn ==
  ASSUME NEW a \in Seq(A!Approval), NEW b, NEW d, NEW i, NEW j, Grown(a, b, i), Grown(b, d, j)
  PROVE  Grown(a, d, j)
  <1>1. Len(a) \in Nat /\ Len(b) \in Nat /\ Len(d) \in Nat
    BY DEF Grown
  <1> QED
    BY <1>1 DEF Grown

(* An approval that is replaced in place.                                  *)
Marked(p, r) == r \in A!Approval /\ r.sight = p.sight /\ (p.consumed => r.consumed)

LEMMA MarkGrows ==
  ASSUME NEW a \in Seq(A!Approval), NEW i \in [0..MaxSeq -> 0..Len(a)], NEW n \in 0..Len(a),
         NEW r, n # 0 => Marked(a[n], r), NEW b, b = [a EXCEPT ![n] = r]
  PROVE  Grown(a, b, i) /\ Len(b) = Len(a) /\ (n # 0 => b[n] = r)
  <1>1. CASE n = 0
    <2>1. b = a
      BY <1>1
    <2> QED
      BY <1>1, <2>1, SameGrown
  <1>2. CASE n # 0
    <2>1. n \in 1..Len(a) /\ DOMAIN a = 1..Len(a)
      BY <1>2
    <2>2. \A k \in 1..Len(a) : b[k] = IF k = n THEN r ELSE a[k]
      BY <2>1
    <2>3. b \in Seq(A!Approval) /\ Len(b) = Len(a)
      BY <1>2, <2>1 DEF Marked
    <2> QED
      BY <1>2, <2>1, <2>2, <2>3 DEF Grown, Marked
  <1> QED
    BY <1>1, <1>2

LEMMA VoidIsMarked ==
  ASSUME NEW p \in A!Approval
  PROVE  Marked(p, A!Void(p)) /\ A!Void(p).consumed
  BY DEF Marked, A!Void, A!Approval

(* Every approval is replaced in place.                                    *)
LEMMA AllMarked ==
  ASSUME NEW a \in Seq(A!Approval), NEW i \in [0..MaxSeq -> 0..Len(a)], NEW b,
         DOMAIN b = DOMAIN a, b = [n \in DOMAIN b |-> b[n]],
         \A n \in DOMAIN a : Marked(a[n], b[n])
  PROVE  Grown(a, b, i) /\ Len(b) = Len(a)
  <1>1. DOMAIN a = 1..Len(a) /\ Len(a) \in Nat
    OBVIOUS
  <1>2. \A n \in 1..Len(a) : b[n] \in A!Approval
    BY <1>1 DEF Marked
  <1>3. b \in Seq(A!Approval) /\ Len(b) = Len(a)
    BY <1>1, <1>2
  <1> QED
    BY <1>1, <1>3 DEF Grown, Marked

LEMMA VoidGrows ==
  ASSUME NEW a \in Seq(A!Approval), NEW i \in [0..MaxSeq -> 0..Len(a)]
  PROVE  Grown(a, A!Invalidated(a), i) /\ Len(A!Invalidated(a)) = Len(a)
  <1> DEFINE b == A!Invalidated(a)
  <1>1. b = [n \in DOMAIN a |-> A!Void(a[n])]
    BY DEF A!Invalidated
  <1>2. \A n \in DOMAIN a : Marked(a[n], b[n])
    BY <1>1, VoidIsMarked
  <1>3. DOMAIN b = DOMAIN a /\ b = [n \in DOMAIN b |-> b[n]]
    BY <1>1
  <1> HIDE DEF b
  <1>4. Grown(a, b, i) /\ Len(b) = Len(a)
    BY <1>2, <1>3, AllMarked
  <1> QED
    BY <1>4 DEF b

LEMMA CreateGrows ==
  ASSUME NEW a \in Seq(A!Approval), NEW i \in [0..MaxSeq -> 0..Len(a)], NEW s \in A!Sights,
         NEW m, m = A!Create(a, i, s)
  PROVE  Grown(a, m.appr, m.ident) /\ m.nonce \in 1..Len(m.appr)
  <1> DEFINE n == i[s.seq]
             old == n # 0 /\ (A!Kept(a[n], s) \/ Len(a) = MaxNonces)
             gone == n # 0 /\ ~a[n].nav /\ ~a[n].again
             retired == IF gone THEN [a EXCEPT ![n].consumed = TRUE, ![n].invalid = TRUE] ELSE a
             fresh == A!NewApproval(s)
  <1>1. n \in 0..Len(a) /\ s.seq \in 0..MaxSeq
    BY BoundOk DEF A!Sights
  <1>2. CASE old
    <2>1. m.appr = a /\ m.ident = i /\ m.nonce = n
      BY <1>2 DEF A!Create
    <2> QED
      BY <1>1, <1>2, <2>1, SameGrown
  <1>3. CASE ~old
    <2>1. /\ m.appr = Append(retired, fresh)
          /\ m.ident = [i EXCEPT ![s.seq] = Len(a) + 1] /\ m.nonce = Len(a) + 1
      BY <1>3 DEF A!Create
    <2>2. Grown(a, retired, i) /\ Len(retired) = Len(a)
      <3>1. CASE gone
        <4>1. PICK r : r = [a[n] EXCEPT !.consumed = TRUE, !.invalid = TRUE]
          OBVIOUS
        <4>2. n \in 1..Len(a) /\ a[n] \in A!Approval
          BY <1>1, <3>1
        <4>3. Marked(a[n], r)
          BY <4>1, <4>2 DEF Marked, A!Approval
        <4>4. retired = [a EXCEPT ![n] = r]
          BY <3>1, <4>1, <4>2
        <4> HIDE DEF n, retired
        <4> QED
          BY <1>1, <4>3, <4>4, MarkGrows
      <3> QED
        BY <3>1, SameGrown
    <2>3. fresh \in A!Approval
      BY DEF A!NewApproval, A!Approval
    <2> HIDE DEF n, retired, fresh
    <2>4. PICK b : b = retired
      OBVIOUS
    <2>5. b \in Seq(A!Approval) /\ Len(b) = Len(a) /\ Len(a) \in Nat
      BY <2>2, <2>4 DEF Grown
    <2>6. Append(b, fresh) \in Seq(A!Approval) /\ Len(Append(b, fresh)) = Len(a) + 1
      BY <2>3, <2>5
    <2>7. \A k \in 1..Len(a) : Append(b, fresh)[k] = b[k]
      BY <2>5
    <2>8. m.ident \in [0..MaxSeq -> 0..(Len(a) + 1)]
      BY <2>1, <2>5, <1>1
    <2> QED
      BY <2>1, <2>2, <2>4, <2>5, <2>6, <2>7, <2>8 DEF Grown
  <1> QED
    BY <1>2, <1>3

-----------------------------------------------------------------------------
(* A step that lets no key through.                                        *)
Calm ==
  /\ Grown(a_appr, a_appr', a_ident')
  /\ a_screen' \in A!Sights /\ a_cards' \subseteq 1..Len(a_appr')
  /\ a_trust' \in [st : {"none", "pending", "uncertain", "done"}, tries : Int]
  /\ a_pc' \in [A!Callers -> KeyPlaces] /\ a_seen' \in [A!Callers -> A!Sights]
  /\ a_use' \in [A!Callers -> 0..Len(a_appr')]
  /\ a_pressed' = a_pressed
(* Nobody begins to use an approval or to trust in it ...                  *)
NoNewUser ==
  \A c \in A!Callers :
    /\ a_pc'[c] \in InHand => a_pc[c] \in InHand /\ a_use'[c] = a_use[c]
    /\ a_pc'[c] \in BeforeKey => a_pc[c] \in BeforeKey
    /\ a_pc'[c] = "ask" => a_use'[c] # 0
(* ... and trust stays what it is, unless it ends.                         *)
CalmTrust ==
  /\ a_pc'["hook"] = "trust" => a_trust'.st = "none"
  /\ \A c \in A!Callers : a_pc'[c] \in InHand /\ a_use'[c] = 0 => a_trust'.st = a_trust.st
  /\ a_trust'.st = "none" => a_trust.st = "none" \/ \A i \in DOMAIN a_pressed : a_pressed[i] # 0

LEMMA CalmTypes ==
  ASSUME ApprInv, Calm
  PROVE  ApprTypes' /\ Len(a_appr) \in Nat /\ Len(a_appr') \in Nat /\ Len(a_appr) <= Len(a_appr')
  <1>1. Len(a_appr) \in Nat /\ Len(a_appr') \in Nat /\ Len(a_appr) <= Len(a_appr')
    BY DEF ApprInv, ApprTypes, Calm, Grown
  <1>2. a_pressed' \in Seq(0..Len(a_appr'))
    BY <1>1 DEF ApprInv, ApprTypes, Calm
  <1> QED
    BY <1>1, <1>2 DEF Calm, Grown, ApprTypes, Numbers

LEMMA CalmTrusted ==
  ASSUME ApprInv, Calm, NoNewUser, CalmTrust
  PROVE  Trusted'
  <1>1. \A c \in A!Callers : Trusting(c)' => Trusting(c) /\ a_trust'.st = a_trust.st
    BY DEF NoNewUser, CalmTrust, Trusting
  <1>2. \A c \in A!Callers : Trusting(c)' => c = "hook" /\ a_trust'.st = "pending"
    BY <1>1 DEF ApprInv, Trusted
  <1>3. \A i \in DOMAIN a_pressed' : a_pressed'[i] = 0 => a_trust'.st # "none"
    BY DEF Calm, CalmTrust, ApprInv, Trusted
  <1> QED
    BY <1>2, <1>3 DEF NoNewUser, CalmTrust, Trusted

LEMMA CalmUsed ==
  ASSUME ApprInv, Calm, NoNewUser
  PROVE  OneUser' /\ Consumed' /\ A!OneKeyEach'
  <1>1. OneUser'
    BY DEF OneUser, NoNewUser, ApprInv, Using
  <1>2. \A n \in 1..Len(a_appr) : a_appr[n].consumed => a_appr'[n].consumed
    BY DEF Calm, Grown
  <1>3. ASSUME NEW c \in A!Callers, Using(c)'
        PROVE  a_appr'[a_use'[c]].consumed
    <2>1. Using(c) /\ a_use'[c] = a_use[c]
      BY <1>3 DEF NoNewUser, Using
    <2>2. a_use[c] \in 1..Len(a_appr) /\ a_appr[a_use[c]].consumed
      BY <2>1 DEF Using, ApprInv, ApprTypes, Consumed
    <2> QED
      BY <1>2, <2>1, <2>2
  <1>4. ASSUME NEW c \in A!Callers, Pressing(c)', NEW i \in DOMAIN a_pressed'
        PROVE  a_pressed'[i] # a_use'[c]
    <2>1. Pressing(c) /\ a_pc'[c] \in InHand
      BY <1>4 DEF NoNewUser, Pressing, InHand
    <2>2. a_use'[c] = a_use[c]
      BY <2>1 DEF NoNewUser
    <2> QED
      BY <2>1, <2>2, <1>4 DEF Calm, ApprInv, Consumed
  <1>5. ASSUME NEW i \in DOMAIN a_pressed', a_pressed'[i] # 0
        PROVE  a_appr'[a_pressed'[i]].consumed
    <2>1. i \in DOMAIN a_pressed /\ a_pressed'[i] = a_pressed[i]
      BY <1>5 DEF Calm
    <2>2. a_pressed[i] \in 1..Len(a_appr) /\ a_appr[a_pressed[i]].consumed
      BY <1>5, <2>1 DEF ApprInv, ApprTypes, Consumed
    <2> QED
      BY <1>2, <2>1, <2>2
  <1>6. A!OneKeyEach'
    BY DEF Calm, ApprInv, A!OneKeyEach
  <1> QED
    BY <1>1, <1>3, <1>4, <1>5, <1>6 DEF Consumed

LEMMA CalmStays ==
  ASSUME ApprInv, Calm, NoNewUser, CalmTrust
  PROVE  ApprInv'
  BY CalmTypes, CalmTrusted, CalmUsed DEF ApprInv

-----------------------------------------------------------------------------
(* The steps that change no approval.                                      *)
LEMMA NothingGrows == ApprInv => Grown(a_appr, a_appr, a_ident) /\ Len(a_appr) \in Nat
  BY SameGrown DEF ApprInv, ApprTypes

LEMMA NothingChanges ==
  ASSUME ApprInv, UNCHANGED <<a_appr, a_ident, a_cards, a_screen, a_pressed>>,
         a_seen' \in [A!Callers -> A!Sights], a_use' \in [A!Callers -> 0..Len(a_appr)],
         a_pc' \in [A!Callers -> KeyPlaces],
         a_trust' \in [st : {"none", "pending", "uncertain", "done"}, tries : Int]
  PROVE  Calm
  BY NothingGrows DEF Calm, ApprInv, ApprTypes, Numbers

LEMMA HookObserves ==
  ASSUME ApprInv, A!Observe \/ A!NoSelect
  PROVE  ApprInv'
  <1>0. "hook" \in A!Callers
    BY DEF A!Callers
  <1>1. /\ UNCHANGED <<a_appr, a_ident, a_cards, a_screen, a_pressed, a_use, a_trust>>
        /\ \E p \in {"trust", "select", "publish"} :
             a_pc' = [a_pc EXCEPT !["hook"] = p] /\ (p = "trust" => a_trust.st = "none")
        /\ a_seen' = a_seen \/ a_seen' = [a_seen EXCEPT !["hook"] = a_screen]
    BY DEF A!Observe, A!NoSelect, A!Go, A!world, A!store
  <1>2. Calm
    <2>1. a_pc' \in [A!Callers -> KeyPlaces]
      BY <1>0, <1>1 DEF ApprInv, ApprTypes, KeyPlaces
    <2>2. a_seen' \in [A!Callers -> A!Sights] /\ a_use' \in [A!Callers -> 0..Len(a_appr)]
      <3>1. /\ a_seen \in [A!Callers -> A!Sights] /\ a_screen \in A!Sights
            /\ a_use \in [A!Callers -> 0..Len(a_appr)]
        BY DEF ApprInv, ApprTypes
      <3>2. [a_seen EXCEPT !["hook"] = a_screen] \in [A!Callers -> A!Sights]
        BY <1>0, <3>1
      <3> QED
        BY <1>1, <3>1, <3>2
    <2>3. a_trust' \in [st : {"none", "pending", "uncertain", "done"}, tries : Int]
      BY <1>1 DEF ApprInv, ApprTypes
    <2> QED
      BY <1>1, <2>1, <2>2, <2>3, NothingChanges
  <1>3. NoNewUser
    BY <1>0, <1>1 DEF NoNewUser, InHand, BeforeKey, ApprInv, ApprTypes, Trusted
  <1>4. CalmTrust
    BY <1>0, <1>1 DEF CalmTrust, ApprInv, ApprTypes
  <1> QED
    BY <1>2, <1>3, <1>4, CalmStays

LEMMA OwnerClicks ==
  ASSUME ApprInv, NEW n \in A!Nonces, NEW k \in A!Keys, A!Click(n, k)
  PROVE  ApprInv'
  <1>1. /\ UNCHANGED <<a_appr, a_ident, a_cards, a_screen, a_pressed, a_seen, a_trust>>
        /\ a_pc' = [a_pc EXCEPT !["click"] = "ask"] /\ a_use' = [a_use EXCEPT !["click"] = n]
        /\ n \in 1..Len(a_appr) /\ "click" \in A!Callers /\ Len(a_appr) \in Nat
    BY NothingGrows DEF A!Click, A!Go, A!world, A!store, A!Callers, ApprInv, ApprTypes, Numbers
  <1>2. Calm
    <2>1. a_pc' \in [A!Callers -> KeyPlaces]
      BY <1>1 DEF ApprInv, ApprTypes, KeyPlaces
    <2>2. a_seen' \in [A!Callers -> A!Sights] /\ a_use' \in [A!Callers -> 0..Len(a_appr)]
      <3>1. n \in 0..Len(a_appr) /\ a_use \in [A!Callers -> 0..Len(a_appr)]
        BY <1>1 DEF ApprInv, ApprTypes
      <3>2. a_seen' \in [A!Callers -> A!Sights]
        BY <1>1 DEF ApprInv, ApprTypes
      <3> QED
        BY <1>1, <3>1, <3>2
    <2>3. a_trust' \in [st : {"none", "pending", "uncertain", "done"}, tries : Int]
      BY <1>1 DEF ApprInv, ApprTypes
    <2> QED
      BY <1>1, <2>1, <2>2, <2>3, NothingChanges
  <1>3. NoNewUser
    BY <1>1 DEF NoNewUser, InHand, BeforeKey, ApprInv, ApprTypes, Trusted
  <1>4. CalmTrust
    BY <1>1 DEF CalmTrust, ApprInv, ApprTypes, Trusted
  <1> QED
    BY <1>2, <1>3, <1>4, CalmStays

(* The pane changes, the user says something, or the service restarts.     *)
LEMMA ScreensInRange ==
  ASSUME NEW s \in A!Sights
  PROVE  /\ A!NextScreens(s) \subseteq A!Sights
         /\ [s EXCEPT !.row = 3 - @] \in A!Sights
         /\ [s EXCEPT !.seq = IF @ < MaxSeq THEN @ + 1 ELSE @] \in A!Sights
  BY BoundOk DEF A!NextScreens, A!Sights

LEMMA PaneMoves ==
  ASSUME ApprInv, A!Handle \/ A!Native
  PROVE  ApprInv'
  <1>1. UNCHANGED <<a_appr, a_ident, a_cards, a_pressed, a_seen, a_pc, a_use, a_trust>>
    BY DEF A!Handle, A!Native, A!store, A!caller
  <1>2. a_screen' \in A!Sights
    BY ScreensInRange DEF A!Handle, A!Native, ApprInv, ApprTypes
  <1>3. Calm
    BY <1>1, <1>2, NothingGrows DEF Calm, ApprInv, ApprTypes, Numbers
  <1>4. NoNewUser /\ CalmTrust
    BY <1>1 DEF NoNewUser, CalmTrust, ApprInv, Trusted
  <1> QED
    BY <1>3, <1>4, CalmStays

LEMMA WorldMoves ==
  ASSUME ApprInv, A!Say \/ A!Hold \/ A!Crash \/ UNCHANGED A!vars
  PROVE  ApprInv'
  <1>1. /\ UNCHANGED <<a_appr, a_ident, a_cards, a_screen, a_pressed, a_trust>>
        /\ \/ a_pc' = a_pc /\ a_seen' = a_seen /\ a_use' = a_use
           \/ /\ a_pc' = [c \in A!Callers |-> "off"] /\ a_seen' = [c \in A!Callers |-> A!NoSight]
              /\ a_use' = [c \in A!Callers |-> 0]
    BY DEF A!Say, A!Hold, A!Crash, A!vars, A!world, A!store, A!caller
  <1>2. A!NoSight \in A!Sights /\ 0 \in 0..Len(a_appr)
    BY BoundOk, NothingGrows DEF A!NoSight, A!Sights
  <1>3. Calm
    <2>1. a_pc' \in [A!Callers -> KeyPlaces]
      BY <1>1 DEF ApprInv, ApprTypes, KeyPlaces
    <2>2. a_seen' \in [A!Callers -> A!Sights] /\ a_use' \in [A!Callers -> 0..Len(a_appr)]
      BY <1>1, <1>2 DEF ApprInv, ApprTypes
    <2>3. a_trust' \in [st : {"none", "pending", "uncertain", "done"}, tries : Int]
      BY <1>1 DEF ApprInv, ApprTypes
    <2> QED
      BY <1>1, <2>1, <2>2, <2>3, NothingChanges
  <1>4. "hook" \in A!Callers
    BY DEF A!Callers
  <1>5. NoNewUser /\ CalmTrust
    BY <1>1, <1>4 DEF NoNewUser, CalmTrust, InHand, BeforeKey, ApprInv, Trusted
  <1> QED
    BY <1>3, <1>5, CalmStays

-----------------------------------------------------------------------------
(* A caller leaves, whatever becomes of the approvals.                     *)
LEMMA CallerLeaves ==
  ASSUME ApprInv, NEW c \in A!Callers, Grown(a_appr, a_appr', a_ident'), A!Leave(c),
         a_cards' \subseteq 1..Len(a_appr'), UNCHANGED <<a_screen, a_pressed>>,
         a_trust' \in [st : {"none", "pending", "uncertain", "done"}, tries : Int],
         \/ a_trust'.st = a_trust.st
         \/ Trusting(c) /\ (a_trust'.st # "none" \/ Pressing(c))
  PROVE  ApprInv'
  <1>1. Len(a_appr) \in Nat /\ Len(a_appr') \in Nat /\ Len(a_appr) <= Len(a_appr')
    BY NothingGrows DEF Grown
  <1>2. /\ a_pc' = [a_pc EXCEPT ![c] = "off"] /\ a_seen' = [a_seen EXCEPT ![c] = A!NoSight]
        /\ a_use' = [a_use EXCEPT ![c] = 0]
    BY DEF A!Leave, A!Go
  <1>3. Calm
    <2>1. a_use' \in [A!Callers -> 0..Len(a_appr')]
      BY <1>1, <1>2 DEF ApprInv, ApprTypes
    <2>2. a_seen' \in [A!Callers -> A!Sights]
      BY <1>2, BoundOk DEF ApprInv, ApprTypes, A!NoSight, A!Sights
    <2>3. a_pc' \in [A!Callers -> KeyPlaces]
      BY <1>2 DEF ApprInv, ApprTypes, KeyPlaces
    <2> QED
      BY <2>1, <2>2, <2>3 DEF Calm, ApprInv, ApprTypes
  <1>4. NoNewUser
    BY <1>2 DEF NoNewUser, InHand, BeforeKey, ApprInv, ApprTypes, Trusted
  <1>5. CalmTrust
    <2>1. CASE a_trust'.st = a_trust.st
      BY <1>2, <2>1 DEF CalmTrust, ApprInv, ApprTypes, Trusted, A!Callers
    <2>2. CASE Trusting(c) /\ (a_trust'.st # "none" \/ Pressing(c))
      <3>1. c = "hook" /\ a_use[c] = 0 /\ a_pc'["hook"] = "off"
        BY <1>2, <2>2 DEF ApprInv, Trusted, Trusting, ApprTypes
      <3>2. \A d \in A!Callers : d # c => ~(a_pc'[d] \in InHand /\ a_use'[d] = 0)
        BY <1>2, <3>1 DEF ApprInv, Trusted, Trusting, ApprTypes
      <3>3. Pressing(c) => \A i \in DOMAIN a_pressed : a_pressed[i] # 0
        BY <3>1 DEF ApprInv, Consumed
      <3> QED
        BY <2>2, <3>1, <3>2, <3>3 DEF CalmTrust, InHand, BeforeKey
    <2> QED
      BY <2>1, <2>2
  <1> QED
    BY <1>3, <1>4, <1>5, CalmStays

LEMMA CardsStay ==
  ASSUME ApprInv, Grown(a_appr, a_appr', a_ident'), a_cards' = a_cards
  PROVE  a_cards' \subseteq 1..Len(a_appr')
  <1>1. Len(a_appr) \in Nat /\ Len(a_appr') \in Nat /\ Len(a_appr) <= Len(a_appr')
    BY NothingGrows DEF Grown
  <1> QED
    BY <1>1 DEF ApprInv, ApprTypes, Numbers

(* A failed check: every approval is void, one may be asked about again.   *)
LEMMA KeyIsDropped ==
  ASSUME ApprInv, NEW c \in A!Callers, NEW once \in BOOLEAN, A!Drop(c, once), Pressing(c),
         UNCHANGED <<a_ident, a_cards, a_screen, a_pressed>>
  PROVE  ApprInv'
  <1>1. a_pc[c] \in InHand
    BY DEF Pressing, InHand
  <1>2. Grown(a_appr, a_appr', a_ident')
    <2>1. CASE a_use[c] = 0
      BY <2>1, NothingGrows DEF A!Drop
    <2>2. CASE a_use[c] # 0
      <3>1. PICK b : b = a_appr'
        OBVIOUS
      <3>2. b = [n \in DOMAIN a_appr |->
                   [A!Void(a_appr[n]) EXCEPT !.again = once /\ n = a_use[c]]]
        BY <2>2, <3>1 DEF A!Drop
      <3>3. ASSUME NEW n \in DOMAIN a_appr
            PROVE  Marked(a_appr[n], b[n])
        <4>1. a_appr[n] \in A!Approval
          BY DEF ApprInv, ApprTypes
        <4>2. PICK x \in BOOLEAN : x = (once /\ n = a_use[c])
          OBVIOUS
        <4>3. b[n] = [A!Void(a_appr[n]) EXCEPT !.again = x]
          BY <3>2, <4>2
        <4> QED
          BY <4>1, <4>2, <4>3 DEF Marked, A!Void, A!Approval
      <3>4. DOMAIN b = DOMAIN a_appr /\ b = [n \in DOMAIN b |-> b[n]]
        BY <3>2
      <3>5. Grown(a_appr, b, a_ident)
        BY <3>3, <3>4, AllMarked DEF ApprInv, ApprTypes
      <3> QED
        BY <3>1, <3>5
    <2> QED
      BY <2>1, <2>2
  <1>3. /\ a_trust' \in [st : {"none", "pending", "uncertain", "done"}, tries : Int]
        /\ a_trust'.st = a_trust.st \/ Trusting(c)
    <2>1. a_use[c] = 0 => Trusting(c)
      BY <1>1 DEF Trusting
    <2>2. a_trust.tries \in Int
      BY DEF ApprInv, ApprTypes
    <2> QED
      BY <2>1, <2>2 DEF A!Drop, ApprInv, ApprTypes
  <1> QED
    BY <1>2, <1>3, CardsStay, CallerLeaves DEF A!Drop

(* A check that holds.                                                     *)
LEMMA CallerGoesOn ==
  ASSUME ApprInv, NEW c \in A!Callers, Pressing(c),
         NEW p \in BeforeKey, a_pc' = [a_pc EXCEPT ![c] = p],
         UNCHANGED <<a_appr, a_ident, a_cards, a_screen, a_pressed, a_use, a_trust>>,
         a_seen' \in [A!Callers -> A!Sights]
  PROVE  ApprInv'
  <1>1. Calm
    <2>1. a_pc' \in [A!Callers -> KeyPlaces]
      BY DEF ApprInv, ApprTypes, KeyPlaces, InHand
    <2>2. a_use' \in [A!Callers -> 0..Len(a_appr)]
      BY DEF ApprInv, ApprTypes
    <2>3. a_trust' \in [st : {"none", "pending", "uncertain", "done"}, tries : Int]
      BY DEF ApprInv, ApprTypes
    <2> QED
      BY <2>1, <2>2, <2>3, NothingChanges
  <1>2. NoNewUser
    BY DEF NoNewUser, Pressing, InHand, BeforeKey, ApprInv, ApprTypes, Trusted
  <1>3. CalmTrust
    BY DEF CalmTrust, ApprInv, ApprTypes, Trusted, BeforeKey
  <1> QED
    BY <1>1, <1>2, <1>3, CalmStays

LEMMA PaneIsChecked ==
  ASSUME ApprInv, NEW c \in A!Callers,
         A!Enter(c) \/ A!Validate(c) \/ A!Look(c) \/ A!Before(c)
  PROVE  ApprInv'
  <1>1. UNCHANGED <<a_ident, a_cards, a_screen, a_pressed>> /\ Pressing(c)
    BY DEF A!Enter, A!Validate, A!Look, A!Before, A!world, A!store, Pressing, BeforeKey
  <1>2. \/ \E once \in BOOLEAN : A!Drop(c, once)
        \/ \E p \in BeforeKey : /\ a_pc' = [a_pc EXCEPT ![c] = p]
                                /\ UNCHANGED <<a_appr, a_use, a_trust, a_seen>>
    BY DEF A!Enter, A!Validate, A!Look, A!Before, A!On, A!NextRound, A!Go, A!Locals, A!store,
           A!ScopeLost, BeforeKey
  <1>3. a_seen \in [A!Callers -> A!Sights]
    BY DEF ApprInv, ApprTypes
  <1> QED
    BY <1>1, <1>2, <1>3, KeyIsDropped, CallerGoesOn

LEMMA DirectoryIsChecked ==
  ASSUME ApprInv, NEW c \in A!Callers, A!LookTrust(c)
  PROVE  ApprInv'
  <1>1. UNCHANGED <<a_ident, a_cards, a_screen, a_pressed>> /\ Pressing(c)
    BY DEF A!LookTrust, A!world, Pressing, BeforeKey
  <1>2. PICK s : s = [a_seen[c] EXCEPT !.q = a_screen.q, !.row = a_screen.row]
    OBVIOUS
  <1>3. s \in A!Sights
    BY <1>2 DEF ApprInv, ApprTypes, A!Sights
  <1>4. \/ \E once \in BOOLEAN : A!Drop(c, once)
        \/ \E p \in BeforeKey : /\ a_pc' = [a_pc EXCEPT ![c] = p]
                                /\ UNCHANGED <<a_appr, a_use, a_trust>>
                                /\ a_seen' = a_seen \/ a_seen' = [a_seen EXCEPT ![c] = s]
    BY <1>2 DEF A!LookTrust, A!On, A!NextRound, A!Go, A!Locals, BeforeKey
  <1>5. a_seen \in [A!Callers -> A!Sights] /\ [a_seen EXCEPT ![c] = s] \in [A!Callers -> A!Sights]
    BY <1>3 DEF ApprInv, ApprTypes
  <1>6. CASE \E once \in BOOLEAN : A!Drop(c, once)
    BY <1>1, <1>6, KeyIsDropped
  <1>7. ASSUME NEW p \in BeforeKey, a_pc' = [a_pc EXCEPT ![c] = p],
               UNCHANGED <<a_appr, a_use, a_trust>>,
               a_seen' = a_seen \/ a_seen' = [a_seen EXCEPT ![c] = s]
        PROVE  ApprInv'
    <2>1. a_seen' \in [A!Callers -> A!Sights]
      BY <1>5, <1>7
    <2> QED
      BY <1>1, <1>7, <2>1, CallerGoesOn
  <1>8. CASE \E p \in BeforeKey : /\ a_pc' = [a_pc EXCEPT ![c] = p]
                                  /\ UNCHANGED <<a_appr, a_use, a_trust>>
                                  /\ a_seen' = a_seen \/ a_seen' = [a_seen EXCEPT ![c] = s]
    <2>1. PICK p \in BeforeKey : /\ a_pc' = [a_pc EXCEPT ![c] = p]
                                 /\ UNCHANGED <<a_appr, a_use, a_trust>>
                                 /\ a_seen' = a_seen \/ a_seen' = [a_seen EXCEPT ![c] = s]
      BY <1>8
    <2> QED
      BY <2>1, <1>7
  <1> QED
    BY <1>4, <1>6, <1>8

LEMMA TrustIsVetoed ==
  ASSUME ApprInv, A!TrustVetoed
  PROVE  ApprInv'
  BY KeyIsDropped DEF A!TrustVetoed, A!world, A!Callers, Pressing, BeforeKey

(* The attempt at trust begins with its receipt, or fails.                 *)
LEMMA HookAsksTrust ==
  ASSUME ApprInv, A!AskTrust
  PROVE  ApprInv'
  <1>0. "hook" \in A!Callers /\ Len(a_appr) \in Nat
    BY NothingGrows DEF A!Callers
  <1>1. /\ UNCHANGED <<a_appr, a_ident, a_cards, a_screen, a_pressed>>
        /\ a_pc["hook"] = "trust" /\ a_trust.st = "none" /\ a_trust.tries \in Int
    BY DEF A!AskTrust, A!world, ApprInv, ApprTypes, Trusted
  <1>2. CASE A!Leave("hook") /\ a_trust' = [a_trust EXCEPT !.tries = @ + 1]
    <2>1. /\ a_trust' \in [st : {"none", "pending", "uncertain", "done"}, tries : Int]
          /\ a_trust'.st = a_trust.st
      BY <1>1, <1>2 DEF ApprInv, ApprTypes
    <2> QED
      BY <1>0, <1>1, <1>2, <2>1, NothingGrows, CardsStay, CallerLeaves
  <1>3. CASE /\ a_pc' = [a_pc EXCEPT !["hook"] = "guard"] /\ a_use' = [a_use EXCEPT !["hook"] = 0]
             /\ a_trust' = [st |-> "pending", tries |-> a_trust.tries + 1] /\ a_seen' = a_seen
    <2>1. \A i \in DOMAIN a_pressed : a_pressed[i] # 0
      BY <1>1 DEF ApprInv, Trusted
    <2>2. /\ a_pc'["hook"] = "guard" /\ a_use'["hook"] = 0 /\ a_trust'.st = "pending"
          /\ \A d \in A!Callers : d # "hook" => a_pc'[d] = a_pc[d] /\ a_use'[d] = a_use[d]
      BY <1>0, <1>3 DEF ApprInv, ApprTypes
    <2>3. \A d \in A!Callers : d # "hook" => ~Trusting(d)
      BY DEF ApprInv, Trusted
    <2>4. ApprTypes'
      <3>1. a_pc' \in [A!Callers -> KeyPlaces] /\ a_use' \in [A!Callers -> 0..Len(a_appr)]
        BY <1>0, <1>3 DEF ApprInv, ApprTypes, KeyPlaces, InHand, BeforeKey
      <3>2. a_trust' \in [st : {"none", "pending", "uncertain", "done"}, tries : Int]
        BY <1>1, <1>3
      <3> QED
        BY <1>1, <1>3, <3>1, <3>2 DEF ApprInv, ApprTypes, Numbers
    <2>5. OneUser'
      BY <2>2 DEF ApprInv, OneUser, Using
    <2>6. Consumed'
      BY <1>1, <2>1, <2>2 DEF ApprInv, Consumed, Using, Pressing
    <2>7. Trusted'
      BY <1>1, <2>1, <2>2, <2>3 DEF ApprInv, Trusted, Trusting
    <2>8. A!OneKeyEach'
      BY <1>1 DEF ApprInv, A!OneKeyEach
    <2> QED
      BY <2>4, <2>5, <2>6, <2>7, <2>8 DEF ApprInv
  <1> QED
    BY <1>2, <1>3 DEF A!AskTrust, A!Go


-----------------------------------------------------------------------------
(* The steps that make, post or retire an approval.                        *)
LEMMA HookSelects ==
  ASSUME ApprInv, A!Select
  PROVE  ApprInv'
  <1>0. "hook" \in A!Callers
    BY DEF A!Callers
  <1>1. PICK m : m = A!Create(a_appr, a_ident, a_seen["hook"])
    OBVIOUS
  <1>2. Grown(a_appr, m.appr, m.ident) /\ m.nonce \in 1..Len(m.appr)
    BY <1>0, <1>1, CreateGrows DEF ApprInv, ApprTypes
  <1>3. /\ a_appr' = m.appr /\ a_ident' = m.ident
        /\ UNCHANGED <<a_cards, a_screen, a_pressed, a_seen, a_trust>>
        /\ \/ a_pc' = [a_pc EXCEPT !["hook"] = "publish"] /\ a_use' = a_use
           \/ \E p \in {"publish", "ask"} :
                a_pc' = [a_pc EXCEPT !["hook"] = p] /\ a_use' = [a_use EXCEPT !["hook"] = m.nonce]
        /\ a_pc["hook"] = "select"
    BY <1>1 DEF A!Select, A!Go, A!world
  <1>4. Len(a_appr) \in Nat /\ Len(m.appr) \in Nat /\ Len(a_appr) <= Len(m.appr)
    BY <1>2, NothingGrows DEF Grown
  <1>5. Calm
    <2>1. Grown(a_appr, a_appr', a_ident')
      BY <1>2, <1>3
    <2>2. a_use' \in [A!Callers -> 0..Len(a_appr')]
      <3>1. m.nonce \in 0..Len(a_appr') /\ a_use \in [A!Callers -> 0..Len(a_appr')]
        BY <1>2, <1>3, <1>4 DEF ApprInv, ApprTypes
      <3> QED
        BY <1>0, <1>3, <3>1
    <2>3. a_cards' \subseteq 1..Len(a_appr')
      BY <1>3, <1>4 DEF ApprInv, ApprTypes, Numbers
    <2> QED
      BY <1>0, <1>3, <2>1, <2>2, <2>3 DEF Calm, ApprInv, ApprTypes, KeyPlaces
  <1>6. NoNewUser
    <2>1. m.nonce # 0
      BY <1>2, <1>4
    <2> QED
      BY <1>0, <1>3, <2>1 DEF NoNewUser, InHand, BeforeKey, ApprInv, ApprTypes, Trusted
  <1>7. CalmTrust
    BY <1>0, <1>3 DEF CalmTrust, ApprInv, ApprTypes
  <1> QED
    BY <1>5, <1>6, <1>7, CalmStays

LEMMA HookPublishes ==
  ASSUME ApprInv, A!Publish
  PROVE  ApprInv'
  <1>0. "hook" \in A!Callers
    BY DEF A!Callers
  <1>1. UNCHANGED <<a_screen, a_pressed, a_trust>> /\ a_pc["hook"] = "publish"
    BY DEF A!Publish
  <1>2. CASE a_held \/ ~A!Blocked(a_screen) \/ ~A!RoomFor(a_screen)
    BY <1>0, <1>1, <1>2, NothingGrows, CardsStay, CallerLeaves DEF A!Publish, ApprInv, ApprTypes
  <1>3. CASE ~(a_held \/ ~A!Blocked(a_screen) \/ ~A!RoomFor(a_screen))
    <2>1. PICK m : m = A!Create(a_appr, a_ident, a_screen)
      OBVIOUS
    <2>2. Grown(a_appr, m.appr, m.ident) /\ m.nonce \in 1..Len(m.appr)
      BY <2>1, CreateGrows DEF ApprInv, ApprTypes
    <2>3. PICK r : r = [m.appr[m.nonce] EXCEPT !.pub = "sending"]
      OBVIOUS
    <2>4. PICK b : b = [m.appr EXCEPT ![m.nonce] = r]
      OBVIOUS
    <2>5. Grown(m.appr, b, m.ident) /\ Len(b) = Len(m.appr)
      <3>1. m.appr[m.nonce] \in A!Approval
        BY <2>2 DEF Grown
      <3>2. Marked(m.appr[m.nonce], r)
        BY <2>3, <3>1 DEF Marked, A!Approval
      <3>3. m.nonce \in 0..Len(m.appr)
        BY <2>2 DEF Grown
      <3>4. m.appr \in Seq(A!Approval) /\ m.ident \in [0..MaxSeq -> 0..Len(m.appr)]
        BY <2>2 DEF Grown
      <3>5. PICK x, j, n : x = m.appr /\ j = m.ident /\ n = m.nonce
        OBVIOUS
      <3>6. /\ x \in Seq(A!Approval) /\ j \in [0..MaxSeq -> 0..Len(x)] /\ n \in 0..Len(x)
            /\ Marked(x[n], r) /\ b = [x EXCEPT ![n] = r]
        BY <2>4, <3>2, <3>3, <3>4, <3>5
      <3>7. Grown(x, b, j) /\ Len(b) = Len(x)
        BY <3>6, MarkGrows
      <3> QED
        BY <3>5, <3>7
    <2>6. Grown(a_appr, b, m.ident)
      BY <2>2, <2>5, GrownOn DEF ApprInv, ApprTypes
    <2>7. CASE /\ a_appr' = m.appr /\ a_cards' = a_cards /\ a_ident' = m.ident /\ A!Leave("hook")
      <3>1. Grown(a_appr, a_appr', a_ident')
        BY <2>2, <2>7
      <3>2. a_trust' \in [st : {"none", "pending", "uncertain", "done"}, tries : Int]
        BY <1>1 DEF ApprInv, ApprTypes
      <3> QED
        BY <1>0, <1>1, <2>7, <3>1, <3>2, CardsStay, CallerLeaves
    <2>8. CASE /\ a_appr' = b /\ a_use' = [a_use EXCEPT !["hook"] = m.nonce] /\ a_ident' = m.ident
               /\ a_cards' = a_cards \cup {m.nonce} /\ a_seen' = a_seen
               /\ a_pc' = [a_pc EXCEPT !["hook"] = "posting"]
      <3>1. /\ Len(a_appr) \in Nat /\ Len(a_appr') \in Nat /\ Len(a_appr) <= Len(a_appr')
            /\ m.nonce \in 1..Len(a_appr')
        BY <2>2, <2>5, <2>6, <2>8, NothingGrows DEF Grown
      <3>2. Calm
        <4>1. a_use' \in [A!Callers -> 0..Len(a_appr')]
          <5>1. m.nonce \in 0..Len(a_appr') /\ a_use \in [A!Callers -> 0..Len(a_appr')]
            BY <3>1 DEF ApprInv, ApprTypes
          <5> QED
            BY <1>0, <2>8, <5>1
        <4>2. a_cards' \subseteq 1..Len(a_appr')
          <5>1. a_cards \subseteq 1..Len(a_appr')
            BY <3>1 DEF ApprInv, ApprTypes, Numbers
          <5> QED
            BY <2>8, <3>1, <5>1
        <4> QED
          BY <1>0, <1>1, <2>6, <2>8, <4>1, <4>2 DEF Calm, ApprInv, ApprTypes, KeyPlaces
      <3>3. NoNewUser
        BY <1>0, <2>8 DEF NoNewUser, InHand, BeforeKey, ApprInv, ApprTypes, Trusted
      <3>4. CalmTrust
        BY <1>0, <1>1, <2>8 DEF CalmTrust, InHand, BeforeKey, ApprInv, ApprTypes
      <3> QED
        BY <3>2, <3>3, <3>4, CalmStays
    <2> QED
      BY <1>3, <2>1, <2>3, <2>4, <2>7, <2>8 DEF A!Publish, A!Go
  <1> QED
    BY <1>2, <1>3

LEMMA CardIsPosted ==
  ASSUME ApprInv, NEW w \in {"sent", "retryable", "uncertain"}, A!Posted(w)
  PROVE  ApprInv'
  <1>0. "hook" \in A!Callers
    BY DEF A!Callers
  <1>1. PICK n : n = a_use["hook"]
    OBVIOUS
  <1>2. PICK r : r = [a_appr[n] EXCEPT !.pub = w]
    OBVIOUS
  <1>3. /\ UNCHANGED <<a_ident, a_cards, a_screen, a_pressed, a_trust>>
        /\ A!Leave("hook") /\ a_appr' = [a_appr EXCEPT ![n] = r]
    BY <1>1, <1>2 DEF A!Posted, A!world
  <1>4. n \in 0..Len(a_appr) /\ (n # 0 => a_appr[n] \in A!Approval)
    BY <1>0, <1>1 DEF ApprInv, ApprTypes
  <1>5. n # 0 => Marked(a_appr[n], r)
    BY <1>2, <1>4 DEF Marked, A!Approval
  <1>6. Grown(a_appr, a_appr', a_ident')
    <2>1. PICK b : b = a_appr'
      OBVIOUS
    <2>2. b = [a_appr EXCEPT ![n] = r]
      BY <1>3, <2>1
    <2>3. a_appr \in Seq(A!Approval) /\ a_ident \in [0..MaxSeq -> 0..Len(a_appr)]
      BY DEF ApprInv, ApprTypes
    <2>4. Grown(a_appr, b, a_ident)
      BY <1>4, <1>5, <2>2, <2>3, MarkGrows
    <2> QED
      BY <1>3, <2>1, <2>4
  <1>7. a_trust' \in [st : {"none", "pending", "uncertain", "done"}, tries : Int]
    BY <1>3 DEF ApprInv, ApprTypes
  <1> QED
    BY <1>0, <1>3, <1>6, <1>7, CardsStay, CallerLeaves

(* The end of a key: what the pane shows, or nothing.                      *)
LEMMA EffectUnknown ==
  ASSUME ApprInv, NEW c \in A!Callers, A!Unknown(c), A!Leave(c), a_pc[c] \in InHand,
         UNCHANGED <<a_ident, a_cards, a_screen, a_pressed>>
  PROVE  ApprInv'
  <1>1. a_appr' = a_appr \/ a_appr' = A!Invalidated(a_appr)
    BY DEF A!Unknown
  <1>2. Grown(a_appr, a_appr', a_ident')
    BY <1>1, NothingGrows, VoidGrows DEF ApprInv, ApprTypes
  <1>3. /\ a_trust' \in [st : {"none", "pending", "uncertain", "done"}, tries : Int]
        /\ a_trust'.st = a_trust.st \/ (Trusting(c) /\ a_trust'.st # "none")
    BY DEF A!Unknown, ApprInv, ApprTypes, Trusting
  <1> QED
    BY <1>2, <1>3, CardsStay, CallerLeaves

LEMMA AnswerIsRead ==
  ASSUME ApprInv, NEW c \in A!Callers, A!ReadBack(c) \/ A!NotConnected(c)
  PROVE  ApprInv'
  <1>1. /\ UNCHANGED <<a_ident, a_cards, a_screen, a_pressed>> /\ a_pc[c] \in InHand
    BY DEF A!ReadBack, A!NotConnected, A!world, InHand, BeforeKey
  <1>2. CASE A!Unknown(c) /\ A!Leave(c)
    BY <1>1, <1>2, EffectUnknown
  <1>3. CASE /\ a_pc[c] = "connect" /\ A!Leave(c) /\ a_use[c] = 0
             /\ a_trust' = [a_trust EXCEPT !.st = "none"] /\ a_appr' = a_appr
    <2>1. Trusting(c) /\ Pressing(c)
      BY <1>3 DEF Trusting, Pressing, InHand, BeforeKey
    <2>2. a_trust' \in [st : {"none", "pending", "uncertain", "done"}, tries : Int]
      BY <1>3 DEF ApprInv, ApprTypes
    <2>3. Grown(a_appr, a_appr', a_ident')
      BY <1>1, <1>3, NothingGrows
    <2> QED
      BY <1>1, <1>3, <2>1, <2>2, <2>3, CardsStay, CallerLeaves
  <1>4. CASE /\ a_pc[c] = "written" /\ a_pc' = [a_pc EXCEPT ![c] = "refresh"]
             /\ UNCHANGED <<a_appr, a_trust, a_seen, a_use>>
    <2>1. a_pc' \in [A!Callers -> KeyPlaces] /\ a_seen' \in [A!Callers -> A!Sights]
      BY <1>4 DEF ApprInv, ApprTypes, KeyPlaces, InHand
    <2>2. a_use' \in [A!Callers -> 0..Len(a_appr)]
      BY <1>4 DEF ApprInv, ApprTypes
    <2>3. a_trust' \in [st : {"none", "pending", "uncertain", "done"}, tries : Int]
      BY <1>4 DEF ApprInv, ApprTypes
    <2>4. Calm
      BY <1>1, <1>4, <2>1, <2>2, <2>3, NothingChanges
    <2>5. NoNewUser /\ CalmTrust
      BY <1>1, <1>4 DEF NoNewUser, CalmTrust, InHand, BeforeKey, ApprInv, ApprTypes, Trusted
    <2> QED
      BY <2>4, <2>5, CalmStays
  <1> QED
    BY <1>2, <1>3, <1>4 DEF A!ReadBack, A!NotConnected, A!Go, A!Locals

LEMMA ParticipantIsRead ==
  ASSUME ApprInv, NEW c \in A!Callers, A!Refresh(c)
  PROVE  ApprInv'
  <1> DEFINE n == a_use[c]
             done == [k \in DOMAIN a_appr |->
                        IF k # n THEN A!Void(a_appr[k])
                        ELSE [A!Void(a_appr[k]) EXCEPT !.confirmed = TRUE, !.nav = A!Blocked(a_screen)]]
             m == A!Create(done, a_ident, a_screen)
  <1>1. /\ UNCHANGED <<a_cards, a_screen, a_pressed>> /\ A!Leave(c) /\ a_pc[c] \in InHand
    BY DEF A!Refresh, A!world, InHand
  <1>2. \/ A!Unknown(c) /\ a_ident' = a_ident
        \/ /\ a_trust' = a_trust \/ (n = 0 /\ a_trust' = [a_trust EXCEPT !.st = "done"])
           /\ \/ a_appr' = a_appr /\ a_ident' = a_ident
              \/ a_appr' = done /\ a_ident' = a_ident
              \/ a_appr' = m.appr /\ a_ident' = m.ident
    BY DEF A!Refresh
  <1>3. ASSUME NEW k \in DOMAIN a_appr
        PROVE  Marked(a_appr[k], done[k])
    <2>1. a_appr[k] \in A!Approval
      BY DEF ApprInv, ApprTypes
    <2>2. PICK x \in BOOLEAN : x = A!Blocked(a_screen)
      BY DEF A!Blocked
    <2>3. \/ done[k] = A!Void(a_appr[k])
          \/ done[k] = [A!Void(a_appr[k]) EXCEPT !.confirmed = TRUE, !.nav = x]
      BY <2>2
    <2> HIDE DEF done
    <2> QED
      BY <2>1, <2>3 DEF Marked, A!Void, A!Approval
  <1>4. DOMAIN done = DOMAIN a_appr /\ done = [k \in DOMAIN done |-> done[k]]
    OBVIOUS
  <1> HIDE DEF done
  <1>5. PICK d : d = done
    OBVIOUS
  <1>6. Grown(a_appr, d, a_ident)
    BY <1>3, <1>4, <1>5, AllMarked DEF ApprInv, ApprTypes
  <1>7. d \in Seq(A!Approval) /\ a_ident \in [0..MaxSeq -> 0..Len(d)] /\ a_screen \in A!Sights
    BY <1>6 DEF Grown, ApprInv, ApprTypes
  <1>8. Grown(d, m.appr, m.ident)
    BY <1>5, <1>7, CreateGrows
  <1> HIDE DEF m
  <1>9. Grown(a_appr, m.appr, m.ident)
    BY <1>6, <1>7, <1>8, GrownOn DEF ApprInv, ApprTypes
  <1>10. CASE A!Unknown(c) /\ a_ident' = a_ident
    BY <1>1, <1>10, EffectUnknown
  <1>11. CASE /\ a_trust' = a_trust \/ (n = 0 /\ a_trust' = [a_trust EXCEPT !.st = "done"])
              /\ \/ a_appr' = a_appr /\ a_ident' = a_ident
                 \/ a_appr' = done /\ a_ident' = a_ident
                 \/ a_appr' = m.appr /\ a_ident' = m.ident
    <2>1. Grown(a_appr, a_appr', a_ident')
      BY <1>5, <1>6, <1>9, <1>11, NothingGrows
    <2>2. /\ a_trust' \in [st : {"none", "pending", "uncertain", "done"}, tries : Int]
          /\ a_trust'.st = a_trust.st \/ (Trusting(c) /\ a_trust'.st # "none")
      BY <1>1, <1>11 DEF ApprInv, ApprTypes, Trusting
    <2> QED
      BY <1>1, <2>1, <2>2, CardsStay, CallerLeaves
  <1> QED
    BY <1>2, <1>10, <1>11

-----------------------------------------------------------------------------
(* The approval of a key is consumed, and its key is written.              *)
LEMMA ApprovalIsConsumed ==
  ASSUME ApprInv, NEW c \in A!Callers, A!Ask(c)
  PROVE  ApprInv'
  <1>1. PICK n : n = a_use[c]
    OBVIOUS
  <1>2. /\ UNCHANGED <<a_ident, a_cards, a_screen, a_pressed, a_trust>>
        /\ \A d \in A!Callers : ~Using(d)
        /\ a_pc[c] = "ask"
    BY DEF A!Ask, A!world, Using, A!Answering, InHand, BeforeKey
  <1>3. n \in 0..Len(a_appr) /\ n # 0 /\ n \in DOMAIN a_appr /\ Len(a_appr) \in Nat
    BY <1>1, <1>2, NothingGrows DEF ApprInv, ApprTypes, Trusted
  <1>4. CASE A!Leave(c) /\ a_appr' = a_appr
    <2>1. a_trust' \in [st : {"none", "pending", "uncertain", "done"}, tries : Int]
      BY <1>2 DEF ApprInv, ApprTypes
    <2> QED
      BY <1>2, <1>4, <2>1, NothingGrows, CardsStay, CallerLeaves
  <1>5. ASSUME NEW r, r = [a_appr[n] EXCEPT !.consumed = TRUE],
               a_pc' = [a_pc EXCEPT ![c] = "guard"], a_appr' = [a_appr EXCEPT ![n] = r],
               ~a_appr[n].consumed, UNCHANGED <<a_seen, a_use>>
        PROVE  ApprInv'
    <2>0. a_appr[n] \in A!Approval
      BY <1>3 DEF ApprInv, ApprTypes
    <2>1. Marked(a_appr[n], r) /\ r.consumed
      BY <1>5, <2>0 DEF Marked, A!Approval
    <2>2. Grown(a_appr, a_appr', a_ident') /\ a_appr'[n].consumed
      <3>1. PICK b : b = a_appr'
        OBVIOUS
      <3>2. b = [a_appr EXCEPT ![n] = r]
        BY <1>5, <3>1
      <3>3. a_appr \in Seq(A!Approval) /\ a_ident \in [0..MaxSeq -> 0..Len(a_appr)]
        BY DEF ApprInv, ApprTypes
      <3>4. Grown(a_appr, b, a_ident) /\ b[n] = r
        BY <1>3, <2>1, <3>2, <3>3, MarkGrows
      <3> QED
        BY <1>2, <2>1, <3>1, <3>4
    <2>3. Calm
      <3>1. Len(a_appr') \in Nat /\ Len(a_appr) <= Len(a_appr')
        BY <1>3, <2>2 DEF Grown
      <3>2. a_use' \in [A!Callers -> 0..Len(a_appr')] /\ a_seen' \in [A!Callers -> A!Sights]
        BY <1>3, <1>5, <3>1 DEF ApprInv, ApprTypes
      <3>3. a_cards' \subseteq 1..Len(a_appr')
        BY <1>2, <2>2, CardsStay
      <3>4. a_pc' \in [A!Callers -> KeyPlaces]
        BY <1>5 DEF ApprInv, ApprTypes, KeyPlaces, InHand, BeforeKey
      <3>5. a_trust' \in [st : {"none", "pending", "uncertain", "done"}, tries : Int]
        BY <1>2 DEF ApprInv, ApprTypes
      <3> QED
        BY <1>2, <2>2, <3>2, <3>3, <3>4, <3>5 DEF Calm, ApprInv, ApprTypes
    <2>4. a_pc'[c] = "guard" /\ \A d \in A!Callers : d # c => a_pc'[d] = a_pc[d]
      BY <1>5 DEF ApprInv, ApprTypes
    <2>5. ApprTypes'
      BY <2>3, CalmTypes
    <2>6. OneUser'
      BY <1>2, <1>5, <2>4 DEF OneUser, Using
    <2>7. ASSUME NEW i \in DOMAIN a_pressed
          PROVE  (a_pressed[i] # 0 => a_appr'[a_pressed[i]].consumed) /\ a_pressed[i] # n
      <3>1. a_pressed[i] \in 0..Len(a_appr) /\ (a_pressed[i] # 0 => a_appr[a_pressed[i]].consumed)
        BY DEF ApprInv, ApprTypes, Consumed
      <3>2. a_pressed[i] # 0 => a_appr'[a_pressed[i]].consumed
        BY <1>3, <2>2, <3>1 DEF Grown
      <3> QED
        BY <1>3, <1>5, <3>1, <3>2
    <2>8. Consumed'
      <3>1. \A d \in A!Callers : Using(d)' => a_appr'[a_use'[d]].consumed
        BY <1>1, <1>2, <1>5, <2>2, <2>4 DEF Using
      <3>2. \A d \in A!Callers : Pressing(d)' => \A i \in DOMAIN a_pressed' : a_pressed'[i] # a_use'[d]
        BY <1>1, <1>2, <1>5, <2>4, <2>7 DEF Pressing, ApprInv, Consumed
      <3>3. \A i \in DOMAIN a_pressed' : a_pressed'[i] # 0 => a_appr'[a_pressed'[i]].consumed
        BY <1>2, <2>7
      <3> QED
        BY <3>1, <3>2, <3>3 DEF Consumed
    <2>9. Trusted'
      BY <1>1, <1>2, <1>3, <1>5, <2>4 DEF Trusted, Trusting, ApprInv
    <2>10. A!OneKeyEach'
      BY <1>2 DEF ApprInv, A!OneKeyEach
    <2> QED
      BY <2>5, <2>6, <2>8, <2>9, <2>10 DEF ApprInv
  <1> QED
    BY <1>1, <1>4, <1>5 DEF A!Ask, A!OpenFor, A!Go, A!Locals

LEMMA KeyIsWritten ==
  ASSUME ApprInv, NEW c \in A!Callers, A!Write(c)
  PROVE  ApprInv'
  <1>1. /\ UNCHANGED <<a_appr, a_ident, a_cards, a_screen, a_seen, a_use, a_trust>>
        /\ a_pressed' = Append(a_pressed, a_use[c]) /\ a_pc' = [a_pc EXCEPT ![c] = "written"]
        /\ a_pc[c] = "connect"
    BY DEF A!Write, A!store, A!Go
  <1>2. a_use[c] \in 0..Len(a_appr) /\ a_pressed \in Seq(0..Len(a_appr))
    BY DEF ApprInv, ApprTypes
  <1>3. /\ a_pressed' \in Seq(0..Len(a_appr)) /\ Len(a_pressed) \in Nat
        /\ DOMAIN a_pressed' = 1..(Len(a_pressed) + 1) /\ DOMAIN a_pressed = 1..Len(a_pressed)
        /\ \A i \in 1..Len(a_pressed) : a_pressed'[i] = a_pressed[i]
        /\ a_pressed'[Len(a_pressed) + 1] = a_use[c]
    BY <1>1, <1>2
  <1>4. ApprTypes'
    BY <1>1, <1>3 DEF ApprInv, ApprTypes, KeyPlaces, InHand, Numbers
  <1>5. a_pc'[c] = "written" /\ \A d \in A!Callers : d # c => a_pc'[d] = a_pc[d]
    BY <1>1 DEF ApprInv, ApprTypes
  <1>6. /\ \A d \in A!Callers : Using(d)' <=> Using(d)
        /\ \A d \in A!Callers : Trusting(d)' <=> Trusting(d)
    BY <1>1, <1>5 DEF Using, Trusting, InHand, BeforeKey
  <1>7. \A d \in A!Callers : Pressing(d)' => Pressing(d) /\ d # c
    BY <1>1, <1>5 DEF Pressing, BeforeKey
  <1>8. OneUser'
    BY <1>6 DEF OneUser, ApprInv
  <1>9. Pressing(c) /\ a_pc[c] \in InHand
    BY <1>1 DEF Pressing, BeforeKey, InHand
  <1>10. A!OneKeyEach'
    <2>1. \A i \in 1..Len(a_pressed) : a_pressed[i] # a_use[c]
      BY <1>3, <1>9 DEF ApprInv, Consumed
    <2> QED
      BY <1>3, <2>1 DEF A!OneKeyEach, ApprInv
  <1>11. Consumed'
    <2>1. ASSUME NEW d \in A!Callers, Pressing(d)', NEW i \in DOMAIN a_pressed'
          PROVE  a_pressed'[i] # a_use'[d]
      <3>1. Pressing(d) /\ d # c /\ a_pc[d] \in InHand
        BY <1>7, <2>1 DEF Pressing, InHand
      <3>2. a_use[c] # a_use[d]
        BY <1>9, <3>1 DEF ApprInv, OneUser, Using, Trusted, Trusting
      <3> QED
        BY <1>1, <1>3, <2>1, <3>1, <3>2 DEF ApprInv, Consumed
    <2>2. ASSUME NEW i \in DOMAIN a_pressed', a_pressed'[i] # 0
          PROVE  a_appr'[a_pressed'[i]].consumed
      <3>1. a_use[c] # 0 => a_appr[a_use[c]].consumed
        BY <1>9 DEF ApprInv, Consumed, Using
      <3> QED
        BY <1>1, <1>3, <2>2, <3>1 DEF ApprInv, Consumed
    <2>3. \A d \in A!Callers : Using(d)' => a_appr'[a_use'[d]].consumed
      BY <1>1, <1>6 DEF ApprInv, Consumed
    <2> QED
      BY <2>1, <2>2, <2>3 DEF Consumed
  <1>12. Trusted'
    <2>1. a_use[c] = 0 => a_trust.st = "pending"
      BY <1>9 DEF ApprInv, Trusted, Trusting
    <2>2. \A i \in DOMAIN a_pressed' : a_pressed'[i] = 0 => a_trust'.st # "none"
      BY <1>1, <1>3, <2>1 DEF ApprInv, Trusted
    <2>3. a_pc'["hook"] = "trust" => a_pc["hook"] = "trust"
      BY <1>5 DEF A!Callers
    <2> QED
      BY <1>1, <1>5, <1>6, <2>2, <2>3 DEF ApprInv, Trusted
  <1> QED
    BY <1>4, <1>8, <1>10, <1>11, <1>12 DEF ApprInv

-----------------------------------------------------------------------------
LEMMA ApprStart == A!Init => ApprInv
  <1> SUFFICES ASSUME A!Init PROVE ApprInv
    OBVIOUS
  <1>1. /\ a_appr = << >> /\ a_pressed = << >> /\ Len(a_appr) = 0 /\ Len(a_pressed) = 0
        /\ DOMAIN a_pressed = {}
    BY DEF A!Init
  <1>2. [q |-> 1, row |-> 1, seq |-> 0] \in A!Sights
    BY BoundOk DEF A!Sights
  <1>3. A!NoSight \in A!Sights
    BY BoundOk DEF A!NoSight, A!Sights
  <1>4. a_ident \in [0..MaxSeq -> 0..Len(a_appr)] /\ a_appr \in Seq(A!Approval)
    BY <1>1 DEF A!Init
  <1>5. ApprTypes
    BY <1>1, <1>2, <1>3, <1>4 DEF A!Init, ApprTypes, KeyPlaces, Numbers
  <1>6. \A c \in A!Callers : a_pc[c] = "off"
    BY DEF A!Init
  <1>7. OneUser /\ Consumed /\ Trusted
    BY <1>1, <1>6 DEF OneUser, Using, Pressing, Consumed, Trusted, Trusting, InHand, BeforeKey, A!Callers
  <1> QED
    BY <1>1, <1>5, <1>7 DEF ApprInv, A!OneKeyEach

LEMMA ApprNext == ApprInv /\ [A!Next]_(A!vars) => ApprInv'
  <1> SUFFICES ASSUME ApprInv, [A!Next]_(A!vars)
               PROVE  ApprInv'
    OBVIOUS
  <1>1. ASSUME NEW c \in A!Callers, A!Answer(c)
        PROVE  ApprInv'
    BY <1>1, ApprovalIsConsumed, PaneIsChecked, DirectoryIsChecked, KeyIsWritten, AnswerIsRead,
       ParticipantIsRead DEF A!Answer
  <1>2. CASE A!Say \/ A!Hold \/ A!Crash \/ UNCHANGED A!vars
    BY <1>2, WorldMoves
  <1> QED
    BY <1>1, <1>2, HookObserves, HookAsksTrust, TrustIsVetoed, HookSelects, HookPublishes,
       PaneMoves, CardIsPosted, OwnerClicks DEF A!Next

(* Of the keys of approvals: an approval in use has one user, is consumed, *)
(* and let no key through yet; trust is under way in the hook alone and    *)
(* has its receipt (approvals.ts, directory-trust.ts).                     *)
THEOREM ApprovalsInvariant == A!Spec => []ApprInv
  BY ApprStart, ApprNext, PTL DEF A!Spec

(* One approval lets one key through, through crashes and cards that are   *)
(* asked about again; and a directory is trusted once (approvals.ts,       *)
(* answer; directory-trust.ts).                                            *)
THEOREM OneKeyForAnApproval == A!Spec => []OneKeyEach
  <1>1. ApprInv => OneKeyEach
    BY DEF ApprInv, OneKeyEach
  <1> QED
    BY <1>1, ApprovalsInvariant, PTL
=============================================================================
