-------------------------- MODULE OperationsProofs --------------------------
(***************************************************************************)
(* Proofs about Operations for every set of ids, calls, instances and      *)
(* fingerprints and every MaxRetries; and about the two machines beside it *)
(* in MCRequests: the promises of KeyedMutex for any keys and calls, and   *)
(* the messages of Outbox for any senders, texts, targets and parts.       *)
(***************************************************************************)
EXTENDS MCRequests, TLAPS

(***************************************************************************)
(* Rows.  A stored row is Absent or a member of Receipts, and the two ways *)
(* run() and resolve() change one in place keep it a row.                  *)
(***************************************************************************)
LEMMA RowOf ==
  ASSUME NEW r \in Receipts \cup {Absent}
  PROVE  /\ r # Absent <=> r \in Receipts
         /\ r # Absent <=> r.state \in States
         /\ r = Absent => r.state = "absent"
  BY DEF Receipts, Absent, States

LEMMA RowEdit ==
  ASSUME NEW r \in Receipts
  PROVE  /\ \A s \in States :
              /\ [r EXCEPT !.state = s] \in Receipts
              /\ [r EXCEPT !.state = s].state = s
              /\ [r EXCEPT !.state = s].choice = r.choice
              /\ [r EXCEPT !.state = s].history = r.history
         /\ \A ch \in Choices :
              /\ [r EXCEPT !.choice = ch] \in Receipts
              /\ [r EXCEPT !.choice = ch].choice = ch
              /\ [r EXCEPT !.choice = ch].state = r.state
              /\ [r EXCEPT !.choice = ch].history = r.history
  BY DEF Receipts

(* What a row archives is the list of its attempts, itself included.       *)
LEMMA ArchiveType ==
  ASSUME NEW r \in Receipts \cup {Absent}
  PROVE  Archive(r) \in Seq(Attempts)
  <1>1. CASE r = Absent
    BY <1>1 DEF Archive
  <1>2. CASE r # Absent
    <2>1. r \in Receipts
      BY <1>2, RowOf
    <2>2. [state |-> r.state, choice |-> r.choice] \in Attempts
      BY <2>1 DEF Receipts, Attempts
    <2>3. r.history \in Seq(Attempts)
      BY <2>1 DEF Receipts
    <2> QED
      BY <1>2, <2>2, <2>3 DEF Archive
  <1> QED
    BY <1>1, <1>2

(* A row written by run() is typed and undecided.                          *)
LEMMA FreshRow ==
  ASSUME TypeOK, NEW c \in Calls, NEW s \in States
  PROVE  /\ Fresh(c, s) \in Receipts
         /\ Fresh(c, s).state = s
         /\ Fresh(c, s).choice = "none"
         /\ Fresh(c, s).history = Archive(Row(c))
  <1>1. Row(c) \in Receipts \cup {Absent} /\ job[c].fp \in Params
    BY DEF TypeOK, Row
  <1>2. Archive(Row(c)) \in Seq(Attempts)
    BY <1>1, ArchiveType
  <1> QED
    BY <1>1, <1>2 DEF Fresh, Receipts

(***************************************************************************)
(* Type correctness                                                        *)
(***************************************************************************)
LEMMA SlotType ==
  ASSUME TypeOK, NEW c \in Calls
  PROVE  Slot(c) \in Instances \X Ids /\ job[c].id \in Ids
  BY DEF TypeOK, Slot

(* A call that leaves hands the queue on: the rest of a non-empty queue is *)
(* a queue.                                                                *)
LEMMA LeaveType ==
  ASSUME TypeOK, NEW c \in Calls, NEW a \in Answers, Leave(c, a),
         line[Slot(c)] # << >>
  PROVE  /\ line' \in [Instances \X Ids -> Seq(Calls)]
         /\ pc' \in [Calls -> {"idle", Waiting, Performing, Applied}]
         /\ answer' \in [Calls -> Answers]
  <1>1. line[Slot(c)] \in Seq(Calls)
    BY SlotType DEF TypeOK
  <1>2. Tail(line[Slot(c)]) \in Seq(Calls)
    BY <1>1
  <1> QED
    BY <1>2, SlotType DEF TypeOK, Leave

(* Only the call at the head of its queue runs or leaves, and a call that  *)
(* runs stays there until it leaves.                                       *)
Holding ==
  \A c \in Calls : Live(c) => /\ line[Slot(c)] # << >>
                              /\ Head(line[Slot(c)]) = c

TypeInv == TypeOK /\ Holding

LEMMA TypeInit == Init => TypeInv
  <1> SUFFICES ASSUME Init PROVE TypeInv
    OBVIOUS
  <1>1. TypeOK
    BY DEF Init, TypeOK, Answers, Waiting, Performing, Applied
  <1>2. Holding
    BY DEF Init, Holding, Live, Waiting, Performing, Applied
  <1> QED
    BY <1>1, <1>2 DEF TypeInv

(* When the head of a queue leaves it, every other running call of the     *)
(* process is still the head of its own.                                   *)
LEMMA LeaveHolding ==
  ASSUME TypeInv, NEW c \in Calls, NEW a \in Answers, Leave(c, a),
         MyTurn(c) \/ Live(c), UNCHANGED job
  PROVE  /\ line' \in [Instances \X Ids -> Seq(Calls)]
         /\ pc' \in [Calls -> {"idle", Waiting, Performing, Applied}]
         /\ answer' \in [Calls -> Answers]
         /\ Holding'
  <1>1. line[Slot(c)] # << >> /\ Head(line[Slot(c)]) = c
    BY DEF TypeInv, Holding, MyTurn
  <1>2. /\ line' \in [Instances \X Ids -> Seq(Calls)]
        /\ pc' \in [Calls -> {"idle", Waiting, Performing, Applied}]
        /\ answer' \in [Calls -> Answers]
    BY <1>1, LeaveType DEF TypeInv
  <1>3. ASSUME NEW d \in Calls, Live(d)'
        PROVE  (line[Slot(d)] # << >> /\ Head(line[Slot(d)]) = d)'
    <2>1. pc'[d] # "idle" /\ d # c /\ pc'[d] = pc[d]
      BY <1>3 DEF Live, Leave, TypeInv, TypeOK, Performing, Applied
    <2>2. Live(d)
      BY <1>3, <2>1 DEF Live
    <2>3. line[Slot(d)] # << >> /\ Head(line[Slot(d)]) = d
      BY <2>2 DEF TypeInv, Holding
    <2>4. Slot(d) # Slot(c)
      BY <1>1, <2>1, <2>3
    <2>5. line'[Slot(d)] = line[Slot(d)]
      BY <2>4, SlotType DEF Leave, TypeInv, TypeOK
    <2>6. Slot(d)' = Slot(d)
      BY DEF Slot
    <2> QED
      BY <2>3, <2>5, <2>6
  <1> QED
    BY <1>2, <1>3 DEF Holding

(* Every way run() replaces or settles a row keeps the rows typed.         *)
LEMMA RowsAfterWrite ==
  ASSUME TypeOK, NEW o \in Ids, NEW r \in Receipts \cup {Absent},
         receipt' = [receipt EXCEPT ![o] = r]
  PROVE  receipt' \in [Ids -> Receipts \cup {Absent}]
  BY DEF TypeOK

LEMMA RunningRow ==
  ASSUME TypeOK, NEW o \in Ids, receipt[o].state \in States,
         NEW s \in States,
         receipt' = [receipt EXCEPT ![o].state = s]
  PROVE  /\ receipt[o] \in Receipts
         /\ receipt' = [receipt EXCEPT ![o] = [receipt[o] EXCEPT !.state = s]]
         /\ receipt' \in [Ids -> Receipts \cup {Absent}]
  <1>1. receipt[o] \in Receipts
    BY RowOf DEF TypeOK
  <1>2. receipt' = [receipt EXCEPT ![o] = [receipt[o] EXCEPT !.state = s]]
    OBVIOUS
  <1>3. [receipt[o] EXCEPT !.state = s] \in Receipts
    BY <1>1, RowEdit
  <1> QED
    BY <1>1, <1>2, <1>3, RowsAfterWrite

(***************************************************************************)
(* One id, one running call                                                *)
(***************************************************************************)

(* A running call is what the pending, undecided row of its id stands for, *)
(* and it is what keeps the id in the shared active set.                   *)
Running ==
  \A c \in Calls : Live(c) => /\ job[c].id \in active
                              /\ receipt[job[c].id].state = "pending"
                              /\ receipt[job[c].id].choice = "none"

(* The request of a running call has not been used up by anyone else.      *)
Travelling ==
  \A c \in Calls : pc[c] = Performing => limbo[job[c].id] > 0

Core == TypeInv /\ Running /\ SingleFlight /\ Travelling

(* A row lets a call through only when there is none or it was decided to  *)
(* retry it; either way nobody is running the id.                          *)
LEMMA Admitted ==
  ASSUME NEW c \in Calls, Recorded(c) = "none"
  PROVE  Row(c) = Absent \/ Row(c).choice = "retry"
  BY DEF Recorded

LEMMA NobodyRuns ==
  ASSUME Core, NEW c \in Calls, Recorded(c) = "none"
  PROVE  \A d \in Calls : Live(d) => job[d].id # job[c].id
  <1> SUFFICES ASSUME NEW d \in Calls, Live(d), job[d].id = job[c].id
               PROVE  FALSE
    OBVIOUS
  <1>1. Row(c).state = "pending" /\ Row(c).choice = "none"
    BY DEF Core, Running, Row
  <1>2. Row(c) # Absent
    BY <1>1 DEF Absent
  <1> QED
    BY <1>1, <1>2, Admitted

LEMMA SettleCore ==
  ASSUME Core, NEW c \in Calls, Live(c), NEW s \in States, NEW a \in Answers,
         Settle(c, s, a)
  PROVE  /\ receipt' \in [Ids -> Receipts \cup {Absent}]
         /\ receipt'[job[c].id].state = s
         /\ line' \in [Instances \X Ids -> Seq(Calls)]
         /\ pc' \in [Calls -> {"idle", Waiting, Performing, Applied}]
         /\ answer' \in [Calls -> Answers]
         /\ active' \subseteq Ids
         /\ Holding' /\ Running' /\ SingleFlight'
  <1> DEFINE o == job[c].id
  <1>1. TypeOK /\ o \in Ids /\ receipt[o].state \in States
    BY SlotType DEF Core, TypeInv, Running, States
  <1>2. receipt' = [receipt EXCEPT ![o].state = s]
    BY DEF Settle
  <1>3. /\ receipt' \in [Ids -> Receipts \cup {Absent}]
        /\ receipt[o] \in Receipts
        /\ receipt' = [receipt EXCEPT ![o] = [receipt[o] EXCEPT !.state = s]]
    BY <1>1, <1>2, RunningRow
  <1>4. receipt'[o].state = s
    BY <1>1, <1>3, RowEdit DEF TypeOK
  <1>5. /\ line' \in [Instances \X Ids -> Seq(Calls)]
        /\ pc' \in [Calls -> {"idle", Waiting, Performing, Applied}]
        /\ answer' \in [Calls -> Answers]
        /\ Holding'
    BY LeaveHolding DEF Core, Settle
  <1>6. \A d \in Calls : Live(d)' => d # c /\ Live(d) /\ job'[d] = job[d]
    BY <1>1 DEF Settle, Leave, Live, TypeOK, Performing, Applied
  <1>7. SingleFlight'
    BY <1>6 DEF Core, SingleFlight
  <1>8. \A d \in Calls : Live(d)' => job[d].id # o
    BY <1>6 DEF Core, SingleFlight
  <1>9. Running'
    BY <1>1, <1>3, <1>6, <1>8, SlotType DEF Core, Running, Settle, TypeOK
  <1>10. active' \subseteq Ids
    BY <1>1 DEF Settle, TypeOK
  <1> QED
    BY <1>3, <1>4, <1>5, <1>7, <1>9, <1>10

(* Steps that leave every running call and its row alone.                  *)
LEMMA RunningKept ==
  ASSUME Core, receipt' = receipt, active' = active,
         \A c \in Calls : Live(c)' => Live(c) /\ job'[c] = job[c]
  PROVE  Running' /\ SingleFlight'
  BY DEF Core, Running, SingleFlight

LEMMA TravellingKept ==
  ASSUME Core, limbo' = limbo,
         \A c \in Calls : pc'[c] = Performing =>
            pc[c] = Performing /\ job'[c] = job[c]
  PROVE  Travelling'
  BY DEF Core, Travelling

LEMMA SubmitCore ==
  ASSUME Core, NEW c \in Calls, NEW i \in Instances, NEW o \in Ids,
         NEW p \in Params, Submit(c, i, o, p)
  PROVE  Core'
  <1> USE DEF Core, TypeInv
  <1>1. TypeOK'
    <2>1. line[<<i, o>>] \in Seq(Calls)
      BY DEF TypeOK
    <2>2. Append(line[<<i, o>>], c) \in Seq(Calls)
      BY <2>1
    <2> QED
      BY <2>2 DEF TypeOK, Submit, Answers
  <1>2. \A d \in Calls : Live(d)' => Live(d) /\ d # c /\ job'[d] = job[d]
    BY DEF Submit, TypeOK, Live, Waiting, Performing, Applied
  <1>3. Holding'
    <2> SUFFICES ASSUME NEW d \in Calls, Live(d)'
                 PROVE  (line[Slot(d)] # << >> /\ Head(line[Slot(d)]) = d)'
      BY DEF Holding
    <2>1. line[Slot(d)] # << >> /\ Head(line[Slot(d)]) = d
      BY <1>2 DEF Holding
    <2>2. Slot(d)' = Slot(d) /\ Slot(d) \in Instances \X Ids
      BY <1>2, SlotType DEF Slot
    <2>3. line[Slot(d)] \in Seq(Calls)
      BY <2>2 DEF TypeOK
    <2>4. CASE Slot(d) = <<i, o>>
      <3>1. line'[Slot(d)] = Append(line[Slot(d)], c)
        BY <2>2, <2>4 DEF Submit, TypeOK
      <3> QED
        BY <2>1, <2>2, <2>3, <3>1
    <2>5. CASE Slot(d) # <<i, o>>
      BY <2>1, <2>2, <2>5 DEF Submit, TypeOK
    <2> QED
      BY <2>4, <2>5
  <1>4. Running' /\ SingleFlight'
    BY <1>2, RunningKept DEF Submit
  <1>5. Travelling'
    BY TravellingKept DEF Submit, TypeOK, Waiting, Performing
  <1> QED
    BY <1>1, <1>3, <1>4, <1>5

LEMMA ReplayCore ==
  ASSUME Core, NEW c \in Calls, Replay(c)
  PROVE  Core'
  <1>1. Recorded(c) \in Answers
    BY DEF Recorded, Answers
  <1>2. /\ line' \in [Instances \X Ids -> Seq(Calls)]
        /\ pc' \in [Calls -> {"idle", Waiting, Performing, Applied}]
        /\ answer' \in [Calls -> Answers]
        /\ Holding'
    BY <1>1, LeaveHolding DEF Core, Replay
  <1>3. TypeOK'
    BY <1>2 DEF Core, TypeInv, TypeOK, Replay
  <1>4. \A d \in Calls : Live(d)' => Live(d) /\ job'[d] = job[d]
    BY DEF Core, TypeInv, TypeOK, Replay, Leave, Live, Performing, Applied
  <1>5. Travelling'
    BY TravellingKept DEF Core, TypeInv, TypeOK, Replay, Leave, Performing
  <1> QED
    BY <1>2, <1>3, <1>4, <1>5, RunningKept DEF Core, TypeInv, Replay

(* Start writes the pending row of an id nobody runs and makes c its only  *)
(* running call.                                                           *)
LEMMA StartCore ==
  ASSUME Core, NEW c \in Calls, Start(c)
  PROVE  Core'
  <1> DEFINE o == job[c].id
  <1>1. TypeOK /\ o \in Ids
    BY SlotType DEF Core, TypeInv
  <1>2. Fresh(c, "pending") \in Receipts /\ Fresh(c, "pending").state = "pending"
          /\ Fresh(c, "pending").choice = "none"
    BY <1>1, FreshRow DEF States
  <1>3. TypeOK'
    BY <1>1, <1>2 DEF Start, TypeOK
  <1>4. \A d \in Calls : Live(d)' => d = c \/ (Live(d) /\ job[d].id # o)
    BY <1>1, NobodyRuns DEF Start, Live, TypeOK
  <1>5. Holding'
    BY <1>4, <1>1 DEF Core, TypeInv, Holding, Start, MyTurn, Slot
  <1>6. SingleFlight'
    BY <1>4 DEF Core, SingleFlight, Start
  <1>7. Running'
    <2>1. receipt'[o] = Fresh(c, "pending")
      BY <1>1 DEF Start, TypeOK
    <2>2. \A d \in Calls : job[d].id # o =>
             receipt'[job[d].id] = receipt[job[d].id]
      BY <1>1, SlotType DEF Start, TypeOK
    <2> QED
      BY <1>2, <1>4, <2>1, <2>2 DEF Core, Running, Start
  <1>8. Travelling'
    BY <1>1, <1>4, SlotType DEF Core, Travelling, Start, Live, TypeOK, Performing
  <1> QED
    BY <1>3, <1>5, <1>6, <1>7, <1>8 DEF Core, TypeInv

LEMMA GateCore ==
  ASSUME Core, NEW c \in Calls, Gate(c)
  PROVE  Core'
  <1> DEFINE o == job[c].id
  <1>1. TypeOK /\ o \in Ids
    BY SlotType DEF Core, TypeInv
  <1>2. Fresh(c, "failed") \in Receipts
    BY <1>1, FreshRow DEF States
  <1>3. /\ line' \in [Instances \X Ids -> Seq(Calls)]
        /\ pc' \in [Calls -> {"idle", Waiting, Performing, Applied}]
        /\ answer' \in [Calls -> Answers]
        /\ Holding'
    BY LeaveHolding DEF Core, Gate, Answers
  <1>4. TypeOK'
    BY <1>1, <1>2, <1>3 DEF Gate, TypeOK
  <1>5. \A d \in Calls : Live(d)' => Live(d) /\ job[d].id # o
    BY <1>1, NobodyRuns DEF Gate, Leave, Live, TypeOK, Performing, Applied
  <1>6. SingleFlight'
    BY <1>5 DEF Core, SingleFlight, Gate
  <1>7. Running'
    BY <1>1, <1>5, SlotType DEF Core, Running, Gate, TypeOK
  <1>8. Travelling'
    BY TravellingKept DEF Core, TypeInv, TypeOK, Gate, Leave, Performing
  <1> QED
    BY <1>3, <1>4, <1>6, <1>7, <1>8 DEF Core, TypeInv

(* The three ways a running call ends.                                     *)
LEMMA EndCore ==
  ASSUME Core, NEW c \in Calls, Succeed(c) \/ Refuse(c) \/ LoseReply(c)
  PROVE  Core'
  <1> DEFINE o == job[c].id
  <1>1. TypeOK /\ o \in Ids
    BY SlotType DEF Core, TypeInv
  <1>2. Live(c)
    BY DEF Succeed, Refuse, LoseReply, Live
  <1>3. PICK s \in States, a \in Answers : Settle(c, s, a)
    BY DEF Succeed, Refuse, LoseReply, States, Answers
  <1>4. /\ receipt' \in [Ids -> Receipts \cup {Absent}]
        /\ line' \in [Instances \X Ids -> Seq(Calls)]
        /\ pc' \in [Calls -> {"idle", Waiting, Performing, Applied}]
        /\ answer' \in [Calls -> Answers]
        /\ active' \subseteq Ids
        /\ Holding' /\ Running' /\ SingleFlight'
    BY <1>2, <1>3, SettleCore
  <1>5. limbo' \in [Ids -> Nat] /\ effects' \in [Ids -> Nat]
    <2>1. CASE Refuse(c)
      <3>1. limbo[o] \in Nat /\ limbo[o] > 0
        BY <1>1, <2>1 DEF Core, Travelling, Refuse, TypeOK
      <3> QED
        BY <1>1, <2>1, <3>1 DEF Refuse, TypeOK
    <2>2. CASE Succeed(c) \/ LoseReply(c)
      BY <1>1, <2>2 DEF Succeed, LoseReply, TypeOK
    <2> QED
      BY <2>1, <2>2
  <1>6. TypeOK'
    BY <1>1, <1>3, <1>4, <1>5 DEF TypeOK, Settle
  <1>7. \A d \in Calls : pc'[d] = Performing =>
           /\ pc[d] = Performing /\ job'[d] = job[d] /\ job[d].id # o
    <2> SUFFICES ASSUME NEW d \in Calls, pc'[d] = Performing
                 PROVE  pc[d] = Performing /\ job'[d] = job[d] /\ job[d].id # o
      OBVIOUS
    <2>1. d # c /\ pc[d] = Performing /\ job'[d] = job[d]
      BY <1>1, <1>3 DEF Settle, Leave, TypeOK, Performing
    <2> QED
      BY <1>2, <2>1 DEF Core, SingleFlight, Live
  <1>8. \A d \in Calls : job[d].id # o => limbo'[job[d].id] = limbo[job[d].id]
    BY <1>1, SlotType DEF Succeed, Refuse, LoseReply, TypeOK
  <1>9. Travelling'
    BY <1>7, <1>8 DEF Core, Travelling
  <1> QED
    BY <1>4, <1>6, <1>9 DEF Core, TypeInv

LEMMA LandCore ==
  ASSUME Core, NEW c \in Calls, Land(c)
  PROVE  Core'
  <1> DEFINE o == job[c].id
  <1>1. TypeOK /\ o \in Ids
    BY SlotType DEF Core, TypeInv
  <1>2. limbo[o] \in Nat /\ limbo[o] > 0 /\ effects[o] \in Nat
    BY <1>1 DEF Core, Travelling, Land, TypeOK
  <1>3. TypeOK'
    BY <1>1, <1>2 DEF Land, TypeOK, store
  <1>4. \A d \in Calls : Live(d)' <=> Live(d)
    BY <1>1 DEF Land, Live, TypeOK
  <1>5. Holding'
    BY <1>4 DEF Core, TypeInv, Holding, Land, Slot
  <1>6. Running' /\ SingleFlight'
    BY <1>4, RunningKept DEF Land, store
  <1>7. \A d \in Calls : pc'[d] = Performing =>
           pc[d] = Performing /\ job[d].id # o
    BY <1>1 DEF Core, SingleFlight, Live, Land, TypeOK, Performing, Applied
  <1>8. Travelling'
    BY <1>1, <1>7, SlotType DEF Core, Travelling, Land, TypeOK
  <1> QED
    BY <1>3, <1>5, <1>6, <1>8 DEF Core, TypeInv

LEMMA LandLateCore ==
  ASSUME Core, NEW o \in Ids, LandLate(o)
  PROVE  Core'
  <1>1. TypeOK /\ limbo[o] \in Nat /\ effects[o] \in Nat
    BY DEF Core, TypeInv, TypeOK
  <1>2. limbo[o] > 0
    BY <1>1 DEF LandLate
  <1>3. TypeOK'
    BY <1>1, <1>2 DEF LandLate, TypeOK, process, store
  <1>4. Holding' /\ Running' /\ SingleFlight'
    BY DEF LandLate, process, store, Core, TypeInv, Holding, Running,
           SingleFlight, Live, Slot
  <1>5. Travelling'
    <2> SUFFICES ASSUME NEW c \in Calls, pc'[c] = Performing
                 PROVE  limbo'[job'[c].id] > 0
      BY DEF Travelling
    <2>1. pc[c] = Performing /\ job'[c] = job[c] /\ job[c].id \in Ids
      BY <1>1, SlotType DEF LandLate, process
    <2>2. CASE job[c].id = o
      <3>1. limbo[o] > 1
        BY <2>1, <2>2 DEF LandLate, Underway
      <3> QED
        BY <1>1, <2>1, <2>2, <3>1 DEF LandLate, TypeOK
    <2>3. CASE job[c].id # o
      BY <1>1, <2>1, <2>3 DEF Core, Travelling, LandLate, TypeOK
    <2> QED
      BY <2>2, <2>3
  <1> QED
    BY <1>3, <1>4, <1>5 DEF Core, TypeInv

(* A decision or a deletion touches only a row that nobody is running.     *)
LEMMA IdleRowCore ==
  ASSUME Core, NEW o \in Ids, NEW r \in Receipts \cup {Absent},
         receipt' = [receipt EXCEPT ![o] = r],
         \A c \in Calls : Live(c) => job[c].id # o,
         retries' \in [Ids -> Nat],
         UNCHANGED <<process, world>>
  PROVE  Core'
  <1>1. TypeOK
    BY DEF Core, TypeInv
  <1>2. TypeOK'
    BY <1>1 DEF TypeOK, process, world
  <1>3. Holding' /\ SingleFlight' /\ Travelling'
    BY DEF Core, TypeInv, Holding, SingleFlight, Travelling, Live, Slot,
           process, world
  <1>4. Running'
    BY <1>1, SlotType DEF Core, Running, TypeOK, Live, process
  <1> QED
    BY <1>2, <1>3, <1>4 DEF Core, TypeInv

LEMMA ResolveCore ==
  ASSUME Core, NEW o \in Ids, NEW choice \in Choices, Resolve(o, choice)
  PROVE  /\ Core'
         /\ receipt[o] \in Receipts
         /\ receipt' = [receipt EXCEPT ![o] =
                          [receipt[o] EXCEPT !.choice = choice]]
  <1>1. TypeOK /\ receipt[o] \in Receipts
    BY RowOf DEF Core, TypeInv, TypeOK, Resolve
  <1>2. [receipt[o] EXCEPT !.choice = choice] \in Receipts
    BY <1>1, RowEdit
  <1>3. receipt' = [receipt EXCEPT ![o] =
                      [receipt[o] EXCEPT !.choice = choice]]
    BY DEF Resolve
  <1>4. retries' \in [Ids -> Nat]
    BY <1>1 DEF Resolve, TypeOK
  <1>5. \A c \in Calls : Live(c) => job[c].id # o
    BY DEF Core, Running, Resolve
  <1> QED
    BY <1>1, <1>2, <1>3, <1>4, <1>5, IdleRowCore DEF Resolve

LEMMA ResetFailedCore ==
  ASSUME Core, NEW o \in Ids, ResetFailed(o)
  PROVE  Core'
  <1>1. \A c \in Calls : Live(c) => job[c].id # o
    BY DEF Core, Running, ResetFailed
  <1> QED
    BY <1>1, IdleRowCore DEF ResetFailed, Core, TypeInv, TypeOK

LEMMA CrashCore ==
  ASSUME Core, Crash
  PROVE  Core'
  <1>1. \A c \in Calls : pc'[c] = "idle"
    BY DEF Crash
  <1>2. TypeOK'
    BY DEF Core, TypeInv, TypeOK, Crash, store, world, Answers
  <1>3. Holding' /\ Running' /\ SingleFlight' /\ Travelling'
    BY <1>1 DEF Holding, Running, SingleFlight, Travelling, Live, Performing,
                Applied
  <1> QED
    BY <1>2, <1>3 DEF Core, TypeInv

LEMMA StopCore ==
  ASSUME Core, NEW i \in Instances, Stop(i)
  PROVE  Core'
  <1>1. TypeOK'
    BY DEF Core, TypeInv, TypeOK, Stop, world
  <1>2. Holding' /\ Running' /\ SingleFlight' /\ Travelling'
    BY DEF Core, TypeInv, Holding, Running, SingleFlight, Travelling, Live,
           Slot, Stop, world
  <1> QED
    BY <1>1, <1>2 DEF Core, TypeInv

LEMMA CoreStutter ==
  ASSUME Core, UNCHANGED vars
  PROVE  Core'
  <1>1. TypeOK'
    BY DEF Core, TypeInv, TypeOK, vars
  <1>2. Holding' /\ Running' /\ SingleFlight' /\ Travelling'
    BY DEF Core, TypeInv, Holding, Running, SingleFlight, Travelling, Live,
           Slot, vars
  <1> QED
    BY <1>1, <1>2 DEF Core, TypeInv

LEMMA CoreInit == Init => Core
  <1> SUFFICES ASSUME Init PROVE Core
    OBVIOUS
  <1>1. \A c \in Calls : pc[c] = "idle"
    BY DEF Init
  <1> QED
    BY <1>1, TypeInit DEF Core, Running, SingleFlight, Travelling, Live,
       Performing, Applied

LEMMA CoreNext == Core /\ [Next]_vars => Core'
  <1> SUFFICES ASSUME Core, [Next]_vars PROVE Core'
    OBVIOUS
  <1>1. ASSUME NEW c \in Calls, NEW i \in Instances, NEW o \in Ids,
               NEW p \in Params, Submit(c, i, o, p)
        PROVE  Core'
    BY <1>1, SubmitCore
  <1>2. ASSUME NEW c \in Calls, CallStep(c)
        PROVE  Core'
    BY <1>2, ReplayCore, StartCore, GateCore, LandCore, EndCore DEF CallStep
  <1>3. ASSUME NEW o \in Ids, NEW choice \in Choices, Resolve(o, choice)
        PROVE  Core'
    BY <1>3, ResolveCore
  <1>4. ASSUME NEW o \in Ids, ResetFailed(o) \/ LandLate(o)
        PROVE  Core'
    BY <1>4, ResetFailedCore, LandLateCore
  <1>5. ASSUME NEW i \in Instances, Stop(i)
        PROVE  Core'
    BY <1>5, StopCore
  <1>6. CASE Crash
    BY <1>6, CrashCore
  <1>7. CASE UNCHANGED vars
    BY <1>7, CoreStutter
  <1> QED
    BY <1>1, <1>2, <1>3, <1>4, <1>5, <1>6, <1>7 DEF Next

LEMMA CoreAlways == Spec => []Core
  <1> QED
    BY CoreInit, CoreNext, PTL DEF Spec

(* Rows, queues, answers and counters keep their types: a settled row is   *)
(* still a row, and no counter of the outside world goes below zero.       *)
THEOREM TypeCorrect == Spec => []TypeOK
  <1>1. Core => TypeOK
    BY DEF Core, TypeInv
  <1> QED
    BY <1>1, CoreAlways, PTL

(* However many Operations objects share the store, no id is performed     *)
(* twice at the same time.                                                 *)
THEOREM OneCallPerId == Spec => []SingleFlight
  <1>1. Core => SingleFlight
    BY DEF Core
  <1> QED
    BY <1>1, CoreAlways, PTL

(***************************************************************************)
(* Every effect is paid for                                                *)
(*                                                                         *)
(* NoBlindReplay is not inductive: it does not say when the next request   *)
(* may leave.  Paid does: an id whose row is absent, refused or decided to *)
(* be retried has a request in hand, any other row has spent it.           *)
(***************************************************************************)
Owed(o) ==
  IF receipt[o] = Absent \/ receipt[o].state = "failed"
       \/ receipt[o].choice = "retry"
  THEN 0 ELSE 1

Paid == \A o \in Ids : effects[o] + limbo[o] <= retries[o] + Owed(o)

IInv == Core /\ Paid

(* A step on one id leaves the account of every other id as it was.        *)
LEMMA PaidElsewhere ==
  ASSUME Paid, NEW o \in Ids,
         \A x \in Ids \ {o} : /\ receipt'[x] = receipt[x]
                              /\ effects'[x] = effects[x]
                              /\ limbo'[x] = limbo[x]
                              /\ retries'[x] = retries[x],
         effects'[o] + limbo'[o] <= retries'[o] + Owed(o)'
  PROVE  Paid'
  BY DEF Paid, Owed

LEMMA PaidSame ==
  ASSUME Paid, UNCHANGED <<receipt, effects, limbo, retries>>
  PROVE  Paid'
  BY DEF Paid, Owed

LEMMA Numbers ==
  ASSUME TypeOK, NEW o \in Ids
  PROVE  effects[o] \in Nat /\ limbo[o] \in Nat /\ retries[o] \in Nat
  BY DEF TypeOK

LEMMA StartPaid ==
  ASSUME IInv, NEW c \in Calls, NEW o \in Ids, o = job[c].id, Start(c)
  PROVE  Paid' /\ effects[o] + limbo[o] <= retries[o]
  <1>1. TypeOK
    BY DEF IInv, Core, TypeInv
  <1>2. receipt[o] = Absent \/ receipt[o].choice = "retry"
    BY Admitted DEF Start, Row
  <1>3. effects[o] + limbo[o] <= retries[o]
    BY <1>1, <1>2, Numbers DEF IInv, Paid, Owed
  <1>4. /\ receipt'[o] = Fresh(c, "pending")
        /\ limbo'[o] = limbo[o] + 1
        /\ effects' = effects /\ retries' = retries
        /\ \A x \in Ids \ {o} : receipt'[x] = receipt[x] /\ limbo'[x] = limbo[x]
    BY <1>1 DEF Start, TypeOK
  <1>5. receipt'[o].state = "pending" /\ receipt'[o].choice = "none"
    BY <1>1, <1>4, FreshRow DEF States
  <1>6. Owed(o)' = 1
    BY <1>5 DEF Owed, Absent
  <1>7. effects'[o] + limbo'[o] <= retries'[o] + Owed(o)'
    BY <1>1, <1>3, <1>4, <1>6, Numbers
  <1> QED
    BY <1>3, <1>4, <1>7, PaidElsewhere DEF IInv

LEMMA GatePaid ==
  ASSUME IInv, NEW c \in Calls, Gate(c)
  PROVE  Paid'
  <1>1. TypeOK
    BY DEF IInv, Core, TypeInv
  <1>2. PICK o \in Ids : o = job[c].id
    BY <1>1, SlotType
  <1>3. receipt[o] = Absent \/ receipt[o].choice = "retry"
    BY <1>2, Admitted DEF Gate, Row
  <1>4. effects[o] + limbo[o] <= retries[o]
    BY <1>1, <1>3, Numbers DEF IInv, Paid, Owed
  <1>5. /\ effects' = effects /\ retries' = retries /\ limbo' = limbo
        /\ \A x \in Ids \ {o} : receipt'[x] = receipt[x]
    BY <1>1, <1>2 DEF Gate, TypeOK
  <1>6. Owed(o)' \in {0, 1}
    BY DEF Owed
  <1>7. effects'[o] + limbo'[o] <= retries'[o] + Owed(o)'
    BY <1>1, <1>4, <1>5, <1>6, Numbers
  <1> QED
    BY <1>5, <1>7, PaidElsewhere DEF IInv

(* How a settled call changes the row of its id.                           *)
LEMMA SettledRow ==
  ASSUME Core, NEW c \in Calls, Live(c), NEW s \in States, NEW a \in Answers,
         Settle(c, s, a)
  PROVE  /\ job[c].id \in Ids
         /\ Owed(job[c].id) = 1
         /\ Owed(job[c].id)' = IF s = "failed" THEN 0 ELSE 1
         /\ \A x \in Ids \ {job[c].id} : receipt'[x] = receipt[x]
         /\ retries' = retries
  <1> DEFINE o == job[c].id
  <1>1. TypeOK /\ o \in Ids
    BY SlotType DEF Core, TypeInv
  <1>2. receipt[o].state = "pending" /\ receipt[o].choice = "none"
    BY DEF Core, Running
  <1>3. /\ receipt[o] \in Receipts
        /\ receipt' = [receipt EXCEPT ![o] = [receipt[o] EXCEPT !.state = s]]
    BY <1>1, <1>2, RunningRow DEF Settle, States
  <1>4. receipt'[o].state = s /\ receipt'[o].choice = "none"
    BY <1>1, <1>2, <1>3, RowEdit DEF TypeOK
  <1>5. receipt[o] # Absent /\ receipt'[o] # Absent
    BY <1>2, <1>4 DEF Absent, States
  <1> QED
    BY <1>1, <1>2, <1>3, <1>4, <1>5 DEF Owed, Settle, TypeOK

LEMMA EndPaid ==
  ASSUME IInv, NEW c \in Calls, Succeed(c) \/ Refuse(c) \/ LoseReply(c)
  PROVE  Paid'
  <1>1. TypeOK /\ Core /\ Live(c) /\ job' = job
    BY DEF IInv, Core, TypeInv, Succeed, Refuse, LoseReply, Live, Settle
  <1>2. PICK o \in Ids : o = job[c].id
    BY <1>1, SlotType
  <1>3. CASE Refuse(c)
    <2>1. Settle(c, "failed", "not_executed")
      BY <1>3 DEF Refuse
    <2>2. Owed(o) = 1 /\ Owed(o)' = 0 /\ retries' = retries
            /\ \A x \in Ids \ {o} : receipt'[x] = receipt[x]
      BY <1>1, <1>2, <2>1, SettledRow DEF States, Answers, Owed
    <2>3. /\ effects' = effects /\ limbo'[o] = limbo[o] - 1
          /\ \A x \in Ids \ {o} : limbo'[x] = limbo[x]
      BY <1>1, <1>2, <1>3 DEF Refuse, TypeOK
    <2> QED
      BY <1>1, <2>2, <2>3, Numbers, PaidElsewhere DEF IInv, Paid
  <1>4. CASE Succeed(c) \/ LoseReply(c)
    <2>1. PICK s \in {"done", "uncertain"}, a \in Answers : Settle(c, s, a)
      BY <1>4 DEF Succeed, LoseReply, Answers
    <2>2. Owed(o) = 1 /\ Owed(o)' = 1 /\ retries' = retries
            /\ \A x \in Ids \ {o} : receipt'[x] = receipt[x]
      BY <1>1, <1>2, <2>1, SettledRow DEF States, Owed
    <2>3. effects' = effects /\ limbo' = limbo
      BY <1>4 DEF Succeed, LoseReply
    <2> QED
      BY <1>1, <2>2, <2>3, Numbers, PaidElsewhere DEF IInv, Paid
  <1> QED
    BY <1>3, <1>4

LEMMA EffectPaid ==
  ASSUME IInv, NEW o \in Ids,
         effects' = [effects EXCEPT ![o] = @ + 1],
         limbo' = [limbo EXCEPT ![o] = @ - 1],
         UNCHANGED <<receipt, retries>>
  PROVE  Paid'
  <1>1. TypeOK
    BY DEF IInv, Core, TypeInv
  <1>2. Owed(o)' = Owed(o)
    BY DEF Owed
  <1>3. effects'[o] + limbo'[o] = effects[o] + limbo[o]
    BY <1>1, Numbers DEF TypeOK
  <1>4. \A x \in Ids \ {o} : effects'[x] = effects[x] /\ limbo'[x] = limbo[x]
    BY <1>1 DEF TypeOK
  <1> QED
    BY <1>2, <1>3, <1>4, PaidElsewhere DEF IInv, Paid

LEMMA ResolvePaid ==
  ASSUME IInv, NEW o \in Ids, NEW choice \in Choices, Resolve(o, choice)
  PROVE  Paid'
  <1>1. TypeOK
    BY DEF IInv, Core, TypeInv
  <1>2. /\ receipt[o] \in Receipts
        /\ receipt' = [receipt EXCEPT ![o] =
                         [receipt[o] EXCEPT !.choice = choice]]
    BY ResolveCore DEF IInv
  <1>3. /\ receipt'[o].choice = choice /\ receipt'[o].state = receipt[o].state
        /\ receipt'[o] # Absent
    BY <1>1, <1>2, RowEdit, RowOf DEF TypeOK
  <1>4. Owed(o) = 1
    BY DEF Resolve, Owed
  <1>5. Owed(o)' = IF choice = "retry" THEN 0 ELSE 1
    BY <1>3 DEF Owed, Resolve
  <1>6. /\ retries'[o] = IF choice = "retry" THEN retries[o] + 1 ELSE retries[o]
        /\ \A x \in Ids \ {o} : retries'[x] = retries[x]
        /\ effects' = effects /\ limbo' = limbo
    BY <1>1 DEF Resolve, TypeOK, world
  <1>7. \A x \in Ids \ {o} : receipt'[x] = receipt[x]
    BY <1>1, <1>2 DEF TypeOK
  <1>8. effects[o] + limbo[o] <= retries[o] + 1
    BY <1>4 DEF IInv, Paid
  <1> QED
    BY <1>1, <1>5, <1>6, <1>7, <1>8, Numbers, PaidElsewhere DEF IInv

LEMMA ResetPaid ==
  ASSUME IInv, NEW o \in Ids, ResetFailed(o)
  PROVE  Paid'
  <1>1. TypeOK
    BY DEF IInv, Core, TypeInv
  <1>2. Owed(o) = 0
    BY DEF ResetFailed, Owed
  <1>3. Owed(o)' = 0
    BY <1>1 DEF ResetFailed, Owed, TypeOK
  <1>4. /\ effects' = effects /\ limbo' = limbo /\ retries' = retries
        /\ \A x \in Ids \ {o} : receipt'[x] = receipt[x]
    BY <1>1 DEF ResetFailed, TypeOK, world
  <1> QED
    BY <1>2, <1>3, <1>4, PaidElsewhere DEF IInv, Paid

LEMMA PaidNext == IInv /\ [Next]_vars => Paid'
  <1> SUFFICES ASSUME IInv, [Next]_vars PROVE Paid'
    OBVIOUS
  <1>1. ASSUME NEW c \in Calls, NEW i \in Instances, NEW o \in Ids,
               NEW p \in Params, Submit(c, i, o, p)
        PROVE  Paid'
    BY <1>1, PaidSame DEF IInv, Submit
  <1>2. ASSUME NEW c \in Calls, CallStep(c)
        PROVE  Paid'
    <2>1. CASE Replay(c)
      BY <2>1, PaidSame DEF IInv, Replay
    <2>2. CASE Land(c)
      BY <2>2, SlotType, EffectPaid DEF IInv, Core, TypeInv, Land, store
    <2>3. CASE Start(c)
      <3>1. job[c].id \in Ids
        BY SlotType DEF IInv, Core, TypeInv
      <3> QED
        BY <2>3, <3>1, StartPaid
    <2> QED
      BY <1>2, <2>1, <2>2, <2>3, GatePaid, EndPaid DEF CallStep
  <1>3. ASSUME NEW o \in Ids, NEW choice \in Choices, Resolve(o, choice)
        PROVE  Paid'
    BY <1>3, ResolvePaid
  <1>4. ASSUME NEW o \in Ids, ResetFailed(o)
        PROVE  Paid'
    BY <1>4, ResetPaid
  <1>5. ASSUME NEW o \in Ids, LandLate(o)
        PROVE  Paid'
    BY <1>5, EffectPaid DEF LandLate, store
  <1>6. ASSUME NEW i \in Instances, Stop(i)
        PROVE  Paid'
    BY <1>6, PaidSame DEF IInv, Stop, world
  <1>7. CASE Crash
    BY <1>7, PaidSame DEF IInv, Crash, store, world
  <1>8. CASE UNCHANGED vars
    BY <1>8, PaidSame DEF IInv, vars
  <1> QED
    BY <1>1, <1>2, <1>3, <1>4, <1>5, <1>6, <1>7, <1>8 DEF Next

LEMMA IInvInit == Init => IInv
  BY CoreInit DEF Init, IInv, Paid, Owed

LEMMA IInvAlways == Spec => []IInv
  <1>1. IInv /\ [Next]_vars => IInv'
    BY CoreNext, PaidNext DEF IInv
  <1> QED
    BY <1>1, IInvInit, PTL DEF Spec

(* Whatever crashes, lost replies, late effects and deleted receipts do,   *)
(* an id changes the outside world at most once plus once per decision to  *)
(* retry it.                                                               *)
THEOREM EffectsArePaidFor == Spec => []NoBlindReplay
  <1>1. IInv => NoBlindReplay
    <2> SUFFICES ASSUME IInv, NEW o \in Ids
                 PROVE  effects[o] + limbo[o] <= 1 + retries[o]
      BY DEF NoBlindReplay
    <2>1. effects[o] \in Nat /\ limbo[o] \in Nat /\ retries[o] \in Nat
      BY Numbers DEF IInv, Core, TypeInv
    <2>2. Owed(o) \in {0, 1} /\ effects[o] + limbo[o] <= retries[o] + Owed(o)
      BY DEF IInv, Paid, Owed
    <2> QED
      BY <2>1, <2>2
  <1> QED
    BY <1>1, IInvAlways, PTL

(***************************************************************************)
(* The receipts implement the ledger                                       *)
(***************************************************************************)
Permit == [o \in Ids |-> 1 + retries[o] - effects[o] - limbo[o]]

(* The account of one id moves, the others stay.                           *)
LEMMA PermitMove ==
  ASSUME NEW o \in Ids, NEW v,
         \A x \in Ids \ {o} : /\ effects'[x] = effects[x]
                              /\ limbo'[x] = limbo[x]
                              /\ retries'[x] = retries[x],
         1 + retries'[o] - effects'[o] - limbo'[o] = v
  PROVE  Permit' = [Permit EXCEPT ![o] = v]
  <1>1. \A x \in Ids : Permit'[x] = IF x = o THEN v ELSE Permit[x]
    BY DEF Permit
  <1>2. Permit' = [x \in Ids |-> IF x = o THEN v ELSE Permit[x]]
    BY <1>1 DEF Permit
  <1> QED
    BY <1>2 DEF Permit

LEMMA LedgerStutter ==
  ASSUME UNCHANGED <<effects, limbo, retries>>
  PROVE  UNCHANGED Ledger!ledger
  BY DEF Ledger!ledger

LEMMA LedgerSpend ==
  ASSUME IInv, NEW c \in Calls, Start(c)
  PROVE  \E o \in Ids : Ledger!Spend(o)
  <1>1. TypeOK
    BY DEF IInv, Core, TypeInv
  <1>2. PICK o \in Ids : o = job[c].id
    BY <1>1, SlotType
  <1>3. effects[o] + limbo[o] <= retries[o]
    BY <1>2, StartPaid
  <1>4. Permit[o] > 0
    BY <1>1, <1>3, Numbers DEF Permit
  <1>5. /\ limbo' = [limbo EXCEPT ![o] = @ + 1]
        /\ effects' = effects /\ retries' = retries
    BY <1>2 DEF Start
  <1>6. Permit' = [Permit EXCEPT ![o] = @ - 1]
    <2>1. 1 + retries'[o] - effects'[o] - limbo'[o] = Permit[o] - 1
      BY <1>1, <1>5, Numbers DEF Permit, TypeOK
    <2> QED
      BY <1>1, <1>5, <2>1, PermitMove DEF TypeOK
  <1> QED
    BY <1>4, <1>5, <1>6 DEF Ledger!Spend, Permit

LEMMA LedgerRefund ==
  ASSUME IInv, NEW c \in Calls, Refuse(c)
  PROVE  \E o \in Ids : Ledger!Refund(o)
  <1>1. TypeOK
    BY DEF IInv, Core, TypeInv
  <1>2. PICK o \in Ids : o = job[c].id
    BY <1>1, SlotType
  <1>3. limbo[o] > 0
    BY <1>2 DEF Refuse, IInv, Core, Travelling
  <1>4. /\ limbo' = [limbo EXCEPT ![o] = @ - 1]
        /\ effects' = effects /\ retries' = retries
    BY <1>2 DEF Refuse, Settle
  <1>5. Permit' = [Permit EXCEPT ![o] = @ + 1]
    <2>1. 1 + retries'[o] - effects'[o] - limbo'[o] = Permit[o] + 1
      BY <1>1, <1>4, Numbers DEF Permit, TypeOK
    <2> QED
      BY <1>1, <1>4, <2>1, PermitMove DEF TypeOK
  <1> QED
    BY <1>3, <1>4, <1>5 DEF Ledger!Refund, Permit

LEMMA LedgerApply ==
  ASSUME IInv, NEW o \in Ids, limbo[o] > 0,
         effects' = [effects EXCEPT ![o] = @ + 1],
         limbo' = [limbo EXCEPT ![o] = @ - 1],
         UNCHANGED retries
  PROVE  Ledger!Apply(o)
  <1>1. TypeOK
    BY DEF IInv, Core, TypeInv
  <1>2. Permit' = Permit
    BY <1>1, Numbers DEF Permit, TypeOK
  <1> QED
    BY <1>2 DEF Ledger!Apply, Permit

LEMMA LedgerGrant ==
  ASSUME IInv, NEW o \in Ids, Resolve(o, "retry")
  PROVE  Ledger!Grant(o)
  <1>1. TypeOK
    BY DEF IInv, Core, TypeInv
  <1>2. /\ retries' = [retries EXCEPT ![o] = @ + 1]
        /\ effects' = effects /\ limbo' = limbo
    BY DEF Resolve, world
  <1>3. Permit' = [Permit EXCEPT ![o] = @ + 1]
    <2>1. 1 + retries'[o] - effects'[o] - limbo'[o] = Permit[o] + 1
      BY <1>1, <1>2, Numbers DEF Permit, TypeOK
    <2> QED
      BY <1>1, <1>2, <2>1, PermitMove DEF TypeOK
  <1> QED
    BY <1>2, <1>3 DEF Ledger!Grant, Permit

LEMMA LedgerStep ==
  ASSUME IInv, [Next]_vars
  PROVE  [Ledger!LedgerNext]_(Ledger!ledger)
  <1> USE DEF Ledger!LedgerNext
  <1>1. ASSUME NEW c \in Calls, NEW i \in Instances, NEW o \in Ids,
               NEW p \in Params, Submit(c, i, o, p)
        PROVE  UNCHANGED Ledger!ledger
    BY <1>1, LedgerStutter DEF Submit
  <1>2. ASSUME NEW c \in Calls, Replay(c) \/ Gate(c) \/ Succeed(c) \/ LoseReply(c)
        PROVE  UNCHANGED Ledger!ledger
    BY <1>2, LedgerStutter DEF Replay, Gate, Succeed, LoseReply, Settle
  <1>3. ASSUME NEW c \in Calls, Start(c)
        PROVE  Ledger!LedgerNext
    BY <1>3, LedgerSpend
  <1>4. ASSUME NEW c \in Calls, Refuse(c)
        PROVE  Ledger!LedgerNext
    BY <1>4, LedgerRefund
  <1>5. ASSUME NEW c \in Calls, Land(c)
        PROVE  Ledger!LedgerNext
    <2>1. PICK o \in Ids : o = job[c].id
      BY SlotType DEF IInv, Core, TypeInv
    <2>2. limbo[o] > 0
      BY <1>5, <2>1 DEF Land, IInv, Core, Travelling
    <2> QED
      BY <1>5, <2>1, <2>2, LedgerApply DEF Land, store
  <1>6. ASSUME NEW o \in Ids, LandLate(o)
        PROVE  Ledger!LedgerNext
    <2>1. limbo[o] > 0
      BY <1>6, Numbers DEF LandLate, IInv, Core, TypeInv
    <2> QED
      BY <1>6, <2>1, LedgerApply DEF LandLate, store
  <1>7. ASSUME NEW o \in Ids, NEW choice \in Choices, Resolve(o, choice)
        PROVE  Ledger!LedgerNext \/ UNCHANGED Ledger!ledger
    <2>1. CASE choice = "retry"
      BY <1>7, <2>1, LedgerGrant
    <2>2. CASE choice # "retry"
      BY <1>7, <2>2, LedgerStutter DEF Resolve, world
    <2> QED
      BY <2>1, <2>2
  <1>8. ASSUME NEW o \in Ids, ResetFailed(o)
        PROVE  UNCHANGED Ledger!ledger
    BY <1>8, LedgerStutter DEF ResetFailed, world
  <1>9. ASSUME NEW i \in Instances, Stop(i)
        PROVE  UNCHANGED Ledger!ledger
    BY <1>9, LedgerStutter DEF Stop, world
  <1>10. ASSUME Crash \/ UNCHANGED vars
         PROVE  UNCHANGED Ledger!ledger
    BY <1>10, LedgerStutter DEF Crash, store, world, vars
  <1> QED
    BY <1>1, <1>2, <1>3, <1>4, <1>5, <1>6, <1>7, <1>8, <1>9, <1>10
    DEF Next, CallStep

LEMMA LedgerStart == Init => Ledger!LedgerInit
  BY DEF Init, Ledger!LedgerInit

(* Seen from outside, the receipts are a ledger: requests leave only on a  *)
(* permit, and permits come from the first attempt, from proven refusals   *)
(* and from decisions to retry.                                            *)
THEOREM ReceiptsImplementLedger == Spec => ImplementsLedger
  <1>1. IInv /\ [Next]_vars => [Ledger!LedgerNext]_(Ledger!ledger)
    BY LedgerStep
  <1> QED
    BY <1>1, LedgerStart, IInvAlways, PTL
    DEF Spec, ImplementsLedger, Ledger!LedgerSpec

(***************************************************************************)
(* What a row remembers                                                    *)
(***************************************************************************)

(* While nobody deletes the row of an id, its one retry is still on record:*)
(* as the decision on the present row or in the history behind it.         *)
Remembered(o) ==
  \/ retries[o] = 0
  \/ /\ retries[o] = 1
     /\ receipt[o] # Absent
     /\ receipt[o].choice = "retry" \/ RetriedBefore(receipt[o])

Kept == \A o \in Ids \ Resettable : Remembered(o)

LEMMA ArchiveRemembers ==
  ASSUME NEW r \in Receipts, r.choice = "retry" \/ RetriedBefore(r)
  PROVE  \E k \in 1..Len(Archive(r)) : Archive(r)[k].choice = "retry"
  <1> DEFINE e == [state |-> r.state, choice |-> r.choice]
  <1>1. r # Absent
    BY RowOf
  <1>2. Archive(r) = Append(r.history, e)
    BY <1>1 DEF Archive
  <1>3. r.history \in Seq(Attempts) /\ e \in Attempts
    BY DEF Receipts, Attempts
  <1>4. Len(Archive(r)) = Len(r.history) + 1 /\ Len(r.history) \in Nat
    BY <1>2, <1>3
  <1>5. CASE r.choice = "retry"
    <2>1. Archive(r)[Len(r.history) + 1] = e
      BY <1>2, <1>3
    <2>2. Len(r.history) + 1 \in 1..Len(Archive(r)) /\ e.choice = "retry"
      BY <1>4, <1>5
    <2> QED
      BY <2>1, <2>2
  <1>6. CASE RetriedBefore(r)
    <2>1. PICK k \in 1..Len(r.history) : r.history[k].choice = "retry"
      BY <1>6 DEF RetriedBefore
    <2>2. Archive(r)[k] = r.history[k] /\ k \in 1..Len(Archive(r))
      BY <1>2, <1>3, <1>4, <2>1
    <2> QED
      BY <2>1, <2>2
  <1> QED
    BY <1>5, <1>6

LEMMA KeptWrite ==
  ASSUME Core, Kept, NEW c \in Calls, NEW s \in States,
         Recorded(c) = "none",
         receipt' = [receipt EXCEPT ![job[c].id] = Fresh(c, s)],
         retries' = retries
  PROVE  Kept'
  <1>1. TypeOK
    BY DEF Core, TypeInv
  <1>2. PICK o \in Ids : o = job[c].id
    BY <1>1, SlotType
  <1>3. /\ receipt'[o] = Fresh(c, s)
        /\ Fresh(c, s) \in Receipts
        /\ Fresh(c, s).history = Archive(receipt[o])
    BY <1>1, <1>2, FreshRow DEF TypeOK, Row
  <1>4. \A x \in Ids \ {o} : receipt'[x] = receipt[x]
    BY <1>1, <1>2 DEF TypeOK
  <1>5. ASSUME o \notin Resettable
        PROVE  Remembered(o)'
    <2>1. CASE retries[o] = 0
      BY <2>1 DEF Remembered
    <2>2. CASE retries[o] # 0
      <3>1. /\ retries[o] = 1 /\ receipt[o] \in Receipts
            /\ receipt[o].choice = "retry" \/ RetriedBefore(receipt[o])
        BY <1>1, <1>5, <2>2, RowOf DEF Kept, Remembered, TypeOK
      <3>2. RetriedBefore(Fresh(c, s))
        BY <1>3, <3>1, ArchiveRemembers DEF RetriedBefore
      <3>3. Fresh(c, s) # Absent
        BY <1>3, RowOf
      <3> QED
        BY <1>3, <3>1, <3>2, <3>3 DEF Remembered
    <2> QED
      BY <2>1, <2>2
  <1>6. \A x \in Ids \ {o} : Remembered(x) => Remembered(x)'
    BY <1>4 DEF Remembered, RetriedBefore
  <1> QED
    BY <1>5, <1>6 DEF Kept

LEMMA KeptSettle ==
  ASSUME Core, Kept, NEW c \in Calls, Live(c), NEW s \in States,
         NEW a \in Answers, Settle(c, s, a)
  PROVE  Kept'
  <1>1. TypeOK
    BY DEF Core, TypeInv
  <1>2. PICK o \in Ids : o = job[c].id
    BY <1>1, SlotType
  <1>3. /\ receipt[o] \in Receipts
        /\ receipt' = [receipt EXCEPT ![o] = [receipt[o] EXCEPT !.state = s]]
    BY <1>1, <1>2, RunningRow DEF Core, Running, Settle, States
  <1>4. /\ receipt'[o] \in Receipts
        /\ receipt'[o].choice = receipt[o].choice
        /\ receipt'[o].history = receipt[o].history
    BY <1>1, <1>3, RowEdit DEF TypeOK
  <1>5. receipt'[o] # Absent
    BY <1>4, RowOf
  <1>6. \A x \in Ids \ {o} : receipt'[x] = receipt[x]
    BY <1>1, <1>3 DEF TypeOK
  <1>7. retries' = retries
    BY DEF Settle
  <1> QED
    BY <1>4, <1>5, <1>6, <1>7 DEF Kept, Remembered, RetriedBefore

LEMMA KeptResolve ==
  ASSUME Core, Kept, NEW o \in Ids, NEW choice \in Choices, Resolve(o, choice)
  PROVE  Kept'
  <1>1. TypeOK
    BY DEF Core, TypeInv
  <1>2. /\ receipt[o] \in Receipts
        /\ receipt' = [receipt EXCEPT ![o] =
                         [receipt[o] EXCEPT !.choice = choice]]
    BY ResolveCore
  <1>3. /\ receipt'[o].choice = choice
        /\ receipt'[o].history = receipt[o].history
        /\ receipt'[o] # Absent
    BY <1>1, <1>2, RowEdit, RowOf DEF TypeOK
  <1>4. \A x \in Ids \ {o} :
           receipt'[x] = receipt[x] /\ retries'[x] = retries[x]
    BY <1>1, <1>2 DEF TypeOK, Resolve
  <1>5. receipt[o].choice = "none"
    BY DEF Resolve
  <1>6. ASSUME o \notin Resettable
        PROVE  Remembered(o)'
    <2>1. CASE choice = "retry"
      <3>1. ~RetriedBefore(receipt[o]) /\ retries'[o] = retries[o] + 1
        BY <1>1, <2>1 DEF Resolve, TypeOK
      <3>2. retries[o] = 0
        BY <1>5, <1>6, <3>1 DEF Kept, Remembered
      <3> QED
        BY <1>3, <2>1, <3>1, <3>2 DEF Remembered
    <2>2. CASE choice # "retry"
      <3>1. retries'[o] = retries[o]
        BY <2>2 DEF Resolve
      <3> QED
        BY <1>3, <1>5, <1>6, <3>1 DEF Kept, Remembered, RetriedBefore
    <2> QED
      BY <2>1, <2>2
  <1> QED
    BY <1>4, <1>6 DEF Kept, Remembered, RetriedBefore

LEMMA KeptSame ==
  ASSUME Kept, UNCHANGED <<receipt, retries>>
  PROVE  Kept'
  BY DEF Kept, Remembered, RetriedBefore

LEMMA KeptNext == Core /\ Kept /\ [Next]_vars => Kept'
  <1> SUFFICES ASSUME Core, Kept, [Next]_vars PROVE Kept'
    OBVIOUS
  <1>1. ASSUME NEW c \in Calls, NEW i \in Instances, NEW o \in Ids,
               NEW p \in Params, Submit(c, i, o, p)
        PROVE  Kept'
    BY <1>1, KeptSame DEF Submit
  <1>2. ASSUME NEW c \in Calls, Replay(c) \/ Land(c)
        PROVE  Kept'
    BY <1>2, KeptSame DEF Replay, Land, store
  <1>3. ASSUME NEW c \in Calls, Start(c) \/ Gate(c)
        PROVE  Kept'
    BY <1>3, KeptWrite DEF Start, Gate, States
  <1>4. ASSUME NEW c \in Calls, Succeed(c) \/ Refuse(c) \/ LoseReply(c)
        PROVE  Kept'
    <2>1. Live(c) /\ \E s \in States, a \in Answers : Settle(c, s, a)
      BY <1>4 DEF Succeed, Refuse, LoseReply, Live, States, Answers
    <2> QED
      BY <2>1, KeptSettle
  <1>5. ASSUME NEW o \in Ids, NEW choice \in Choices, Resolve(o, choice)
        PROVE  Kept'
    BY <1>5, KeptResolve
  <1>6. ASSUME NEW o \in Ids, ResetFailed(o)
        PROVE  Kept'
    BY <1>6 DEF ResetFailed, Kept, Remembered, RetriedBefore, Core, TypeInv,
       TypeOK
  <1>7. ASSUME NEW o \in Ids, LandLate(o)
        PROVE  Kept'
    BY <1>7, KeptSame DEF LandLate, store
  <1>8. ASSUME NEW i \in Instances, Stop(i)
        PROVE  Kept'
    BY <1>8, KeptSame DEF Stop
  <1>9. CASE Crash \/ UNCHANGED vars
    BY <1>9, KeptSame DEF Crash, store, vars
  <1> QED
    BY <1>1, <1>2, <1>3, <1>4, <1>5, <1>6, <1>7, <1>8, <1>9 DEF Next, CallStep

(* An id whose refused receipts are kept is retried at most once in its    *)
(* whole life, restarts included.                                          *)
THEOREM OneRetryWhileKept == Spec => []RetryOnceWhileKept
  <1>1. Init => Kept
    BY DEF Init, Kept, Remembered
  <1>2. Kept => RetryOnceWhileKept
    <2>1. ASSUME Kept, NEW o \in Ids \ Resettable
          PROVE  retries[o] \in {0, 1}
      BY <2>1 DEF Kept, Remembered
    <2>2. \A n \in {0, 1} : n <= 1
      OBVIOUS
    <2> QED
      BY <2>1, <2>2 DEF RetryOnceWhileKept
  <1> QED
    BY <1>1, <1>2, KeptNext, CoreAlways, PTL DEF Spec

(***************************************************************************)
(* What a step may never do                                                *)
(***************************************************************************)

(* The only rows that steps of run() replace are absent or decided to be   *)
(* retried, and the only ones they settle are pending and undecided.       *)
LEMMA WriteSpares ==
  ASSUME Core, NEW c \in Calls, CallStep(c), NEW o \in Ids,
         receipt'[o] # receipt[o]
  PROVE  \/ receipt[o] = Absent
         \/ receipt[o].choice = "retry"
         \/ o \in active /\ receipt[o].state = "pending"
                         /\ receipt[o].choice = "none"
  <1>1. TypeOK
    BY DEF Core, TypeInv
  <1>2. CASE Replay(c) \/ Land(c)
    BY <1>2 DEF Replay, Land, store
  <1>3. CASE Start(c) \/ Gate(c)
    <2>1. o = job[c].id
      BY <1>1, <1>3 DEF Start, Gate, TypeOK
    <2> QED
      BY <1>3, <2>1, Admitted DEF Start, Gate, Row
  <1>4. CASE Succeed(c) \/ Refuse(c) \/ LoseReply(c)
    <2>1. Live(c)
      BY <1>4 DEF Succeed, Refuse, LoseReply, Live
    <2>2. o = job[c].id
      BY <1>1, <1>4 DEF Succeed, Refuse, LoseReply, Settle, TypeOK
    <2> QED
      BY <2>1, <2>2 DEF Core, Running
  <1> QED
    BY <1>2, <1>3, <1>4 DEF CallStep

(* A settled row carries no decision: only an unknown one can be decided,  *)
(* and the attempt that a decision allows gets a row of its own.           *)
SettledUndecided ==
  \A o \in Ids : receipt[o].state \in {"done", "failed"} =>
                    receipt[o].choice = "none"

LEMMA SettledNext == Core /\ SettledUndecided /\ [Next]_vars => SettledUndecided'
  <1> SUFFICES ASSUME Core, SettledUndecided, [Next]_vars, NEW o \in Ids,
                      receipt'[o] # receipt[o],
                      receipt'[o].state \in {"done", "failed"}
               PROVE  receipt'[o].choice = "none"
    BY DEF SettledUndecided
  <1>1. TypeOK
    BY DEF Core, TypeInv
  <1>2. ASSUME NEW c \in Calls, CallStep(c)
        PROVE  receipt'[o].choice = "none"
    <2>1. CASE Replay(c) \/ Land(c)
      BY <2>1 DEF Replay, Land, store
    <2>2. CASE Start(c) \/ Gate(c)
      <3>1. PICK s \in States :
               receipt' = [receipt EXCEPT ![job[c].id] = Fresh(c, s)]
        BY <2>2 DEF Start, Gate, States
      <3>2. receipt'[o] = Fresh(c, s)
        BY <1>1, <3>1 DEF TypeOK
      <3> QED
        BY <1>1, <3>2, FreshRow
    <2>3. CASE Succeed(c) \/ Refuse(c) \/ LoseReply(c)
      <3>1. PICK s \in States, a \in Answers : Live(c) /\ Settle(c, s, a)
        BY <2>3 DEF Succeed, Refuse, LoseReply, Live, States, Answers
      <3>2. /\ receipt[job[c].id].state \in States
            /\ receipt[job[c].id].choice = "none" /\ job[c].id \in Ids
        BY <1>1, <3>1, SlotType DEF Core, Running, States
      <3>3. /\ receipt[job[c].id] \in Receipts
            /\ receipt' = [receipt EXCEPT ![job[c].id] =
                             [receipt[job[c].id] EXCEPT !.state = s]]
        BY <1>1, <3>1, <3>2, RunningRow DEF Settle
      <3>4. o = job[c].id /\ receipt'[o] = [receipt[o] EXCEPT !.state = s]
        BY <1>1, <3>2, <3>3 DEF TypeOK
      <3> QED
        BY <3>2, <3>3, <3>4, RowEdit
    <2> QED
      BY <1>2, <2>1, <2>2, <2>3 DEF CallStep
  <1>3. ASSUME NEW x \in Ids, NEW choice \in Choices, Resolve(x, choice)
        PROVE  FALSE
    <2>1. x = o
      BY <1>1, <1>3 DEF Resolve, TypeOK
    <2>2. /\ receipt[x] \in Receipts
          /\ receipt' = [receipt EXCEPT ![x] =
                           [receipt[x] EXCEPT !.choice = choice]]
      BY <1>3, ResolveCore
    <2>3. receipt'[o].state = receipt[o].state
      BY <1>1, <2>1, <2>2, RowEdit DEF TypeOK
    <2> QED
      BY <1>3, <2>1, <2>3 DEF Resolve
  <1>4. ASSUME NEW x \in Ids, ResetFailed(x)
        PROVE  FALSE
    <2>1. receipt'[o] = Absent
      BY <1>1, <1>4 DEF ResetFailed, TypeOK
    <2> QED
      BY <2>1 DEF Absent
  <1> QED
    BY <1>2, <1>3, <1>4 DEF Next, Submit, Stop, LandLate, Crash, store, vars

LEMMA SettledAlways == Spec => []SettledUndecided
  <1>1. Init => SettledUndecided
    BY DEF Init, SettledUndecided, Absent
  <1> QED
    BY <1>1, SettledNext, CoreAlways, PTL DEF Spec

LEMMA FinalStep ==
  ASSUME Core, SettledUndecided, [Next]_vars, NEW o \in Ids, Final(receipt[o])
  PROVE  receipt'[o] = receipt[o]
  <1> SUFFICES ASSUME receipt'[o] # receipt[o] PROVE FALSE
    OBVIOUS
  <1>1. TypeOK
    BY DEF Core, TypeInv
  <1>2. /\ receipt[o] # Absent
        /\ receipt[o].choice # "retry"
        /\ receipt[o].state = "done" \/ receipt[o].choice # "none"
        /\ receipt[o].state # "failed"
    BY DEF Final, SettledUndecided
  <1>3. ASSUME NEW c \in Calls, CallStep(c)
        PROVE  FALSE
    BY <1>2, <1>3, WriteSpares
  <1>4. ASSUME NEW x \in Ids, NEW choice \in Choices, Resolve(x, choice)
        PROVE  FALSE
    <2>1. x = o
      BY <1>1, <1>4 DEF Resolve, TypeOK
    <2> QED
      BY <1>2, <1>4, <2>1 DEF Resolve
  <1>5. ASSUME NEW x \in Ids, ResetFailed(x)
        PROVE  FALSE
    BY <1>1, <1>2, <1>5 DEF ResetFailed, TypeOK
  <1> QED
    BY <1>3, <1>4, <1>5 DEF Next, Submit, Stop, LandLate, Crash, store, vars

(* A done row and a row decided as done or abandoned are never touched     *)
(* again, by run(), by another decision or by a reset.                     *)
THEOREM FinalRowsStay == Spec => FinalStays
  <1>1. Core /\ SettledUndecided /\ [Next]_vars
          => [\A o \in Ids : Final(receipt[o]) => receipt'[o] = receipt[o]]_vars
    BY FinalStep
  <1> QED
    BY <1>1, CoreAlways, SettledAlways, PTL DEF Spec, FinalStays

(* A row of unknown outcome that nobody is working on is changed by        *)
(* nothing but one decision, and a decision keeps the row.                 *)
LEMMA UnknownStep ==
  ASSUME Core, [Next]_vars, NEW o \in Ids, Unknown(o)
  PROVE  receipt'[o] \in {receipt[o]} \cup
            {[receipt[o] EXCEPT !.choice = choice] : choice \in Choices}
  <1> SUFFICES ASSUME receipt'[o] # receipt[o]
               PROVE  \E choice \in Choices :
                         receipt'[o] = [receipt[o] EXCEPT !.choice = choice]
    OBVIOUS
  <1>1. TypeOK
    BY DEF Core, TypeInv
  <1>2. ASSUME NEW c \in Calls, CallStep(c)
        PROVE  FALSE
    BY <1>2, WriteSpares DEF Unknown
  <1>3. ASSUME NEW x \in Ids, NEW choice \in Choices, Resolve(x, choice)
        PROVE  receipt'[o] = [receipt[o] EXCEPT !.choice = choice]
    BY <1>1, <1>3, ResolveCore DEF Resolve, TypeOK
  <1>4. ASSUME NEW x \in Ids, ResetFailed(x)
        PROVE  FALSE
    BY <1>1, <1>4 DEF ResetFailed, TypeOK, Unknown
  <1> QED
    BY <1>2, <1>3, <1>4 DEF Next, Submit, Stop, LandLate, Crash, store, vars

THEOREM UnknownRowsNeedDecision == Spec => UnknownNeedsDecision
  <1>1. Core /\ [Next]_vars
          => [\A o \in Ids : Unknown(o) =>
                receipt'[o] \in {receipt[o]} \cup
                   {[receipt[o] EXCEPT !.choice = choice] :
                       choice \in Choices}]_vars
    BY UnknownStep
  <1> QED
    BY <1>1, CoreAlways, PTL DEF Spec, UnknownNeedsDecision

(* No queued call of a stopped task instance becomes a running one.        *)
THEOREM ShutdownGatesEffects == Spec => StopGatesEffects
  <1>1. ASSUME Core, [Next]_vars, NEW c \in Calls, ~Live(c), Live(c)'
        PROVE  job'[c].inst \notin stopped
    <2>1. TypeOK
      BY <1>1 DEF Core, TypeInv
    <2>2. pc'[c] # pc[c] /\ pc'[c] \in {Performing, Applied}
      BY <1>1 DEF Live
    <2>3. ASSUME NEW d \in Calls, CallStep(d)
          PROVE  Start(d) /\ d = c
      <3>1. d = c
        BY <2>1, <2>2, <2>3
        DEF CallStep, Replay, Start, Gate, Land, Succeed, Refuse, LoseReply,
            Settle, Leave, TypeOK
      <3>2. ~Replay(d) /\ ~Gate(d)
        BY <2>1, <2>2, <3>1
        DEF Replay, Gate, Leave, TypeOK, Performing, Applied
      <3>3. ~Land(d) /\ ~Succeed(d) /\ ~Refuse(d) /\ ~LoseReply(d)
        BY <1>1, <3>1 DEF Land, Succeed, Refuse, LoseReply, Live
      <3> QED
        BY <2>3, <3>1, <3>2, <3>3 DEF CallStep
    <2>4. ASSUME NEW d \in Calls, NEW i \in Instances, NEW o \in Ids,
                 NEW p \in Params, Submit(d, i, o, p)
          PROVE  FALSE
      BY <2>1, <2>2, <2>4 DEF Submit, TypeOK, Waiting, Performing, Applied
    <2>5. ~Crash
      BY <2>2 DEF Crash, Performing, Applied
    <2>6. \E d \in Calls : CallStep(d)
      BY <1>1, <2>2, <2>4, <2>5
      DEF Next, Resolve, ResetFailed, Stop, LandLate, process, vars
    <2> QED
      BY <2>3, <2>6 DEF Start
  <1>2. Core /\ [Next]_vars
          => [\A c \in Calls : ~Live(c) /\ Live(c)' => job'[c].inst \notin stopped]_vars
    BY <1>1
  <1> QED
    BY <1>2, CoreAlways, PTL DEF Spec, StopGatesEffects

(***************************************************************************)
(* Answers                                                                 *)
(***************************************************************************)

(* OkMeansApplied together with what it is read from: the done row, which  *)
(* answers later calls, and the call that has seen its effect happen.      *)
Applies ==
  /\ \A o \in Ids : receipt[o].state = "done" => effects[o] > 0
  /\ \A c \in Calls : pc[c] = Applied => effects[job[c].id] > 0
  /\ OkMeansApplied

LEMMA AppliesNext == Core /\ Applies /\ [Next]_vars => Applies'
  <1> SUFFICES ASSUME Core, Applies, [Next]_vars PROVE Applies'
    OBVIOUS
  <1> USE DEF Applies, OkMeansApplied
  <1>1. TypeOK
    BY DEF Core, TypeInv
  <1>2. \A o \in Ids : effects[o] \in Nat
    BY <1>1, Numbers
  <1>3. \A c \in Calls : job[c].id \in Ids
    BY <1>1, SlotType
  <1>4. ASSUME NEW c \in Calls, NEW i \in Instances, NEW o \in Ids,
               NEW p \in Params, Submit(c, i, o, p)
        PROVE  Applies'
    BY <1>1, <1>4 DEF Submit, TypeOK, Waiting, Applied
  <1>5. ASSUME NEW c \in Calls, Replay(c)
        PROVE  Applies'
    <2>1. Recorded(c) = "ok" => effects[job[c].id] > 0
      BY <1>3 DEF Recorded, Row
    <2> QED
      BY <1>1, <1>5, <2>1 DEF Replay, Leave, TypeOK, Applied
  <1>6. ASSUME NEW c \in Calls, Start(c) \/ Gate(c)
        PROVE  Applies'
    <2>1. PICK s \in {"pending", "failed"} :
             receipt' = [receipt EXCEPT ![job[c].id] = Fresh(c, s)]
      BY <1>6 DEF Start, Gate
    <2>2. Fresh(c, s).state # "done"
      BY <1>1, FreshRow DEF States
    <2>3. \A o \in Ids : receipt'[o].state = "done" => receipt[o].state = "done"
      BY <1>1, <2>1, <2>2 DEF TypeOK
    <2>4. /\ effects' = effects /\ job' = job
          /\ \A d \in Calls : /\ pc'[d] = Applied => pc[d] = Applied
                              /\ answer'[d] = "ok" => answer[d] = "ok"
      BY <1>1, <1>6 DEF Start, Gate, Leave, TypeOK, Performing, Applied
    <2> QED
      BY <2>3, <2>4
  <1>7. ASSUME NEW c \in Calls, Succeed(c) \/ Refuse(c) \/ LoseReply(c)
        PROVE  Applies'
    <2>1. PICK s \in States, a \in Answers :
             /\ Live(c) /\ Settle(c, s, a)
             /\ s = "done" \/ a = "ok" => pc[c] = Applied
      BY <1>7 DEF Succeed, Refuse, LoseReply, Live, States, Answers
    <2>2. receipt' = [receipt EXCEPT ![job[c].id] =
                        [receipt[job[c].id] EXCEPT !.state = s]]
            /\ receipt[job[c].id] \in Receipts
      BY <1>1, <1>3, <2>1, RunningRow DEF Core, Running, Settle, States
    <2>3. [receipt[job[c].id] EXCEPT !.state = s].state = s
      BY <2>2, RowEdit
    <2>4. \A o \in Ids : receipt'[o].state = "done" =>
             receipt[o].state = "done" \/ (o = job[c].id /\ s = "done")
      BY <1>1, <2>2, <2>3 DEF TypeOK
    <2>5. /\ effects' = effects /\ job' = job
          /\ \A d \in Calls : /\ pc'[d] = Applied => pc[d] = Applied
                              /\ answer'[d] = "ok" =>
                                    answer[d] = "ok" \/ (d = c /\ a = "ok")
      BY <1>1, <1>7, <2>1
      DEF Succeed, Refuse, LoseReply, Settle, Leave, TypeOK, Applied
    <2> QED
      BY <2>1, <2>4, <2>5
  <1>8. ASSUME NEW o \in Ids, effects' = [effects EXCEPT ![o] = @ + 1],
               UNCHANGED <<receipt, job, answer>>,
               \A d \in Calls : pc'[d] = Applied =>
                  pc[d] = Applied \/ job[d].id = o
        PROVE  Applies'
    <2>1. effects'[o] > 0 /\ \A x \in Ids \ {o} : effects'[x] = effects[x]
      BY <1>1, <1>2, <1>8 DEF TypeOK
    <2> QED
      BY <1>3, <1>8, <2>1
  <1>9. ASSUME NEW c \in Calls, Land(c)
        PROVE  Applies'
    BY <1>1, <1>3, <1>8, <1>9 DEF Land, store, TypeOK
  <1>10. ASSUME NEW o \in Ids, LandLate(o)
         PROVE  Applies'
    BY <1>8, <1>10 DEF LandLate, process, store
  <1>11. ASSUME NEW o \in Ids, NEW choice \in Choices, Resolve(o, choice)
         PROVE  Applies'
    <2>1. /\ receipt[o] \in Receipts
          /\ receipt' = [receipt EXCEPT ![o] =
                           [receipt[o] EXCEPT !.choice = choice]]
      BY <1>11, ResolveCore
    <2>2. [receipt[o] EXCEPT !.choice = choice].state = receipt[o].state
      BY <2>1, RowEdit
    <2> QED
      BY <1>1, <1>11, <2>1, <2>2 DEF Resolve, process, world, TypeOK
  <1>12. ASSUME NEW o \in Ids, ResetFailed(o)
         PROVE  Applies'
    BY <1>1, <1>12 DEF ResetFailed, process, world, TypeOK, Absent
  <1>13. ASSUME NEW i \in Instances, Stop(i)
         PROVE  Applies'
    BY <1>13 DEF Stop, world
  <1>14. CASE Crash
    BY <1>14 DEF Crash, store, world, Applied
  <1>15. CASE UNCHANGED vars
    BY <1>15 DEF vars
  <1> QED
    BY <1>4, <1>5, <1>6, <1>7, <1>9, <1>10, <1>11, <1>12, <1>13, <1>14, <1>15
    DEF Next, CallStep

(* Nobody is told that an operation succeeded unless its effect happened.  *)
THEOREM OkIsTrue == Spec => []OkMeansApplied
  <1>1. Init => Applies
    BY DEF Init, Applies, OkMeansApplied, Absent, Applied
  <1>2. Applies => OkMeansApplied
    BY DEF Applies
  <1> QED
    BY <1>1, <1>2, AppliesNext, CoreAlways, PTL DEF Spec

(***************************************************************************)
(* The mutex (KeyedMutex).                                                 *)
(*                                                                         *)
(* The chain of a key is its queue: the tail is the last call in it, each  *)
(* waiting call awaits the one in front of it, only the first can run, and *)
(* what the first awaits has resolved.                                     *)
(***************************************************************************)
(* What a call awaits has resolved, where f says where each call stands.   *)
Clear(d, f) == d # None => f[d] = "released"

(* The first n members of q are the calls of key k from the front of its   *)
(* chain to its tail.                                                      *)
Chain(k, q, n, of, at, before, tail) ==
    /\ \A i, j \in 1..n : q[i] = q[j] => i = j
    /\ \A i \in 1..n : of[q[i]] = k /\ at[q[i]] \in {"waiting", "running"}
    /\ \A i \in 1..n : at[q[i]] = "running" => i = 1
    /\ \A i \in 1..n : at[q[i]] = "waiting" /\ i = 1 => Clear(before[q[i]], at)
    /\ \A i \in 1..n : at[q[i]] = "waiting" /\ i # 1 => before[q[i]] = q[i - 1]
    /\ n = 0 => tail = None
    /\ n # 0 => tail = q[n]

Queue(k) == Chain(k, k_order[k], Len(k_order[k]), k_key, k_pc, k_previous, k_tails[k])

InQueue(c) == \E i \in 1..Len(k_order[k_key[c]]) : k_order[k_key[c]][i] = c

MutexInv ==
    /\ K!TypeOK
    /\ \A k \in Keys : Queue(k)
    /\ \A c \in Runs : k_pc[c] \in {"waiting", "running"} => InQueue(c)

LEMMA MutexStart == K!Init => MutexInv
  BY DEF K!Init, MutexInv, K!TypeOK, Queue, Chain, InQueue, Clear

LEMMA QueueOf ==
  ASSUME MutexInv, NEW k \in Keys, NEW q, NEW n, q = k_order[k], n = Len(q)
  PROVE  /\ Chain(k, q, n, k_key, k_pc, k_previous, k_tails[k])
         /\ q \in Seq(Runs) /\ n \in Nat /\ \A i \in 1..n : q[i] \in Runs
  <1>1. Queue(k) /\ q \in Seq(Runs)
    BY DEF MutexInv, K!TypeOK
  <1>2. n \in Nat /\ \A i \in 1..n : q[i] \in Runs
    BY <1>1
  <1> QED
    BY <1>1, <1>2 DEF Queue

LEMMA QueueIs ==
  ASSUME NEW k \in Keys, NEW q, NEW n, q = k_order'[k], n = Len(q),
         Chain(k, q, n, k_key', k_pc', k_previous', k_tails'[k])
  PROVE  Queue(k)'
  BY DEF Queue

LEMMA QueueKept ==
  ASSUME MutexInv, NEW k \in Keys, k_order'[k] = k_order[k], k_tails'[k] = k_tails[k],
         \A i \in 1..Len(k_order[k]) :
            LET d == k_order[k][i]
            IN  /\ k_key'[d] = k_key[d] /\ k_previous'[d] = k_previous[d]
                /\ k_pc'[d] = k_pc[d]
                /\ Clear(k_previous[d], k_pc) => Clear(k_previous[d], k_pc')
  PROVE  Queue(k)'
  <1>1. PICK q, n : q = k_order[k] /\ n = Len(q)
    OBVIOUS
  <1>2. \A i \in 1..n : /\ k_key'[q[i]] = k_key[q[i]] /\ k_previous'[q[i]] = k_previous[q[i]]
                        /\ k_pc'[q[i]] = k_pc[q[i]]
                        /\ Clear(k_previous[q[i]], k_pc) => Clear(k_previous[q[i]], k_pc')
    BY <1>1
  <1>3. Chain(k, q, n, k_key, k_pc, k_previous, k_tails[k])
    BY <1>1, QueueOf
  <1>4. Chain(k, q, n, k_key', k_pc', k_previous', k_tails'[k])
    BY <1>2, <1>3 DEF Chain
  <1> QED
    BY <1>1, <1>4, QueueIs

LEMMA StepRun ==
  ASSUME MutexInv, NEW c \in Runs, NEW k \in Keys, K!Run(c, k)
  PROVE  MutexInv'
  <1>0. PICK q, n, w : q = k_order[k] /\ n = Len(q) /\ w = Append(q, c)
    OBVIOUS
  <1>chain. /\ Chain(k, q, n, k_key, k_pc, k_previous, k_tails[k])
            /\ q \in Seq(Runs) /\ n \in Nat /\ \A i \in 1..n : q[i] \in Runs
    BY <1>0, QueueOf
  <1>1. /\ k_pc[c] = "idle"
        /\ k_order' = [k_order EXCEPT ![k] = w]
        /\ k_pc' = [k_pc EXCEPT ![c] = "waiting"]
        /\ k_key' = [k_key EXCEPT ![c] = k]
        /\ k_previous' = [k_previous EXCEPT ![c] = k_tails[k]]
        /\ k_tails' = [k_tails EXCEPT ![k] = c]
    BY <1>0 DEF K!Run
  <1>2. q \in Seq(Runs) /\ n \in Nat /\ \A i, j \in 1..n : q[i] = q[j] => i = j
    BY <1>0, <1>chain DEF Chain
  <1>3. /\ w \in Seq(Runs) /\ Len(w) = n + 1 /\ w[n + 1] = c
        /\ \A i \in 1..n : w[i] = q[i]
    BY <1>0, <1>2
  <1>4. /\ k_order'[k] = w /\ k_tails'[k] = c /\ k_pc'[c] = "waiting" /\ k_key'[c] = k
        /\ k_previous'[c] = k_tails[k]
        /\ \A l \in Keys : l # k => k_order'[l] = k_order[l] /\ k_tails'[l] = k_tails[l]
        /\ \A d \in Runs : d # c => /\ k_pc'[d] = k_pc[d] /\ k_key'[d] = k_key[d]
                                   /\ k_previous'[d] = k_previous[d]
    BY <1>1 DEF MutexInv, K!TypeOK
  <1>5. K!TypeOK'
    BY <1>1, <1>3 DEF MutexInv, K!TypeOK
  <1>6. \A l \in Keys : \A i \in 1..Len(k_order[l]) : k_order[l][i] # c /\ k_order[l][i] \in Runs
    <2> SUFFICES ASSUME NEW l \in Keys, NEW i \in 1..Len(k_order[l])
                 PROVE  k_order[l][i] # c /\ k_order[l][i] \in Runs
      OBVIOUS
    <2>1. PICK p, m : p = k_order[l] /\ m = Len(p)
      OBVIOUS
    <2>2. /\ Chain(l, p, m, k_key, k_pc, k_previous, k_tails[l])
          /\ \A j \in 1..m : p[j] \in Runs
      BY <2>1, QueueOf
    <2> QED
      BY <1>1, <2>1, <2>2 DEF Chain
  <1>7. \A d \in Runs : d # c /\ Clear(k_previous[d], k_pc) => Clear(k_previous'[d], k_pc')
    BY <1>1, <1>4 DEF Clear, MutexInv, K!TypeOK
  <1>8. Queue(k)'
    <2>1. \A i, j \in 1..(n + 1) : w[i] = w[j] => i = j
      <3>1. \A i \in 1..n : w[i] = q[i] /\ q[i] # c
        BY <1>0, <1>3, <1>6
      <3>2. \A i \in 1..(n + 1) : i = n + 1 \/ i \in 1..n
        BY <1>2
      <3> QED
        BY <1>2, <1>3, <3>1, <3>2
    <2>2. \A i \in 1..n : /\ w[i] \in Runs /\ w[i] # c /\ w[i] = q[i]
                          /\ i # 1 => w[i - 1] = q[i - 1]
      BY <1>0, <1>2, <1>3, <1>6
    <2>3. \A i \in 1..(n + 1) : i = n + 1 \/ i \in 1..n
      BY <1>2
    <2>4. \A i \in 1..(n + 1) : k_key'[w[i]] = k /\ k_pc'[w[i]] \in {"waiting", "running"}
      <3>1. \A i \in 1..n : k_key[q[i]] = k /\ k_pc[q[i]] \in {"waiting", "running"}
        BY <1>0, <1>chain DEF Chain
      <3> QED
        BY <1>3, <1>4, <2>2, <2>3, <3>1
    <2>5. \A i \in 1..(n + 1) : k_pc'[w[i]] = "running" => i = 1
      BY <1>0, <1>3, <1>4, <2>2, <2>3, <1>chain DEF Chain
    <2>6. n = 0 => Clear(k_previous'[c], k_pc')
      <3>1. n = 0 => k_tails[k] = None
        BY <1>0, <1>chain DEF Chain
      <3> QED
        BY <1>4, <3>1 DEF Clear
    <2>7. \A i \in 1..(n + 1) : k_pc'[w[i]] = "waiting" /\ i = 1 => Clear(k_previous'[w[i]], k_pc')
      <3> SUFFICES ASSUME 1 \in 1..(n + 1), k_pc'[w[1]] = "waiting"
                   PROVE  Clear(k_previous'[w[1]], k_pc')
        OBVIOUS
      <3>1. CASE n = 0
        BY <1>3, <2>6, <3>1
      <3>2. CASE n # 0
        <4>1. 1 \in 1..n
          BY <1>2, <3>2
        <4>2. w[1] \in Runs /\ w[1] # c /\ w[1] = q[1] /\ k_pc[q[1]] = "waiting"
          BY <1>4, <2>2, <4>1
        <4> QED
          BY <1>0, <1>7, <4>1, <4>2, <1>chain DEF Chain
      <3> QED
        BY <3>1, <3>2
    <2>8. \A i \in 1..(n + 1) : k_pc'[w[i]] = "waiting" /\ i # 1 => k_previous'[w[i]] = w[i - 1]
      <3> SUFFICES ASSUME NEW i \in 1..(n + 1), k_pc'[w[i]] = "waiting", i # 1
                   PROVE  k_previous'[w[i]] = w[i - 1]
        OBVIOUS
      <3>1. CASE i = n + 1
        <4>1. n # 0 /\ n \in 1..n /\ i - 1 = n
          BY <1>2, <3>1
        <4> QED
          BY <1>0, <1>3, <1>4, <3>1, <4>1, <1>chain DEF Chain
      <3>2. CASE i \in 1..n
        <4>1. /\ w[i] = q[i] /\ w[i - 1] = q[i - 1] /\ k_pc[q[i]] = "waiting"
              /\ k_previous'[w[i]] = k_previous[q[i]]
          BY <1>4, <2>2, <3>2
        <4>2. k_previous[q[i]] = q[i - 1]
          BY <1>0, <3>2, <4>1, <1>chain DEF Chain
        <4> QED
          BY <4>1, <4>2
      <3> QED
        BY <2>3, <3>1, <3>2
    <2>9. n + 1 # 0 /\ k_tails'[k] = w[n + 1] /\ w = k_order'[k] /\ n + 1 = Len(w)
      BY <1>2, <1>3, <1>4
    <2>10. Chain(k, w, n + 1, k_key', k_pc', k_previous', k_tails'[k])
      BY <2>1, <2>4, <2>5, <2>7, <2>8, <2>9 DEF Chain
    <2> QED
      BY <2>9, <2>10, QueueIs
  <1>9. ASSUME NEW l \in Keys, l # k PROVE Queue(l)'
    <2>1. k_order'[l] = k_order[l] /\ k_tails'[l] = k_tails[l]
      BY <1>4, <1>9
    <2> QED
      BY <1>4, <1>6, <1>7, <2>1, QueueKept
  <1>10. ASSUME NEW d \in Runs, k_pc'[d] \in {"waiting", "running"} PROVE InQueue(d)'
    <2>1. CASE d = c
      BY <1>2, <1>3, <1>4, <2>1 DEF InQueue
    <2>2. CASE d # c
      <3>1. InQueue(d) /\ k_key'[d] = k_key[d] /\ k_key[d] \in Keys
        BY <1>4, <1>10, <2>2 DEF MutexInv, K!TypeOK
      <3>2. PICK i \in 1..Len(k_order[k_key[d]]) : k_order[k_key[d]][i] = d
        BY <3>1 DEF InQueue
      <3>3. CASE k_key[d] = k
        <4>1. i \in 1..n /\ i \in 1..(n + 1)
          BY <1>0, <1>2, <3>2, <3>3
        <4> QED
          BY <1>0, <1>3, <1>4, <3>1, <3>2, <3>3, <4>1 DEF InQueue
      <3>4. CASE k_key[d] # k
        BY <1>4, <3>1, <3>2, <3>4 DEF InQueue
      <3> QED
        BY <3>3, <3>4
    <2> QED
      BY <2>1, <2>2
  <1> QED
    BY <1>5, <1>8, <1>9, <1>10 DEF MutexInv

(* Whoever comes in is the first of its queue.                             *)
LEMMA FirstEnters ==
  ASSUME MutexInv, NEW c \in Runs, K!Enter(c), NEW i \in 1..Len(k_order[k_key[c]]),
         k_order[k_key[c]][i] = c
  PROVE  i = 1
  <1> DEFINE k == k_key[c]
  <1>1. k \in Keys /\ Queue(k) /\ k_order[k] \in Seq(Runs) /\ k_pc[c] = "waiting"
    BY DEF MutexInv, K!TypeOK, K!Enter
  <1>2. ASSUME i # 1 PROVE FALSE
    <2>1. i - 1 \in 1..Len(k_order[k]) /\ k_previous[c] = k_order[k][i - 1]
      BY <1>1, <1>2 DEF Queue, Chain
    <2>2. k_pc[k_order[k][i - 1]] \in {"waiting", "running"} /\ k_order[k][i - 1] \in Runs
      BY <1>1, <2>1 DEF Queue, Chain
    <2> QED
      BY <2>1, <2>2, MutexOk DEF K!Enter, K!Resolved, Clear, K!MutexAssumption
  <1> QED
    BY <1>2

LEMMA StepEnter ==
  ASSUME MutexInv, NEW c \in Runs, K!Enter(c)
  PROVE  MutexInv'
  <1>1. /\ k_pc[c] = "waiting"
        /\ k_pc' = [k_pc EXCEPT ![c] = "running"]
        /\ k_previous' = [k_previous EXCEPT ![c] = None]
        /\ UNCHANGED <<k_tails, k_key, k_order>>
    BY DEF K!Enter
  <1>2. K!TypeOK'
    BY <1>1 DEF MutexInv, K!TypeOK
  <1>3. /\ k_pc'[c] = "running"
        /\ \A d \in Runs : d # c => k_pc'[d] = k_pc[d] /\ k_previous'[d] = k_previous[d]
    BY <1>1 DEF MutexInv, K!TypeOK
  <1>4. \A d \in Runs : d # c /\ Clear(k_previous[d], k_pc) => Clear(k_previous'[d], k_pc')
    BY <1>1, <1>3 DEF Clear, MutexInv, K!TypeOK
  <1>5. ASSUME NEW k \in Keys PROVE Queue(k)'
    <2>0. PICK q, n : q = k_order[k] /\ n = Len(q)
      OBVIOUS
    <2>1. /\ Chain(k, q, n, k_key, k_pc, k_previous, k_tails[k])
          /\ n \in Nat /\ \A i \in 1..n : q[i] \in Runs
      BY <2>0, QueueOf
    <2>2. \A i \in 1..n : q[i] = c => i = 1
      <3> SUFFICES ASSUME NEW i \in 1..n, q[i] = c PROVE i = 1
        OBVIOUS
      <3>1. k_key[c] = k
        BY <2>1 DEF Chain
      <3> QED
        BY <2>0, <3>1, FirstEnters
    <2>3. Chain(k, q, n, k_key', k_pc', k_previous', k_tails'[k])
      BY <1>1, <1>3, <1>4, <2>1, <2>2 DEF Chain
    <2> QED
      BY <1>1, <2>0, <2>3, QueueIs
  <1>6. \A d \in Runs : k_pc'[d] \in {"waiting", "running"} => InQueue(d)'
    BY <1>1, <1>3 DEF InQueue, MutexInv
  <1> QED
    BY <1>2, <1>5, <1>6 DEF MutexInv

LEMMA StepRelease ==
  ASSUME MutexInv, NEW c \in Runs, K!Release(c)
  PROVE  MutexInv'
  <1>0. PICK k, q, n : k \in Keys /\ k_key[c] = k /\ q = k_order[k] /\ n = Len(q)
    BY DEF MutexInv, K!TypeOK
  <1>chain. /\ Chain(k, q, n, k_key, k_pc, k_previous, k_tails[k])
            /\ q \in Seq(Runs) /\ n \in Nat /\ \A i \in 1..n : q[i] \in Runs
    BY <1>0, QueueOf
  <1>1. PICK w : w = K!Without(q, c)
    OBVIOUS
  <1>2. /\ k_pc[c] = "running" /\ k_tails' = K!Drop(c)
        /\ k_pc' = [k_pc EXCEPT ![c] = "released"]
        /\ k_order' = [k_order EXCEPT ![k] = w]
        /\ UNCHANGED <<k_previous, k_key>>
    BY <1>0, <1>1 DEF K!Release
  <1>3. q \in Seq(Runs) /\ n \in Nat
    BY <1>chain
  <1>4. 1 \in 1..n /\ q[1] = c /\ \A i \in 1..n : q[i] = c => i = 1
    <2>1. PICK i \in 1..n : q[i] = c
      BY <1>0, <1>2 DEF MutexInv, InQueue
    <2>2. \A j \in 1..n : q[j] = c => j = 1
      BY <1>0, <1>2, <1>chain DEF Chain
    <2> QED
      BY <1>3, <2>1, <2>2
  <1>5. w = [i \in 1..(n - 1) |-> q[i + 1]] /\ n - 1 \in Nat
    <2>1. (CHOOSE i \in 1..Len(q) : q[i] = c) = 1
      BY <1>0, <1>4
    <2>2. w = [i \in 1..(n - 1) |-> IF i < 1 THEN q[i] ELSE q[i + 1]]
      BY <1>0, <1>1, <2>1 DEF K!Without
    <2>3. \A i \in 1..(n - 1) : ~(i < 1)
      OBVIOUS
    <2> QED
      BY <1>3, <1>4, <2>2, <2>3
  <1>6. \A i \in 1..(n - 1) : /\ i + 1 \in 1..n /\ i \in 1..n /\ i + 1 # 1
                              /\ q[i + 1] \in Runs /\ w[i] = q[i + 1]
    BY <1>0, <1>3, <1>5, <1>chain DEF Chain
  <1>7. w \in Seq(Runs) /\ Len(w) = n - 1
    BY <1>5, <1>6
  <1>8. k_tails' = [k_tails EXCEPT ![k] = IF n = 1 THEN None ELSE k_tails[k]]
    <2>1. k_tails[k] = q[n] /\ n \in 1..n
      BY <1>0, <1>3, <1>4, <1>chain DEF Chain
    <2>2. k_tails[k] = c <=> n = 1
      BY <1>4, <2>1
    <2>3. k_tails = [k_tails EXCEPT ![k] = k_tails[k]]
      BY DEF MutexInv, K!TypeOK
    <2> QED
      BY <1>0, <1>2, <2>2, <2>3 DEF K!Drop
  <1>9. K!TypeOK'
    BY <1>2, <1>7, <1>8 DEF MutexInv, K!TypeOK
  <1>10. /\ k_order'[k] = w
         /\ \A l \in Keys : l # k => k_order'[l] = k_order[l] /\ k_tails'[l] = k_tails[l]
         /\ k_tails'[k] = IF n = 1 THEN None ELSE k_tails[k]
         /\ k_pc'[c] = "released"
         /\ \A d \in Runs : d # c => k_pc'[d] = k_pc[d]
    <2>1. /\ k \in Keys /\ DOMAIN k_order = Keys /\ DOMAIN k_tails = Keys
          /\ DOMAIN k_pc = Runs
      BY <1>0 DEF MutexInv, K!TypeOK
    <2>2. k_order'[k] = w /\ \A l \in Keys : l # k => k_order'[l] = k_order[l]
      BY <1>2, <2>1
    <2>3. /\ k_tails'[k] = IF n = 1 THEN None ELSE k_tails[k]
          /\ \A l \in Keys : l # k => k_tails'[l] = k_tails[l]
      BY <1>8, <2>1
    <2>4. k_pc'[c] = "released" /\ \A d \in Runs : d # c => k_pc'[d] = k_pc[d]
      BY <1>2, <2>1
    <2> QED
      BY <2>2, <2>3, <2>4
  <1>11. \A d \in Runs : Clear(k_previous[d], k_pc) => Clear(k_previous'[d], k_pc')
    BY <1>2, <1>10 DEF Clear, MutexInv, K!TypeOK
  <1>12. \A i \in 1..(n - 1) : /\ q[i + 1] # c /\ k_key[q[i + 1]] = k
                               /\ k_pc[q[i + 1]] = "waiting" /\ k_previous[q[i + 1]] = q[i]
    <2> SUFFICES ASSUME NEW i \in 1..(n - 1)
                 PROVE  /\ q[i + 1] # c /\ k_key[q[i + 1]] = k
                        /\ k_pc[q[i + 1]] = "waiting" /\ k_previous[q[i + 1]] = q[i]
      OBVIOUS
    <2>1. PICK j \in 1..n : j = i + 1 /\ j # 1 /\ j - 1 = i
      BY <1>3, <1>6
    <2> QED
      BY <1>0, <1>4, <2>1, <1>chain DEF Chain
  <1>13. Queue(k)'
    <2>1. \A i, j \in 1..(n - 1) : w[i] = w[j] => i = j
      <3> SUFFICES ASSUME NEW i \in 1..(n - 1), NEW j \in 1..(n - 1), w[i] = w[j]
                   PROVE  i = j
        OBVIOUS
      <3>1. q[i + 1] = q[j + 1] /\ i + 1 \in 1..n /\ j + 1 \in 1..n
        BY <1>6
      <3>2. i + 1 = j + 1
        BY <1>0, <3>1, <1>chain DEF Chain
      <3> QED
        BY <3>2
    <2>2. \A i \in 1..(n - 1) : k_key'[w[i]] = k /\ k_pc'[w[i]] = "waiting"
      BY <1>2, <1>6, <1>10, <1>12
    <2>3. \A i \in 1..(n - 1) : k_previous'[w[i]] = q[i]
      BY <1>2, <1>6, <1>12
    <2>4. \A i \in 1..(n - 1) : i = 1 => Clear(k_previous'[w[i]], k_pc')
      BY <1>4, <1>10, <2>3 DEF Clear
    <2>5. \A i \in 1..(n - 1) : i # 1 => k_previous'[w[i]] = w[i - 1]
      <3> SUFFICES ASSUME NEW i \in 1..(n - 1), i # 1 PROVE k_previous'[w[i]] = w[i - 1]
        OBVIOUS
      <3>1. PICK j \in 1..(n - 1) : j = i - 1 /\ j + 1 = i
        BY <1>5
      <3> QED
        BY <1>6, <2>3, <3>1
    <2>6. n - 1 = 0 => k_tails'[k] = None
      BY <1>3, <1>10
    <2>7. n - 1 # 0 => k_tails'[k] = w[n - 1]
      <3> SUFFICES ASSUME n - 1 # 0 PROVE k_tails'[k] = w[n - 1]
        OBVIOUS
      <3>1. n # 1 /\ n # 0 /\ n - 1 \in 1..(n - 1) /\ (n - 1) + 1 = n
        BY <1>3, <1>5
      <3> QED
        BY <1>0, <1>6, <1>10, <3>1, <1>chain DEF Chain
    <2>8. Chain(k, w, n - 1, k_key', k_pc', k_previous', k_tails'[k])
      BY <2>1, <2>2, <2>4, <2>5, <2>6, <2>7 DEF Chain
    <2> QED
      BY <1>0, <1>7, <1>10, <2>8, QueueIs
  <1>14. ASSUME NEW l \in Keys, l # k PROVE Queue(l)'
    <2>1. k_order'[l] = k_order[l] /\ k_tails'[l] = k_tails[l]
      BY <1>10, <1>14
    <2>2. \A i \in 1..Len(k_order[l]) : k_order[l][i] \in Runs /\ k_order[l][i] # c
      <3>1. PICK p, m : p = k_order[l] /\ m = Len(p)
        OBVIOUS
      <3>2. /\ Chain(l, p, m, k_key, k_pc, k_previous, k_tails[l])
            /\ \A j \in 1..m : p[j] \in Runs
        BY <1>14, <3>1, QueueOf
      <3> QED
        BY <1>0, <1>14, <3>1, <3>2 DEF Chain
    <2> QED
      BY <1>2, <1>10, <1>11, <2>1, <2>2, QueueKept
  <1>15. ASSUME NEW d \in Runs, k_pc'[d] \in {"waiting", "running"} PROVE InQueue(d)'
    <2>1. d # c /\ InQueue(d) /\ k_key'[d] = k_key[d] /\ k_key[d] \in Keys
      BY <1>2, <1>10, <1>15 DEF MutexInv, K!TypeOK
    <2>2. PICK i \in 1..Len(k_order[k_key[d]]) : k_order[k_key[d]][i] = d
      BY <2>1 DEF InQueue
    <2>3. CASE k_key[d] = k
      <3>1. i \in 1..n /\ q[i] = d /\ i # 1
        BY <1>0, <1>4, <2>1, <2>2, <2>3
      <3>2. PICK j \in 1..(n - 1) : j + 1 = i
        <4>1. i - 1 \in 1..(n - 1) /\ (i - 1) + 1 = i
          BY <1>3, <3>1
        <4> QED
          BY <4>1
      <3>3. w[j] = d
        BY <1>6, <3>1, <3>2
      <3> QED
        BY <1>7, <1>10, <2>1, <2>3, <3>2, <3>3 DEF InQueue
    <2>4. CASE k_key[d] # k
      BY <1>10, <2>1, <2>2, <2>4 DEF InQueue
    <2> QED
      BY <2>3, <2>4
  <1> QED
    BY <1>9, <1>13, <1>14, <1>15 DEF MutexInv

LEMMA StepForget ==
  ASSUME MutexInv, NEW c \in Runs, K!Forget(c)
  PROVE  MutexInv'
  <1> USE DEF MutexInv, K!TypeOK
  <1>1. /\ k_pc[c] = "released" /\ \A d \in Runs : k_previous[d] # c
        /\ k_pc' = [k_pc EXCEPT ![c] = "idle"]
        /\ UNCHANGED <<k_tails, k_previous, k_key, k_order>>
    BY DEF K!Forget
  <1>2. \A d \in Runs : Clear(k_previous[d], k_pc) => Clear(k_previous'[d], k_pc')
    BY <1>1 DEF Clear
  <1>3. \A d \in Runs : d # c => k_pc'[d] = k_pc[d]
    BY <1>1
  <1>4. ASSUME NEW k \in Keys PROVE Queue(k)'
    <2>1. \A i \in 1..Len(k_order[k]) : k_order[k][i] \in Runs /\ k_order[k][i] # c
      BY <1>1 DEF Queue, Chain
    <2> QED
      BY <1>1, <1>2, <1>3, <2>1, QueueKept
  <1> QED
    BY <1>1, <1>3, <1>4 DEF InQueue

LEMMA MutexStep ==
  ASSUME MutexInv, [K!Next]_k_vars
  PROVE  MutexInv'
  <1>1. CASE UNCHANGED k_vars
    <2> USE <1>1 DEF k_vars
    <2>1. K!TypeOK'
      BY DEF MutexInv, K!TypeOK
    <2>2. \A d \in Runs : Clear(k_previous'[d], k_pc') <=> Clear(k_previous[d], k_pc)
      BY DEF Clear
    <2>3. \A k \in Keys : Queue(k)'
      BY DEF MutexInv, Queue, Clear
    <2>4. \A c \in Runs : k_pc'[c] \in {"waiting", "running"} => InQueue(c)'
      BY DEF MutexInv, InQueue
    <2> QED
      BY <2>1, <2>3, <2>4 DEF MutexInv
  <1>2. CASE K!Next
    BY <1>2, StepRun, StepEnter, StepRelease, StepForget DEF K!Next
  <1> QED
    BY <1>1, <1>2

(* The chain of every key is its queue, always.                            *)
THEOREM MutexInvariant == K!Spec => []MutexInv
  <1>1. MutexInv /\ [K!Next]_k_vars => MutexInv'
    BY MutexStep
  <1> QED
    BY <1>1, MutexStart, PTL DEF K!Spec, K!vars, k_vars

(* One call per key runs at a time.                                        *)
THEOREM OneCallPerKey == K!Spec => []K!OneAtATime
  <1>1. ASSUME MutexInv PROVE K!OneAtATime
    <2> SUFFICES ASSUME NEW c \in Runs, NEW d \in Runs, k_pc[c] = "running",
                        k_pc[d] = "running", k_key[c] = k_key[d]
                 PROVE  c = d
      BY DEF K!OneAtATime
    <2>1. k_key[c] \in Keys /\ Queue(k_key[c]) /\ InQueue(c) /\ InQueue(d)
      BY <1>1 DEF MutexInv, K!TypeOK
    <2> QED
      BY <2>1 DEF Queue, Chain, InQueue
  <1> QED
    BY <1>1, MutexInvariant, PTL

(* The calls of a key run in the order in which they asked for it.         *)
THEOREM FirstServed == K!Spec => FirstComeFirstServed
  <1>1. ASSUME MutexInv, [K!Next]_k_vars, NEW c \in Runs,
               k_pc[c] = "waiting", k_pc'[c] = "running"
        PROVE  Head(k_order[k_key[c]]) = c
    <2>1. K!Enter(c)
      BY <1>1 DEF K!Next, K!Run, K!Enter, K!Release, K!Forget, k_vars, MutexInv, K!TypeOK
    <2>2. PICK i \in 1..Len(k_order[k_key[c]]) : k_order[k_key[c]][i] = c
      BY <1>1 DEF MutexInv, InQueue
    <2>3. i = 1 /\ k_order[k_key[c]] \in Seq(Runs)
      BY <1>1, <2>1, <2>2, FirstEnters DEF MutexInv, K!TypeOK
    <2> QED
      BY <2>2, <2>3
  <1>2. MutexInv /\ [K!Next]_k_vars =>
           [\A c \in Runs : k_pc[c] = "waiting" /\ k_pc'[c] = "running"
               => Head(k_order[k_key[c]]) = c]_k_vars
    BY <1>1
  <1> QED
    BY <1>2, MutexInvariant, PTL
       DEF K!Spec, FirstComeFirstServed, K!FirstComeFirstServed, K!vars, k_vars

(***************************************************************************)
(* The messages (Outbox).                                                  *)
(*                                                                         *)
(* What is known of one message.  The row counts the parts that have an id;*)
(* the chat shows those, and at most one more whose answer is not there    *)
(* yet, and then the row says "sending" or "uncertain".  At most one send  *)
(* is under way, or one request is left over from a lost one, never both:  *)
(* each carries the part that comes next.                                  *)
(***************************************************************************)
Seen(o) == Len(b_shown[o])
Busy(s, o) == b_sender[s] # B!Idle /\ b_sender[s].id = o

Counts(o) ==
    LET r == b_row[o]
    IN  /\ r = B!Absent => Seen(o) = 0
        /\ r # B!Absent =>
             /\ Seen(o) \in {r.ids, r.ids + 1}
             /\ Seen(o) = r.ids + 1 => r.state \in {"sending", "uncertain"}
             /\ r.state = "delivered" <=> r.ids = Parts
        /\ \A i \in 1..Seen(o) : b_shown[o][i] = i

SenderFits(s, o) ==
    /\ b_row[o] # B!Absent /\ b_row[o].state = "sending"
    /\ b_sender[s].part = b_row[o].ids + 1
    /\ Seen(o) = IF b_sender[s].pc = "sending" THEN b_row[o].ids ELSE b_row[o].ids + 1

LeftOver(q, o) ==
    /\ b_row[o] # B!Absent /\ b_row[o].state \in {"sending", "uncertain"}
    /\ q.part = b_row[o].ids + 1
    /\ Seen(o) = b_row[o].ids

Message(o) ==
    /\ Counts(o)
    /\ \A s \in Senders : Busy(s, o) => SenderFits(s, o)
    /\ \A s, z \in Senders : Busy(s, o) /\ Busy(z, o) => s = z
    /\ \A q \in b_limbo : q.id = o =>
          LeftOver(q, o) /\ \A s \in Senders : ~Busy(s, o)
    /\ o \in b_confirmed => b_row[o] # B!Absent /\ b_row[o].state = "delivered"
    /\ b_given[o] \subseteq IF b_row[o] = B!Absent \/ b_row[o].envelope = None
                            THEN {} ELSE {<<b_row[o].text, b_row[o].envelope>>}
    /\ b_row[o] # B!Absent /\ b_row[o].state = "sending" => b_row[o].envelope # None

OutboxInv ==
    /\ B!TypeOK
    /\ b_sender \in [Senders -> {B!Idle} \cup
          [pc : {"sending", "arrived"}, id : Messages, part : 1..Parts]]
    /\ \A o \in Messages : Message(o)

LEMMA OutboxConstants ==
  Parts \in Nat \ {0} /\ None \notin Targets /\ None \notin Texts /\ None \notin Messages
  BY OutboxOk DEF B!OutboxAssumption

LEMMA OutboxRow ==
  ASSUME NEW r \in B!Rows \cup {B!Absent}
  PROVE  /\ r # B!Absent <=> r \in B!Rows
         /\ r # B!Absent => /\ r.state \in {"prepared", "sending", "delivered",
                                            "uncertain", "retryable"}
                            /\ r.ids \in 0..Parts /\ r.text \in Texts
                            /\ r.envelope \in Targets \cup {None}
  BY DEF B!Rows, B!Absent

LEMMA RowOpened ==
  ASSUME NEW r \in B!Rows \cup {B!Absent}, NEW x \in Texts, NEW t \in Targets,
         B!Admits(r, x, t), NEW v, v = B!Opened(r, x, t)
  PROVE  /\ v \in B!Rows /\ v.text = x /\ v.envelope = t
         /\ v.ids = IF r = B!Absent THEN 0 ELSE r.ids
         /\ v.state \in {"prepared", "retryable"}
         /\ r # B!Absent => r.state \in {"prepared", "retryable"} /\ r.text = x
         /\ r # B!Absent /\ r.envelope # None => r.envelope = t
  <1>1. CASE r = B!Absent
    <2>1. v = [state |-> "prepared", text |-> x, envelope |-> t, ids |-> 0,
               refused |-> FALSE, failed |-> FALSE]
      BY <1>1 DEF B!Opened
    <2>2. 0 \in 0..Parts
      BY OutboxConstants
    <2>3. v \in B!Rows
      BY <2>1, <2>2 DEF B!Rows
    <2> QED
      BY <1>1, <2>1, <2>3
  <1>2. CASE r # B!Absent
    <2>1. r \in B!Rows /\ v = [r EXCEPT !.envelope = t]
      BY <1>2 DEF B!Opened
    <2>2. /\ r.state \in {"prepared", "retryable"} /\ r.text = x
          /\ r.envelope # None => r.envelope = t
      BY <1>2 DEF B!Admits, B!Conflict, B!Legacy
    <2> QED
      BY <1>2, <2>1, <2>2 DEF B!Rows
  <1> QED
    BY <1>1, <1>2

LEMMA RowSending ==
  ASSUME NEW v \in B!Rows, NEW w, w = [v EXCEPT !.state = "sending"]
  PROVE  /\ w \in B!Rows /\ w.state = "sending" /\ w.ids = v.ids
         /\ w.text = v.text /\ w.envelope = v.envelope
  BY DEF B!Rows

LEMMA RowCounted ==
  ASSUME NEW r \in B!Rows, NEW n \in 1..Parts, NEW w, w = B!Counted(r, n)
  PROVE  /\ w \in B!Rows /\ w.ids = n /\ w.text = r.text /\ w.envelope = r.envelope
         /\ w.state = IF n = Parts THEN "delivered" ELSE "prepared"
  <1>1. n \in 0..Parts
    BY OutboxConstants
  <1> QED
    BY <1>1 DEF B!Counted, B!Rows

LEMMA RowThrown ==
  ASSUME NEW r \in B!Rows, NEW st \in {"retryable", "uncertain"},
         NEW w, w = [r EXCEPT !.state = st, !.failed = TRUE, !.refused = (st = "retryable")]
  PROVE  w \in B!Rows /\ w.ids = r.ids /\ w.text = r.text /\ w.envelope = r.envelope
         /\ w.state = st
  BY DEF B!Rows

(* A message of which a step changes nothing stays as it is.               *)
LEMMA MessageKept ==
  ASSUME NEW o \in Messages, Message(o),
         b_row'[o] = b_row[o], b_shown'[o] = b_shown[o], b_given'[o] = b_given[o],
         o \in b_confirmed' => o \in b_confirmed,
         \A q \in b_limbo' : q.id = o => q \in b_limbo,
         \A s \in Senders : Busy(s, o)' => b_sender'[s] = b_sender[s]
  PROVE  Message(o)'
  <1>1. Counts(o)'
    BY DEF Message, Counts, Seen
  <1>2. \A s \in Senders : Busy(s, o)' => Busy(s, o) /\ SenderFits(s, o)'
    BY DEF Message, Busy, SenderFits, Seen
  <1>3. \A q \in b_limbo' : q.id = o =>
           LeftOver(q, o)' /\ \A s \in Senders : ~Busy(s, o)'
    BY <1>2 DEF Message, LeftOver, Seen
  <1> QED
    BY <1>1, <1>2, <1>3 DEF Message

(* A crash leaves the request that was on its way behind, with its part.   *)
LEMMA MessageLost ==
  ASSUME NEW o \in Messages, OutboxInv, B!Lost,
         b_row'[o] = b_row[o], b_shown'[o] = b_shown[o], b_given'[o] = b_given[o]
  PROVE  Message(o)'
  <1>0. Message(o) /\ b_sender \in [Senders -> {B!Idle} \cup
          [pc : {"sending", "arrived"}, id : Messages, part : 1..Parts]]
    BY DEF OutboxInv
  <1>1. Counts(o)'
    BY <1>0 DEF Message, Counts, Seen
  <1>2. \A s \in Senders : ~Busy(s, o)'
    BY DEF B!Lost, Busy
  <1>3. ASSUME NEW q \in b_limbo', q.id = o
        PROVE  LeftOver(q, o)'
    <2>1. CASE q \in b_limbo
      BY <1>0, <1>3, <2>1 DEF Message, LeftOver, Seen
    <2>2. CASE q \notin b_limbo
      <3>1. PICK s \in Senders : b_sender[s].pc = "sending" /\ q = B!Request(s)
        BY <2>2 DEF B!Lost
      <3>2. q.id = b_sender[s].id /\ q.part = b_sender[s].part
        BY <3>1 DEF B!Request
      <3>3. Busy(s, o)
        BY <1>3, <3>1, <3>2 DEF Busy, B!Idle
      <3> QED
        BY <1>0, <3>1, <3>2, <3>3 DEF Message, SenderFits, LeftOver, Seen
    <2> QED
      BY <2>1, <2>2
  <1> QED
    BY <1>0, <1>1, <1>2, <1>3 DEF Message, B!Lost

LEMMA OutboxStart == B!Init => OutboxInv
  <1> SUFFICES ASSUME B!Init PROVE OutboxInv
    OBVIOUS
  <1>1. \A o \in Messages : b_row[o] \in B!OldRows \cup {B!Absent}
    BY DEF B!Init
  <1>2. \A r \in B!OldRows : r \in B!Rows /\ r # B!Absent /\ r.ids \in 0..Parts
                              /\ r.envelope = None /\ r.state # "sending"
                              /\ (r.state = "delivered" <=> r.ids = Parts)
    BY DEF B!OldRows, B!Rows, B!Absent
  <1>3. \A o \in Messages : /\ b_row[o] = B!Absent => b_shown[o] = << >>
                            /\ b_row[o] # B!Absent =>
                                  b_shown[o] = [i \in 1..b_row[o].ids |-> i]
    BY DEF B!Init
  <1>4. ASSUME NEW o \in Messages
        PROVE  Counts(o) /\ b_shown[o] \in Seq(1..Parts)
    <2>1. CASE b_row[o] = B!Absent
      <3>1. b_shown[o] = << >>
        BY <1>3, <2>1
      <3>2. Seen(o) = 0
        BY <3>1 DEF Seen
      <3> QED
        BY <2>1, <3>1, <3>2 DEF Counts
    <2>2. CASE b_row[o] # B!Absent
      <3>1. b_row[o] \in B!OldRows /\ b_row[o].ids \in 0..Parts
        BY <1>1, <1>2, <2>2
      <3> DEFINE n == b_row[o].ids
      <3>2. b_shown[o] = [i \in 1..n |-> i] /\ n \in Nat /\ n =< Parts
        BY <1>3, <2>2, <3>1, OutboxConstants
      <3>3. Seen(o) = n /\ \A i \in 1..n : b_shown[o][i] = i
        BY <3>2 DEF Seen
      <3>4. b_shown[o] \in Seq(1..Parts)
        BY <3>2, OutboxConstants
      <3> QED
        BY <1>2, <2>2, <3>1, <3>2, <3>3, <3>4 DEF Counts
    <2> QED
      BY <2>1, <2>2
  <1>5. b_row \in [Messages -> B!Rows \cup {B!Absent}]
    BY <1>2 DEF B!Init
  <1>6. b_shown \in [Messages -> Seq(1..Parts)]
    BY <1>4 DEF B!Init
  <1>7. B!TypeOK
    BY <1>5, <1>6 DEF B!Init, B!TypeOK
  <1>8. \A o \in Messages : Message(o)
    BY <1>1, <1>2, <1>4 DEF Message, Busy, B!Init
  <1> QED
    BY <1>7, <1>8 DEF OutboxInv, B!Init

(* What the invariant says of one message and one sender.                  *)
LEMMA OutboxTyped ==
  ASSUME OutboxInv
  PROVE  /\ b_row \in [Messages -> B!Rows \cup {B!Absent}]
         /\ b_shown \in [Messages -> Seq(1..Parts)]
         /\ b_given \in [Messages -> SUBSET (Texts \X Targets)]
         /\ b_confirmed \subseteq Messages
         /\ b_limbo \subseteq B!Requests
         /\ b_sender \in [Senders -> {B!Idle} \cup
                 [pc : {"sending", "arrived"}, id : Messages, part : 1..Parts]]
         /\ \A o \in Messages : Message(o)
         /\ \A s \in Senders : b_sender[s].pc \in {"sending", "arrived"} =>
               /\ b_sender[s] # B!Idle /\ Busy(s, b_sender[s].id)
               /\ b_sender[s].id \in Messages /\ b_sender[s].part \in 1..Parts
               /\ b_row[b_sender[s].id] \in B!Rows
               /\ b_row[b_sender[s].id] # B!Absent
  <1>1. \A s \in Senders : b_sender[s].pc \in {"sending", "arrived"} =>
               /\ b_sender[s] # B!Idle /\ Busy(s, b_sender[s].id)
               /\ b_sender[s].id \in Messages /\ b_sender[s].part \in 1..Parts
    BY DEF OutboxInv, B!Idle, Busy
  <1>2. \A s \in Senders : b_sender[s].pc \in {"sending", "arrived"} =>
               /\ b_row[b_sender[s].id] # B!Absent
               /\ b_row[b_sender[s].id] \in B!Rows \cup {B!Absent}
    BY <1>1 DEF OutboxInv, Message, SenderFits, B!TypeOK
  <1> QED
    BY <1>1, <1>2 DEF OutboxInv, B!TypeOK

(* The types of the next state, from those of what changes.                *)
LEMMA OutboxTypes ==
  ASSUME b_row' \in [Messages -> B!Rows \cup {B!Absent}],
         b_shown' \in [Messages -> Seq(1..Parts)],
         b_given' \in [Messages -> SUBSET (Texts \X Targets)],
         b_confirmed' \subseteq Messages, b_limbo' \subseteq B!Requests,
         b_sender' \in [Senders -> {B!Idle} \cup
            [pc : {"sending", "arrived"}, id : Messages, part : 1..Parts]],
         \A o \in Messages : Message(o)'
  PROVE  OutboxInv'
  <1>1. \A s \in Senders : b_sender'[s] = B!Idle \/
          b_sender'[s] \in [pc : {"sending", "arrived"}, id : Messages, part : 1..Parts]
    OBVIOUS
  <1> QED
    BY <1>1 DEF OutboxInv, B!TypeOK, B!Requests

LEMMA StepSend ==
  ASSUME OutboxInv, NEW s \in Senders, NEW o \in Messages, NEW x \in Texts,
         NEW t \in Targets, B!Send(s, o, x, t)
  PROVE  OutboxInv'
  <1> DEFINE v == B!Opened(b_row[o], x, t)
             w == [v EXCEPT !.state = "sending"]
             u == [pc |-> "sending", id |-> o, part |-> w.ids + 1]
  <1>1. b_row[o] \in B!Rows \cup {B!Absent} /\ Message(o) /\ B!Admits(b_row[o], x, t)
    BY OutboxTyped DEF B!Send
  <1>2. /\ v \in B!Rows /\ v.text = x /\ v.envelope = t
        /\ v.ids = IF b_row[o] = B!Absent THEN 0 ELSE b_row[o].ids
        /\ b_row[o] # B!Absent => /\ b_row[o].state \in {"prepared", "retryable"}
                                  /\ b_row[o].text = x
        /\ b_row[o] # B!Absent /\ b_row[o].envelope # None => b_row[o].envelope = t
    BY <1>1, RowOpened
  <1>3. /\ w \in B!Rows /\ w.state = "sending" /\ w.ids = v.ids
        /\ w.text = x /\ w.envelope = t
    BY <1>2, RowSending
  <1>4. b_row' = [b_row EXCEPT ![o] = w]
    BY DEF B!Send
  <1> HIDE DEF v, w
  <1>5. b_row'[o] = w /\ w # B!Absent
    BY <1>3, <1>4, OutboxTyped, OutboxRow
  <1>6. b_sender' = [b_sender EXCEPT ![s] = u] /\ b_sender[s] = B!Idle
    BY <1>5 DEF B!Send
  <1>7. Seen(o) = w.ids /\ w.ids \in 0..Parts /\ w.ids # Parts
    BY <1>1, <1>2, <1>3, OutboxRow, OutboxConstants DEF Message, Counts
  <1>8. w.ids + 1 \in 1..Parts
    BY <1>7, OutboxConstants
  <1>9. u \in [pc : {"sending", "arrived"}, id : Messages, part : 1..Parts]
        /\ u.pc = "sending" /\ u.id = o /\ u.part = w.ids + 1 /\ u # B!Idle
    BY <1>8 DEF B!Idle
  <1> HIDE DEF u
  <1>10. /\ b_given' = [b_given EXCEPT ![o] = @ \cup {<<x, t>>}]
         /\ UNCHANGED <<b_confirmed, b_limbo, b_shown>>
    BY DEF B!Send
  <1>11. /\ \A z \in Senders : ~Busy(z, o)
         /\ \A q \in b_limbo : q.id # o
         /\ o \notin b_confirmed
    BY <1>1, <1>2 DEF Message, SenderFits, LeftOver
  <1>12. b_sender'[s] = u /\ \A z \in Senders : z # s => b_sender'[z] = b_sender[z]
    BY <1>6, OutboxTyped
  <1>13. Message(o)'
    <2>1. Counts(o)'
      BY <1>1, <1>3, <1>5, <1>7, <1>10, OutboxConstants DEF Message, Counts, Seen
    <2>2. \A z \in Senders : Busy(z, o)' => z = s
      BY <1>11, <1>12 DEF Busy
    <2>3. SenderFits(s, o)'
      BY <1>3, <1>5, <1>7, <1>9, <1>10, <1>12 DEF SenderFits, Seen
    <2>4. b_given'[o] \subseteq {<<w.text, w.envelope>>} /\ w.envelope # None
      BY <1>1, <1>2, <1>3, <1>10, OutboxTyped, OutboxConstants DEF Message
    <2> QED
      BY <1>3, <1>5, <1>10, <1>11, <2>1, <2>2, <2>3, <2>4 DEF Message
  <1>14. ASSUME NEW p \in Messages, p # o PROVE Message(p)'
    <2>1. b_row'[p] = b_row[p] /\ b_shown'[p] = b_shown[p] /\ b_given'[p] = b_given[p]
      BY <1>4, <1>10, <1>14, OutboxTyped
    <2>2. \A z \in Senders : Busy(z, p)' => b_sender'[z] = b_sender[z]
      BY <1>9, <1>12, <1>14 DEF Busy
    <2> QED
      BY <1>10, <2>1, <2>2, MessageKept, OutboxTyped
  <1>15. b_given' \in [Messages -> SUBSET (Texts \X Targets)]
    BY <1>10, OutboxTyped
  <1>16. b_row' \in [Messages -> B!Rows \cup {B!Absent}]
    BY <1>3, <1>4, OutboxTyped
  <1>17. b_sender' \in [Senders -> {B!Idle} \cup
            [pc : {"sending", "arrived"}, id : Messages, part : 1..Parts]]
    BY <1>6, <1>9, OutboxTyped
  <1> QED
    BY <1>10, <1>13, <1>14, <1>15, <1>16, <1>17, OutboxTyped, OutboxTypes

LEMMA StepAnswer ==
  ASSUME OutboxInv, NEW s \in Senders, NEW o \in Messages, NEW x \in Texts,
         NEW t \in Targets, B!Answer(s, o, x, t)
  PROVE  OutboxInv'
  <1>1. UNCHANGED <<b_row, b_sender, b_limbo, b_shown, b_given>>
    BY DEF B!Answer
  <1>2. b_row[o] # B!Absent
    BY DEF B!Answer, B!Admits, B!Conflict
  <1>3. b_confirmed' = b_confirmed \/
        (b_confirmed' = b_confirmed \cup {o} /\ b_row[o].state = "delivered")
    BY DEF B!Answer
  <1>4. ASSUME NEW p \in Messages PROVE Message(p)'
    <2>1. p \in b_confirmed' => b_row[p] # B!Absent /\ b_row[p].state = "delivered"
      BY <1>2, <1>3, OutboxTyped DEF Message
    <2> QED
      BY <1>1, <2>1, OutboxTyped DEF Message, Counts, Seen, Busy, SenderFits, LeftOver
  <1> QED
    BY <1>1, <1>3, <1>4, OutboxTyped, OutboxTypes

LEMMA StepArrive ==
  ASSUME OutboxInv, NEW s \in Senders, B!Arrive(s)
  PROVE  OutboxInv'
  <1>0. PICK o \in Messages, n \in 1..Parts :
           b_sender[s].id = o /\ b_sender[s].part = n
    BY OutboxTyped DEF B!Arrive
  <1>1. /\ b_sender[s].pc = "sending"
        /\ b_sender[s] \in [pc : {"sending", "arrived"}, id : Messages, part : 1..Parts]
        /\ Busy(s, o) /\ b_row[o] \in B!Rows /\ b_row[o] # B!Absent
        /\ Message(o) /\ b_shown[o] \in Seq(1..Parts) /\ b_row[o].ids \in 0..Parts
    BY <1>0, OutboxTyped, OutboxRow DEF B!Arrive
  <1>2. b_row[o].state = "sending" /\ n = b_row[o].ids + 1 /\ Seen(o) = b_row[o].ids
    BY <1>0, <1>1 DEF Message, SenderFits
  <1>3. /\ b_shown' = [b_shown EXCEPT ![o] = Append(b_shown[o], n)]
        /\ b_sender' = [b_sender EXCEPT ![s] = [b_sender[s] EXCEPT !.pc = "arrived"]]
        /\ UNCHANGED <<b_row, b_confirmed, b_limbo, b_given>>
    BY <1>0 DEF B!Arrive
  <1>4. b_shown'[o] = Append(b_shown[o], n) /\ b_shown' \in [Messages -> Seq(1..Parts)]
    BY <1>1, <1>3, OutboxTyped
  <1>5. /\ Seen(o)' = Seen(o) + 1
        /\ \A i \in 1..Seen(o) : b_shown'[o][i] = b_shown[o][i]
        /\ b_shown'[o][Seen(o) + 1] = n
        /\ Seen(o) \in Nat
    BY <1>1, <1>4 DEF Seen
  <1>6. /\ b_sender'[s] \in [pc : {"sending", "arrived"}, id : Messages, part : 1..Parts]
        /\ b_sender'[s].pc = "arrived" /\ b_sender'[s].id = o /\ b_sender'[s].part = n
        /\ \A z \in Senders : z # s => b_sender'[z] = b_sender[z]
        /\ b_sender' \in [Senders -> {B!Idle} \cup
            [pc : {"sending", "arrived"}, id : Messages, part : 1..Parts]]
    BY <1>0, <1>1, <1>3, OutboxTyped
  <1>7. Message(o)'
    <2>1. Counts(o)'
      <3>1. \A i \in 1..Seen(o)' : b_shown'[o][i] = i
        <4>1. \A i \in 1..Seen(o) : b_shown[o][i] = i
          BY <1>1 DEF Message, Counts
        <4>2. \A i \in 1..(Seen(o) + 1) : i = Seen(o) + 1 \/ i \in 1..Seen(o)
          BY <1>5
        <4> QED
          BY <1>2, <1>5, <4>1, <4>2
      <3>2. Seen(o)' = b_row[o].ids + 1
        BY <1>2, <1>5
      <3> QED
        BY <1>1, <1>2, <1>3, <3>1, <3>2, OutboxConstants DEF Message, Counts
    <2>2. \A z \in Senders : Busy(z, o)' => z = s
      BY <1>1, <1>6 DEF Busy, Message
    <2>3. SenderFits(s, o)'
      BY <1>1, <1>2, <1>3, <1>5, <1>6 DEF SenderFits, Seen
    <2>4. \A q \in b_limbo : q.id # o
      BY <1>1 DEF Message
    <2> QED
      BY <1>1, <1>3, <2>1, <2>2, <2>3, <2>4 DEF Message
  <1>8. ASSUME NEW p \in Messages, p # o PROVE Message(p)'
    <2>1. b_row'[p] = b_row[p] /\ b_shown'[p] = b_shown[p] /\ b_given'[p] = b_given[p]
      BY <1>3, <1>8, OutboxTyped
    <2>2. \A z \in Senders : Busy(z, p)' => b_sender'[z] = b_sender[z]
      BY <1>6, <1>8 DEF Busy
    <2> QED
      BY <1>3, <2>1, <2>2, MessageKept, OutboxTyped
  <1> QED
    BY <1>3, <1>4, <1>6, <1>7, <1>8, OutboxTyped, OutboxTypes

LEMMA StepPartSent ==
  ASSUME OutboxInv, NEW s \in Senders, B!PartSent(s)
  PROVE  OutboxInv'
  <1>0. PICK o \in Messages, n \in 1..Parts :
           b_sender[s].id = o /\ b_sender[s].part = n
    BY OutboxTyped DEF B!PartSent
  <1> DEFINE r == B!Counted(b_row[o], n)
             w == [r EXCEPT !.state = "sending"]
             u == [pc |-> "sending", id |-> o, part |-> n + 1]
  <1>1. /\ b_sender[s].pc = "arrived"
        /\ Busy(s, o) /\ b_row[o] \in B!Rows /\ b_row[o] # B!Absent
        /\ Message(o) /\ b_row[o].ids \in 0..Parts
    BY <1>0, OutboxTyped, OutboxRow DEF B!PartSent
  <1>2. b_row[o].state = "sending" /\ n = b_row[o].ids + 1 /\ Seen(o) = n
        /\ b_row[o].envelope # None
    BY <1>0, <1>1 DEF Message, SenderFits
  <1>3. r \in B!Rows /\ r.ids = n /\ r.text = b_row[o].text
        /\ r.envelope = b_row[o].envelope
        /\ r.state = IF n = Parts THEN "delivered" ELSE "prepared"
    BY <1>1, RowCounted
  <1>4. w \in B!Rows /\ w.ids = n /\ w.text = r.text /\ w.envelope = r.envelope
        /\ w.state = "sending"
    BY <1>3, RowSending
  <1>5. /\ \/ /\ n = Parts
              /\ b_row' = [b_row EXCEPT ![o] = r]
              /\ b_sender' = [b_sender EXCEPT ![s] = B!Idle]
              /\ b_confirmed' = b_confirmed \cup {o}
           \/ /\ n # Parts
              /\ b_row' = [b_row EXCEPT ![o] = w]
              /\ b_sender' = [b_sender EXCEPT ![s] = u]
              /\ b_confirmed' = b_confirmed
        /\ UNCHANGED <<b_limbo, b_shown, b_given>>
    BY <1>0 DEF B!PartSent
  <1>6. n # Parts => /\ u \in [pc : {"sending", "arrived"}, id : Messages, part : 1..Parts]
                     /\ u.pc = "sending" /\ u.id = o /\ u.part = n + 1
    BY <1>1, OutboxConstants
  <1> HIDE DEF w, r, u
  <1>7. \A z \in Senders : Busy(z, o) => z = s
    BY <1>1 DEF Message
  <1>8. \A q \in b_limbo : q.id # o
    BY <1>1 DEF Message
  <1>9. b_given[o] \subseteq {<<b_row[o].text, b_row[o].envelope>>}
    BY <1>1, <1>2 DEF Message
  <1>10. ASSUME NEW p \in Messages, p # o PROVE Message(p)'
    <2>1. b_row'[p] = b_row[p] /\ b_shown'[p] = b_shown[p] /\ b_given'[p] = b_given[p]
      BY <1>5, <1>10, OutboxTyped
    <2>2. \A z \in Senders : Busy(z, p)' => b_sender'[z] = b_sender[z]
      BY <1>5, <1>6, <1>10, OutboxTyped DEF Busy
    <2> QED
      BY <1>5, <1>10, <2>1, <2>2, MessageKept, OutboxTyped
  <1>11. CASE n = Parts
    <2>1. /\ b_row'[o] = r /\ r # B!Absent /\ b_sender'[s] = B!Idle
          /\ \A z \in Senders : z # s => b_sender'[z] = b_sender[z]
      BY <1>1, <1>3, <1>5, <1>11, OutboxTyped, OutboxRow
    <2>2. Counts(o)'
      BY <1>1, <1>2, <1>3, <1>5, <1>11, <2>1 DEF Message, Counts, Seen
    <2>3. \A z \in Senders : ~Busy(z, o)'
      BY <1>7, <2>1 DEF Busy
    <2>4. Message(o)'
      BY <1>2, <1>3, <1>5, <1>8, <1>9, <1>11, <2>1, <2>2, <2>3 DEF Message
    <2>5. /\ b_row' \in [Messages -> B!Rows \cup {B!Absent}]
          /\ b_sender' \in [Senders -> {B!Idle} \cup
               [pc : {"sending", "arrived"}, id : Messages, part : 1..Parts]]
          /\ b_confirmed' \subseteq Messages
      BY <1>1, <1>3, <1>5, <1>11, OutboxTyped
    <2> QED
      BY <1>5, <1>10, <2>4, <2>5, OutboxTyped, OutboxTypes
  <1>12. CASE n # Parts
    <2>1. /\ b_row'[o] = w /\ w # B!Absent /\ b_sender'[s] = u
          /\ \A z \in Senders : z # s => b_sender'[z] = b_sender[z]
      BY <1>1, <1>4, <1>5, <1>12, OutboxTyped, OutboxRow
    <2>2. Counts(o)'
      BY <1>1, <1>2, <1>4, <1>5, <1>12, <2>1 DEF Message, Counts, Seen
    <2>3. \A z \in Senders : Busy(z, o)' => z = s
      BY <1>7, <2>1 DEF Busy
    <2>4. SenderFits(s, o)'
      BY <1>2, <1>4, <1>5, <1>6, <1>12, <2>1 DEF SenderFits, Seen
    <2>5. o \notin b_confirmed
      BY <1>1, <1>2 DEF Message
    <2>6. Message(o)'
      BY <1>2, <1>3, <1>4, <1>5, <1>8, <1>9, <1>12, <2>1, <2>2, <2>3, <2>4, <2>5
         DEF Message
    <2>7. b_row' \in [Messages -> B!Rows \cup {B!Absent}]
      BY <1>4, <1>5, <1>12, OutboxTyped
    <2>8. b_sender' \in [Senders -> {B!Idle} \cup
               [pc : {"sending", "arrived"}, id : Messages, part : 1..Parts]]
      BY <1>5, <1>6, <1>12, OutboxTyped
    <2> QED
      BY <1>5, <1>10, <1>12, <2>6, <2>7, <2>8, OutboxTyped, OutboxTypes
  <1> QED
    BY <1>11, <1>12

(* The row of a failed part, and what becomes of its request: nothing, or  *)
(* it is left over.                                                        *)
LEMMA StepThrow ==
  ASSUME OutboxInv, NEW s \in Senders, B!PartRefused(s) \/ B!PartLost(s)
  PROVE  OutboxInv'
  <1>0. PICK o \in Messages, n \in 1..Parts :
           b_sender[s].id = o /\ b_sender[s].part = n
    BY OutboxTyped DEF B!PartRefused, B!PartLost
  <1>1. /\ b_sender[s].pc \in {"sending", "arrived"}
        /\ Busy(s, o) /\ b_row[o] \in B!Rows /\ b_row[o] # B!Absent
        /\ Message(o) /\ b_row[o].ids \in 0..Parts
    BY <1>0, OutboxTyped, OutboxRow DEF B!PartRefused, B!PartLost
  <1>2. /\ b_row[o].state = "sending" /\ n = b_row[o].ids + 1
        /\ Seen(o) = IF b_sender[s].pc = "sending" THEN b_row[o].ids ELSE b_row[o].ids + 1
        /\ b_row[o].envelope # None
    BY <1>0, <1>1 DEF Message, SenderFits
  <1>3. PICK st \in {"retryable", "uncertain"} :
        /\ B!Throw(s, st)
        /\ \/ st = "retryable" /\ b_sender[s].pc = "sending" /\ b_limbo' = b_limbo
           \/ st = "uncertain" /\ b_limbo' = b_limbo \cup
                 (IF b_sender[s].pc = "sending" THEN {B!Request(s)} ELSE {})
    BY DEF B!PartRefused, B!PartLost
  <1> DEFINE w == [b_row[o] EXCEPT !.state = st, !.failed = TRUE,
                                   !.refused = (st = "retryable")]
             q0 == B!Request(s)
  <1>4. w \in B!Rows /\ w.ids = b_row[o].ids /\ w.text = b_row[o].text
        /\ w.envelope = b_row[o].envelope /\ w.state = st
    BY <1>1 DEF B!Rows
  <1>5. /\ b_row' = [b_row EXCEPT ![o] = w]
        /\ b_sender' = [b_sender EXCEPT ![s] = B!Idle]
        /\ UNCHANGED <<b_confirmed, b_shown, b_given>>
    BY <1>0, <1>3 DEF B!Throw
  <1>6. q0 \in B!Requests /\ q0.id = o /\ q0.part = n
    BY <1>0 DEF B!Request, B!Requests
  <1>7. /\ \A z \in Senders : Busy(z, o) => z = s
        /\ \A q \in b_limbo : q.id # o
        /\ b_given[o] \subseteq {<<b_row[o].text, b_row[o].envelope>>}
        /\ o \notin b_confirmed
    BY <1>1, <1>2 DEF Message
  <1>8. /\ \A q \in b_limbo' : q.id = o =>
              q = q0 /\ st = "uncertain" /\ b_sender[s].pc = "sending"
        /\ \A q \in b_limbo' : q.id # o => q \in b_limbo
        /\ b_limbo' \subseteq B!Requests
    BY <1>3, <1>6, <1>7, OutboxTyped
  <1> HIDE DEF w, q0
  <1>9. b_row'[o] = w /\ w # B!Absent /\ b_sender'[s] = B!Idle
        /\ \A z \in Senders : z # s => b_sender'[z] = b_sender[z]
    BY <1>4, <1>5, OutboxTyped, OutboxRow
  <1>10. Message(o)'
    <2>1. Counts(o)'
      <3>1. Seen(o) = w.ids + 1 => st = "uncertain"
        BY <1>1, <1>2, <1>3, <1>4
      <3> QED
        BY <1>1, <1>2, <1>4, <1>5, <1>9, <3>1, OutboxConstants DEF Message, Counts, Seen
    <2>2. \A z \in Senders : ~Busy(z, o)'
      BY <1>7, <1>9 DEF Busy
    <2>3. \A q \in b_limbo' : q.id = o => LeftOver(q, o)'
      BY <1>2, <1>4, <1>5, <1>6, <1>8, <1>9 DEF LeftOver, Seen
    <2> QED
      BY <1>2, <1>4, <1>5, <1>7, <1>9, <2>1, <2>2, <2>3 DEF Message
  <1>11. ASSUME NEW p \in Messages, p # o PROVE Message(p)'
    <2>1. b_row'[p] = b_row[p] /\ b_shown'[p] = b_shown[p] /\ b_given'[p] = b_given[p]
      BY <1>5, <1>11, OutboxTyped
    <2>2. \A z \in Senders : Busy(z, p)' => b_sender'[z] = b_sender[z]
      BY <1>9 DEF Busy
    <2> QED
      BY <1>5, <1>8, <1>11, <2>1, <2>2, MessageKept, OutboxTyped
  <1>12. b_row' \in [Messages -> B!Rows \cup {B!Absent}]
    BY <1>4, <1>5, OutboxTyped
  <1>13. b_sender' \in [Senders -> {B!Idle} \cup
            [pc : {"sending", "arrived"}, id : Messages, part : 1..Parts]]
    BY <1>5, OutboxTyped
  <1> QED
    BY <1>5, <1>8, <1>10, <1>11, <1>12, <1>13, OutboxTyped, OutboxTypes

(* A request that was given up lands: it is the part that comes next.      *)
LEMMA StepArriveLate ==
  ASSUME OutboxInv, NEW q \in B!Requests, B!ArriveLate(q)
  PROVE  OutboxInv'
  <1>0. PICK o \in Messages, n \in 1..Parts : q.id = o /\ q.part = n
    BY DEF B!Requests
  <1>1. /\ q \in b_limbo /\ Message(o) /\ b_shown[o] \in Seq(1..Parts)
        /\ LeftOver(q, o) /\ \A z \in Senders : ~Busy(z, o)
    BY <1>0, OutboxTyped DEF B!ArriveLate, Message
  <1>2. /\ b_row[o] # B!Absent /\ b_row[o].state \in {"sending", "uncertain"}
        /\ n = b_row[o].ids + 1 /\ Seen(o) = b_row[o].ids /\ b_row[o].ids \in 0..Parts
    BY <1>0, <1>1, OutboxTyped, OutboxRow DEF LeftOver
  <1>3. /\ b_shown' = [b_shown EXCEPT ![o] = Append(b_shown[o], n)]
        /\ b_limbo' = b_limbo \ {q}
        /\ UNCHANGED <<b_row, b_sender, b_confirmed, b_given>>
    BY <1>0 DEF B!ArriveLate
  <1>4. b_shown'[o] = Append(b_shown[o], n) /\ b_shown' \in [Messages -> Seq(1..Parts)]
    BY <1>1, <1>3, OutboxTyped
  <1>5. /\ Seen(o)' = Seen(o) + 1 /\ Seen(o) \in Nat
        /\ \A i \in 1..Seen(o) : b_shown'[o][i] = b_shown[o][i]
        /\ b_shown'[o][Seen(o) + 1] = n
    BY <1>1, <1>4 DEF Seen
  <1>6. \A r \in b_limbo : r.id = o => r = q
    <2> SUFFICES ASSUME NEW r \in b_limbo, r.id = o PROVE r = q
      OBVIOUS
    <2>1. LeftOver(r, o) /\ r \in B!Requests
      BY <1>1, OutboxTyped DEF Message
    <2>2. r.part = q.part /\ r.id = q.id
      BY <1>0, <1>2, <2>1 DEF LeftOver
    <2> QED
      BY <2>1, <2>2 DEF B!Requests
  <1>7. Message(o)'
    <2>1. Counts(o)'
      <3>1. \A i \in 1..Seen(o)' : b_shown'[o][i] = i
        <4>1. \A i \in 1..Seen(o) : b_shown[o][i] = i
          BY <1>1 DEF Message, Counts
        <4>2. \A i \in 1..(Seen(o) + 1) : i = Seen(o) + 1 \/ i \in 1..Seen(o)
          BY <1>5
        <4> QED
          BY <1>2, <1>5, <4>1, <4>2
      <3>2. Seen(o)' = b_row[o].ids + 1
        BY <1>2, <1>5
      <3> QED
        BY <1>1, <1>2, <1>3, <3>1, <3>2, OutboxConstants DEF Message, Counts
    <2>2. \A z \in Senders : ~Busy(z, o)'
      BY <1>1, <1>3 DEF Busy
    <2>3. \A r \in b_limbo' : r.id # o
      BY <1>3, <1>6
    <2> QED
      BY <1>1, <1>2, <1>3, <2>1, <2>2, <2>3 DEF Message
  <1>8. ASSUME NEW p \in Messages, p # o PROVE Message(p)'
    <2>1. b_row'[p] = b_row[p] /\ b_shown'[p] = b_shown[p] /\ b_given'[p] = b_given[p]
      BY <1>3, <1>8, OutboxTyped
    <2>2. \A z \in Senders : Busy(z, p)' => b_sender'[z] = b_sender[z]
      BY <1>3
    <2> QED
      BY <1>3, <2>1, <2>2, MessageKept, OutboxTyped
  <1> QED
    BY <1>3, <1>4, <1>7, <1>8, OutboxTyped, OutboxTypes

LEMMA LostTypes ==
  ASSUME OutboxInv, B!Lost
  PROVE  /\ b_sender' \in [Senders -> {B!Idle} \cup
              [pc : {"sending", "arrived"}, id : Messages, part : 1..Parts]]
         /\ b_limbo' \subseteq B!Requests /\ b_confirmed' = b_confirmed
         /\ \A s \in Senders : b_sender'[s] = B!Idle
  <1>1. \A s \in Senders : b_sender[s].pc = "sending" => B!Request(s) \in B!Requests
    BY OutboxTyped DEF B!Request, B!Requests
  <1> QED
    BY <1>1, OutboxTyped DEF B!Lost

LEMMA StepCrash ==
  ASSUME OutboxInv, B!Crash
  PROVE  OutboxInv'
  <1>1. B!Lost /\ UNCHANGED <<b_row, b_shown, b_given>>
    BY DEF B!Crash
  <1>2. \A o \in Messages : Message(o)'
    BY <1>1, MessageLost
  <1> QED
    BY <1>1, <1>2, LostTypes, OutboxTyped, OutboxTypes

LEMMA StepCrashBeforeFirst ==
  ASSUME OutboxInv, NEW o \in Messages, NEW x \in Texts, NEW t \in Targets,
         B!CrashBeforeFirst(o, x, t)
  PROVE  OutboxInv'
  <1> DEFINE v == B!Opened(b_row[o], x, t)
  <1>1. /\ b_row[o] \in B!Rows \cup {B!Absent} /\ Message(o)
        /\ B!Admits(b_row[o], x, t) /\ B!Lost
        /\ b_row' = [b_row EXCEPT ![o] = v]
        /\ UNCHANGED <<b_shown, b_given>>
    BY OutboxTyped DEF B!CrashBeforeFirst
  <1>2. /\ v \in B!Rows /\ v.text = x /\ v.envelope = t
        /\ v.ids = IF b_row[o] = B!Absent THEN 0 ELSE b_row[o].ids
        /\ v.state \in {"prepared", "retryable"}
        /\ b_row[o] # B!Absent => /\ b_row[o].state \in {"prepared", "retryable"}
                                  /\ b_row[o].text = x
        /\ b_row[o] # B!Absent /\ b_row[o].envelope # None => b_row[o].envelope = t
    BY <1>1, RowOpened
  <1> HIDE DEF v
  <1>3. /\ \A z \in Senders : ~Busy(z, o)
        /\ \A q \in b_limbo : q.id # o
        /\ o \notin b_confirmed
    BY <1>1, <1>2 DEF Message, SenderFits, LeftOver
  <1>4. \A q \in b_limbo' : q.id # o
    <2> SUFFICES ASSUME NEW q \in b_limbo', q \notin b_limbo PROVE q.id # o
      BY <1>3
    <2>1. PICK s \in Senders : b_sender[s].pc = "sending" /\ q = B!Request(s)
      BY <1>1 DEF B!Lost
    <2> QED
      BY <1>3, <2>1, OutboxTyped DEF B!Request
  <1>5. b_row'[o] = v /\ v # B!Absent
    BY <1>1, <1>2, OutboxTyped, OutboxRow
  <1>6. Message(o)'
    <2>1. Counts(o)'
      BY <1>1, <1>2, <1>5, OutboxRow, OutboxConstants DEF Message, Counts, Seen
    <2>2. \A z \in Senders : ~Busy(z, o)'
      BY <1>1, LostTypes DEF Busy
    <2>3. b_given'[o] \subseteq {<<v.text, v.envelope>>} /\ v.envelope # None
      BY <1>1, <1>2, OutboxConstants DEF Message
    <2> QED
      BY <1>1, <1>2, <1>3, <1>4, <1>5, <2>1, <2>2, <2>3, LostTypes DEF Message
  <1>7. ASSUME NEW p \in Messages, p # o PROVE Message(p)'
    <2>1. b_row'[p] = b_row[p] /\ b_shown'[p] = b_shown[p] /\ b_given'[p] = b_given[p]
      BY <1>1, <1>7, OutboxTyped
    <2> QED
      BY <1>1, <2>1, MessageLost
  <1>8. b_row' \in [Messages -> B!Rows \cup {B!Absent}]
    BY <1>1, <1>2, OutboxTyped
  <1> QED
    BY <1>1, <1>6, <1>7, <1>8, LostTypes, OutboxTyped, OutboxTypes

LEMMA StepCrashBetweenParts ==
  ASSUME OutboxInv, NEW s \in Senders, B!CrashBetweenParts(s)
  PROVE  OutboxInv'
  <1>0. PICK o \in Messages, n \in 1..Parts :
           b_sender[s].id = o /\ b_sender[s].part = n
    BY OutboxTyped DEF B!CrashBetweenParts
  <1> DEFINE v == B!Counted(b_row[o], n)
  <1>1. /\ b_sender[s].pc = "arrived" /\ Busy(s, o) /\ b_row[o] \in B!Rows
        /\ b_row[o] # B!Absent /\ Message(o) /\ b_row[o].ids \in 0..Parts
        /\ B!Lost /\ b_row' = [b_row EXCEPT ![o] = v]
        /\ UNCHANGED <<b_shown, b_given>>
    BY <1>0, OutboxTyped, OutboxRow DEF B!CrashBetweenParts
  <1>2. b_row[o].state = "sending" /\ n = b_row[o].ids + 1 /\ Seen(o) = n
        /\ b_row[o].envelope # None
    BY <1>0, <1>1 DEF Message, SenderFits
  <1>3. /\ v \in B!Rows /\ v.ids = n /\ v.text = b_row[o].text
        /\ v.envelope = b_row[o].envelope
        /\ v.state = IF n = Parts THEN "delivered" ELSE "prepared"
    BY <1>1, RowCounted
  <1> HIDE DEF v
  <1>4. /\ \A z \in Senders : Busy(z, o) => z = s
        /\ \A q \in b_limbo : q.id # o
        /\ o \notin b_confirmed
        /\ b_given[o] \subseteq {<<b_row[o].text, b_row[o].envelope>>}
    BY <1>1, <1>2 DEF Message
  <1>5. \A q \in b_limbo' : q.id # o
    <2> SUFFICES ASSUME NEW q \in b_limbo', q \notin b_limbo PROVE q.id # o
      BY <1>4
    <2>1. PICK z \in Senders : b_sender[z].pc = "sending" /\ q = B!Request(z)
      BY <1>1 DEF B!Lost
    <2> QED
      BY <1>1, <1>4, <2>1, OutboxTyped DEF B!Request
  <1>6. b_row'[o] = v /\ v # B!Absent
    BY <1>1, <1>3, OutboxTyped, OutboxRow
  <1>7. Message(o)'
    <2>1. Counts(o)'
      BY <1>1, <1>2, <1>3, <1>6, OutboxConstants DEF Message, Counts, Seen
    <2>2. \A z \in Senders : ~Busy(z, o)'
      BY <1>1, LostTypes DEF Busy
    <2> QED
      BY <1>1, <1>2, <1>3, <1>4, <1>5, <1>6, <2>1, <2>2, LostTypes DEF Message
  <1>8. ASSUME NEW p \in Messages, p # o PROVE Message(p)'
    <2>1. b_row'[p] = b_row[p] /\ b_shown'[p] = b_shown[p] /\ b_given'[p] = b_given[p]
      BY <1>1, <1>8, OutboxTyped
    <2> QED
      BY <1>1, <2>1, MessageLost
  <1>9. b_row' \in [Messages -> B!Rows \cup {B!Absent}]
    BY <1>1, <1>3, OutboxTyped
  <1> QED
    BY <1>1, <1>7, <1>8, <1>9, LostTypes, OutboxTyped, OutboxTypes

LEMMA OutboxStep ==
  ASSUME OutboxInv, [B!Next]_b_vars
  PROVE  OutboxInv'
  <1>1. CASE UNCHANGED b_vars
    BY <1>1 DEF b_vars, OutboxInv, B!TypeOK, Message, Counts, Seen, Busy, SenderFits,
                LeftOver
  <1>2. CASE \E s \in Senders, o \in Messages, x \in Texts, t \in Targets :
                B!Send(s, o, x, t) \/ B!Answer(s, o, x, t)
    BY <1>2, StepSend, StepAnswer
  <1>3. CASE \E s \in Senders : B!SenderStep(s) \/ B!CrashBetweenParts(s)
    BY <1>3, StepArrive, StepPartSent, StepThrow, StepCrashBetweenParts DEF B!SenderStep
  <1>4. CASE \E q \in B!Requests : B!ArriveLate(q)
    BY <1>4, StepArriveLate
  <1>5. CASE \E o \in Messages, x \in Texts, t \in Targets : B!CrashBeforeFirst(o, x, t)
    BY <1>5, StepCrashBeforeFirst
  <1>6. CASE B!Crash
    BY <1>6, StepCrash
  <1> QED
    BY <1>1, <1>2, <1>3, <1>4, <1>5, <1>6 DEF B!Next

(* What is known of a message holds of every message, always.              *)
THEOREM OutboxInvariant == B!Spec => []OutboxInv
  <1>1. OutboxInv /\ [B!Next]_b_vars => OutboxInv'
    BY OutboxStep
  <1> QED
    BY <1>1, OutboxStart, PTL DEF B!Spec, B!vars, b_vars

(* The chat shows the parts of every message once each and in order,       *)
(* however many parts, senders and retries there are.                      *)
THEOREM MessageOnce == B!Spec => []PartsOnceInOrder
  <1>1. OutboxInv => PartsOnceInOrder
    BY DEF OutboxInv, Message, Counts, Seen, PartsOnceInOrder, B!PartsOnceInOrder
  <1> QED
    BY <1>1, OutboxInvariant, PTL

(* A caller that is told "sent" can rely on the whole text, the row never  *)
(* claims more than the chat shows, and all requests for a message carry   *)
(* one text and one reply target.                                          *)
THEOREM MessageKeepsItsWord ==
  B!Spec => [](B!OkMeansShown /\ B!RowIsTrue /\ B!OneEnvelope)
  <1>1. ASSUME OutboxInv PROVE B!OkMeansShown
    BY <1>1, OutboxTyped, OutboxRow, OutboxConstants DEF Message, Counts, Seen, B!OkMeansShown
  <1>2. ASSUME OutboxInv PROVE B!RowIsTrue
    BY <1>2, OutboxTyped, OutboxRow, OutboxConstants DEF Message, Counts, Seen, B!RowIsTrue
  <1>3. ASSUME OutboxInv PROVE B!OneEnvelope
    BY <1>3 DEF OutboxInv, Message, B!OneEnvelope
  <1> QED
    BY <1>1, <1>2, <1>3, OutboxInvariant, PTL

(* A row whose outcome is unknown is never sent again.                     *)
THEOREM UnknownIsLeftAlone == B!Spec => B!UnknownStays
  <1>1. ASSUME OutboxInv, [B!Next]_b_vars, NEW o \in Messages, B!Unknown(o)
        PROVE  B!Unknown(o)' /\ b_row'[o] = b_row[o]
    <2>1. b_row[o] # B!Absent /\ b_row[o].state \in {"sending", "uncertain"}
          /\ \A s \in Senders : b_sender[s].id # o
      BY <1>1 DEF B!Unknown
    <2>2. b_row'[o] = b_row[o] /\ \A s \in Senders : b_sender'[s].id # o
      <3>1. CASE UNCHANGED b_vars
        BY <2>1, <3>1 DEF b_vars
      <3>2. ASSUME NEW s \in Senders, NEW p \in Messages, NEW x \in Texts,
                   NEW t \in Targets, B!Send(s, p, x, t)
            PROVE  b_row'[o] = b_row[o] /\ \A z \in Senders : b_sender'[z].id # o
        <4>1. p # o
          BY <2>1, <3>2 DEF B!Send, B!Admits
        <4> QED
          BY <1>1, <2>1, <3>2, <4>1, OutboxTyped DEF B!Send
      <3>3. ASSUME NEW s \in Senders, NEW p \in Messages, NEW x \in Texts,
                   NEW t \in Targets, B!Answer(s, p, x, t)
            PROVE  b_row'[o] = b_row[o] /\ \A z \in Senders : b_sender'[z].id # o
        BY <2>1, <3>3 DEF B!Answer
      <3>4. ASSUME NEW s \in Senders, B!Arrive(s)
            PROVE  b_row'[o] = b_row[o] /\ \A z \in Senders : b_sender'[z].id # o
        BY <1>1, <2>1, <3>4, OutboxTyped DEF B!Arrive
      <3>5. ASSUME NEW s \in Senders, B!PartSent(s)
            PROVE  b_row'[o] = b_row[o] /\ \A z \in Senders : b_sender'[z].id # o
        <4>1. /\ b_sender[s].id # o /\ B!Idle.id # o /\ b_sender[s].id \in Messages
              /\ \A n : [pc |-> "sending", id |-> b_sender[s].id, part |-> n].id # o
          BY <1>1, <2>1, <3>5, OutboxTyped, OutboxConstants DEF B!PartSent, B!Idle
        <4>2. PICK r, u :
                 /\ b_row' = [b_row EXCEPT ![b_sender[s].id] = r]
                 /\ b_sender' = [b_sender EXCEPT ![s] = u] /\ u.id # o
          BY <3>5, <4>1 DEF B!PartSent
        <4> QED
          BY <1>1, <2>1, <4>1, <4>2, OutboxTyped
      <3>6. ASSUME NEW s \in Senders, B!PartRefused(s) \/ B!PartLost(s)
            PROVE  b_row'[o] = b_row[o] /\ \A z \in Senders : b_sender'[z].id # o
        <4>1. b_sender[s].id # o /\ B!Idle.id # o
          BY <1>1, <2>1, OutboxConstants DEF B!Idle
        <4>2. PICK r :
                 /\ b_row' = [b_row EXCEPT ![b_sender[s].id] = r]
                 /\ b_sender' = [b_sender EXCEPT ![s] = B!Idle]
          BY <3>6 DEF B!PartRefused, B!PartLost, B!Throw
        <4> QED
          BY <1>1, <2>1, <4>1, <4>2, OutboxTyped
      <3>7. ASSUME B!Lost, b_row'[o] = b_row[o]
            PROVE  b_row'[o] = b_row[o] /\ \A z \in Senders : b_sender'[z].id # o
        BY <1>1, <3>7, LostTypes, OutboxConstants DEF B!Idle
      <3>8. ASSUME NEW s \in Senders, B!CrashBetweenParts(s)
            PROVE  b_row'[o] = b_row[o] /\ \A z \in Senders : b_sender'[z].id # o
        BY <1>1, <2>1, <3>7, <3>8, OutboxTyped DEF B!CrashBetweenParts
      <3>9. ASSUME NEW p \in Messages, NEW x \in Texts, NEW t \in Targets,
                   B!CrashBeforeFirst(p, x, t)
            PROVE  b_row'[o] = b_row[o] /\ \A z \in Senders : b_sender'[z].id # o
        <4>1. p # o
          BY <2>1, <3>9 DEF B!CrashBeforeFirst, B!Admits
        <4> QED
          BY <1>1, <3>7, <3>9, <4>1, OutboxTyped DEF B!CrashBeforeFirst
      <3>10. ASSUME NEW q \in B!Requests, B!ArriveLate(q)
            PROVE  b_row'[o] = b_row[o] /\ \A z \in Senders : b_sender'[z].id # o
        BY <2>1, <3>10 DEF B!ArriveLate
      <3>11. CASE B!Crash
        BY <3>7, <3>11 DEF B!Crash
      <3> QED
        BY <1>1, <3>1, <3>2, <3>3, <3>4, <3>5, <3>6, <3>8, <3>9, <3>10, <3>11
           DEF B!Next, B!SenderStep
    <2> QED
      BY <2>1, <2>2 DEF B!Unknown
  <1>2. OutboxInv /\ [B!Next]_b_vars =>
           [\A o \in Messages : B!Unknown(o) => B!Unknown(o)' /\ b_row'[o] = b_row[o]]_b_vars
    BY <1>1
  <1> QED
    BY <1>2, OutboxInvariant, PTL DEF B!Spec, B!UnknownStays, B!vars, b_vars
=============================================================================
