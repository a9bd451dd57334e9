--------------------------- MODULE StateLockProofs ---------------------------
(***************************************************************************)
(* Proofs about StateLock for every number of services, older versions,    *)
(* probes and inodes, and every MaxAttempts; and about the machines beside *)
(* it in MCRecords, for every bound: the delivery of a report (Reports),   *)
(* the handoffs of a workflow (Handoffs), the pages of a large result      *)
(* (Pages) and what of a conversation is kept and sent (Transcript).       *)
(***************************************************************************)
EXTENDS MCRecords, Integers, Sequences, SequenceTheorems, WellFoundedInduction, TLAPS

(***************************************************************************)
(* The inductive invariant                                                 *)
(***************************************************************************)
Trying(p)  == phase[p] \in {"open", "lock", "compare"}
Leaving(p) == phase[p] \in {"stat", "unlink", "unlock"}

(* Where a process stands says what it has open and what it holds.         *)
Place(p) ==
  /\ fd[p] # None <=> phase[p] \in {"lock", "compare"}
  /\ p \in Probes => /\ phase[p] = "off" \/ Trying(p)
                    /\ \A f \in Files : kept[p][f] = None
  /\ p \in Procs =>
       /\ Trying(p) => tries[p] < MaxAttempts
       /\ file[p] = Primary => p \in Services
       /\ kept[p][Legacy] # None
            <=> Serving(p) \/ Leaving(p) \/ (Trying(p) /\ file[p] = Primary)
       /\ kept[p][Primary] # None
            <=> p \in Services /\ (Serving(p) \/ (Leaving(p) /\ file[p] = Primary))

Placed == \A p \in All : Place(p)

(* What a process holds it has locked, and the two are different inodes.   *)
Owned ==
  \A p \in Procs : \A f \in Files : kept[p][f] # None => flock[kept[p][f]] = p

Distinct ==
  \A p \in Procs : kept[p][Legacy] # None => kept[p][Legacy] # kept[p][Primary]

(* Before the comparison it has locked what it opened, which is new to it. *)
Compared ==
  \A p \in Procs : phase[p] = "compare" =>
      /\ flock[fd[p]] = p
      /\ \A f \in Files : kept[p][f] # fd[p]

(* A held inode is what the name means, until its holder removed the name. *)
Named ==
  \A p \in Procs : \A f \in Files :
      kept[p][f] # None /\ ~(phase[p] = "unlock" /\ file[p] = f)
          => path[f] = kept[p][f]

(* A lock is held for good, or until the comparison.                       *)
Used ==
  \A n \in Inodes : flock[n] # None =>
      \/ phase[flock[n]] = "compare" /\ fd[flock[n]] = n
      \/ \E f \in Files : kept[flock[n]][f] = n

IInv == TypeOK /\ Placed /\ Owned /\ Distinct /\ Compared /\ Named /\ Used

(***************************************************************************)
(* One lemma per step of a process, and one per step of a probe.           *)
(***************************************************************************)
LEMMA StartStep ==
  ASSUME IInv, NEW p \in Procs, Start(p)
  PROVE  IInv'
  <1> USE LockAssumption DEF Procs, All, Files, Legacy, Primary
  <1>1. TypeOK'
    BY DEF IInv, TypeOK, fs, Start, Goto, Stay, Phases
  <1>2. Placed'
    BY DEF IInv, TypeOK, Start, Goto, Placed, Place, Trying, Leaving,
           Serving
  <1>3. Owned' /\ Distinct'
    BY DEF IInv, TypeOK, fs, Start, Owned, Distinct
  <1>4. Compared'
    BY DEF IInv, TypeOK, fs, Start, Goto, Compared
  <1>5. Named'
    BY DEF IInv, TypeOK, fs, Start, Goto, Named
  <1>6. Used'
    BY DEF IInv, TypeOK, fs, Start, Goto, Used
  <1> QED
    BY <1>1, <1>2, <1>3, <1>4, <1>5, <1>6 DEF IInv

LEMMA OpenStep ==
  ASSUME IInv, NEW p \in Procs, Open(p)
  PROVE  IInv'
  <1> USE LockAssumption DEF Procs, All, Files, Legacy, Primary
  <1>1. TypeOK'
    BY SMTT(30) DEF IInv, TypeOK, Open, Goto, Stay, Phases
  <1>2. Placed'
    BY DEF IInv, TypeOK, Open, Goto, Placed, Place, Trying, Leaving, Serving
  <1>3. Owned' /\ Distinct'
    BY DEF IInv, TypeOK, fs, Open, Owned, Distinct
  <1>4. Compared'
    BY DEF IInv, TypeOK, fs, Open, Goto, Compared
  <1>5. Named'
    BY DEF IInv, TypeOK, fs, Open, Goto, Named
  <1>6. Used'
    BY DEF IInv, TypeOK, fs, Open, Goto, Used
  <1> QED
    BY <1>1, <1>2, <1>3, <1>4, <1>5, <1>6 DEF IInv

LEMMA LockStep ==
  ASSUME IInv, NEW p \in Procs, Lock(p)
  PROVE  IInv'
  <1> USE LockAssumption DEF Procs, All, Files, Legacy, Primary
  <1>1. TypeOK'
    BY DEF IInv, TypeOK, Lock, Goto, Stay, Phases
  <1>2. Placed'
    BY DEF IInv, TypeOK, Lock, Goto, Placed, Place, Trying, Leaving, Serving
  <1>3. Owned' /\ Distinct'
    BY DEF IInv, TypeOK, fs, Lock, Owned, Distinct
  <1>4. Compared'
    BY DEF IInv, TypeOK, fs, Lock, Goto, Placed, Place, Owned, Compared
  <1>5. Named'
    BY DEF IInv, TypeOK, fs, Lock, Goto, Named
  <1>6. Used'
    BY DEF IInv, TypeOK, fs, Lock, Goto, Used
  <1> QED
    BY <1>1, <1>2, <1>3, <1>4, <1>5, <1>6 DEF IInv

LEMMA BusyStep ==
  ASSUME IInv, NEW p \in Procs, Busy(p)
  PROVE  IInv'
  <1> USE LockAssumption DEF Procs, All, Files, Legacy, Primary
  <1>1. TypeOK'
    BY ZenonT(30) DEF IInv, TypeOK, fs, Busy, Goto, BackOut, Stay, Phases
  <1>2. Placed'
    BY DEF IInv, TypeOK, Busy, Goto, BackOut, Placed, Place, Trying,
           Leaving, Serving
  <1>3. Owned' /\ Distinct'
    BY DEF IInv, TypeOK, fs, Busy, Owned, Distinct
  <1>4. Compared'
    BY DEF IInv, TypeOK, fs, Busy, Goto, BackOut, Compared
  <1>5. Named'
    BY DEF IInv, TypeOK, fs, Busy, Goto, BackOut, Named
  <1>6. Used'
    BY DEF IInv, TypeOK, fs, Busy, Goto, BackOut, Used
  <1> QED
    BY <1>1, <1>2, <1>3, <1>4, <1>5, <1>6 DEF IInv

LEMMA ReplacedStep ==
  ASSUME IInv, NEW p \in Procs, Replaced(p)
  PROVE  IInv'
  <1> USE LockAssumption DEF Procs, All, Files, Legacy, Primary
  <1>1. TypeOK'
    <2>1. tries[p] < MaxAttempts
      BY DEF IInv, Replaced, Placed, Place, Trying
    <2>2. tries' \in [All -> 0..MaxAttempts]
      BY <2>1 DEF IInv, TypeOK, Replaced
    <2>3. phase' \in [All -> Phases] /\ file' \in [All -> Files]
      BY SMTT(30) DEF IInv, TypeOK, Phases, Replaced, Goto, BackOut
    <2>4. fd' \in [All -> Inodes \cup {None}] /\ flock' \in [Inodes -> All \cup {None}]
      BY DEF IInv, TypeOK, fs, Replaced, Unlocked
    <2>5. verdict' = verdict /\ calm' \in [Probes -> BOOLEAN]
      BY DEF IInv, TypeOK, Replaced, Stay
    <2> QED
      BY <2>2, <2>3, <2>4, <2>5 DEF IInv, TypeOK, fs, Replaced
  <1>2. Placed'
    BY DEF IInv, TypeOK, Replaced, Goto, BackOut, Placed, Place, Trying,
           Leaving, Serving
  <1>3. Owned' /\ Distinct'
    BY DEF IInv, TypeOK, fs, Replaced, Unlocked, Owned, Compared, Distinct
  <1>4. Compared'
    BY DEF IInv, TypeOK, fs, Replaced, Goto, BackOut, Unlocked, Compared
  <1>5. Named'
    BY DEF IInv, TypeOK, fs, Replaced, Goto, BackOut, Named
  <1>6. Used'
    BY DEF IInv, TypeOK, fs, Replaced, Goto, BackOut, Unlocked, Used
  <1> QED
    BY <1>1, <1>2, <1>3, <1>4, <1>5, <1>6 DEF IInv

LEMMA HoldStep ==
  ASSUME IInv, NEW p \in Procs, Hold(p)
  PROVE  IInv'
  <1> USE LockAssumption DEF Procs, All, Files, Legacy, Primary
  <1>1. TypeOK'
    <2>1. fd[p] \in Inodes \cup {None}
      BY DEF IInv, TypeOK
    <2>2. kept' \in [All -> [Files -> Inodes \cup {None}]]
      BY <2>1 DEF IInv, TypeOK, Hold
    <2>3. phase' \in [All -> Phases] /\ file' \in [All -> Files]
      BY SMTT(30) DEF IInv, TypeOK, Phases, Hold, Goto
    <2>4. fd' \in [All -> Inodes \cup {None}] /\ tries' \in [All -> 0..MaxAttempts]
      BY DEF IInv, TypeOK, Hold
    <2>5. verdict' = verdict /\ calm' \in [Probes -> BOOLEAN]
      BY DEF IInv, TypeOK, Hold, Stay
    <2> QED
      BY <2>2, <2>3, <2>4, <2>5 DEF IInv, TypeOK, fs, Hold
  <1>2. Placed'
    BY DEF IInv, TypeOK, Hold, Goto, Placed, Place, Trying, Leaving, Serving
  <1>3. Owned' /\ Distinct'
    BY DEF IInv, TypeOK, fs, Hold, Owned, Compared, Distinct
  <1>4. Compared'
    BY DEF IInv, TypeOK, fs, Hold, Goto, Compared
  <1>5. Named'
    BY DEF IInv, TypeOK, fs, Hold, Goto, Named
  <1>6. Used'
    BY DEF IInv, TypeOK, fs, Hold, Goto, Placed, Place, Leaving, Serving,
           Used
  <1> QED
    BY <1>1, <1>2, <1>3, <1>4, <1>5, <1>6 DEF IInv

LEMMA QuitStep ==
  ASSUME IInv, NEW p \in Procs, Quit(p)
  PROVE  IInv'
  <1> USE LockAssumption DEF Procs, All, Files, Legacy, Primary
  <1>1. TypeOK'
    BY SMTT(30) DEF IInv, TypeOK, fs, Quit, Goto, BackOut, Stay, Phases
  <1>2. Placed'
    BY DEF IInv, TypeOK, Quit, Goto, BackOut, Placed, Place, Trying,
           Leaving, Serving
  <1>3. Owned' /\ Distinct'
    BY DEF IInv, TypeOK, fs, Quit, Owned, Distinct
  <1>4. Compared'
    BY DEF IInv, TypeOK, fs, Quit, Goto, BackOut, Compared
  <1>5. Named'
    BY DEF IInv, TypeOK, fs, Quit, Goto, BackOut, Serving, Named
  <1>6. Used'
    BY DEF IInv, TypeOK, fs, Quit, Goto, BackOut, Serving, Used
  <1> QED
    BY <1>1, <1>2, <1>3, <1>4, <1>5, <1>6 DEF IInv

LEMMA StatBeforeUnlinkStep ==
  ASSUME IInv, NEW p \in Procs, StatBeforeUnlink(p)
  PROVE  IInv'
  <1> USE LockAssumption DEF Procs, All, Files, Legacy, Primary
  <1>1. TypeOK'
    BY SMTT(30) DEF IInv, TypeOK, fs, StatBeforeUnlink, Goto, Stay, Phases
  <1>2. Placed'
    BY DEF IInv, TypeOK, StatBeforeUnlink, Goto, Placed, Place, Trying,
           Leaving, Serving
  <1>3. Owned' /\ Distinct'
    BY DEF IInv, TypeOK, fs, StatBeforeUnlink, Owned, Distinct
  <1>4. Compared'
    BY DEF IInv, TypeOK, fs, StatBeforeUnlink, Goto, Compared
  <1>5. Named'
    BY DEF IInv, TypeOK, fs, StatBeforeUnlink, Goto, Named
  <1>6. Used'
    BY DEF IInv, TypeOK, fs, StatBeforeUnlink, Goto, Used
  <1> QED
    BY <1>1, <1>2, <1>3, <1>4, <1>5, <1>6 DEF IInv

LEMMA UnlinkStep ==
  ASSUME IInv, NEW p \in Procs, Unlink(p)
  PROVE  IInv'
  <1> USE LockAssumption DEF Procs, All, Files, Legacy, Primary
  <1>1. TypeOK'
    BY DEF IInv, TypeOK, Unlink, Goto, Stay, Phases
  <1>2. Placed'
    BY DEF IInv, TypeOK, Unlink, Goto, Placed, Place, Trying, Leaving,
           Serving
  <1>3. Owned' /\ Distinct'
    BY DEF IInv, TypeOK, fs, Unlink, Owned, Distinct
  <1>4. Compared'
    BY DEF IInv, TypeOK, fs, Unlink, Goto, Compared
  <1>5. Named'
    BY DEF IInv, TypeOK, fs, Unlink, Goto, Placed, Place, Leaving, Owned,
           Named
  <1>6. Used'
    BY DEF IInv, TypeOK, fs, Unlink, Goto, Used
  <1> QED
    BY <1>1, <1>2, <1>3, <1>4, <1>5, <1>6 DEF IInv

LEMMA UnlockStep ==
  ASSUME IInv, NEW p \in Procs, Unlock(p)
  PROVE  IInv'
  <1> USE LockAssumption DEF Procs, All, Files, Legacy, Primary
  <1>1. TypeOK'
    BY DEF IInv, TypeOK, Unlock, Goto, Stay, Phases
  <1>2. Placed'
    BY DEF IInv, TypeOK, Unlock, Goto, Placed, Place, Trying, Leaving,
           Serving
  <1>3. Owned' /\ Distinct'
    BY DEF IInv, TypeOK, fs, Unlock, Owned, Distinct
  <1>4. Compared'
    BY DEF IInv, TypeOK, fs, Unlock, Goto, Owned, Compared
  <1>5. Named'
    BY DEF IInv, TypeOK, fs, Unlock, Goto, Named
  <1>6. Used'
    BY DEF IInv, TypeOK, fs, Unlock, Goto, Used
  <1> QED
    BY <1>1, <1>2, <1>3, <1>4, <1>5, <1>6 DEF IInv

LEMMA CrashStep ==
  ASSUME IInv, NEW p \in Procs, Crash(p)
  PROVE  IInv'
  <1> USE LockAssumption DEF Procs, All, Files, Legacy, Primary
  <1>1. TypeOK'
    BY DEF IInv, TypeOK, Crash, Goto, Stay, Phases
  <1>2. Placed'
    BY DEF IInv, TypeOK, Crash, Goto, Placed, Place, Trying, Leaving,
           Serving
  <1>3. Owned' /\ Distinct'
    BY DEF IInv, TypeOK, fs, Crash, Owned, Distinct
  <1>4. Compared'
    BY DEF IInv, TypeOK, fs, Crash, Goto, Placed, Place, Compared
  <1>5. Named'
    BY DEF IInv, TypeOK, fs, Crash, Goto, Named
  <1>6. Used'
    BY DEF IInv, TypeOK, fs, Crash, Goto, Used
  <1> QED
    BY <1>1, <1>2, <1>3, <1>4, <1>5, <1>6 DEF IInv

LEMMA ProbeStep ==
  ASSUME IInv, NEW q \in Probes, Probe(q)
  PROVE  IInv'
  <1> USE LockAssumption DEF Procs, All, Files, Legacy, Primary
  <1>1. TypeOK'
    BY DEF IInv, TypeOK, fs, Probe, Goto, Phases, Verdicts
  <1>2. Placed'
    BY DEF IInv, TypeOK, Probe, Goto, Placed, Place, Trying, Leaving,
           Serving
  <1>3. Owned' /\ Distinct'
    BY DEF IInv, TypeOK, fs, Probe, Owned, Distinct
  <1>4. Compared'
    BY DEF IInv, TypeOK, fs, Probe, Goto, Compared
  <1>5. Named'
    BY DEF IInv, TypeOK, fs, Probe, Goto, Named
  <1>6. Used'
    BY DEF IInv, TypeOK, fs, Probe, Goto, Used
  <1> QED
    BY <1>1, <1>2, <1>3, <1>4, <1>5, <1>6 DEF IInv

LEMMA ProbeOpenStep ==
  ASSUME IInv, NEW q \in Probes, ProbeOpen(q)
  PROVE  IInv'
  <1> USE LockAssumption DEF Procs, All, Files, Legacy, Primary
  <1>1. TypeOK'
    BY DEF IInv, TypeOK, fs, ProbeOpen, Goto, Stay, Phases
  <1>2. Placed'
    BY DEF IInv, TypeOK, ProbeOpen, Goto, Placed, Place, Trying, Leaving,
           Serving
  <1>3. Owned' /\ Distinct'
    BY DEF IInv, TypeOK, fs, ProbeOpen, Owned, Distinct
  <1>4. Compared'
    BY DEF IInv, TypeOK, fs, ProbeOpen, Goto, Compared
  <1>5. Named'
    BY DEF IInv, TypeOK, fs, ProbeOpen, Goto, Named
  <1>6. Used'
    BY DEF IInv, TypeOK, fs, ProbeOpen, Goto, Used
  <1> QED
    BY <1>1, <1>2, <1>3, <1>4, <1>5, <1>6 DEF IInv

LEMMA ProbeNoFileStep ==
  ASSUME IInv, NEW q \in Probes, ProbeNoFile(q)
  PROVE  IInv'
  <1> USE LockAssumption DEF Procs, All, Files, Legacy, Primary
  <1>1. TypeOK'
    BY SMTT(30) DEF IInv, TypeOK, ProbeNoFile, Goto, Found, Phases, Verdicts
  <1>2. Placed'
    BY DEF IInv, TypeOK, ProbeNoFile, Goto, Found, Phases, Placed, Place,
           Trying, Leaving, Serving
  <1>3. Owned' /\ Distinct'
    BY DEF IInv, TypeOK, fs, ProbeNoFile, Found, Owned, Distinct
  <1>4. Compared'
    BY DEF IInv, TypeOK, fs, ProbeNoFile, Goto, Found, Compared
  <1>5. Named'
    BY DEF IInv, TypeOK, fs, ProbeNoFile, Goto, Found, Named
  <1>6. Used'
    BY DEF IInv, TypeOK, fs, ProbeNoFile, Goto, Found, Used
  <1> QED
    BY <1>1, <1>2, <1>3, <1>4, <1>5, <1>6 DEF IInv

LEMMA ProbeLockStep ==
  ASSUME IInv, NEW q \in Probes, ProbeLock(q)
  PROVE  IInv'
  <1> USE LockAssumption DEF Procs, All, Files, Legacy, Primary
  <1>1. TypeOK'
    BY DEF IInv, TypeOK, ProbeLock, Goto, Stay, Phases
  <1>2. Placed'
    BY DEF IInv, TypeOK, ProbeLock, Goto, Placed, Place, Trying, Leaving,
           Serving
  <1>3. Owned' /\ Distinct'
    BY DEF IInv, TypeOK, fs, ProbeLock, Owned, Distinct
  <1>4. Compared'
    BY DEF IInv, TypeOK, fs, ProbeLock, Goto, Compared
  <1>5. Named'
    BY DEF IInv, TypeOK, fs, ProbeLock, Goto, Named
  <1>6. Used'
    BY DEF IInv, TypeOK, fs, ProbeLock, Goto, Used
  <1> QED
    BY <1>1, <1>2, <1>3, <1>4, <1>5, <1>6 DEF IInv

LEMMA ProbeCompareStep ==
  ASSUME IInv, NEW q \in Probes, ProbeCompare(q)
  PROVE  IInv'
  <1> USE LockAssumption DEF Procs, All, Files, Legacy, Primary
  <1>1. TypeOK'
    BY ZenonT(30) DEF IInv, TypeOK, ProbeCompare, Goto, Found, Unlocked, Phases,
           Verdicts
  <1>2. Placed'
    BY DEF IInv, TypeOK, ProbeCompare, Goto, Found, Placed, Place, Trying,
           Leaving, Serving
  <1>3. Owned' /\ Distinct'
    BY DEF IInv, TypeOK, fs, ProbeCompare, Found, Unlocked, Owned, Distinct
  <1>4. Compared'
    BY DEF IInv, TypeOK, fs, ProbeCompare, Goto, Found, Unlocked, Compared
  <1>5. Named'
    BY DEF IInv, TypeOK, fs, ProbeCompare, Goto, Found, Named
  <1>6. Used'
    BY DEF IInv, TypeOK, fs, ProbeCompare, Goto, Found, Unlocked, Used
  <1> QED
    BY <1>1, <1>2, <1>3, <1>4, <1>5, <1>6 DEF IInv

LEMMA LockInit == Init => IInv
  <1> USE LockAssumption DEF Init, TypeOK, Procs, All, Files, Legacy, Primary,
                             Phases, Verdicts
  <1> SUFFICES ASSUME Init PROVE IInv
    OBVIOUS
  <1>1. TypeOK
    OBVIOUS
  <1>2. Placed
    BY DEF Placed, Place, Trying, Leaving, Serving
  <1>3. Owned /\ Distinct /\ Compared /\ Named /\ Used
    BY DEF Owned, Distinct, Compared, Named, Used
  <1> QED
    BY <1>1, <1>2, <1>3 DEF IInv

LEMMA LockStutter == IInv /\ UNCHANGED vars => IInv'
  BY DEF vars, IInv, TypeOK, Placed, Place, Trying, Leaving, Serving, Owned,
         Distinct, Compared, Named, Used

(* Every step of a service, an older version or a probe keeps IInv.       *)
LEMMA LockInvariant == Spec => []IInv
  <1>1. Init => IInv
    BY LockInit
  <1>2. IInv /\ [Next]_vars => IInv'
    <2> SUFFICES ASSUME IInv, Next PROVE IInv'
      BY LockStutter
    <2>1. ASSUME NEW p \in Procs, Acquire(p) PROVE IInv'
      BY <2>1, StartStep, OpenStep, LockStep, BusyStep, ReplacedStep, HoldStep
         DEF Acquire
    <2>2. ASSUME NEW p \in Procs, GiveUp(p) PROVE IInv'
      BY <2>2, QuitStep, StatBeforeUnlinkStep, UnlinkStep, UnlockStep DEF GiveUp
    <2>3. ASSUME NEW p \in Procs, Crash(p) PROVE IInv'
      BY <2>3, CrashStep
    <2>4. ASSUME NEW q \in Probes, Inspect(q) PROVE IInv'
      BY <2>4, ProbeStep, ProbeOpenStep, ProbeNoFileStep, ProbeLockStep,
         ProbeCompareStep DEF Inspect
    <2> QED
      BY <2>1, <2>2, <2>3, <2>4 DEF Next
  <1> QED
    BY <1>1, <1>2, PTL DEF Spec

(* Types of the file system, the processes and the probes.                 *)
THEOREM LockTypeCorrect == Spec => []TypeOK
  <1>1. IInv => TypeOK
    BY DEF IInv
  <1> QED
    BY <1>1, LockInvariant, PTL

LEMMA NamesWhileServing == IInv => NamesKeptWhileServing
  BY LockAssumption DEF IInv, TypeOK, NamesKeptWhileServing, Needed, Placed,
     Place, Serving, Owned, Named, Procs, All, Files, Legacy, Primary

(* Nobody removes or replaces the names of a serving instance              *)
(* (acquireLockFile compares, release looks before it unlinks).            *)
THEOREM NamesStay == Spec => []NamesKeptWhileServing
  <1>1. IInv => NamesKeptWhileServing
    BY NamesWhileServing
  <1> QED
    BY <1>1, LockInvariant, PTL

(* Two instances, old or new, never serve the same directory (acquireLock).*)
THEOREM AtMostOneService == Spec => []OneService
  <1>1. IInv => OneService
    <2> SUFFICES ASSUME IInv, NEW p \in Procs, NEW r \in Procs,
                        Serving(p), Serving(r)
                 PROVE  p = r
      BY DEF OneService
    <2>1. path[Legacy] # None /\ path[Legacy] = kept[p][Legacy]
            /\ path[Legacy] = kept[r][Legacy]
      BY DEF IInv, Placed, Place, Serving, Named, All, Files, Legacy, Primary
    <2> QED
      BY <2>1, ZenonT(30) DEF IInv, Owned, Files, Legacy
  <1> QED
    BY <1>1, LockInvariant, PTL

(* Failed attempts, ended probes and crashes leave nothing locked.         *)
THEOREM NothingStaysLocked == Spec => []NoStrayLock
  <1>1. IInv => NoStrayLock
    BY LockAssumption DEF IInv, TypeOK, NoStrayLock, Used, Placed, Place,
       Trying, Leaving, Serving, Procs, All, Files, Legacy, Primary
  <1> QED
    BY <1>1, LockInvariant, PTL

(* What a release unlinks is the file it holds, although stat and unlink   *)
(* are two calls.                                                          *)
THEOREM UnlinkIsSafe == Spec => UnlinkOwnName
  <1>1. IInv /\ [Next]_vars
          => [\A p \in Procs : Unlink(p) => path[file[p]] = kept[p][file[p]]]_vars
    BY DEF IInv, TypeOK, Unlink, Named, Placed, Place, Trying, Leaving, Serving,
       Procs, All, Files, Legacy, Primary
  <1> QED
    BY <1>1, LockInvariant, PTL DEF Spec, UnlinkOwnName

(***************************************************************************)
(* Status probes.  While a probe is under way and nobody serves, calm says *)
(* so; a probe that finds the compatibility file free is in such a moment. *)
(***************************************************************************)
Calmed ==
  \A q \in Probes : phase[q] # "off" /\ (\A p \in Procs : ~Serving(p)) => calm[q]

LEMMA CalmStep ==
  ASSUME IInv, Calmed, UnlockedIsTrue, Stay,
         \A q \in Probes : phase'[q] = "off" <=> phase[q] = "off"
  PROVE  Calmed' /\ UnlockedIsTrue'
  <1>1. \A q \in Probes :
           calm'[q] <=> \/ calm[q]
                        \/ phase[q] # "off" /\ \A p \in Procs : phase'[p] # "serving"
    BY DEF Stay
  <1>2. Calmed'
    BY <1>1 DEF Calmed, Serving
  <1>3. \A q \in Probes : Verdict(q)' = Verdict(q)
    BY DEF Stay, Verdict
  <1>4. UnlockedIsTrue'
    BY <1>1, <1>3 DEF UnlockedIsTrue
  <1> QED
    BY <1>2, <1>4

(* Who serves has the compatibility file locked under its name.            *)
LEMMA ServingIsSeen ==
  ASSUME IInv, NEW p \in Procs, Serving(p)
  PROVE  path[Legacy] # None /\ flock[path[Legacy]] = p
  BY NamesWhileServing DEF NamesKeptWhileServing, Needed, Files, Legacy

LEMMA FoundStep ==
  ASSUME IInv, Calmed, UnlockedIsTrue, NEW q \in Probes,
         NEW v \in Verdicts, Found(q, v), phase[q] # "off",
         file[q] = Legacy /\ v = "unlocked" => \A p \in Procs : ~Serving(p)
  PROVE  Calmed' /\ UnlockedIsTrue'
  <1> USE LockAssumption DEF Procs, All, Files, Legacy, Primary
  <1>1. /\ \A r \in All \ {q} : phase'[r] = phase[r]
        /\ phase'[q] = IF file[q] = Primary THEN "open" ELSE "off"
        /\ calm' = calm
    BY DEF Found, Goto, IInv, TypeOK
  <1>2. \A p \in Procs : Serving(p)' <=> Serving(p)
    BY <1>1 DEF Serving
  <1>3. Calmed'
    BY <1>1, <1>2 DEF Calmed
  <1>4. \A r \in Probes \ {q} : verdict'[r] = verdict[r]
    BY DEF Found, IInv, TypeOK
  <1>5. ASSUME file[q] = Legacy, Verdict(q)' = "unlocked" PROVE calm[q]
    <2>1. verdict'[q][Legacy] = v
      BY <1>5 DEF Found, IInv, TypeOK
    <2>2. v = "unlocked"
      BY <1>5, <2>1 DEF Verdict, Verdicts
    <2> QED
      BY <1>5, <2>2 DEF Calmed
  <1>6. file[q] \in Files
    BY DEF IInv, TypeOK
  <1>7. ASSUME NEW r \in Probes, phase'[r] = "off", Verdict(r)' = "unlocked"
        PROVE  calm[r]
    <2>1. CASE r = q
      BY <1>1, <1>5, <1>6, <1>7, <2>1
    <2>2. CASE r # q
      BY <1>1, <1>4, <1>7, <2>2 DEF UnlockedIsTrue, Verdict
    <2> QED
      BY <2>1, <2>2
  <1> QED
    BY <1>1, <1>3, <1>7 DEF UnlockedIsTrue

LEMMA ProbesTellTheTruth == Spec => [](Calmed /\ UnlockedIsTrue)
  <1> USE LockAssumption DEF Procs, All, Files, Legacy, Primary
  <1>1. Init => Calmed /\ UnlockedIsTrue
    BY DEF Init, Calmed, UnlockedIsTrue, Verdict
  <1>2. IInv /\ Calmed /\ UnlockedIsTrue /\ [Next]_vars
          => (Calmed /\ UnlockedIsTrue)'
    <2> SUFFICES ASSUME IInv, Calmed, UnlockedIsTrue, [Next]_vars
                 PROVE  Calmed' /\ UnlockedIsTrue'
      OBVIOUS
    <2>1. ASSUME NEW p \in Procs, Acquire(p) \/ GiveUp(p) \/ Crash(p)
          PROVE  Calmed' /\ UnlockedIsTrue'
      <3>1. Stay
        BY <2>1 DEF Acquire, GiveUp, Start, Open, Lock, Busy, Replaced, Hold,
                    Quit, StatBeforeUnlink, Unlink, Unlock, Crash
      <3>2. \E ph : phase' = [phase EXCEPT ![p] = ph]
        BY <2>1 DEF Acquire, GiveUp, Start, Open, Lock, Busy, Replaced, Hold,
                    Quit, StatBeforeUnlink, Unlink, Unlock, Crash, Goto, BackOut
      <3>3. \A q \in Probes : phase'[q] = phase[q]
        BY <3>2 DEF IInv, TypeOK
      <3> QED
        BY <3>1, <3>3, CalmStep
    <2>2. ASSUME NEW q \in Probes, Probe(q) PROVE Calmed' /\ UnlockedIsTrue'
      <3>1. /\ \A r \in All \ {q} : phase'[r] = phase[r]
            /\ \A r \in Probes \ {q} : calm'[r] = calm[r] /\ verdict'[r] = verdict[r]
            /\ phase'[q] = "open"
            /\ calm'[q] = \A p \in Procs : ~Serving(p)
        BY <2>2 DEF Probe, Goto, IInv, TypeOK
      <3>2. \A p \in Procs : Serving(p)' <=> Serving(p)
        BY <3>1 DEF Serving
      <3>3. Calmed'
        BY <3>1, <3>2 DEF Calmed
      <3>4. UnlockedIsTrue'
        BY <3>1 DEF UnlockedIsTrue, Verdict
      <3> QED
        BY <3>3, <3>4
    <2>3. ASSUME NEW q \in Probes, ProbeOpen(q) \/ ProbeLock(q)
          PROVE  Calmed' /\ UnlockedIsTrue'
      <3>1. Stay
        BY <2>3 DEF ProbeOpen, ProbeLock
      <3>2. \A r \in Probes : phase'[r] = "off" <=> phase[r] = "off"
        BY <2>3 DEF ProbeOpen, ProbeLock, Goto, IInv, TypeOK
      <3> QED
        BY <3>1, <3>2, CalmStep
    <2>4. ASSUME NEW q \in Probes, ProbeNoFile(q) PROVE Calmed' /\ UnlockedIsTrue'
      <3>1. file[q] = Legacy => \A p \in Procs : ~Serving(p)
        BY <2>4, ServingIsSeen DEF ProbeNoFile
      <3> QED
        BY <2>4, <3>1, FoundStep DEF ProbeNoFile, Verdicts
    <2>5. ASSUME NEW q \in Probes, ProbeCompare(q) PROVE Calmed' /\ UnlockedIsTrue'
      <3> DEFINE v == IF path[file[q]] # fd[q] THEN "unknown"
                      ELSE IF flock[fd[q]] = q THEN "unlocked" ELSE "locked"
      <3>1. Found(q, v) /\ phase[q] # "off" /\ v \in Verdicts
        BY <2>5 DEF ProbeCompare, Verdicts
      <3>2. file[q] = Legacy /\ v = "unlocked" => \A p \in Procs : ~Serving(p)
        BY ServingIsSeen
      <3> QED
        BY <3>1, <3>2, FoundStep
    <2>6. CASE UNCHANGED vars
      BY <2>6 DEF vars, Calmed, UnlockedIsTrue, Serving, Verdict
    <2> QED
      BY <2>1, <2>2, <2>3, <2>4, <2>5, <2>6 DEF Next, Inspect
  <1> QED
    BY <1>1, <1>2, LockInvariant, PTL DEF Spec

(* A probe that answers "unlocked" did so in a moment without a service    *)
(* (inspectStateLock).                                                     *)
THEOREM UnlockedMeansUnlocked == Spec => []UnlockedIsTrue
  BY ProbesTellTheTruth, PTL

(***************************************************************************)
(* The delivery of a report (Reports).                                     *)
(***************************************************************************)
FileUnknown(r) == r.file \in {"uploading", "sending", "uncertain"}
Retries(r) == IF r.retried THEN 1 ELSE 0

ReportTypes ==
  /\ r_rec \in R!Record /\ r_mem \in R!Record
  /\ r_event \in [st : {"done", "attention", "superseded"}, tries : 0..R!Limit,
                  ns : {"none", "sending", "uncertain", "retryable", "sent"},
                  err : {"none", "failed", "unknown", "contract"}]
  /\ r_pc \in {"off", "prepare", "file", "mayUpload", "uploading", "maySend", "sending",
               "mayCard", "card", "end"}
  /\ r_task \in {"open", "completing", "gone"} /\ r_fresh \in BOOLEAN
  /\ r_ruled \in Nat /\ r_out \in [uploads : Int, shows : Int, cards : Int]

(* What a record says of itself; and what has left for the platform by the *)
(* time it says so: one request of a kind, one more for the retry that was *)
(* ordered, and none ahead of the state that is saved before it goes out.  *)
Sound(r) ==
  /\ r.st = "none" => r = [R!NewRecord EXCEPT !.st = "none"]
  /\ r.res # "none" => FileUnknown(r)
  /\ r.res = "retry" => ~r.retried
  /\ r.file \in {"uploaded", "sending", "delivered"} => r.key
  /\ r.file \in {"prepared", "uploading"} => ~r.key

Spent(r, o, d) ==
  /\ d = Retries(r) + (IF r.res = "retry" THEN 1 ELSE 0)
  /\ o.uploads =< 1 + Retries(r)
  /\ ~r.key /\ r.file \in {"prepared", "retryable"} => o.uploads =< Retries(r)
  /\ o.shows =< 1 + Retries(r)
  /\ r.file \in {"prepared", "uploading", "uploaded", "retryable"} => o.shows =< Retries(r)
  /\ o.cards =< 1
  /\ r.card \in {"prepared", "retryable"} => o.cards =< 0
  /\ o.cards > 0 => R!BodyConfirmed(r)

(* Where the delivery stands it works on a copy of the record as it is     *)
(* stored.                                                                 *)
At(p, r, e) ==
  /\ p # "off" => e.ns = "sending"
  /\ p \notin {"off", "prepare"} => r.st # "none"
  /\ e.ns = "none" => r.st = "none"
  /\ e.ns = "retryable" \/ p \in {"prepare", "file"} => r.res # "none" \/ ~FileUnknown(r)
  /\ p = "mayUpload" => ~r.key /\ r.file \in {"prepared", "retryable"} /\ r.res = "none"
  /\ p = "uploading" => r.file = "uploading" /\ r.res = "none"
  /\ p = "maySend" => r.key /\ r.file \in {"uploaded", "retryable"} /\ r.res = "none"
  /\ p = "sending" => r.file = "sending" /\ r.res = "none"
  /\ p \in {"mayCard", "card", "end"} => R!BodyConfirmed(r)
  /\ p = "card" => r.card = "sending"
  /\ p = "end" => r.card = "delivered"
  /\ e.ns = "sent" => R!Confirmed(r)

Copied == r_pc \notin {"off", "prepare"} => r_mem = r_rec

Held ==
  /\ r_event.st = "superseded" \/ r_rec.st = "retired" => ~r_fresh
  /\ R!GroupWaits

ReportInv ==
  /\ ReportTypes
  /\ Sound(r_rec) /\ Spent(r_rec, r_out, r_ruled) /\ At(r_pc, r_rec, r_event)
  /\ Copied /\ Held

(***************************************************************************)
(* The edits of an event and of a record.                                  *)
(***************************************************************************)
Events == [st : {"done", "attention", "superseded"}, tries : 0..R!Limit,
           ns : {"none", "sending", "uncertain", "retryable", "sent"},
           err : {"none", "failed", "unknown", "contract"}]

LEMMA EventOf ==
  ASSUME NEW e \in Events, NEW n \in {"none", "sending", "uncertain", "retryable", "sent"},
         NEW w, w = [e EXCEPT !.ns = n, !.st = "done", !.err = "none"]
  PROVE  w \in Events /\ w.ns = n /\ w.st = "done"
  BY DEF Events

LEMMA FailedEvent ==
  ASSUME r_event \in Events, NEW x \in {"unknown", "contract", "refused"}, R!Failed(x)
  PROVE  /\ r_event' \in Events
         /\ r_event'.st \in {"done", "attention"} \/ r_event'.st = r_event.st
         /\ x = "unknown" => r_event'.ns = "uncertain"
         /\ x = "contract" => r_event'.ns = r_event.ns
         /\ x = "refused" => r_event'.ns = "retryable"
  <1>1. CASE x = "unknown"
    BY <1>1 DEF R!Failed, Events
  <1>2. CASE x = "contract"
    BY <1>2 DEF R!Failed, Events
  <1>3. CASE x = "refused"
    BY <1>3 DEF R!Failed, Events
  <1> QED
    BY <1>1, <1>2, <1>3

LEMMA FileEdit ==
  ASSUME NEW r \in R!Record,
         NEW f \in {"prepared", "uploading", "uploaded", "sending", "delivered",
                    "uncertain", "retryable"},
         NEW w, w = [r EXCEPT !.file = f]
  PROVE  /\ w \in R!Record /\ w.file = f /\ w.st = r.st /\ w.key = r.key
         /\ w.retried = r.retried /\ w.res = r.res /\ w.card = r.card
  BY DEF R!Record

LEMMA KeyEdit ==
  ASSUME NEW r \in R!Record, NEW w, w = [r EXCEPT !.file = "uploaded", !.key = TRUE]
  PROVE  /\ w \in R!Record /\ w.file = "uploaded" /\ w.st = r.st /\ w.key
         /\ w.retried = r.retried /\ w.res = r.res /\ w.card = r.card
  BY DEF R!Record

LEMMA CardEdit ==
  ASSUME NEW r \in R!Record,
         NEW c \in {"prepared", "sending", "delivered", "uncertain", "retryable"},
         NEW w, w = [r EXCEPT !.card = c]
  PROVE  /\ w \in R!Record /\ w.card = c /\ w.st = r.st /\ w.key = r.key
         /\ w.retried = r.retried /\ w.res = r.res /\ w.file = r.file
  BY DEF R!Record

LEMMA StateEdit ==
  ASSUME NEW r \in R!Record, NEW w, w = [r EXCEPT !.st = "retired"]
  PROVE  /\ w \in R!Record /\ w.st = "retired" /\ w.card = r.card /\ w.key = r.key
         /\ w.retried = r.retried /\ w.res = r.res /\ w.file = r.file
  BY DEF R!Record

LEMMA RuleEdit ==
  ASSUME NEW r \in R!Record, NEW c \in R!Choices, NEW w, w = [r EXCEPT !.res = c]
  PROVE  /\ w \in R!Record /\ w.res = c /\ w.card = r.card /\ w.key = r.key
         /\ w.retried = r.retried /\ w.st = r.st /\ w.file = r.file
  BY DEF R!Record

LEMMA ResumedEdit ==
  ASSUME NEW r \in R!Record, NEW w, w = R!Resumed(r)
  PROVE  /\ w \in R!Record /\ w.res = "none" /\ w.card = r.card /\ w.key = r.key
         /\ w.retried /\ w.st = r.st
         /\ w.file = IF r.key THEN "uploaded" ELSE "prepared"
  BY DEF R!Record, R!Resumed

LEMMA FreshRecord ==
  /\ R!NewRecord \in R!Record /\ R!NewRecord.st = "kept" /\ R!NewRecord.file = "prepared"
  /\ R!NewRecord.key = FALSE /\ R!NewRecord.retried = FALSE /\ R!NewRecord.res = "none"
  /\ R!NewRecord.card = "prepared"
  BY DEF R!NewRecord, R!Record, R!Choices

LEMMA NoRecord ==
  ASSUME NEW r, r = [R!NewRecord EXCEPT !.st = "none"]
  PROVE  /\ r \in R!Record /\ r.st = "none" /\ r.file = "prepared"
         /\ r.key = FALSE /\ r.retried = FALSE /\ r.res = "none" /\ r.card = "prepared"
  BY DEF R!NewRecord, R!Record, R!Choices

(* Sweeping changes nothing but the state of an obsolete record, and that  *)
(* only once the report is stale.                                          *)
LEMMA Sweeping ==
  ASSUME ReportInv, NEW w, w = R!Swept
  PROVE  /\ w \in R!Record /\ Sound(w) /\ Spent(w, r_out, r_ruled)
         /\ w.file = r_rec.file /\ w.key = r_rec.key /\ w.res = r_rec.res
         /\ w.card = r_rec.card /\ w.retried = r_rec.retried
         /\ w.st = "none" <=> r_rec.st = "none"
         /\ w.st = "retired" => ~r_fresh
         /\ r_pc \notin {"off", "prepare"} => w = r_rec
  <1>1. r_rec \in R!Record /\ Sound(r_rec) /\ Spent(r_rec, r_out, r_ruled)
        /\ (r_event.st = "superseded" \/ r_rec.st = "retired" => ~r_fresh)
    BY DEF ReportInv, ReportTypes, Held
  <1>2. CASE R!Obsolete
    <2>1. w = [r_rec EXCEPT !.st = "retired"]
      BY <1>2 DEF R!Swept
    <2>2. r_rec.st = "kept" /\ r_pc \in {"off", "prepare"} /\ ~r_fresh
      BY <1>1, <1>2 DEF R!Obsolete, R!Sending
    <2>3. /\ w \in R!Record /\ w.st = "retired" /\ w.card = r_rec.card /\ w.key = r_rec.key
          /\ w.retried = r_rec.retried /\ w.res = r_rec.res /\ w.file = r_rec.file
      BY <1>1, <2>1, StateEdit
    <2> HIDE DEF R!Swept
    <2> QED
      BY <1>1, <2>2, <2>3 DEF Sound, Spent, Retries, FileUnknown, R!BodyConfirmed
  <1>3. CASE ~R!Obsolete
    BY <1>1, <1>3 DEF R!Swept
  <1> QED
    BY <1>2, <1>3

(* The invariant, with what a proof needs of it.                           *)
LEMMA ReportFacts ==
  ASSUME ReportInv
  PROVE  /\ r_rec \in R!Record /\ r_mem \in R!Record /\ r_event \in Events
         /\ r_fresh \in BOOLEAN /\ r_ruled \in Nat
         /\ r_out \in [uploads : Int, shows : Int, cards : Int]
         /\ r_task \in {"open", "completing", "gone"}
         /\ Sound(r_rec) /\ Spent(r_rec, r_out, r_ruled) /\ At(r_pc, r_rec, r_event)
         /\ r_pc \notin {"off", "prepare"} => r_mem = r_rec
         /\ r_event.st = "superseded" \/ r_rec.st = "retired" => ~r_fresh
         /\ r_task = "gone" =>
              /\ r_pc \notin {"uploading", "sending", "card"}
              /\ (R!Confirmed(r_rec) \/ R!FileAbandoned \/ ~r_fresh)
  BY DEF ReportInv, ReportTypes, Events, Copied, Held, R!GroupWaits

LEMMA ReportNext ==
  ASSUME r_rec' \in R!Record, r_mem' \in R!Record, r_event' \in Events,
         r_pc' \in {"off", "prepare", "file", "mayUpload", "uploading", "maySend", "sending",
                    "mayCard", "card", "end"},
         r_task' \in {"open", "completing", "gone"}, r_fresh' \in BOOLEAN, r_ruled' \in Nat,
         r_out' \in [uploads : Int, shows : Int, cards : Int],
         Sound(r_rec'), Spent(r_rec', r_out', r_ruled'), At(r_pc', r_rec', r_event'),
         r_pc' \notin {"off", "prepare"} => r_mem' = r_rec',
         r_event'.st = "superseded" \/ r_rec'.st = "retired" => ~r_fresh',
         r_task' = "gone" => /\ r_pc' \notin {"uploading", "sending", "card"}
                            /\ (R!Confirmed(r_rec') \/ R!FileAbandoned' \/ ~r_fresh')
  PROVE  ReportInv'
  <1>1. ReportTypes'
    BY DEF ReportTypes, Events
  <1>2. Sound(r_rec)' /\ Spent(r_rec, r_out, r_ruled)' /\ At(r_pc, r_rec, r_event)'
    BY DEF Sound, Spent, At, FileUnknown, Retries, R!BodyConfirmed, R!Confirmed
  <1>3. Copied'
    BY DEF Copied
  <1>4. R!Confirmed(r_rec)' <=> R!Confirmed(r_rec')
    BY DEF R!Confirmed, R!BodyConfirmed
  <1>5. R!GroupWaits'
    BY <1>4 DEF R!GroupWaits
  <1>6. Held'
    BY <1>5 DEF Held
  <1> QED
    BY <1>1, <1>2, <1>3, <1>6 DEF ReportInv

LEMMA ReportStart == R!Init => ReportInv
  BY DEF R!Init, ReportInv, ReportTypes, R!Record, R!NewRecord, R!Choices, R!Limit, Sound, Spent,
     At, Copied, Held, FileUnknown, Retries, R!BodyConfirmed, R!Confirmed, R!GroupWaits

LEMMA StepRecover ==
  ASSUME ReportInv, R!Recover
  PROVE  ReportInv'
  <1>1. PICK w : w = R!Swept
    OBVIOUS
  <1>2. /\ r_pc = "off" /\ r_rec' = w /\ r_event.st # "superseded"
        /\ UNCHANGED <<r_task, r_fresh, r_pc, r_mem, r_out, r_ruled>>
        /\ (R!Confirmed(r_rec) /\ r_fresh) \/ R!Retryable
    BY <1>1 DEF R!Recover
  <1>3. PICK n \in {"sent", "retryable"} :
          /\ n = IF R!Confirmed(r_rec) /\ r_fresh THEN "sent" ELSE "retryable"
          /\ r_event' = [r_event EXCEPT !.ns = n, !.st = "done", !.err = "none"]
    BY DEF R!Recover
  <1>4. r_event' \in Events /\ r_event'.ns = n /\ r_event'.st = "done"
    <2>1. n \in {"none", "sending", "uncertain", "retryable", "sent"} /\ r_event \in Events
      BY ReportFacts
    <2>2. PICK w0 : w0 = r_event'
      OBVIOUS
    <2>3. w0 = [r_event EXCEPT !.ns = n, !.st = "done", !.err = "none"]
      BY <1>3, <2>2
    <2>4. w0 \in Events /\ w0.ns = n /\ w0.st = "done"
      BY <2>1, <2>3, EventOf
    <2> QED
      BY <2>2, <2>4
  <1>5. At(r_pc', w, r_event')
    <2>1. n = "retryable" => r_rec.res # "none" \/ ~FileUnknown(r_rec)
      BY <1>2, <1>3, ReportFacts, NoRecord DEF R!Retryable, FileUnknown, Sound
    <2> QED
      BY <1>1, <1>2, <1>3, <1>4, <2>1, Sweeping
         DEF At, R!Confirmed, R!BodyConfirmed, FileUnknown
  <1>6. r_task = "gone" => R!Confirmed(w) \/ R!FileAbandoned' \/ ~r_fresh
    BY <1>1, <1>2, ReportFacts, Sweeping DEF R!Confirmed, R!BodyConfirmed, R!FileAbandoned
  <1> QED
    BY <1>1, <1>2, <1>4, <1>5, <1>6, Sweeping, ReportFacts, ReportNext

LEMMA StepNotify ==
  ASSUME ReportInv, R!Notify
  PROVE  ReportInv'
  <1>1. /\ r_pc = "off" /\ r_task # "gone"
        /\ UNCHANGED <<r_task, r_fresh, r_rec, r_mem, r_out, r_ruled>>
    BY DEF R!Notify, R!Reachable
  <1>2. /\ r_event' \in Events /\ r_event'.st \in {"done", "attention"}
        /\ \/ r_event'.ns = "uncertain" /\ r_pc' = r_pc
           \/ /\ r_event.ns \in {"none", "retryable"} /\ r_event'.ns = "sending"
              /\ r_pc' = "prepare"
    <2>1. r_event \in Events /\ r_event.tries \in 0..3
      BY ReportFacts DEF Events, R!Limit
    <2>2. (IF r_event.tries < R!Limit THEN r_event.tries + 1 ELSE r_event.tries) \in 0..R!Limit
      BY <2>1 DEF R!Limit
    <2> QED
      BY <2>1, <2>2 DEF R!Notify, R!Go, Events
  <1>3. r_rec.res # "none" \/ ~FileUnknown(r_rec) \/ r_event'.ns = "uncertain"
    BY <1>2, ReportFacts, NoRecord DEF At, Sound, FileUnknown
  <1>4. At(r_pc', r_rec, r_event')
    BY <1>1, <1>2, <1>3 DEF At
  <1> QED
    BY <1>1, <1>2, <1>4, ReportFacts, ReportNext

LEMMA StepSupersede ==
  ASSUME ReportInv, R!Supersede
  PROVE  ReportInv'
  <1>1. /\ r_task = "open" /\ ~r_fresh
        /\ UNCHANGED <<r_task, r_fresh, r_rec, r_pc, r_mem, r_out, r_ruled>>
        /\ r_event' = [r_event EXCEPT !.st = "superseded"]
    BY DEF R!Supersede
  <1>2. r_event' \in Events /\ r_event'.ns = r_event.ns
    BY <1>1, ReportFacts DEF Events
  <1>3. At(r_pc, r_rec, r_event')
    BY <1>2, ReportFacts DEF At
  <1> QED
    BY <1>1, <1>2, <1>3, ReportFacts, ReportNext DEF ReportInv, ReportTypes

LEMMA StepPrepare ==
  ASSUME ReportInv, R!Prepare
  PROVE  ReportInv'
  <1>1. /\ r_pc = "prepare" /\ UNCHANGED <<r_task, r_fresh, r_out, r_ruled>>
    BY DEF R!Prepare
  <1>2. CASE R!Retired
    <2>1. PICK w : w = R!Swept
      OBVIOUS
    <2>2. r_rec' = w /\ r_mem' = r_mem /\ r_pc' = "off" /\ R!Failed("refused")
      BY <1>2, <2>1 DEF R!Prepare, R!Go
    <2>3. /\ r_event' \in Events /\ r_event'.ns = "retryable"
          /\ r_event'.st = "superseded" => r_event.st = "superseded"
      BY <2>2, FailedEvent, ReportFacts
    <2>4. At("off", w, r_event')
      BY <1>1, <2>1, <2>3, Sweeping, ReportFacts DEF At, FileUnknown
    <2>5. r_task = "gone" => R!Confirmed(w) \/ R!FileAbandoned' \/ ~r_fresh
      BY <2>1, <2>2, ReportFacts, Sweeping DEF R!Confirmed, R!BodyConfirmed, R!FileAbandoned
    <2> QED
      BY <1>1, <2>1, <2>2, <2>3, <2>4, <2>5, Sweeping, ReportFacts, ReportNext
  <1>3. CASE ~R!Retired
    <2>1. PICK w : w = IF r_rec.st = "none" THEN R!NewRecord ELSE r_rec
      OBVIOUS
    <2>2. r_rec' = w /\ r_mem' = w /\ r_pc' = "file" /\ r_event' = r_event
      BY <1>3, <2>1 DEF R!Prepare, R!Go, R!Save
    <2>3. r_rec.st = "none" =>
             /\ r_rec.file = "prepared" /\ r_rec.card = "prepared" /\ r_rec.key = FALSE
             /\ r_rec.retried = FALSE /\ r_rec.res = "none"
      BY ReportFacts, NoRecord DEF Sound
    <2>4. w \in R!Record /\ w.file = r_rec.file /\ w.key = r_rec.key /\ w.retried = r_rec.retried
          /\ w.res = r_rec.res /\ w.card = r_rec.card /\ w.st # "none"
          /\ (w.st = "retired" => r_rec.st = "retired")
      <3>1. CASE r_rec.st = "none"
        BY <2>1, <2>3, <3>1, FreshRecord
      <3>2. CASE r_rec.st # "none"
        BY <2>1, <3>2, ReportFacts
      <3> QED
        BY <3>1, <3>2
    <2>5. Sound(w) /\ Spent(w, r_out, r_ruled)
      BY <2>4, ReportFacts DEF Sound, Spent, Retries, FileUnknown, R!BodyConfirmed
    <2>6. At("file", w, r_event)
      BY <1>1, <2>4, ReportFacts DEF At, FileUnknown, R!Confirmed, R!BodyConfirmed
    <2>7. r_task = "gone" => R!Confirmed(w) \/ R!FileAbandoned' \/ ~r_fresh
      BY <2>2, <2>4, ReportFacts DEF R!Confirmed, R!BodyConfirmed, R!FileAbandoned
    <2> QED
      BY <1>1, <2>2, <2>4, <2>5, <2>6, <2>7, ReportFacts, ReportNext
  <1> QED
    BY <1>2, <1>3

LEMMA StepFile ==
  ASSUME ReportInv, R!File
  PROVE  ReportInv'
  <1>1. PICK m, w : /\ m = r_mem /\ w = IF m.res = "retry" THEN R!Resumed(m) ELSE m
    OBVIOUS
  <1>2. /\ r_pc = "file" /\ r_rec' = w /\ r_mem' = w /\ m = r_rec
        /\ UNCHANGED <<r_task, r_fresh, r_out, r_ruled>>
    BY <1>1, ReportFacts DEF R!File, R!Save
  <1>3. /\ m \in R!Record /\ Sound(m) /\ Spent(m, r_out, r_ruled) /\ At("file", m, r_event)
    BY <1>2, ReportFacts
  <1>4. /\ w \in R!Record /\ w.card = m.card /\ w.key = m.key /\ w.st = m.st /\ w.res # "retry"
        /\ m.res = "retry" => /\ w.res = "none" /\ w.retried /\ ~m.retried /\ FileUnknown(m)
                             /\ w.file = IF m.key THEN "uploaded" ELSE "prepared"
        /\ m.res # "retry" => w = m
    BY <1>1, <1>3, ResumedEdit DEF Sound
  <1>5. Sound(w)
    BY <1>3, <1>4, NoRecord DEF Sound, FileUnknown, At
  <1>6. Spent(w, r_out, r_ruled)
    <2>1. CASE m.res # "retry"
      BY <1>3, <1>4, <2>1
    <2>2. CASE m.res = "retry"
      <3>1. Retries(m) = 0 /\ Retries(w) = 1 /\ ~R!BodyConfirmed(m)
        BY <1>4, <2>2 DEF Retries, FileUnknown, R!BodyConfirmed
      <3>2. /\ r_out.uploads =< 1 /\ r_out.shows =< 1 /\ r_out.cards =< 0 /\ r_ruled = 1
        BY <1>3, <2>2, <3>1, ReportFacts DEF Spent
      <3> QED
        BY <1>4, <2>2, <3>1, <3>2, ReportFacts DEF Spent
    <2> QED
      BY <2>1, <2>2
  <1>7. R!Confirmed(m) => R!Confirmed(w)
    BY <1>4 DEF R!Confirmed, R!BodyConfirmed, FileUnknown
  <1>8. r_task = "gone" => R!Confirmed(w) \/ R!FileAbandoned' \/ ~r_fresh
    <2>1. R!FileAbandoned => R!FileAbandoned'
      BY <1>2, <1>4 DEF R!FileAbandoned
    <2> QED
      BY <1>2, <1>7, <2>1, ReportFacts
  <1>9. w.res # "none" => w = m
    BY <1>4
  <1>10. CASE w.res = "done" \/ (w.res # "abandon" /\ w.file = "delivered")
    <2>1. r_pc' = "mayCard" /\ r_event' = r_event
      BY <1>1, <1>10 DEF R!File, R!Go
    <2>2. R!BodyConfirmed(w)
      BY <1>10 DEF R!BodyConfirmed
    <2>3. At("mayCard", w, r_event)
      BY <1>3, <1>4, <1>7, <2>2 DEF At
    <2> QED
      BY <1>2, <1>4, <1>5, <1>6, <1>8, <2>1, <2>3, ReportFacts, ReportNext
  <1>11. CASE w.res = "abandon"
    <2>1. r_pc' = "off" /\ R!Failed("refused")
      BY <1>1, <1>11 DEF R!File, R!Go
    <2>2. /\ r_event' \in Events /\ r_event'.ns = "retryable"
          /\ r_event'.st = "superseded" => r_event.st = "superseded"
      BY <2>1, FailedEvent, ReportFacts
    <2>3. At("off", w, r_event')
      BY <1>11, <2>2 DEF At
    <2> QED
      BY <1>2, <1>4, <1>5, <1>6, <1>8, <2>1, <2>2, <2>3, ReportFacts, ReportNext
  <1>12. CASE w.res = "none" /\ FileUnknown(w)
    <2>1. FALSE
      BY <1>3, <1>4, <1>12 DEF At, FileUnknown
    <2> QED
      BY <2>1
  <1>13. CASE w.res = "none" /\ ~FileUnknown(w) /\ w.file # "delivered"
    <2>1. r_pc' = (IF w.key THEN "maySend" ELSE "mayUpload") /\ r_event' = r_event
      BY <1>1, <1>13 DEF R!File, R!Go, FileUnknown
    <2>2. w.file \in {"prepared", "uploaded", "retryable"}
      BY <1>4, <1>13 DEF R!Record, FileUnknown
    <2>3. ~R!BodyConfirmed(w) /\ ~R!Confirmed(m)
      BY <1>7, <1>13 DEF R!BodyConfirmed, R!Confirmed
    <2>4. w.key => w.file \in {"uploaded", "retryable"}
      BY <1>5, <2>2 DEF Sound
    <2>5. ~w.key => w.file \in {"prepared", "retryable"}
      BY <1>5, <2>2 DEF Sound
    <2>6. w.st # "none" /\ r_event.ns = "sending"
      BY <1>3, <1>4 DEF At
    <2>7. At(r_pc', w, r_event)
      BY <1>13, <2>1, <2>4, <2>5, <2>6 DEF At
    <2> QED
      BY <1>2, <1>4, <1>5, <1>6, <1>8, <2>1, <2>7, ReportFacts, ReportNext
  <1> QED
    <2>1. w.res \in {"none", "done", "abandon"}
      BY <1>4 DEF R!Record, R!Choices
    <2> QED
      BY <1>10, <1>11, <1>12, <1>13, <2>1

LEMMA StepVetoed ==
  ASSUME ReportInv, R!Vetoed
  PROVE  ReportInv'
  <1>1. PICK x \in {"refused", "contract"} : R!Failed(x)
    BY DEF R!Vetoed
  <1>2. /\ r_pc \in {"mayUpload", "maySend", "mayCard"} /\ r_pc' = "off"
        /\ r_rec' = r_rec /\ r_mem' = r_rec
        /\ UNCHANGED <<r_task, r_fresh, r_out, r_ruled>>
    BY ReportFacts DEF R!Vetoed, R!Go, R!Save
  <1>3. /\ r_event' \in Events /\ r_event'.ns \in {"retryable", "sending"}
        /\ r_event'.st = "superseded" => r_event.st = "superseded"
    BY <1>1, <1>2, FailedEvent, ReportFacts DEF At
  <1>4. r_rec.res # "none" \/ ~FileUnknown(r_rec)
    BY <1>2, ReportFacts DEF At, FileUnknown, R!BodyConfirmed
  <1>5. At("off", r_rec, r_event')
    BY <1>3, <1>4 DEF At
  <1>6. R!FileAbandoned => R!FileAbandoned'
    BY <1>2 DEF R!FileAbandoned
  <1> QED
    BY <1>2, <1>3, <1>5, <1>6, ReportFacts, ReportNext

LEMMA StepUpload ==
  ASSUME ReportInv, R!Upload
  PROVE  ReportInv'
  <1>1. PICK w : w = [r_rec EXCEPT !.file = "uploading"]
    OBVIOUS
  <1>2. /\ r_pc = "mayUpload" /\ r_task # "gone" /\ r_pc' = "uploading"
        /\ r_rec' = w /\ r_mem' = w /\ r_out' = [r_out EXCEPT !.uploads = @ + 1]
        /\ UNCHANGED <<r_task, r_fresh, r_event, r_ruled>>
    BY <1>1, ReportFacts DEF R!Upload, R!Guard, R!Go, R!Save
  <1>3. /\ w \in R!Record /\ w.file = "uploading" /\ w.st = r_rec.st /\ w.key = r_rec.key
        /\ w.retried = r_rec.retried /\ w.res = r_rec.res /\ w.card = r_rec.card
    BY <1>1, FileEdit, ReportFacts
  <1>4. /\ ~r_rec.key /\ r_rec.file \in {"prepared", "retryable"} /\ r_rec.res = "none"
        /\ r_rec.st # "none" /\ r_event.ns = "sending"
    BY <1>2, ReportFacts DEF At
  <1>5. /\ r_out' \in [uploads : Int, shows : Int, cards : Int]
        /\ r_out'.uploads = r_out.uploads + 1 /\ r_out'.shows = r_out.shows
        /\ r_out'.cards = r_out.cards
    BY <1>2, ReportFacts
  <1>6. Sound(w) /\ At("uploading", w, r_event)
    BY <1>3, <1>4 DEF Sound, At
  <1>7. Spent(w, r_out', r_ruled)
    BY <1>3, <1>4, <1>5, ReportFacts DEF Spent, Retries, R!BodyConfirmed
  <1> QED
    BY <1>2, <1>3, <1>5, <1>6, <1>7, ReportFacts, ReportNext

LEMMA StepShow ==
  ASSUME ReportInv, R!Show
  PROVE  ReportInv'
  <1>1. PICK w : w = [r_rec EXCEPT !.file = "sending"]
    OBVIOUS
  <1>2. /\ r_pc = "maySend" /\ r_task # "gone" /\ r_pc' = "sending"
        /\ r_rec' = w /\ r_mem' = w /\ r_out' = [r_out EXCEPT !.shows = @ + 1]
        /\ UNCHANGED <<r_task, r_fresh, r_event, r_ruled>>
    BY <1>1, ReportFacts DEF R!Show, R!Guard, R!Go, R!Save
  <1>3. /\ w \in R!Record /\ w.file = "sending" /\ w.st = r_rec.st /\ w.key = r_rec.key
        /\ w.retried = r_rec.retried /\ w.res = r_rec.res /\ w.card = r_rec.card
    BY <1>1, FileEdit, ReportFacts
  <1>4. /\ r_rec.key /\ r_rec.file \in {"uploaded", "retryable"} /\ r_rec.res = "none"
        /\ r_rec.st # "none" /\ r_event.ns = "sending"
    BY <1>2, ReportFacts DEF At
  <1>5. /\ r_out' \in [uploads : Int, shows : Int, cards : Int]
        /\ r_out'.uploads = r_out.uploads /\ r_out'.shows = r_out.shows + 1
        /\ r_out'.cards = r_out.cards
    BY <1>2, ReportFacts
  <1>6. Sound(w) /\ At("sending", w, r_event)
    BY <1>3, <1>4 DEF Sound, At
  <1>7. Spent(w, r_out', r_ruled)
    BY <1>3, <1>4, <1>5, ReportFacts DEF Spent, Retries, R!BodyConfirmed
  <1> QED
    BY <1>2, <1>3, <1>5, <1>6, <1>7, ReportFacts, ReportNext

LEMMA StepSendCard ==
  ASSUME ReportInv, R!SendCard
  PROVE  ReportInv'
  <1>1. /\ r_pc = "mayCard" /\ r_mem = r_rec /\ UNCHANGED <<r_task, r_fresh, r_ruled>>
        /\ R!BodyConfirmed(r_rec) /\ r_rec.st # "none" /\ r_event.ns = "sending"
    BY ReportFacts DEF R!SendCard, At
  <1>2. CASE r_mem.card = "delivered"
    <2>1. r_pc' = "end" /\ UNCHANGED <<r_event, r_mem, r_rec, r_out>>
      BY <1>2 DEF R!SendCard, R!Go
    <2>2. At("end", r_rec, r_event)
      BY <1>1, <1>2 DEF At
    <2>3. R!FileAbandoned => R!FileAbandoned'
      BY <2>1 DEF R!FileAbandoned
    <2> QED
      BY <1>1, <2>1, <2>2, <2>3, ReportFacts, ReportNext
  <1>3. CASE r_mem.card \in {"sending", "uncertain"}
    <2>1. r_pc' = "off" /\ R!Failed("unknown") /\ UNCHANGED <<r_mem, r_rec, r_out>>
      BY <1>3 DEF R!SendCard, R!Go
    <2>2. /\ r_event' \in Events /\ r_event'.ns = "uncertain"
          /\ r_event'.st = "superseded" => r_event.st = "superseded"
      BY <2>1, FailedEvent, ReportFacts
    <2>3. At("off", r_rec, r_event')
      BY <2>2 DEF At
    <2>4. R!FileAbandoned => R!FileAbandoned'
      BY <2>1 DEF R!FileAbandoned
    <2> QED
      BY <1>1, <2>1, <2>2, <2>3, <2>4, ReportFacts, ReportNext
  <1>4. CASE r_mem.card \notin {"delivered", "sending", "uncertain"}
    <2>1. PICK w : w = [r_rec EXCEPT !.card = "sending"]
      OBVIOUS
    <2>2. /\ r_task # "gone" /\ r_pc' = "card" /\ r_event' = r_event
          /\ r_rec' = w /\ r_mem' = w /\ r_out' = [r_out EXCEPT !.cards = @ + 1]
      BY <1>1, <1>4, <2>1 DEF R!SendCard, R!Guard, R!Go, R!Save
    <2>3. /\ w \in R!Record /\ w.card = "sending" /\ w.st = r_rec.st /\ w.key = r_rec.key
          /\ w.retried = r_rec.retried /\ w.res = r_rec.res /\ w.file = r_rec.file
      BY <2>1, CardEdit, ReportFacts
    <2>4. r_rec.card \in {"prepared", "retryable"}
      BY <1>1, <1>4, ReportFacts DEF R!Record
    <2>5. /\ r_out' \in [uploads : Int, shows : Int, cards : Int]
          /\ r_out'.uploads = r_out.uploads /\ r_out'.shows = r_out.shows
          /\ r_out'.cards = r_out.cards + 1
      BY <2>2, ReportFacts
    <2>6. Sound(w) /\ At("card", w, r_event)
      BY <1>1, <2>3, ReportFacts DEF Sound, At, FileUnknown, R!BodyConfirmed
    <2>7. Spent(w, r_out', r_ruled)
      BY <1>1, <2>3, <2>4, <2>5, ReportFacts DEF Spent, Retries, R!BodyConfirmed
    <2> QED
      BY <1>1, <2>2, <2>3, <2>5, <2>6, <2>7, ReportFacts, ReportNext
  <1> QED
    BY <1>2, <1>3, <1>4

LEMMA StepSent ==
  ASSUME ReportInv, R!Sent
  PROVE  ReportInv'
  <1>1. UNCHANGED <<r_task, r_fresh, r_event, r_out, r_ruled>>
        /\ r_pc \in {"uploading", "sending", "card"} /\ r_mem = r_rec /\ r_task # "gone"
    BY ReportFacts DEF R!Sent
  <1>2. CASE r_pc = "uploading"
    <2>1. PICK w : w = [r_rec EXCEPT !.file = "uploaded", !.key = TRUE]
      OBVIOUS
    <2>2. r_rec' = w /\ r_mem' = w /\ r_pc' = "maySend"
      BY <1>1, <1>2, <2>1 DEF R!Sent, R!Go, R!Save
    <2>3. /\ w \in R!Record /\ w.file = "uploaded" /\ w.st = r_rec.st /\ w.key
          /\ w.retried = r_rec.retried /\ w.res = r_rec.res /\ w.card = r_rec.card
      BY <2>1, KeyEdit, ReportFacts
    <2>4. /\ r_rec.file = "uploading" /\ r_rec.res = "none" /\ r_rec.st # "none"
          /\ r_event.ns = "sending"
      BY <1>2, ReportFacts DEF At
    <2>5. Sound(w) /\ At("maySend", w, r_event)
      BY <2>3, <2>4 DEF Sound, At
    <2>6. Spent(w, r_out, r_ruled)
      BY <2>3, <2>4, ReportFacts DEF Spent, Retries, R!BodyConfirmed
    <2> QED
      BY <1>1, <2>2, <2>3, <2>5, <2>6, ReportFacts, ReportNext
  <1>3. CASE r_pc = "sending"
    <2>1. PICK w : w = [r_rec EXCEPT !.file = "delivered"]
      OBVIOUS
    <2>2. r_rec' = w /\ r_mem' = w /\ r_pc' = "mayCard"
      BY <1>1, <1>3, <2>1 DEF R!Sent, R!Go, R!Save
    <2>3. /\ w \in R!Record /\ w.file = "delivered" /\ w.st = r_rec.st /\ w.key = r_rec.key
          /\ w.retried = r_rec.retried /\ w.res = r_rec.res /\ w.card = r_rec.card
      BY <2>1, FileEdit, ReportFacts
    <2>4. /\ r_rec.file = "sending" /\ r_rec.res = "none" /\ r_rec.st # "none" /\ r_rec.key
          /\ r_event.ns = "sending"
      BY <1>3, ReportFacts DEF At, Sound
    <2>5. Sound(w) /\ At("mayCard", w, r_event)
      BY <2>3, <2>4 DEF Sound, At, R!BodyConfirmed
    <2>6. Spent(w, r_out, r_ruled)
      BY <2>3, <2>4, ReportFacts DEF Spent, Retries, R!BodyConfirmed
    <2> QED
      BY <1>1, <2>2, <2>3, <2>5, <2>6, ReportFacts, ReportNext
  <1>4. CASE r_pc = "card"
    <2>1. PICK w : w = [r_rec EXCEPT !.card = "delivered"]
      OBVIOUS
    <2>2. r_rec' = w /\ r_mem' = w /\ r_pc' = "end"
      BY <1>1, <1>4, <2>1 DEF R!Sent, R!Go, R!Save
    <2>3. /\ w \in R!Record /\ w.card = "delivered" /\ w.st = r_rec.st /\ w.key = r_rec.key
          /\ w.retried = r_rec.retried /\ w.res = r_rec.res /\ w.file = r_rec.file
      BY <2>1, CardEdit, ReportFacts
    <2>4. /\ r_rec.card = "sending" /\ r_rec.st # "none" /\ R!BodyConfirmed(r_rec)
          /\ r_event.ns = "sending"
      BY <1>4, ReportFacts DEF At
    <2>5. Sound(w) /\ At("end", w, r_event)
      BY <2>3, <2>4, ReportFacts DEF Sound, At, FileUnknown, R!BodyConfirmed
    <2>6. Spent(w, r_out, r_ruled)
      BY <2>3, <2>4, ReportFacts DEF Spent, Retries, R!BodyConfirmed
    <2> QED
      BY <1>1, <2>2, <2>3, <2>5, <2>6, ReportFacts, ReportNext
  <1> QED
    BY <1>1, <1>2, <1>3, <1>4

LEMMA StepRefused ==
  ASSUME ReportInv, R!Refused
  PROVE  ReportInv'
  <1>1. /\ UNCHANGED <<r_task, r_fresh, r_ruled>> /\ r_pc' = "off" /\ R!Failed("refused")
        /\ r_pc \in {"uploading", "sending", "card"} /\ r_mem = r_rec /\ r_task # "gone"
    BY ReportFacts DEF R!Refused, R!Go
  <1>2. /\ r_event' \in Events /\ r_event'.ns = "retryable"
        /\ r_event'.st = "superseded" => r_event.st = "superseded"
    BY <1>1, FailedEvent, ReportFacts
  <1>3. CASE r_pc = "uploading"
    <2>1. PICK w : w = [r_rec EXCEPT !.file = "retryable"]
      OBVIOUS
    <2>2. r_rec' = w /\ r_mem' = w /\ r_out' = [r_out EXCEPT !.uploads = @ - 1]
      BY <1>1, <1>3, <2>1 DEF R!Refused, R!Save
    <2>3. /\ w \in R!Record /\ w.file = "retryable" /\ w.st = r_rec.st /\ w.key = r_rec.key
          /\ w.retried = r_rec.retried /\ w.res = r_rec.res /\ w.card = r_rec.card
      BY <2>1, FileEdit, ReportFacts
    <2>4. r_rec.file = "uploading" /\ r_rec.res = "none" /\ r_rec.st # "none"
      BY <1>3, ReportFacts DEF At
    <2>5. /\ r_out' \in [uploads : Int, shows : Int, cards : Int]
          /\ r_out'.uploads = r_out.uploads - 1 /\ r_out'.shows = r_out.shows
          /\ r_out'.cards = r_out.cards
      BY <2>2, ReportFacts
    <2>6. Sound(w) /\ At("off", w, r_event')
      BY <1>2, <2>3, <2>4 DEF Sound, At, FileUnknown
    <2>7. Spent(w, r_out', r_ruled)
      BY <2>3, <2>4, <2>5, ReportFacts DEF Spent, Retries, R!BodyConfirmed
    <2> QED
      BY <1>1, <1>2, <2>2, <2>3, <2>5, <2>6, <2>7, ReportFacts, ReportNext
  <1>4. CASE r_pc = "sending"
    <2>1. PICK w : w = [r_rec EXCEPT !.file = "retryable"]
      OBVIOUS
    <2>2. r_rec' = w /\ r_mem' = w /\ r_out' = [r_out EXCEPT !.shows = @ - 1]
      BY <1>1, <1>4, <2>1 DEF R!Refused, R!Save
    <2>3. /\ w \in R!Record /\ w.file = "retryable" /\ w.st = r_rec.st /\ w.key = r_rec.key
          /\ w.retried = r_rec.retried /\ w.res = r_rec.res /\ w.card = r_rec.card
      BY <2>1, FileEdit, ReportFacts
    <2>4. r_rec.file = "sending" /\ r_rec.res = "none" /\ r_rec.st # "none" /\ r_rec.key
      BY <1>4, ReportFacts DEF At, Sound
    <2>5. /\ r_out' \in [uploads : Int, shows : Int, cards : Int]
          /\ r_out'.uploads = r_out.uploads /\ r_out'.shows = r_out.shows - 1
          /\ r_out'.cards = r_out.cards
      BY <2>2, ReportFacts
    <2>6. Sound(w) /\ At("off", w, r_event')
      BY <1>2, <2>3, <2>4 DEF Sound, At, FileUnknown
    <2>7. Spent(w, r_out', r_ruled)
      BY <2>3, <2>4, <2>5, ReportFacts DEF Spent, Retries, R!BodyConfirmed
    <2> QED
      BY <1>1, <1>2, <2>2, <2>3, <2>5, <2>6, <2>7, ReportFacts, ReportNext
  <1>5. CASE r_pc = "card"
    <2>1. PICK w : w = [r_rec EXCEPT !.card = "retryable"]
      OBVIOUS
    <2>2. r_rec' = w /\ r_mem' = w /\ r_out' = [r_out EXCEPT !.cards = @ - 1]
      BY <1>1, <1>5, <2>1 DEF R!Refused, R!Save
    <2>3. /\ w \in R!Record /\ w.card = "retryable" /\ w.st = r_rec.st /\ w.key = r_rec.key
          /\ w.retried = r_rec.retried /\ w.res = r_rec.res /\ w.file = r_rec.file
      BY <2>1, CardEdit, ReportFacts
    <2>4. R!BodyConfirmed(r_rec) /\ r_rec.st # "none"
      BY <1>5, ReportFacts DEF At
    <2>5. /\ r_out' \in [uploads : Int, shows : Int, cards : Int]
          /\ r_out'.uploads = r_out.uploads /\ r_out'.shows = r_out.shows
          /\ r_out'.cards = r_out.cards - 1
      BY <2>2, ReportFacts
    <2>6. Sound(w) /\ At("off", w, r_event')
      BY <1>2, <2>3, <2>4, ReportFacts DEF Sound, At, FileUnknown, R!BodyConfirmed
    <2>7. Spent(w, r_out', r_ruled)
      BY <2>3, <2>4, <2>5, ReportFacts DEF Spent, Retries, R!BodyConfirmed
    <2> QED
      BY <1>1, <1>2, <2>2, <2>3, <2>5, <2>6, <2>7, ReportFacts, ReportNext
  <1> QED
    BY <1>1, <1>3, <1>4, <1>5

LEMMA StepLost ==
  ASSUME ReportInv, R!Lost
  PROVE  ReportInv'
  <1>1. /\ UNCHANGED <<r_task, r_fresh, r_out, r_ruled>> /\ r_pc' = "off" /\ R!Failed("unknown")
        /\ r_pc \in {"uploading", "sending", "card"} /\ r_mem = r_rec /\ r_task # "gone"
    BY ReportFacts DEF R!Lost, R!Go
  <1>2. /\ r_event' \in Events /\ r_event'.ns = "uncertain"
        /\ r_event'.st = "superseded" => r_event.st = "superseded"
    BY <1>1, FailedEvent, ReportFacts
  <1>3. CASE r_pc \in {"uploading", "sending"}
    <2>1. PICK w : w = [r_rec EXCEPT !.file = "uncertain"]
      OBVIOUS
    <2>2. r_rec' = w /\ r_mem' = w
      BY <1>1, <1>3, <2>1 DEF R!Lost, R!Save
    <2>3. /\ w \in R!Record /\ w.file = "uncertain" /\ w.st = r_rec.st /\ w.key = r_rec.key
          /\ w.retried = r_rec.retried /\ w.res = r_rec.res /\ w.card = r_rec.card
      BY <2>1, FileEdit, ReportFacts
    <2>4. r_rec.file \in {"uploading", "sending"} /\ r_rec.res = "none" /\ r_rec.st # "none"
      BY <1>3, ReportFacts DEF At
    <2>5. Sound(w) /\ At("off", w, r_event')
      BY <1>2, <2>3, <2>4 DEF Sound, At, FileUnknown
    <2>6. Spent(w, r_out, r_ruled)
      BY <2>3, <2>4, ReportFacts DEF Spent, Retries, R!BodyConfirmed
    <2> QED
      BY <1>1, <1>2, <2>2, <2>3, <2>5, <2>6, ReportFacts, ReportNext
  <1>4. CASE r_pc = "card"
    <2>1. PICK w : w = [r_rec EXCEPT !.card = "uncertain"]
      OBVIOUS
    <2>2. r_rec' = w /\ r_mem' = w
      BY <1>1, <1>4, <2>1 DEF R!Lost, R!Save
    <2>3. /\ w \in R!Record /\ w.card = "uncertain" /\ w.st = r_rec.st /\ w.key = r_rec.key
          /\ w.retried = r_rec.retried /\ w.res = r_rec.res /\ w.file = r_rec.file
      BY <2>1, CardEdit, ReportFacts
    <2>4. R!BodyConfirmed(r_rec) /\ r_rec.st # "none"
      BY <1>4, ReportFacts DEF At
    <2>5. Sound(w) /\ At("off", w, r_event')
      BY <1>2, <2>3, <2>4, ReportFacts DEF Sound, At, FileUnknown
    <2>6. Spent(w, r_out, r_ruled)
      BY <2>3, <2>4, ReportFacts DEF Spent, Retries, R!BodyConfirmed
    <2> QED
      BY <1>1, <1>2, <2>2, <2>3, <2>5, <2>6, ReportFacts, ReportNext
  <1> QED
    BY <1>1, <1>3, <1>4

LEMMA StepFinish ==
  ASSUME ReportInv, R!Finish
  PROVE  ReportInv'
  <1>1. /\ r_pc = "end" /\ r_pc' = "off"
        /\ UNCHANGED <<r_task, r_fresh, r_rec, r_mem, r_out, r_ruled>>
        /\ r_event' = [r_event EXCEPT !.ns = "sent", !.err = "none"]
    BY DEF R!Finish, R!Go
  <1>2. r_event' \in Events /\ r_event'.ns = "sent" /\ r_event'.st = r_event.st
    BY <1>1, ReportFacts DEF Events
  <1>3. At("off", r_rec, r_event')
    BY <1>1, <1>2, ReportFacts DEF At, R!Confirmed
  <1>4. R!FileAbandoned => R!FileAbandoned'
    BY <1>1 DEF R!FileAbandoned
  <1> QED
    BY <1>1, <1>2, <1>3, <1>4, ReportFacts, ReportNext

(* A decision, whoever makes it: it meets a file of unknown fate, and no   *)
(* delivery that works on a copy of the record.                            *)
LEMMA Decision ==
  ASSUME ReportInv, R!Listed, NEW c \in R!Options, R!Rule(c),
         UNCHANGED <<r_task, r_fresh, r_event, r_pc, r_mem, r_out>>
  PROVE  ReportInv'
  <1>1. PICK w : w = [r_rec EXCEPT !.res = c]
    OBVIOUS
  <1>2. r_rec' = w /\ r_ruled' = r_ruled + (IF c = "retry" THEN 1 ELSE 0) /\ r_ruled' \in Nat
    BY <1>1, ReportFacts DEF R!Rule
  <1>3. /\ c \in R!Choices /\ (c = "retry" => ~r_rec.retried)
    BY DEF R!Options, R!Choices
  <1>4. /\ w \in R!Record /\ w.res = c /\ w.card = r_rec.card /\ w.key = r_rec.key
        /\ w.retried = r_rec.retried /\ w.st = r_rec.st /\ w.file = r_rec.file
    BY <1>1, <1>3, RuleEdit, ReportFacts
  <1>5. r_rec.st = "kept" /\ r_rec.res = "none" /\ FileUnknown(r_rec) /\ c # "none"
        /\ ~R!BodyConfirmed(r_rec)
    BY <1>3 DEF R!Listed, FileUnknown, R!BodyConfirmed, R!Choices
  <1>6. r_pc \in {"off"}
    BY <1>5, ReportFacts DEF At, FileUnknown, R!Listed, R!InFlight, ReportInv, ReportTypes
  <1>7. Sound(w)
    BY <1>3, <1>4, <1>5, ReportFacts DEF Sound, FileUnknown
  <1>8. Spent(w, r_out, r_ruled')
    <2>1. r_ruled = Retries(r_rec) /\ Retries(w) = Retries(r_rec)
      BY <1>4, <1>5, ReportFacts DEF Spent, Retries
    <2>2. ~(r_out.cards > 0)
      BY <1>5, ReportFacts DEF Spent
    <2> QED
      BY <1>2, <1>4, <1>5, <2>1, <2>2, ReportFacts DEF Spent
  <1>9. At(r_pc, w, r_event)
    BY <1>4, <1>5, <1>6, ReportFacts DEF At, R!Confirmed, R!BodyConfirmed
  <1>10. ~R!Confirmed(r_rec) /\ ~R!FileAbandoned
    BY <1>5 DEF R!Confirmed, R!FileAbandoned
  <1> QED
    BY <1>2, <1>4, <1>6, <1>7, <1>8, <1>9, <1>10, ReportFacts, ReportNext

LEMMA DeliveryKept ==
  ASSUME ReportInv, UNCHANGED <<r_task, r_fresh, R!delivery, r_out, r_ruled>>
  PROVE  ReportInv'
  <1>1. UNCHANGED <<r_task, r_fresh, r_event, r_rec, r_pc, r_mem, r_out, r_ruled>>
    BY DEF R!delivery
  <1>2. R!FileAbandoned' <=> R!FileAbandoned
    BY <1>1 DEF R!FileAbandoned
  <1> QED
    BY <1>1, <1>2, ReportFacts, ReportNext DEF ReportInv, ReportTypes

LEMMA StepRevise ==
  ASSUME ReportInv, R!Revise
  PROVE  ReportInv'
  <1>1. UNCHANGED <<r_task, r_event, r_rec, r_pc, r_mem, r_out, r_ruled>> /\ r_fresh' = FALSE
    BY DEF R!Revise, R!delivery
  <1> QED
    BY <1>1, ReportFacts, ReportNext DEF ReportInv, ReportTypes

LEMMA StepComplete ==
  ASSUME ReportInv, R!Complete
  PROVE  ReportInv'
  <1>1. UNCHANGED <<r_fresh, r_event, r_rec, r_pc, r_mem, r_out, r_ruled>>
        /\ r_task' = "completing"
    BY DEF R!Complete, R!delivery
  <1> QED
    BY <1>1, ReportFacts, ReportNext DEF ReportInv, ReportTypes

LEMMA StepDeleteGroup ==
  ASSUME ReportInv, R!DeleteGroup
  PROVE  ReportInv'
  <1>1. PICK w : w = R!Swept
    OBVIOUS
  <1>2. /\ r_task' = "gone" /\ r_rec' = w /\ ~R!PendingInChat
        /\ UNCHANGED <<r_fresh, r_event, r_pc, r_mem, r_out, r_ruled>>
    BY <1>1 DEF R!DeleteGroup
  <1>3. At(r_pc, w, r_event)
    BY <1>1, Sweeping, ReportFacts DEF At, FileUnknown, R!Confirmed, R!BodyConfirmed
  <1>4. r_pc \in {"off", "prepare"} /\ (R!Confirmed(r_rec) \/ R!FileAbandoned \/ ~r_fresh)
    <2>1. CASE r_rec.st # "none"
      <3>1. ~R!Undelivered
        BY <1>2, <2>1 DEF R!PendingInChat
      <3>2. R!Retired => ~r_fresh
        BY ReportFacts DEF R!Retired, R!Obsolete
      <3> QED
        BY <3>1, <3>2 DEF R!Undelivered, R!Sending
    <2>2. CASE r_rec.st = "none"
      <3>1. r_pc \in {"off", "prepare"}
        BY <2>2, ReportFacts DEF At
      <3>2. ~R!Notified
        BY <2>2, ReportFacts, NoRecord
           DEF R!Notified, At, Sound, R!Confirmed, R!BodyConfirmed
      <3>3. r_event.st = "superseded" \/ ~r_fresh
        BY <1>2, <2>2, <3>2, ReportFacts DEF R!PendingInChat, Events
      <3> QED
        BY <3>1, <3>3, ReportFacts
    <2> QED
      BY <2>1, <2>2
  <1>5. R!Confirmed(w) \/ R!FileAbandoned' \/ ~r_fresh
    BY <1>1, <1>2, <1>4, Sweeping DEF R!Confirmed, R!BodyConfirmed, R!FileAbandoned
  <1> QED
    BY <1>1, <1>2, <1>3, <1>4, <1>5, Sweeping, ReportFacts, ReportNext

LEMMA StepCrash ==
  ASSUME ReportInv, R!Crash
  PROVE  ReportInv'
  <1>1. UNCHANGED <<r_task, r_fresh, r_event, r_rec, r_mem, r_out, r_ruled>> /\ r_pc' = "off"
    BY DEF R!Crash, R!Go
  <1>2. At("off", r_rec, r_event)
    BY ReportFacts DEF At
  <1>3. R!FileAbandoned' <=> R!FileAbandoned
    BY <1>1 DEF R!FileAbandoned
  <1> QED
    BY <1>1, <1>2, <1>3, ReportFacts, ReportNext

LEMMA ReportStep ==
  ASSUME ReportInv, [R!Next]_(R!vars)
  PROVE  ReportInv'
  <1>1. CASE UNCHANGED R!vars
    BY <1>1, DeliveryKept DEF R!vars
  <1>2. CASE R!Work
    BY <1>2, StepRecover, StepNotify, StepPrepare, StepFile, StepVetoed, StepUpload, StepShow,
       StepSendCard, StepSent, StepFinish DEF R!Work
  <1>3. ASSUME R!PiAnswers PROVE ReportInv'
    <2>1. UNCHANGED <<r_task, r_fresh, r_event, r_pc, r_mem, r_out>>
      BY <1>3 DEF R!PiAnswers
    <2>2. CASE UNCHANGED <<r_rec, r_ruled>>
      BY <2>1, <2>2, DeliveryKept DEF R!delivery
    <2>3. CASE R!Current /\ \E c \in R!Options : R!Rule(c)
      BY <2>1, <2>3, Decision DEF R!Current
    <2> QED
      BY <1>3, <2>2, <2>3 DEF R!PiAnswers
  <1>4. ASSUME R!AskPi \/ R!Post \/ \E p \in {"sent", "uncertain", "retryable"} : R!Posted(p)
        PROVE  ReportInv'
    <2>1. UNCHANGED <<r_task, r_fresh, R!delivery, r_out, r_ruled>>
      BY <1>4 DEF R!AskPi, R!Post, R!Posted
    <2> QED
      BY <2>1, DeliveryKept
  <1>5. ASSUME NEW i \in DOMAIN r_sheets, NEW c \in R!Choices, R!Expire(i) \/ R!Click(i, c)
        PROVE  ReportInv'
    <2>1. CASE R!Expire(i)
      <3>1. UNCHANGED <<r_task, r_fresh, R!delivery, r_out, r_ruled>>
        BY <2>1 DEF R!Expire
      <3> QED
        BY <3>1, DeliveryKept
    <2>2. CASE R!Click(i, c)
      BY <2>2, Decision DEF R!Click
    <2> QED
      BY <1>5, <2>1, <2>2
  <1>6. CASE R!Supersede \/ R!Refused \/ R!Lost \/ R!Revise \/ R!Complete \/ R!DeleteGroup
             \/ R!Crash
    BY <1>6, StepSupersede, StepRefused, StepLost, StepRevise, StepComplete, StepDeleteGroup,
       StepCrash
  <1>7. ASSUME NEW i \in DOMAIN r_sheets, R!Expire(i) PROVE ReportInv'
    <2>1. UNCHANGED <<r_task, r_fresh, R!delivery, r_out, r_ruled>>
      BY <1>7 DEF R!Expire
    <2> QED
      BY <2>1, DeliveryKept
  <1> QED
    BY <1>1, <1>2, <1>3, <1>4, <1>5, <1>6, <1>7 DEF R!Next, R!Resolve

(* What is known of a delivery holds in every state of it.                 *)
THEOREM ReportInvariant == R!Spec => []ReportInv
  <1>1. ReportInv /\ [R!Next]_(R!vars) => ReportInv'
    BY ReportStep
  <1> QED
    BY <1>1, ReportStart, PTL DEF R!Spec

(* The file of a report is uploaded and shown once, and once more for each *)
(* decision to try again, however many requests are refused, lost or cut   *)
(* off by a crash; the card is sent once.                                  *)
THEOREM ReportSentOnce == R!Spec => []SentOnce
  <1>1. ReportInv => SentOnce
    BY ReportFacts DEF SentOnce, R!SentOnce, Spent, Retries
  <1> QED
    BY <1>1, ReportInvariant, PTL

(* A group is deleted only when its report was delivered, given up or is   *)
(* stale, and nothing of it is still on its way.                           *)
THEOREM ReportKeepsGroup == R!Spec => []GroupWaits
  <1>1. ReportInv => GroupWaits
    BY DEF ReportInv, Held, GroupWaits
  <1> QED
    BY <1>1, ReportInvariant, PTL

(* The summary card follows the file, or the decision that the file is     *)
(* there.                                                                  *)
THEOREM ReportCardLast == R!Spec => []R!CardLast
  <1>1. ReportInv => R!CardLast
    BY DEF ReportInv, Spent, R!CardLast, R!BodyConfirmed
  <1> QED
    BY <1>1, ReportInvariant, PTL

(***************************************************************************)
(* The handoffs of a workflow.                                             *)
(***************************************************************************)
Order(n) == h_flow.node[n]

(* The shape of what is kept, and the numbers in it.                       *)
FlowTypes ==
  /\ h_flow = [user |-> h_flow.user, version |-> h_flow.version, node |-> h_flow.node,
               approvals |-> h_flow.approvals, artifact |-> h_flow.artifact,
               report |-> h_flow.report]
  /\ h_flow.report = [some |-> h_flow.report.some, rev |-> h_flow.report.rev,
                      docs |-> h_flow.report.docs]
  /\ h_flow.node = [n \in H!Nodes |-> h_flow.node[n]]
  /\ \A n \in H!Nodes :
       /\ h_flow.node[n] =
            [st |-> h_flow.node[n].st, who |-> h_flow.node[n].who, op |-> h_flow.node[n].op,
             rev |-> h_flow.node[n].rev, input |-> h_flow.node[n].input,
             repair |-> h_flow.node[n].repair]
       /\ h_flow.node[n].op \in Nat /\ h_flow.node[n].rev \in Nat
       /\ h_flow.node[n].repair.times \in Nat

EventTypes ==
  /\ h_ev = [st |-> h_ev.st, node |-> h_ev.node, who |-> h_ev.who, rule |-> h_ev.rule,
             op |-> h_ev.op, user |-> h_ev.user, version |-> h_ev.version, rev |-> h_ev.rev,
             sent |-> h_ev.sent, tries |-> h_ev.tries]
  /\ h_ev.op \in Nat /\ h_ev.rev \in Nat /\ h_ev.rule \in BOOLEAN /\ h_ev.sent \in BOOLEAN

HandTypes ==
  /\ h_files \in Nat /\ h_ops \in Nat
  /\ FlowTypes /\ EventTypes
  /\ h_base \in [H!Nodes -> Nat]
  /\ h_past = [n \in H!Nodes |-> h_past[n]]

(* A node that has been ordered is the one the live event is about; what   *)
(* was approved under its operation was approved for the same request.     *)
Ordered(n) ==
  /\ Order(n).st = "dispatched" => h_ev.sent /\ h_ev.node = n /\ Order(n).op = h_ev.op
  /\ Order(n).st # "pending" => Order(n).input = h_flow.user
  /\ Order(n).op <= h_ops
  /\ h_ev.op # 0 /\ Order(n).op = h_ev.op => h_ev.sent /\ h_ev.node = n
  /\ \A a \in h_flow.approvals :
       a.op = Order(n).op => <<a.who, a.docs, Order(n).input>> \in h_agreed

(* A repair that may be ordered is about the files of the first order; the *)
(* ghost of the last rejection tells the same story as the repair.         *)
Mended(n) ==
  /\ h_base[n] <= h_files
  /\ Order(n).repair.ok => Order(n).repair.rev = h_base[n] /\ Order(n).repair.times # 0
  /\ Order(n).repair.times # 0 =>
       /\ Order(n).repair.print = <<Order(n).repair.print[1], 0>>
       /\ h_past[n].about = <<Order(n).repair.print[1], Order(n).repair.input,
                              Order(n).repair.rev, Order(n).repair.version,
                              Order(n).repair.who>>
       /\ h_past[n].vain => Order(n).repair.times >= 2

(* The live event.                                                         *)
Selected ==
  /\ h_ev.node \in H!Nodes
  /\ h_ev.user = h_flow.user /\ h_ev.op <= h_ops /\ h_ev.rev <= h_files
  /\ h_ev.node # H!Report => h_ev.who = Confirmers[h_ev.node]
  /\ \A a \in h_flow.approvals : a.op < h_ev.op

Chosen ==
  /\ h_ev.rule => Order(h_ev.node).repair.who = h_ev.who
  /\ h_ev.rule /\ ~h_ev.sent => Order(h_ev.node).repair.times < 2
  /\ h_ev.rule /\ h_ev.sent => Order(h_ev.node).repair.ok
  /\ ~h_ev.rule /\ h_ev.sent => /\ Order(h_ev.node).rev = h_ev.rev
                                /\ h_ev.rev <= h_base[h_ev.node]

Event ==
  /\ h_ev.op # 0 => Selected /\ Chosen
  /\ h_ev.op = 0 => ~h_ev.sent /\ ~h_ev.rule /\ h_ev.st # "pending"
  /\ h_ev.sent <=> h_work.st # "idle"

(* What the participant said, and where the settlement stands.             *)
Heard ==
  /\ h_work.st \in {"asked", "read"} => h_work.who = h_ev.who
  /\ h_work.st = "said" =>
       /\ h_dir.said \in {"fine", "doubt", "path", "fields", "foreign"}
       /\ h_dir.said \in {"fine", "path"} => <<h_ev.who, h_dir.claim, h_ev.user>> \in h_agreed
  /\ h_pc = "frozen" => h_ev.op # 0 /\ ~h_ev.sent
  /\ h_pc \in {"take", "reject"} => h_work.st = "said"
  /\ h_pc = "take" => h_look = h_base[h_ev.node] /\ h_dir.said \in {"fine", "doubt"}
  /\ h_pc = "reject" /\ h_fault \in {"path", "fields"} => h_look = h_base[h_ev.node]

(* Approvals are of operations that began; the report's documents are      *)
(* those everyone approved in the operation that completed their node.     *)
Approved ==
  /\ \A a \in h_flow.approvals : a.op \in Nat \ {0} /\ a.op <= h_ops
  /\ h_flow.report.some => H!AllApproved(h_flow, h_flow.report.rev, h_flow.report.docs)

HandInv ==
  /\ HandTypes /\ Event /\ Heard /\ Approved
  /\ \A n \in H!Nodes : Ordered(n) /\ Mended(n)

LEMMA HandConstants ==
  /\ Confirmers \in Seq({Confirmers[i] : i \in DOMAIN Confirmers})
  /\ Len(Confirmers) \in Nat /\ H!Report \in Nat /\ H!Report \in H!Nodes
  /\ \A n \in H!Nodes : n \in Nat /\ n # 0
  /\ \A n \in 1..Len(Confirmers) : n \in H!Nodes /\ n # H!Report
  <1>1. /\ Confirmers \in Seq({Confirmers[i] : i \in DOMAIN Confirmers})
        /\ Confirmers # << >>
    BY HandoffsOk DEF H!HandoffsAssumption
  <1>2. Len(Confirmers) \in Nat
    BY <1>1
  <1> QED
    BY <1>1, <1>2 DEF H!Report, H!Nodes

(* What is said of a node stays, when its order stays and nothing is taken *)
(* back.                                                                   *)
LEMMA MendedStays ==
  ASSUME HandTypes, NEW n \in H!Nodes, Mended(n), h_files' \in Nat, h_files' >= h_files,
         Order(n)' = Order(n), h_base'[n] = h_base[n], h_past'[n] = h_past[n]
  PROVE  Mended(n)'
  <1>1. h_base[n] \in Nat
    BY DEF HandTypes, FlowTypes
  <1> QED
    BY <1>1 DEF HandTypes, FlowTypes, Mended

LEMMA OrderedStays ==
  ASSUME HandTypes, NEW n \in H!Nodes, Ordered(n), Order(n)' = Order(n),
         h_flow'.user = h_flow.user, h_flow'.approvals = h_flow.approvals,
         h_agreed \subseteq h_agreed', h_ops' \in Nat, h_ops' >= h_ops,
         \/ h_ev'.op = h_ev.op /\ h_ev'.sent = h_ev.sent /\ h_ev'.node = h_ev.node
         \/ ~h_ev.sent /\ (h_ev'.op = 0 \/ h_ev'.op > h_ops)
         \/ ~h_ev.sent /\ Order(n).op # h_ev.op /\ h_ev'.op = h_ev.op
  PROVE  Ordered(n)'
  <1>1. Order(n).op \in Nat /\ h_ops \in Nat
    BY DEF HandTypes, FlowTypes, Order
  <1> QED
    BY <1>1 DEF Ordered

(* Steps that leave the workflow and its event alone.                      *)
LEMMA HandWaits ==
  ASSUME HandInv, UNCHANGED <<h_flow, h_ev, h_base, h_past, h_ops>>,
         h_files' \in Nat, h_files' >= h_files, h_agreed \subseteq h_agreed',
         h_work'.st # "idle" <=> h_work.st # "idle", Heard'
  PROVE  HandInv'
  <1>1. HandTypes'
    <2>1. FlowTypes' /\ EventTypes'
      BY DEF HandInv, HandTypes, FlowTypes, EventTypes, H!Nodes, H!Report
    <2> QED
      BY <2>1 DEF HandInv, HandTypes, H!Nodes, H!Report
  <1>2. Event'
    <2>1. h_ev.rev \in Nat /\ h_files \in Nat
      BY DEF HandInv, HandTypes, EventTypes
    <2>2. Selected => Selected'
      BY <2>1 DEF Selected, H!Nodes, H!Report
    <2>3. Chosen => Chosen'
      BY DEF Chosen, Order
    <2> QED
      BY <2>2, <2>3 DEF HandInv, Event
  <1>3. Approved'
    BY DEF HandInv, Approved, H!AllApproved, H!Approval
  <1>4. ASSUME NEW n \in H!Nodes
        PROVE  Ordered(n)' /\ Mended(n)'
    <2>1. h_ops \in Nat /\ h_ops' >= h_ops
      BY DEF HandInv, HandTypes
    <2> QED
      BY <2>1, OrderedStays, MendedStays DEF HandInv, Order
  <1> QED
    BY <1>1, <1>2, <1>3, <1>4 DEF HandInv, H!Nodes, H!Report

Ending(st, user) ==
  [st |-> st, node |-> 0, who |-> H!Nobody, rule |-> FALSE, op |-> 0, user |-> user,
   version |-> 0, rev |-> 0, sent |-> FALSE, tries |-> 0]
Renewed(user) == [H!Afresh(h_flow) EXCEPT !.user = user]

(* The event is over before it was sent, or a new one says why nothing is. *)
LEMMA HandDrops ==
  ASSUME HandInv, UNCHANGED <<h_files, h_flow, h_base, h_past, h_ops, h_agreed, h_work>>,
         ~h_ev.sent, h_pc' = "idle",
         NEW st \in {"none", "attention", "delivered"}, NEW user,
         h_ev' = Ending(st, user)
  PROVE  HandInv'
  <1>1. /\ h_ev'.op = 0 /\ ~h_ev'.sent /\ ~h_ev'.rule /\ h_ev'.st = st
        /\ h_ev' = [st |-> st, node |-> 0, who |-> H!Nobody, rule |-> FALSE, op |-> 0,
                    user |-> user, version |-> 0, rev |-> 0, sent |-> FALSE, tries |-> 0]
    BY DEF H!NoEvent, Ending
  <1>2. HandTypes'
    <2>1. EventTypes'
      BY <1>1 DEF EventTypes
    <2>2. FlowTypes'
      BY DEF HandInv, HandTypes, FlowTypes, H!Nodes, H!Report
    <2> QED
      BY <2>1, <2>2 DEF HandInv, HandTypes, H!Nodes, H!Report
  <1>3. h_work.st = "idle"
    BY DEF HandInv, Event
  <1>4. Event'
    BY <1>1, <1>3 DEF Event
  <1>5. Heard'
    BY <1>3 DEF Heard
  <1>6. Approved'
    BY DEF HandInv, Approved, H!AllApproved, H!Approval
  <1>7. ASSUME NEW n \in H!Nodes
        PROVE  Ordered(n)' /\ Mended(n)'
    <2>1. h_ops \in Nat /\ h_ops' >= h_ops /\ h_files \in Nat /\ h_files' >= h_files
      BY DEF HandInv, HandTypes
    <2> QED
      BY <1>1, <2>1, OrderedStays, MendedStays DEF HandInv, Order
  <1> QED
    BY <1>2, <1>4, <1>5, <1>6, <1>7 DEF HandInv, H!Nodes, H!Report

(* Every node begins anew.                                                 *)
LEMMA HandAnew ==
  ASSUME HandInv, UNCHANGED <<h_files, h_base, h_past, h_ops, h_agreed, h_dir>>,
         h_pc' = "idle", h_work'.st = "idle", h_ev' = H!NoEvent,
         NEW user, h_flow' = Renewed(user)
  PROVE  HandInv'
  <1>1. /\ h_ev'.op = 0 /\ ~h_ev'.sent /\ ~h_ev'.rule /\ h_ev'.st = "none"
        /\ h_work'.st = "idle"
        /\ h_ev' = [st |-> "none", node |-> 0, who |-> H!Nobody, rule |-> FALSE, op |-> 0,
                    user |-> 0, version |-> 0, rev |-> 0, sent |-> FALSE, tries |-> 0]
    BY DEF H!NoEvent
  <1>2. PICK blank : blank = H!Blank
    OBVIOUS
  <1>3. /\ blank.st = "pending" /\ blank.op = 0 /\ blank.rev = 0
        /\ ~blank.repair.ok /\ blank.repair.times = 0
        /\ blank = [st |-> blank.st, who |-> blank.who, op |-> blank.op, rev |-> blank.rev,
                    input |-> blank.input, repair |-> blank.repair]
    BY <1>2 DEF H!Blank, H!NoRepair
  <1>4. PICK u, v, w, p, t, x, y, z :
          h_flow = [user |-> u, version |-> v, node |-> w, approvals |-> p, artifact |-> t,
                    report |-> [some |-> x, rev |-> y, docs |-> z]]
    BY DEF HandInv, HandTypes, FlowTypes
  <1>5. h_flow' = [user |-> user, version |-> v + 1, node |-> [n \in H!Nodes |-> blank],
                   approvals |-> p, artifact |-> t,
                   report |-> [some |-> FALSE, rev |-> y, docs |-> z]]
    BY <1>2, <1>4 DEF H!Afresh, Renewed
  <1>6. /\ h_flow'.node = [n \in H!Nodes |-> blank] /\ h_flow'.approvals = h_flow.approvals
        /\ h_flow'.user = user /\ h_flow'.report.some = FALSE
    BY <1>4, <1>5
  <1>7. HandTypes'
    <2>1. EventTypes'
      BY <1>1 DEF EventTypes
    <2>2. FlowTypes'
      BY <1>3, <1>5, <1>6 DEF FlowTypes, H!Nodes, H!Report
    <2> QED
      BY <2>1, <2>2 DEF HandInv, HandTypes, H!Nodes, H!Report
  <1>8. Event' /\ Heard'
    BY <1>1 DEF Event, Heard
  <1>9. Approved'
    BY <1>6 DEF HandInv, Approved
  <1>10. ASSUME NEW n \in H!Nodes
        PROVE  Ordered(n)' /\ Mended(n)'
    <2>1. Order(n)' = blank
      BY <1>6 DEF Order
    <2>2. Ordered(n)'
      BY <1>1, <1>3, <1>6, <2>1 DEF HandInv, HandTypes, Ordered, Approved
    <2>3. Mended(n)'
      BY <1>3, <2>1 DEF HandInv, Mended
    <2> QED
      BY <2>2, <2>3
  <1> QED
    BY <1>7, <1>8, <1>9, <1>10 DEF HandInv, H!Nodes, H!Report

LEMMA HandOutside ==
  ASSUME HandInv, H!Says \/ H!EditFiles \/ H!EditDocument
  PROVE  HandInv'
  <1>1. /\ UNCHANGED <<h_flow, h_ev, h_dir, h_work, h_base, h_past, h_agreed, h_ops>>
        /\ UNCHANGED <<h_pc, h_look, h_fault>>
    BY DEF H!Says, H!EditFiles, H!EditDocument, H!Rest, H!settling, H!history
  <1>2. h_files \in Nat /\ (h_files' = h_files \/ h_files' = h_files + 1)
    BY DEF H!Says, H!EditFiles, H!EditDocument, HandInv, HandTypes
  <1>3. h_files' \in Nat /\ h_files' >= h_files
    BY <1>2
  <1>4. Heard'
    BY <1>1 DEF HandInv, Heard
  <1> QED
    BY <1>1, <1>3, <1>4, HandWaits

LEMMA HandParticipant ==
  ASSUME HandInv, H!Read \/ H!Answer
  PROVE  HandInv'
  <1>1. /\ UNCHANGED <<h_files, h_flow, h_ev, h_base, h_past, h_ops>>
        /\ UNCHANGED <<h_pc, h_look, h_fault>>
    BY DEF H!Read, H!Answer, H!outside, H!settling, H!history
  <1>2. h_files \in Nat /\ h_files' >= h_files
    BY <1>1 DEF HandInv, HandTypes
  <1>3. CASE H!Read
    <2>1. /\ h_work.st = "asked" /\ h_work'.st = "read" /\ h_work'.who = h_work.who
          /\ h_agreed' = h_agreed
      BY <1>3 DEF H!Read, H!history
    <2>2. Heard'
      BY <1>1, <2>1 DEF HandInv, Heard
    <2> QED
      BY <1>1, <1>2, <2>1, <2>2, HandWaits
  <1>4. CASE H!Answer
    <2>1. PICK said \in {"fine", "doubt", "path", "fields", "foreign"} :
            /\ h_dir' = [h_dir EXCEPT !.said = said, !.claim = h_work.saw]
            /\ h_agreed' = IF said \in {"fine", "path"}
                           THEN h_agreed \cup {<<h_work.who, h_work.saw, h_ev.user>>}
                           ELSE h_agreed
      BY <1>4 DEF H!Answer
    <2>2. h_work.st = "read" /\ h_work'.st = "said"
      BY <1>4 DEF H!Answer, H!NoWork
    <2>3. h_dir'.said = said /\ h_dir'.claim = h_work.saw
      BY <2>1 DEF HandInv, HandTypes
    <2>4. Heard'
      BY <1>1, <2>1, <2>2, <2>3 DEF HandInv, Heard
    <2> QED
      BY <1>1, <1>2, <2>1, <2>2, <2>4, HandWaits
  <1> QED
    BY <1>3, <1>4

(* The settlement begins: what is judged is the order's own work.          *)
LEMMA HandSettles ==
  ASSUME HandInv, H!Settle
  PROVE  HandInv'
  <1>1. PICK n \in H!Dispatched :
          /\ h_fault' = H!Fault(n) /\ h_look' = h_files
          /\ h_pc' = IF H!Fault(n) = "none" THEN "take" ELSE "reject"
    BY DEF H!Settle
  <1>2. /\ UNCHANGED <<h_files, h_flow, h_ev, h_dir, h_work, h_base, h_past, h_agreed, h_ops>>
        /\ h_work.st = "said"
    BY DEF H!Settle, H!outside, H!history
  <1>3. /\ n \in H!Nodes /\ Order(n).st = "dispatched"
        /\ h_ev.sent /\ h_ev.node = n /\ h_ev.op # 0
    BY DEF H!Dispatched, H!Node, HandInv, Ordered, Order, Event
  <1>4. H!Fault(n) # "changed" => h_look' = h_base[h_ev.node]
    <2>1. /\ Order(n).rev \in Nat /\ h_files \in Nat /\ h_base[n] \in Nat
          /\ h_ev.rev \in Nat /\ h_ev.rule \in BOOLEAN
      BY <1>3 DEF HandInv, HandTypes, FlowTypes, EventTypes, Order
    <2>2. H!Fault(n) # "changed" => H!Untouched(n)
      BY DEF H!Fault
    <2>3. Chosen /\ Mended(n)
      BY <1>3 DEF HandInv, Event
    <2>4. CASE h_ev.rule
      <3>1. Order(n).repair.rev = h_base[n]
        BY <1>3, <2>3, <2>4 DEF Chosen, Mended
      <3> QED
        BY <1>1, <1>3, <2>2, <2>4, <3>1 DEF H!Untouched, H!Node, Order
    <2>5. CASE ~h_ev.rule
      <3>1. Order(n).rev = h_ev.rev /\ h_ev.rev <= h_base[n] /\ h_base[n] <= h_files
        BY <1>3, <2>3, <2>5 DEF Chosen, Mended
      <3>2. H!Untouched(n) => Order(n).rev = h_files
        BY DEF H!Untouched, H!Node, Order
      <3> QED
        BY <1>1, <1>3, <2>1, <2>2, <3>1, <3>2
    <2> QED
      BY <2>4, <2>5
  <1>5. H!Fault(n) = "none" => h_dir.said \in {"fine", "doubt"}
    BY <1>2 DEF H!Fault, H!ReceiptFault, H!StatusFault, HandInv, Heard
  <1>6. Heard'
    BY <1>1, <1>2, <1>4, <1>5 DEF HandInv, Heard
  <1>7. h_files \in Nat /\ h_files' >= h_files
    BY <1>2 DEF HandInv, HandTypes
  <1> QED
    BY <1>2, <1>6, <1>7, HandWaits

LEMMA HandCrashes ==
  ASSUME HandInv, H!Crash
  PROVE  HandInv'
  <1>1. /\ UNCHANGED <<h_files, h_flow, h_ev, h_dir, h_work, h_base, h_past, h_agreed, h_ops>>
        /\ h_pc' = "idle" /\ h_fault' = "none"
    BY DEF H!Crash, H!outside, H!history
  <1>2. Heard'
    BY <1>1 DEF HandInv, Heard
  <1>3. h_files \in Nat /\ h_files' >= h_files
    BY <1>1 DEF HandInv, HandTypes
  <1> QED
    BY <1>1, <1>2, <1>3, HandWaits

(* Steps that end the event, and steps that make a new plan.               *)
LEMMA HandEnds ==
  ASSUME HandInv, H!Supersede \/ H!NoProgress \/ H!Deliver
  PROVE  HandInv'
  <1>1. /\ UNCHANGED <<h_files, h_flow, h_base, h_past, h_ops, h_agreed, h_work, h_pc>>
        /\ h_pc' = "idle"
    BY DEF H!Supersede, H!NoProgress, H!Deliver, H!outside, H!settling, H!history, H!Free, H!Idle
  <1>2. ~h_ev.sent
    BY DEF H!Supersede, H!NoProgress, H!Deliver, H!Idle, H!NoEvent, HandInv, Event
  <1>3. PICK st \in {"none", "attention", "delivered"}, user \in {0, h_user} :
          h_ev' = Ending(st, user)
    <2>1. H!NoEvent = Ending("none", 0)
      BY DEF H!NoEvent, Ending
    <2> QED
      BY <2>1 DEF H!Supersede, H!NoProgress, H!Deliver, H!NoEvent, Ending
  <1> QED
    BY <1>1, <1>2, <1>3, HandDrops

LEMMA HandPlans ==
  ASSUME HandInv, H!Reset \/ H!Replan
  PROVE  HandInv'
  <1>1. /\ UNCHANGED <<h_files, h_base, h_past, h_ops, h_agreed, h_dir>>
        /\ h_pc' = "idle" /\ h_ev' = H!NoEvent
    BY DEF H!Reset, H!Replan, H!outside, H!settling, H!history, H!Free, H!Idle
  <1>2. h_work'.st = "idle"
    BY DEF H!Reset, H!Replan, H!NoWork, H!Idle, H!NoEvent, HandInv, Event
  <1>3. PICK user \in {h_user, h_flow.user} : h_flow' = Renewed(user)
    <2>1. H!Afresh(h_flow) = Renewed(h_flow.user)
      BY DEF H!Afresh, Renewed, HandInv, HandTypes, FlowTypes
    <2> QED
      BY <2>1 DEF H!Reset, H!Replan, Renewed
  <1> QED
    BY <1>1, <1>2, <1>3, HandAnew

SelectsFor(n, p) ==
  /\ IF H!Ruled # {} THEN n \in H!Ruled /\ p = H!Node(n).who /\ H!Node(n).repair.times < 2
     ELSE H!Ready(n) \/ H!Node(n).st = "blocked"
  /\ h_ev' = [H!NoEvent EXCEPT !.st = "pending", !.node = n, !.who = p, !.rule = n \in H!Ruled,
                               !.op = h_ops + 1, !.user = h_user, !.version = h_flow.version,
                               !.rev = h_files]

LEMMA HandSelects ==
  ASSUME HandInv, H!Select
  PROVE  HandInv'
  <1>1. PICK n \in H!Nodes : \E p \in H!MaySay(n) : SelectsFor(n, p)
    BY DEF H!Select, SelectsFor
  <1>2. PICK p \in H!MaySay(n) : SelectsFor(n, p)
    BY <1>1
  <1>3. /\ UNCHANGED <<h_files, h_flow, h_work, h_base, h_past, h_agreed>>
        /\ h_pc = "idle" /\ h_pc' = "idle" /\ h_ops' = h_ops + 1 /\ h_flow.user = h_user
        /\ h_ev.op = 0 /\ ~h_ev.sent
    BY DEF H!Select, H!Idle, H!Free, H!outside, H!history, H!NoEvent
  <1>4. PICK r \in BOOLEAN : r <=> n \in H!Ruled
    OBVIOUS
  <1>5. h_ev' = [st |-> "pending", node |-> n, who |-> p, rule |-> r, op |-> h_ops + 1,
                 user |-> h_user, version |-> h_flow.version, rev |-> h_files,
                 sent |-> FALSE, tries |-> 0]
    BY <1>2, <1>4 DEF H!NoEvent, SelectsFor
  <1>6. h_ops \in Nat /\ h_files \in Nat /\ h_work.st = "idle"
    BY <1>3 DEF HandInv, HandTypes, Event
  <1>7. HandTypes'
    <2>1. EventTypes'
      BY <1>5, <1>6 DEF EventTypes
    <2>2. FlowTypes'
      BY <1>3 DEF HandInv, HandTypes, FlowTypes, H!Nodes, H!Report
    <2> QED
      BY <1>3, <1>6, <2>1, <2>2 DEF HandInv, HandTypes, H!Nodes, H!Report
  <1>8. Heard'
    BY <1>3, <1>6 DEF Heard
  <1>9. Approved'
    BY <1>3, <1>6 DEF HandInv, Approved, H!AllApproved, H!Approval
  <1>10. Event'
    <2>1. Selected'
      <3>1. n # H!Report => p = Confirmers[n]
        BY DEF H!MaySay
      <3>2. \A a \in h_flow.approvals : a.op < h_ops + 1
        BY <1>6 DEF HandInv, Approved
      <3> QED
        BY <1>3, <1>5, <1>6, <3>1, <3>2 DEF Selected, H!Nodes, H!Report
    <2>2. Chosen'
      <3>1. r => Order(n).repair.who = p /\ Order(n).repair.times < 2
        BY <1>2, <1>4 DEF SelectsFor, H!Ruled, H!RuleFor, H!Node, Order
      <3> QED
        BY <1>3, <1>5, <3>1 DEF Chosen, Order
    <2> QED
      BY <1>3, <1>5, <1>6, <2>1, <2>2 DEF Event
  <1>11. ASSUME NEW m \in H!Nodes
         PROVE  Ordered(m)' /\ Mended(m)'
    <2>1. h_ev'.op > h_ops /\ h_ops' \in Nat /\ h_ops' >= h_ops /\ h_files' >= h_files
      BY <1>3, <1>5, <1>6
    <2> QED
      BY <1>3, <1>6, <2>1, OrderedStays, MendedStays DEF HandInv, Order
  <1> QED
    BY <1>7, <1>8, <1>9, <1>10, <1>11 DEF HandInv, H!Nodes, H!Report

(* An attempt at the event: it stays what it is.                           *)
LEMMA HandTries ==
  ASSUME HandInv, UNCHANGED <<h_files, h_flow, h_work, h_base, h_past, h_agreed, h_ops>>,
         ~h_ev.sent, h_ev.op # 0, h_pc' \in {"idle", "frozen"},
         NEW st, NEW t, h_ev' = [h_ev EXCEPT !.st = st, !.tries = t]
  PROVE  HandInv'
  <1>1. h_ev' = [st |-> st, node |-> h_ev.node, who |-> h_ev.who, rule |-> h_ev.rule,
                 op |-> h_ev.op, user |-> h_ev.user, version |-> h_ev.version,
                 rev |-> h_ev.rev, sent |-> h_ev.sent, tries |-> t]
    BY DEF HandInv, HandTypes, EventTypes
  <1>2. /\ h_ev'.op = h_ev.op /\ h_ev'.sent = h_ev.sent /\ h_ev'.node = h_ev.node
        /\ h_ev'.who = h_ev.who /\ h_ev'.rule = h_ev.rule /\ h_ev'.user = h_ev.user
        /\ h_ev'.rev = h_ev.rev
    BY <1>1
  <1>3. h_work.st = "idle" /\ h_ops \in Nat /\ h_files \in Nat
    BY DEF HandInv, Event, HandTypes
  <1>4. HandTypes'
    <2>1. EventTypes'
      <3>1. h_ev' = [st |-> h_ev'.st, node |-> h_ev'.node, who |-> h_ev'.who,
                     rule |-> h_ev'.rule, op |-> h_ev'.op, user |-> h_ev'.user,
                     version |-> h_ev'.version, rev |-> h_ev'.rev, sent |-> h_ev'.sent,
                     tries |-> h_ev'.tries]
        BY <1>1
      <3> QED
        BY <1>2, <3>1 DEF HandInv, HandTypes, EventTypes
    <2>2. FlowTypes'
      BY DEF HandInv, HandTypes, FlowTypes, H!Nodes, H!Report
    <2> QED
      BY <2>1, <2>2 DEF HandInv, HandTypes, H!Nodes, H!Report
  <1>5. Heard'
    BY <1>2, <1>3 DEF Heard
  <1>6. Approved'
    BY DEF HandInv, Approved, H!AllApproved, H!Approval
  <1>7. Event'
    <2>1. Selected'
      BY <1>2 DEF HandInv, Event, Selected, H!Nodes, H!Report
    <2>2. Chosen'
      BY <1>2 DEF HandInv, Event, Chosen, Order
    <2> QED
      BY <1>2, <1>3, <2>1, <2>2 DEF Event
  <1>8. ASSUME NEW m \in H!Nodes
        PROVE  Ordered(m)' /\ Mended(m)'
    <2>1. h_ops' \in Nat /\ h_ops' >= h_ops /\ h_files' \in Nat /\ h_files' >= h_files
      BY <1>3
    <2> QED
      BY <1>2, <2>1, OrderedStays, MendedStays DEF HandInv, Order
  <1> QED
    BY <1>4, <1>5, <1>6, <1>7, <1>8 DEF HandInv, H!Nodes, H!Report

LEMMA HandFreezes ==
  ASSUME HandInv, H!Freeze
  PROVE  HandInv'
  <1>1. /\ UNCHANGED <<h_files, h_flow, h_work, h_base, h_past, h_agreed, h_ops>>
        /\ ~h_ev.sent /\ h_ev.st = "pending" /\ h_pc = "idle"
    BY DEF H!Freeze, H!outside, H!history, H!Free
  <1>2. h_ev.op # 0
    BY <1>1 DEF HandInv, Event
  <1>3. \/ h_ev' = H!NoEvent /\ h_pc' = "idle"
        \/ /\ h_pc' \in {"idle", "frozen"}
           /\ \E st, t : h_ev' = [h_ev EXCEPT !.st = st, !.tries = t]
    <2> DEFINE tried == [h_ev EXCEPT !.tries = @ + 1]
    <2>1. \/ h_ev' = H!NoEvent /\ h_pc' = "idle"
          \/ h_ev' = H!Failed(tried) /\ h_pc' = "idle"
          \/ h_ev' = tried /\ h_pc' = "frozen"
      BY <1>1 DEF H!Freeze
    <2>2. \E st, t : H!Failed(tried) = [h_ev EXCEPT !.st = st, !.tries = t]
      <3>1. H!Failed(tried) =
              [h_ev EXCEPT !.st = IF tried.tries >= MaxTries THEN "attention" ELSE "pending",
                           !.tries = h_ev.tries + 1]
        BY DEF H!Failed, HandInv, HandTypes, EventTypes
      <3> QED
        BY <3>1
    <2>3. \E st, t : tried = [h_ev EXCEPT !.st = st, !.tries = t]
      <3>1. tried = [h_ev EXCEPT !.st = h_ev.st, !.tries = h_ev.tries + 1]
        BY DEF HandInv, HandTypes, EventTypes
      <3> QED
        BY <3>1
    <2> QED
      BY <2>1, <2>2, <2>3
  <1>4. H!NoEvent = Ending("none", 0)
    BY DEF H!NoEvent, Ending
  <1> QED
    BY <1>1, <1>2, <1>3, <1>4, HandDrops, HandTries

(* The order of a node: its own work begins, what follows it is undone.    *)
LEMMA HandSends ==
  ASSUME HandInv, H!Send
  PROVE  HandInv'
  <1>1. /\ UNCHANGED <<h_files, h_past, h_agreed, h_ops>>
        /\ h_pc = "frozen" /\ h_pc' = "idle" /\ h_ev.op # 0 /\ ~h_ev.sent
        /\ h_work.st = "idle"
    BY DEF H!Send, H!outside, HandInv, Heard, Event
  <1>2. CASE H!Overtaken \/ ~H!Fits
    <2>1. h_ev' = Ending("none", 0) /\ UNCHANGED <<h_flow, h_work, h_base>>
      BY <1>2 DEF H!Send, H!NoEvent, Ending
    <2> QED
      BY <1>1, <2>1, HandDrops
  <1>3. CASE ~(H!Overtaken \/ ~H!Fits)
    <2>1. PICK e \in H!Nodes : e = h_ev.node
      BY <1>1 DEF HandInv, Event, Selected
    <2>2. PICK repair : repair = IF h_ev.rule THEN Order(e).repair ELSE H!NoRepair
      OBVIOUS
    <2>3. PICK blank : blank = H!Blank
      OBVIOUS
    <2>4. PICK given : given = H!Restarted(h_flow, e, repair)
      OBVIOUS
    <2>5. /\ h_flow' = [given EXCEPT !.node[e] =
                          [@ EXCEPT !.st = "dispatched", !.who = h_ev.who, !.op = h_ev.op,
                                    !.rev = h_ev.rev, !.input = h_ev.user]]
          /\ h_work' = [H!NoWork EXCEPT !.st = "asked", !.who = h_ev.who]
          /\ h_ev' = [h_ev EXCEPT !.sent = TRUE]
          /\ h_base' = IF h_ev.rule THEN h_base ELSE [h_base EXCEPT ![e] = h_files]
      BY <1>3, <2>1, <2>2, <2>4 DEF H!Send, H!Node, Order
    <2>6. /\ blank.st = "pending" /\ blank.op = 0 /\ blank.rev = 0
          /\ ~blank.repair.ok /\ blank.repair.times = 0
          /\ blank = [st |-> blank.st, who |-> blank.who, op |-> blank.op, rev |-> blank.rev,
                      input |-> blank.input, repair |-> blank.repair]
      BY <2>3 DEF H!Blank, H!NoRepair
    <2>7. PICK u, v, o, p, t, x, y, z :
            h_flow = [user |-> u, version |-> v, node |-> o, approvals |-> p,
                      artifact |-> t, report |-> [some |-> x, rev |-> y, docs |-> z]]
      BY DEF HandInv, HandTypes, FlowTypes
    <2>8. PICK w : w = [m \in H!Nodes |-> IF m < e THEN h_flow.node[m]
                                          ELSE IF m = e THEN [blank EXCEPT !.repair = repair]
                                          ELSE blank]
      OBVIOUS
    <2>9. given = [user |-> u, version |-> v, node |-> w, approvals |-> p, artifact |-> t,
                   report |-> [some |-> FALSE, rev |-> y, docs |-> z]]
      BY <2>3, <2>4, <2>7, <2>8 DEF H!Restarted
    <2>10. PICK order : order = [st |-> "dispatched", who |-> h_ev.who, op |-> h_ev.op,
                                 rev |-> h_ev.rev, input |-> h_ev.user, repair |-> repair]
      OBVIOUS
    <2>11. w[e] = [st |-> blank.st, who |-> blank.who, op |-> blank.op, rev |-> blank.rev,
                   input |-> blank.input, repair |-> repair]
      <3>1. w[e] = [blank EXCEPT !.repair = repair]
        BY <2>8, HandConstants
      <3> QED
        BY <2>6, <3>1
    <2>12. h_flow' = [user |-> u, version |-> v, node |-> [w EXCEPT ![e] = order],
                      approvals |-> p, artifact |-> t,
                      report |-> [some |-> FALSE, rev |-> y, docs |-> z]]
      <3>1. [w[e] EXCEPT !.st = "dispatched", !.who = h_ev.who, !.op = h_ev.op,
                         !.rev = h_ev.rev, !.input = h_ev.user] = order
        <4>1. PICK a, b, c, d, f :
                w[e] = [st |-> a, who |-> b, op |-> c, rev |-> d, input |-> f,
                        repair |-> repair]
          BY <2>11
        <4>2. PICK q : q = [[st |-> a, who |-> b, op |-> c, rev |-> d, input |-> f,
                             repair |-> repair]
                            EXCEPT !.st = "dispatched", !.who = h_ev.who, !.op = h_ev.op,
                                   !.rev = h_ev.rev, !.input = h_ev.user]
          OBVIOUS
        <4>3. q = [st |-> "dispatched", who |-> h_ev.who, op |-> h_ev.op,
                   rev |-> h_ev.rev, input |-> h_ev.user, repair |-> repair]
          BY <4>2
        <4> QED
          BY <2>10, <4>1, <4>2, <4>3
      <3>2. h_flow' = [given EXCEPT !.node = [w EXCEPT ![e] = order]]
        BY <2>5, <2>9, <3>1
      <3> QED
        BY <2>9, <3>2
    <2>13. /\ h_flow'.user = h_flow.user /\ h_flow'.approvals = h_flow.approvals
           /\ ~h_flow'.report.some /\ h_flow'.node = [w EXCEPT ![e] = order]
      BY <2>7, <2>12
    <2>14. \A m \in H!Nodes :
             h_flow'.node[m] = IF m = e THEN order
                               ELSE IF m < e THEN h_flow.node[m] ELSE blank
      BY <2>8, <2>13, HandConstants
    <2>15. /\ h_ev' = [st |-> h_ev.st, node |-> e, who |-> h_ev.who, rule |-> h_ev.rule,
                       op |-> h_ev.op, user |-> h_ev.user, version |-> h_ev.version,
                       rev |-> h_ev.rev, sent |-> TRUE, tries |-> h_ev.tries]
      BY <2>1, <2>5 DEF HandInv, HandTypes, EventTypes
    <2>16. /\ h_ev'.op = h_ev.op /\ h_ev'.sent /\ h_ev'.node = e /\ h_ev'.who = h_ev.who
           /\ h_ev'.rule = h_ev.rule /\ h_ev'.user = h_ev.user /\ h_ev'.rev = h_ev.rev
           /\ h_ev'.st = h_ev.st
      BY <2>15
    <2>17. h_work'.st = "asked" /\ h_work'.who = h_ev.who
      BY <2>5 DEF H!NoWork
    <2>18. /\ h_files \in Nat /\ h_ops \in Nat /\ h_ev.op \in Nat /\ h_ev.rev \in Nat
           /\ h_ev.rule \in BOOLEAN /\ h_base \in [H!Nodes -> Nat]
           /\ \A m \in H!Nodes : Order(m).op \in Nat /\ Order(m).repair.times \in Nat
      BY DEF HandInv, HandTypes, FlowTypes, EventTypes, Order
    <2>19. /\ h_base' \in [H!Nodes -> Nat]
           /\ ~h_ev.rule => h_base'[e] = h_files
           /\ \A m \in H!Nodes : m # e \/ h_ev.rule => h_base'[m] = h_base[m]
      BY <2>5, <2>18
    <2>20. Selected /\ Chosen
      BY <1>1 DEF HandInv, Event
    <2>21. h_ev.rule => /\ repair.ok /\ repair.times < 2 /\ repair.who = h_ev.who
      <3>1. h_ev.rule => Order(e).repair.ok
        BY <1>3, <2>1 DEF H!Fits, H!StillCurrent, H!Node, Order
      <3> QED
        BY <1>1, <2>1, <2>2, <2>20, <3>1 DEF Chosen
    <2>22. ~h_ev.rule => ~repair.ok /\ repair.times = 0
      BY <2>2 DEF H!NoRepair
    <2>23. /\ order.st = "dispatched" /\ order.op = h_ev.op /\ order.rev = h_ev.rev
           /\ order.input = h_ev.user /\ order.repair = repair
           /\ order = [st |-> order.st, who |-> order.who, op |-> order.op, rev |-> order.rev,
                       input |-> order.input, repair |-> order.repair]
      BY <2>10
    <2>24. repair.times \in Nat
      BY <2>2, <2>18, <2>22
    <2>25. HandTypes'
      <3>1. EventTypes'
        BY <2>15, <2>16, <2>18 DEF EventTypes
      <3>2. h_flow' = [user |-> h_flow'.user, version |-> h_flow'.version,
                       node |-> h_flow'.node, approvals |-> h_flow'.approvals,
                       artifact |-> h_flow'.artifact, report |-> h_flow'.report]
        BY <2>12
      <3>3. h_flow'.report = [some |-> h_flow'.report.some, rev |-> h_flow'.report.rev,
                              docs |-> h_flow'.report.docs]
        BY <2>12
      <3>4. h_flow'.node = [m \in H!Nodes |-> h_flow'.node[m]]
        BY <2>8, <2>13
      <3>5. ASSUME NEW m \in H!Nodes
            PROVE  /\ h_flow'.node[m] =
                        [st |-> h_flow'.node[m].st, who |-> h_flow'.node[m].who,
                         op |-> h_flow'.node[m].op, rev |-> h_flow'.node[m].rev,
                         input |-> h_flow'.node[m].input, repair |-> h_flow'.node[m].repair]
                   /\ h_flow'.node[m].op \in Nat /\ h_flow'.node[m].rev \in Nat
                   /\ h_flow'.node[m].repair.times \in Nat
        <4>1. CASE m = e
          BY <2>14, <2>18, <2>23, <2>24, <4>1
        <4>2. CASE m < e
          BY <2>14, <4>2, HandConstants DEF HandInv, HandTypes, FlowTypes
        <4>3. CASE m # e /\ ~(m < e)
          BY <2>6, <2>14, <4>3
        <4> QED
          BY <4>1, <4>2, <4>3
      <3>6. FlowTypes'
        BY <3>2, <3>3, <3>4, <3>5 DEF FlowTypes, H!Nodes, H!Report
      <3> QED
        BY <1>1, <2>19, <3>1, <3>6 DEF HandInv, HandTypes, H!Nodes, H!Report
    <2>26. Heard'
      BY <1>1, <2>16, <2>17 DEF Heard
    <2>27. Approved'
      BY <1>1, <2>13 DEF HandInv, Approved
    <2>28. Event'
      <3>1. Selected'
        BY <1>1, <2>1, <2>13, <2>16, <2>20 DEF Selected, H!Nodes, H!Report
      <3>2. Order(e)' = order
        BY <2>14 DEF Order
      <3>3. ~h_ev.rule => h_ev.rev <= h_base'[e]
        BY <2>19, <2>20 DEF Selected
      <3>4. Chosen'
        <4>1. h_flow'.node[h_ev'.node] = order
          BY <2>16, <3>2 DEF Order
        <4> QED
          BY <2>16, <2>21, <2>23, <3>3, <4>1 DEF Chosen, Order
      <3> QED
        BY <1>1, <2>16, <2>17, <3>1, <3>4 DEF Event
    <2>29. ASSUME NEW m \in H!Nodes
           PROVE  Ordered(m)' /\ Mended(m)'
      <3>1. Ordered(m) /\ Mended(m)
        BY DEF HandInv
      <3>2. CASE m = e
        <4>1. Order(m)' = order
          BY <2>14, <3>2 DEF Order
        <4>2. Ordered(m)'
          BY <1>1, <2>13, <2>16, <2>18, <2>20, <2>23, <3>2, <4>1 DEF Ordered, Selected
        <4>3. Mended(m)'
          <5>1. CASE h_ev.rule
            <6>1. repair = Order(m).repair /\ h_base'[m] = h_base[m]
              BY <2>2, <2>19, <3>2, <5>1
            <6> QED
              BY <1>1, <2>23, <3>1, <4>1, <6>1 DEF Mended
          <5>2. CASE ~h_ev.rule
            BY <1>1, <2>18, <2>19, <2>22, <2>23, <3>2, <4>1, <5>2 DEF Mended
          <5> QED
            BY <5>1, <5>2
        <4> QED
          BY <4>2, <4>3
      <3>3. CASE m < e
        <4>1. Order(m)' = Order(m) /\ h_base'[m] = h_base[m] /\ m # e
          BY <2>14, <2>19, <3>3, HandConstants DEF Order
        <4>2. Order(m).op # h_ev.op
          BY <1>1, <3>1 DEF Ordered
        <4>3. Ordered(m)'
          BY <1>1, <2>13, <2>16, <2>18, <3>1, <4>1, <4>2 DEF Ordered
        <4>4. Mended(m)'
          BY <1>1, <3>1, <4>1 DEF Mended
        <4> QED
          BY <4>3, <4>4
      <3>4. CASE m # e /\ ~(m < e)
        <4>1. Order(m)' = blank /\ h_base'[m] = h_base[m]
          BY <2>14, <2>19, <3>4 DEF Order
        <4>2. Ordered(m)'
          BY <1>1, <2>6, <2>13, <2>16, <2>18, <4>1 DEF Ordered, HandInv, Approved
        <4>3. Mended(m)'
          BY <1>1, <2>6, <3>1, <4>1 DEF Mended
        <4> QED
          BY <4>2, <4>3
      <3> QED
        BY <3>2, <3>3, <3>4
    <2> QED
      BY <2>25, <2>26, <2>27, <2>28, <2>29 DEF HandInv, H!Nodes, H!Report
  <1> QED
    BY <1>2, <1>3

(* What is dispatched is the node of the event, and it was listened to.    *)
LEMMA HandDispatched ==
  ASSUME HandInv, NEW n \in H!Dispatched
  PROVE  /\ n \in H!Nodes /\ n = h_ev.node /\ h_ev.sent /\ h_ev.op # 0
         /\ Order(n).st = "dispatched" /\ Order(n).op = h_ev.op
         /\ Order(n).input = h_flow.user /\ h_ev.user = h_flow.user
  <1>1. n \in H!Nodes /\ Order(n).st = "dispatched"
    BY DEF H!Dispatched, H!Node, Order
  <1>2. /\ h_ev.sent /\ h_ev.node = n /\ Order(n).op = h_ev.op
        /\ Order(n).input = h_flow.user
    BY <1>1 DEF HandInv, Ordered
  <1> QED
    BY <1>1, <1>2 DEF HandInv, Event, Selected

(* A settlement that ends the event: the node is completed or blocked.     *)
LEMMA HandSettled ==
  ASSUME HandInv, UNCHANGED <<h_files, h_dir, h_base, h_agreed, h_ops>>,
         NEW n \in H!Dispatched, h_pc' = "idle", h_work' = H!NoWork, h_ev' = H!NoEvent,
         NEW order, Order(n)' = order, order.st # "pending", order.st # "dispatched",
         order.op = Order(n).op, order.input = Order(n).input,
         \A m \in H!Nodes : m # n => Order(m)' = Order(m) /\ h_past'[m] = h_past[m],
         h_flow'.user = h_flow.user, h_flow.approvals \subseteq h_flow'.approvals,
         \A a \in h_flow'.approvals \ h_flow.approvals :
           a.op = h_ev.op /\ <<a.who, a.docs, h_ev.user>> \in h_agreed,
         h_flow'.report.some => \/ h_flow'.report = h_flow.report
                                \/ H!AllApproved(h_flow, h_flow'.report.rev, h_flow'.report.docs),
         HandTypes', Mended(n)'
  PROVE  HandInv'
  <1>1. /\ n \in H!Nodes /\ n = h_ev.node /\ h_ev.sent /\ h_ev.op # 0
        /\ Order(n).st = "dispatched" /\ Order(n).op = h_ev.op
        /\ Order(n).input = h_flow.user /\ h_ev.user = h_flow.user
    BY HandDispatched
  <1>2. h_ev'.op = 0 /\ ~h_ev'.sent /\ ~h_ev'.rule /\ h_ev'.st = "none" /\ h_work'.st = "idle"
    BY DEF H!NoEvent, H!NoWork
  <1>3. Event' /\ Heard'
    BY <1>2 DEF Event, Heard
  <1>4. h_ev.op \in Nat /\ h_ops \in Nat /\ h_ev.op <= h_ops /\ Selected
    BY <1>1 DEF HandInv, HandTypes, EventTypes, Event, Selected
  <1>5. \A m \in H!Nodes : Order(m)'.op = Order(m).op
    BY <1>1
  <1>6. Approved'
    <2>1. \A a \in h_flow'.approvals : a.op \in Nat \ {0} /\ a.op <= h_ops
      BY <1>1, <1>4 DEF HandInv, Approved
    <2>2. ASSUME NEW rev, NEW docs, H!AllApproved(h_flow, rev, docs)
          PROVE  H!AllApproved(h_flow', rev, docs)
      <3>1. \A i \in 1..Len(Confirmers) : h_flow'.node[i].op = h_flow.node[i].op
        BY <1>5, HandConstants DEF Order
      <3> QED
        BY <2>2, <3>1 DEF H!AllApproved, H!Approval
    <2>3. h_flow'.report.some => H!AllApproved(h_flow', h_flow'.report.rev, h_flow'.report.docs)
      BY <2>2 DEF HandInv, Approved
    <2> QED
      BY <2>1, <2>3 DEF Approved
  <1>7. ASSUME NEW m \in H!Nodes
        PROVE  Ordered(m)' /\ Mended(m)'
    <2>1. Ordered(m) /\ Mended(m) /\ Order(m).op \in Nat
      BY DEF HandInv, HandTypes, FlowTypes, Order
    <2>2. CASE m = n
      <3>1. ASSUME NEW a \in h_flow'.approvals, a.op = order.op
            PROVE  <<a.who, a.docs, order.input>> \in h_agreed
        <4>1. a \notin h_flow.approvals
          BY <1>1, <1>4, <3>1 DEF Selected, HandInv, Approved
        <4> QED
          BY <1>1, <3>1, <4>1
      <3>2. Ordered(m)'
        BY <1>1, <1>2, <2>1, <2>2, <3>1 DEF Ordered
      <3> QED
        BY <2>2, <3>2
    <2>3. CASE m # n
      <3>1. Order(m)' = Order(m) /\ h_past'[m] = h_past[m]
        BY <2>3
      <3>2. Order(m).op # h_ev.op
        BY <1>1, <2>1, <2>3 DEF Ordered
      <3>3. Order(m).st # "dispatched"
        BY <1>1, <2>1, <2>3 DEF Ordered
      <3>4. Ordered(m)'
        BY <1>2, <2>1, <3>1, <3>2, <3>3 DEF Ordered
      <3>5. Mended(m)'
        BY <2>1, <3>1 DEF Mended
      <3> QED
        BY <3>4, <3>5
    <2> QED
      BY <2>2, <2>3
  <1> QED
    BY <1>3, <1>6, <1>7 DEF HandInv, H!Nodes, H!Report

(* The receipt is sound and the document what it says: the node is taken.  *)
SoundWork(n) == IF h_dir.said = "doubt" THEN TRUE
            ELSE IF n = H!Report THEN H!AllApproved(h_flow, h_look, H!Documents)
            ELSE H!Claims(H!Documents)
TakenOrder(n) == [Order(n) EXCEPT !.st = IF h_dir.said = "doubt" THEN "blocked" ELSE "completed",
                                  !.rev = h_look, !.repair = H!NoRepair]
Confirmed(n) == [who |-> Confirmers[n], op |-> h_ev.op, rev |-> h_look, docs |-> H!Documents]
TakenFlow(n) ==
  [h_flow EXCEPT !.node[n] = TakenOrder(n),
                 !.approvals = IF n = H!Report \/ h_dir.said = "doubt" THEN @
                               ELSE @ \cup {Confirmed(n)},
                 !.artifact = [rev |-> h_look, docs |-> H!Documents, some |-> TRUE],
                 !.report = IF n = H!Report /\ h_dir.said = "fine"
                            THEN [some |-> TRUE, rev |-> h_look, docs |-> H!Documents] ELSE @]
Takes(n) ==
  IF ~SoundWork(n)
  THEN h_fault' = "consensus" /\ h_pc' = "reject" /\ UNCHANGED <<h_flow, h_ev, h_work>>
  ELSE /\ h_flow' = TakenFlow(n)
       /\ h_pc' = "idle" /\ h_fault' = "none" /\ h_ev' = H!NoEvent /\ h_work' = H!NoWork

LEMMA HandTakesOne ==
  ASSUME HandInv, H!Take
  PROVE  /\ h_pc = "take" /\ \E n \in H!Dispatched : Takes(n)
         /\ UNCHANGED <<h_files, h_dir, h_look, h_base, h_past, h_agreed, h_ops>>
  <1>1. h_pc = "take" /\ UNCHANGED <<h_files, h_dir, h_look, h_base, h_past, h_agreed, h_ops>>
    BY DEF H!Take, H!outside, H!history
  <1>2. \E n \in H!Dispatched : Takes(n)
    BY DEF H!Take, Takes, SoundWork, TakenFlow, TakenOrder, Confirmed, H!Node, Order
  <1> QED
    BY <1>1, <1>2

LEMMA HandTaken ==
  ASSUME HandTypes, NEW n \in H!Nodes, h_flow' = TakenFlow(n)
  PROVE  \E order :
           /\ order = [st |-> IF h_dir.said = "doubt" THEN "blocked" ELSE "completed",
                       who |-> Order(n).who, op |-> Order(n).op, rev |-> h_look,
                       input |-> Order(n).input, repair |-> H!NoRepair]
           /\ h_flow' =
                [user |-> h_flow.user, version |-> h_flow.version,
                 node |-> [h_flow.node EXCEPT ![n] = order],
                 approvals |-> IF n = H!Report \/ h_dir.said = "doubt" THEN h_flow.approvals
                               ELSE h_flow.approvals \cup {Confirmed(n)},
                 artifact |-> [rev |-> h_look, docs |-> H!Documents, some |-> TRUE],
                 report |-> IF n = H!Report /\ h_dir.said = "fine"
                            THEN [some |-> TRUE, rev |-> h_look, docs |-> H!Documents]
                            ELSE h_flow.report]
  <1>1. PICK st : st = IF h_dir.said = "doubt" THEN "blocked" ELSE "completed"
    OBVIOUS
  <1>2. PICK b, c, f : b = Order(n).who /\ c = Order(n).op /\ f = Order(n).input
    OBVIOUS
  <1>3. PICK order : order = [st |-> st, who |-> b, op |-> c, rev |-> h_look, input |-> f,
                              repair |-> H!NoRepair]
    OBVIOUS
  <1>4. TakenOrder(n) = order
    <2>1. PICK a, d, g : Order(n) = [st |-> a, who |-> b, op |-> c, rev |-> d, input |-> f,
                                     repair |-> g]
      BY <1>2 DEF HandTypes, FlowTypes, Order
    <2>2. PICK q : q = [[st |-> a, who |-> b, op |-> c, rev |-> d, input |-> f, repair |-> g]
                        EXCEPT !.st = st, !.rev = h_look, !.repair = H!NoRepair]
      OBVIOUS
    <2>3. q = [st |-> st, who |-> b, op |-> c, rev |-> h_look, input |-> f,
               repair |-> H!NoRepair]
      BY <2>2
    <2> QED
      BY <1>1, <1>3, <2>1, <2>2, <2>3 DEF TakenOrder
  <1>5. PICK u, v, o, p, t, r :
          /\ h_flow = [user |-> u, version |-> v, node |-> o, approvals |-> p, artifact |-> t,
                       report |-> r]
          /\ u = h_flow.user /\ v = h_flow.version /\ o = h_flow.node /\ p = h_flow.approvals
          /\ r = h_flow.report
    BY DEF HandTypes, FlowTypes
  <1>6. PICK ap : ap = IF n = H!Report \/ h_dir.said = "doubt" THEN p ELSE p \cup {Confirmed(n)}
    OBVIOUS
  <1>7. PICK re : re = IF n = H!Report /\ h_dir.said = "fine"
                       THEN [some |-> TRUE, rev |-> h_look, docs |-> H!Documents] ELSE r
    OBVIOUS
  <1>8. PICK ar : ar = [rev |-> h_look, docs |-> H!Documents, some |-> TRUE]
    OBVIOUS
  <1>9. TakenFlow(n) = [h_flow EXCEPT !.node = [o EXCEPT ![n] = order], !.approvals = ap,
                                      !.artifact = ar, !.report = re]
    BY <1>4, <1>5, <1>6, <1>7, <1>8 DEF TakenFlow
  <1>10. PICK q : q = [[user |-> u, version |-> v, node |-> o, approvals |-> p, artifact |-> t,
                        report |-> r]
                       EXCEPT !.node = [o EXCEPT ![n] = order], !.approvals = ap,
                              !.artifact = ar, !.report = re]
    OBVIOUS
  <1>11. q = [user |-> u, version |-> v, node |-> [o EXCEPT ![n] = order], approvals |-> ap,
              artifact |-> ar, report |-> re]
    BY <1>10
  <1>12. h_flow' = q
    BY <1>5, <1>9, <1>10
  <1> QED
    BY <1>1, <1>2, <1>3, <1>5, <1>6, <1>7, <1>8, <1>11, <1>12

LEMMA HandTakes ==
  ASSUME HandInv, H!Take
  PROVE  HandInv'
  <1>1. /\ h_pc = "take"
        /\ UNCHANGED <<h_files, h_dir, h_look, h_base, h_past, h_agreed, h_ops>>
    BY HandTakesOne
  <1>2. PICK n \in H!Dispatched : Takes(n)
    BY HandTakesOne
  <1>3. /\ n \in H!Nodes /\ n = h_ev.node /\ Order(n).input = h_flow.user
        /\ h_ev.op # 0
    BY HandDispatched
  <1>4. /\ h_work.st = "said" /\ h_look = h_base[n] /\ h_dir.said \in {"fine", "doubt"}
        /\ h_dir.said = "fine" => <<h_ev.who, h_dir.claim, h_ev.user>> \in h_agreed
    BY <1>1, <1>3 DEF HandInv, Heard
  <1>5. /\ h_files \in Nat /\ h_files' >= h_files /\ h_base \in [H!Nodes -> Nat]
        /\ h_base[n] \in Nat
    BY <1>1, <1>3 DEF HandInv, HandTypes
  <1>6. CASE ~SoundWork(n)
    <2>1. h_fault' = "consensus" /\ h_pc' = "reject" /\ UNCHANGED <<h_flow, h_ev, h_work>>
      BY <1>2, <1>6 DEF Takes
    <2>2. Heard'
      BY <1>1, <1>4, <2>1 DEF HandInv, Heard
    <2> QED
      BY <1>1, <1>5, <2>1, <2>2, HandWaits
  <1>7. CASE SoundWork(n)
    <2>1. /\ h_flow' = TakenFlow(n)
          /\ h_pc' = "idle" /\ h_ev' = H!NoEvent /\ h_work' = H!NoWork
      BY <1>2, <1>7 DEF Takes
    <2>2. PICK order :
            /\ order = [st |-> IF h_dir.said = "doubt" THEN "blocked" ELSE "completed",
                        who |-> Order(n).who, op |-> Order(n).op, rev |-> h_look,
                        input |-> Order(n).input, repair |-> H!NoRepair]
            /\ h_flow' =
                 [user |-> h_flow.user, version |-> h_flow.version,
                  node |-> [h_flow.node EXCEPT ![n] = order],
                  approvals |-> IF n = H!Report \/ h_dir.said = "doubt" THEN h_flow.approvals
                                ELSE h_flow.approvals \cup {Confirmed(n)},
                  artifact |-> [rev |-> h_look, docs |-> H!Documents, some |-> TRUE],
                  report |-> IF n = H!Report /\ h_dir.said = "fine"
                             THEN [some |-> TRUE, rev |-> h_look, docs |-> H!Documents]
                             ELSE h_flow.report]
      BY <1>3, <2>1, HandTaken DEF HandInv
    <2>3. PICK ap, re :
            /\ ap = IF n = H!Report \/ h_dir.said = "doubt" THEN h_flow.approvals
                    ELSE h_flow.approvals \cup {Confirmed(n)}
            /\ re = IF n = H!Report /\ h_dir.said = "fine"
                    THEN [some |-> TRUE, rev |-> h_look, docs |-> H!Documents]
                    ELSE h_flow.report
      OBVIOUS
    <2>4. /\ h_flow'.user = h_flow.user /\ h_flow'.node = [h_flow.node EXCEPT ![n] = order]
          /\ h_flow'.approvals = ap /\ h_flow'.report = re
          /\ h_flow' = [user |-> h_flow'.user, version |-> h_flow'.version,
                        node |-> h_flow'.node, approvals |-> h_flow'.approvals,
                        artifact |-> h_flow'.artifact, report |-> h_flow'.report]
      BY <2>2, <2>3
    <2>5. /\ order.st \in {"blocked", "completed"} /\ order.op = Order(n).op
          /\ order.input = Order(n).input /\ order.rev = h_look /\ order.repair = H!NoRepair
          /\ order = [st |-> order.st, who |-> order.who, op |-> order.op, rev |-> order.rev,
                      input |-> order.input, repair |-> order.repair]
      BY <2>2
    <2>6. ~order.repair.ok /\ order.repair.times = 0
      BY <2>5 DEF H!NoRepair
    <2>7. /\ \A m \in H!Nodes : h_flow'.node[m] = IF m = n THEN order ELSE h_flow.node[m]
          /\ h_flow'.node = [m \in H!Nodes |-> h_flow'.node[m]]
      BY <1>3, <2>4 DEF HandInv, HandTypes, FlowTypes
    <2>8. HandTypes'
      <3>1. EventTypes'
        BY <2>1 DEF EventTypes, H!NoEvent
      <3>2. re = [some |-> re.some, rev |-> re.rev, docs |-> re.docs]
        BY <2>3 DEF HandInv, HandTypes, FlowTypes
      <3>3. ASSUME NEW m \in H!Nodes
            PROVE  /\ h_flow'.node[m] =
                        [st |-> h_flow'.node[m].st, who |-> h_flow'.node[m].who,
                         op |-> h_flow'.node[m].op, rev |-> h_flow'.node[m].rev,
                         input |-> h_flow'.node[m].input, repair |-> h_flow'.node[m].repair]
                   /\ h_flow'.node[m].op \in Nat /\ h_flow'.node[m].rev \in Nat
                   /\ h_flow'.node[m].repair.times \in Nat
        <4>1. CASE m = n
          <5>1. Order(n).op \in Nat
            BY <1>3 DEF HandInv, HandTypes, FlowTypes, Order
          <5> QED
            BY <1>4, <1>5, <2>5, <2>6, <2>7, <4>1, <5>1
        <4>2. CASE m # n
          BY <2>7, <4>2 DEF HandInv, HandTypes, FlowTypes
        <4> QED
          BY <4>1, <4>2
      <3>4. FlowTypes'
        BY <2>4, <2>7, <3>2, <3>3 DEF FlowTypes, H!Nodes, H!Report
      <3> QED
        BY <1>1, <3>1, <3>4 DEF HandInv, HandTypes, H!Nodes, H!Report
    <2>9. /\ Order(n)' = order
          /\ \A m \in H!Nodes : m # n => Order(m)' = Order(m) /\ h_past'[m] = h_past[m]
      BY <1>1, <1>3, <2>7 DEF Order
    <2>10. Mended(n)'
      BY <1>1, <1>3, <2>6, <2>9 DEF HandInv, Mended
    <2>11. ASSUME NEW a \in h_flow'.approvals \ h_flow.approvals
           PROVE  a.op = h_ev.op /\ <<a.who, a.docs, h_ev.user>> \in h_agreed
      <3>1. n # H!Report /\ h_dir.said = "fine" /\ a = Confirmed(n)
        BY <1>4, <2>3, <2>4
      <3>2. h_dir.claim = H!Documents
        BY <1>7, <3>1 DEF SoundWork, H!Claims
      <3>3. h_ev.who = Confirmers[n]
        BY <1>3, <3>1 DEF HandInv, Event, Selected
      <3> QED
        BY <1>4, <3>1, <3>2, <3>3 DEF Confirmed
    <2>12. h_flow'.report.some =>
             \/ h_flow'.report = h_flow.report
             \/ H!AllApproved(h_flow, h_flow'.report.rev, h_flow'.report.docs)
      <3>1. CASE n = H!Report /\ h_dir.said = "fine"
        <4>1. h_flow'.report.rev = h_look /\ h_flow'.report.docs = H!Documents
          BY <2>3, <2>4, <3>1
        <4> QED
          BY <1>7, <3>1, <4>1 DEF SoundWork
      <3> QED
        BY <2>3, <2>4, <3>1
    <2>13. h_flow.approvals \subseteq h_flow'.approvals /\ h_flow'.user = h_flow.user
      BY <2>3, <2>4
    <2> QED
      BY <1>1, <2>1, <2>5, <2>8, <2>9, <2>10, <2>11, <2>12, <2>13, HandSettled
  <1> QED
    BY <1>6, <1>7

(* The receipt is rejected: a repair is kept with what it is about.        *)
PastRev(n) == IF h_fault = "changed" THEN Order(n).rev ELSE h_look
Defect == H!Diagnosis(h_fault, h_ev.op)
Same(n) ==
  /\ h_ev.rule /\ Order(n).repair.who = h_ev.who /\ Order(n).repair.print = Defect
  /\ Order(n).repair.input = Order(n).input /\ Order(n).repair.rev = PastRev(n)
  /\ Order(n).repair.version = h_flow.version
Repairable == h_fault \in {"path", "fields"} /\ h_look = h_files
About(n) == <<h_fault, Order(n).input, PastRev(n), h_flow.version, h_ev.who>>
NewRepair(n) ==
  [print |-> Defect, times |-> IF Same(n) THEN Order(n).repair.times + 1 ELSE 1,
   ok |-> Repairable, who |-> h_ev.who, rev |-> PastRev(n), input |-> Order(n).input,
   version |-> h_flow.version,
   notes |-> IF Repairable THEN [who |-> h_ev.who, op |-> h_ev.op] ELSE H!NoNotes]
Rejects(n) ==
  /\ h_flow' = [h_flow EXCEPT !.node[n] = [@ EXCEPT !.st = "blocked", !.repair = NewRepair(n)]]
  /\ h_past' = [h_past EXCEPT ![n] = [about |-> About(n),
                                      vain |-> h_ev.rule /\ @.about = About(n)]]

LEMMA HandRejectsOne ==
  ASSUME HandInv, H!Reject
  PROVE  /\ h_pc = "reject" /\ \E n \in H!Dispatched : Rejects(n)
         /\ h_pc' = "idle" /\ h_ev' = H!NoEvent /\ h_work' = H!NoWork
         /\ UNCHANGED <<h_files, h_dir, h_look, h_base, h_agreed, h_ops>>
  <1>1. /\ h_pc = "reject" /\ h_pc' = "idle" /\ h_ev' = H!NoEvent /\ h_work' = H!NoWork
        /\ UNCHANGED <<h_files, h_dir, h_look, h_base, h_agreed, h_ops>>
    BY DEF H!Reject, H!outside
  <1>2. \E n \in H!Dispatched : Rejects(n)
    BY DEF H!Reject, Rejects, NewRepair, About, Repairable, Same, Defect, PastRev, H!Node, Order
  <1> QED
    BY <1>1, <1>2

LEMMA HandRejected ==
  ASSUME HandTypes, NEW n \in H!Nodes, Rejects(n)
  PROVE  \E order :
           /\ order = [st |-> "blocked", who |-> Order(n).who, op |-> Order(n).op,
                       rev |-> Order(n).rev, input |-> Order(n).input,
                       repair |-> NewRepair(n)]
           /\ h_flow' =
                [user |-> h_flow.user, version |-> h_flow.version,
                 node |-> [h_flow.node EXCEPT ![n] = order], approvals |-> h_flow.approvals,
                 artifact |-> h_flow.artifact, report |-> h_flow.report]
  <1>1. PICK b, c, d, f, repair :
          /\ b = Order(n).who /\ c = Order(n).op /\ d = Order(n).rev /\ f = Order(n).input
          /\ repair = NewRepair(n)
    OBVIOUS
  <1>2. PICK order : order = [st |-> "blocked", who |-> b, op |-> c, rev |-> d, input |-> f,
                              repair |-> repair]
    OBVIOUS
  <1>3. [Order(n) EXCEPT !.st = "blocked", !.repair = repair] = order
    <2>1. PICK a, g : Order(n) = [st |-> a, who |-> b, op |-> c, rev |-> d, input |-> f,
                                  repair |-> g]
      BY <1>1 DEF HandTypes, FlowTypes, Order
    <2>2. PICK q : q = [[st |-> a, who |-> b, op |-> c, rev |-> d, input |-> f, repair |-> g]
                        EXCEPT !.st = "blocked", !.repair = repair]
      OBVIOUS
    <2>3. q = [st |-> "blocked", who |-> b, op |-> c, rev |-> d, input |-> f,
               repair |-> repair]
      BY <2>2
    <2> QED
      BY <1>2, <2>1, <2>2, <2>3
  <1>4. PICK u, v, o, p, t, r :
          /\ h_flow = [user |-> u, version |-> v, node |-> o, approvals |-> p, artifact |-> t,
                       report |-> r]
          /\ u = h_flow.user /\ v = h_flow.version /\ o = h_flow.node /\ p = h_flow.approvals
          /\ t = h_flow.artifact /\ r = h_flow.report
    BY DEF HandTypes, FlowTypes
  <1>5. h_flow' = [h_flow EXCEPT !.node = [o EXCEPT ![n] = order]]
    BY <1>1, <1>3, <1>4 DEF Rejects, Order
  <1>6. h_flow' = [user |-> u, version |-> v, node |-> [o EXCEPT ![n] = order],
                   approvals |-> p, artifact |-> t, report |-> r]
    BY <1>4, <1>5
  <1> QED
    BY <1>1, <1>2, <1>4, <1>6

LEMMA HandRejects ==
  ASSUME HandInv, H!Reject
  PROVE  HandInv'
  <1>1. /\ h_pc = "reject"
        /\ h_pc' = "idle" /\ h_ev' = H!NoEvent /\ h_work' = H!NoWork
        /\ UNCHANGED <<h_files, h_dir, h_look, h_base, h_agreed, h_ops>>
    BY HandRejectsOne
  <1>2. PICK n \in H!Dispatched : Rejects(n)
    BY HandRejectsOne
  <1>3. /\ n \in H!Nodes /\ n = h_ev.node /\ h_ev.sent /\ h_ev.op # 0
    BY HandDispatched
  <1>4. PICK order :
          /\ order = [st |-> "blocked", who |-> Order(n).who, op |-> Order(n).op,
                      rev |-> Order(n).rev, input |-> Order(n).input,
                      repair |-> NewRepair(n)]
          /\ h_flow' =
               [user |-> h_flow.user, version |-> h_flow.version,
                node |-> [h_flow.node EXCEPT ![n] = order], approvals |-> h_flow.approvals,
                artifact |-> h_flow.artifact, report |-> h_flow.report]
    BY <1>2, <1>3, HandRejected DEF HandInv
  <1>5. /\ h_flow'.user = h_flow.user /\ h_flow'.node = [h_flow.node EXCEPT ![n] = order]
        /\ h_flow'.approvals = h_flow.approvals /\ h_flow'.report = h_flow.report
        /\ h_flow' = [user |-> h_flow'.user, version |-> h_flow'.version,
                      node |-> h_flow'.node, approvals |-> h_flow'.approvals,
                      artifact |-> h_flow'.artifact, report |-> h_flow'.report]
    BY <1>4
  <1>6. /\ order.st = "blocked" /\ order.op = Order(n).op
        /\ order.input = Order(n).input /\ order.rev = Order(n).rev
        /\ order.repair = NewRepair(n)
        /\ order = [st |-> order.st, who |-> order.who, op |-> order.op, rev |-> order.rev,
                    input |-> order.input, repair |-> order.repair]
    BY <1>4
  <1>7. /\ Order(n).repair.times \in Nat /\ Order(n).op \in Nat /\ Order(n).rev \in Nat
        /\ h_base[n] \in Nat /\ h_files \in Nat /\ h_ev.rule \in BOOLEAN
    BY <1>3 DEF HandInv, HandTypes, FlowTypes, EventTypes, Order
  <1>8. /\ order.repair.print = Defect /\ order.repair.ok = Repairable
        /\ order.repair.times = IF Same(n) THEN Order(n).repair.times + 1 ELSE 1
        /\ order.repair.who = h_ev.who /\ order.repair.rev = PastRev(n)
        /\ order.repair.input = Order(n).input /\ order.repair.version = h_flow.version
    BY <1>6 DEF NewRepair
  <1>9. order.repair.times \in Nat /\ order.repair.times # 0
    BY <1>7, <1>8
  <1>10. /\ \A m \in H!Nodes : h_flow'.node[m] = IF m = n THEN order ELSE h_flow.node[m]
         /\ h_flow'.node = [m \in H!Nodes |-> h_flow'.node[m]]
    BY <1>3, <1>5 DEF HandInv, HandTypes, FlowTypes
  <1>11. PICK vain : vain <=> h_ev.rule /\ h_past[n].about = About(n)
    OBVIOUS
  <1>12. /\ h_past'[n].about = About(n)
         /\ h_past'[n].vain <=> vain
         /\ \A m \in H!Nodes : m # n => h_past'[m] = h_past[m]
         /\ h_past' = [m \in H!Nodes |-> h_past'[m]]
    BY <1>2, <1>3, <1>11 DEF Rejects, HandInv, HandTypes
  <1>13. HandTypes'
    <2>1. EventTypes'
      BY <1>1 DEF EventTypes, H!NoEvent
    <2>2. h_flow'.report = [some |-> h_flow'.report.some, rev |-> h_flow'.report.rev,
                            docs |-> h_flow'.report.docs]
      BY <1>5 DEF HandInv, HandTypes, FlowTypes
    <2>3. ASSUME NEW m \in H!Nodes
          PROVE  /\ h_flow'.node[m] =
                      [st |-> h_flow'.node[m].st, who |-> h_flow'.node[m].who,
                       op |-> h_flow'.node[m].op, rev |-> h_flow'.node[m].rev,
                       input |-> h_flow'.node[m].input, repair |-> h_flow'.node[m].repair]
                 /\ h_flow'.node[m].op \in Nat /\ h_flow'.node[m].rev \in Nat
                 /\ h_flow'.node[m].repair.times \in Nat
      <3>1. CASE m = n
        BY <1>6, <1>7, <1>9, <1>10, <3>1
      <3>2. CASE m # n
        BY <1>10, <3>2 DEF HandInv, HandTypes, FlowTypes
      <3> QED
        BY <3>1, <3>2
    <2>4. FlowTypes'
      BY <1>5, <1>10, <2>2, <2>3 DEF FlowTypes, H!Nodes, H!Report
    <2> QED
      BY <1>1, <1>12, <2>1, <2>4 DEF HandInv, HandTypes, H!Nodes, H!Report
  <1>14. /\ Order(n)' = order
         /\ \A m \in H!Nodes : m # n => Order(m)' = Order(m) /\ h_past'[m] = h_past[m]
    BY <1>3, <1>10, <1>12 DEF Order
  <1>15. Mended(n)'
    <2>1. h_fault \in {"path", "fields"} => h_look = h_base[n]
      BY <1>1, <1>3 DEF HandInv, Heard
    <2>2. order.repair.ok => order.repair.rev = h_base[n]
      BY <1>8, <2>1 DEF Repairable, PastRev
    <2>3. order.repair.print = <<h_fault, 0>>
      BY <1>8 DEF Defect, H!Diagnosis
    <2>4. h_past'[n].about = <<order.repair.print[1], order.repair.input, order.repair.rev,
                               order.repair.version, order.repair.who>>
      BY <1>8, <1>12, <2>3 DEF About
    <2>5. ASSUME vain
          PROVE  order.repair.times >= 2
      <3>1. /\ Order(n).repair.times # 0 /\ Order(n).repair.who = h_ev.who
            /\ Mended(n)
        BY <1>3, <1>11, <2>5 DEF HandInv, Event, Chosen, Mended
      <3>2. /\ Order(n).repair.print = <<Order(n).repair.print[1], 0>>
            /\ About(n) = <<Order(n).repair.print[1], Order(n).repair.input,
                            Order(n).repair.rev, Order(n).repair.version,
                            Order(n).repair.who>>
        BY <1>11, <2>5, <3>1 DEF Mended
      <3>3. Same(n)
        BY <1>11, <2>5, <3>1, <3>2 DEF About, Same, Defect, H!Diagnosis
      <3> QED
        BY <1>7, <1>8, <3>1, <3>3
    <2>6. h_base[n] <= h_files
      BY <1>3 DEF HandInv, Mended
    <2> QED
      BY <1>1, <1>9, <1>12, <1>14, <2>2, <2>3, <2>4, <2>5, <2>6 DEF Mended
  <1> QED
    BY <1>1, <1>5, <1>6, <1>13, <1>14, <1>15, HandSettled

LEMMA HandInit == H!Init => HandInv
  <1> SUFFICES ASSUME H!Init
               PROVE  HandInv
    OBVIOUS
  <1>1. PICK blank : blank = H!Blank
    OBVIOUS
  <1>2. /\ blank.st = "pending" /\ blank.op = 0 /\ blank.rev = 0
        /\ ~blank.repair.ok /\ blank.repair.times = 0
        /\ blank = [st |-> blank.st, who |-> blank.who, op |-> blank.op, rev |-> blank.rev,
                    input |-> blank.input, repair |-> blank.repair]
    BY <1>1 DEF H!Blank, H!NoRepair
  <1>3. /\ h_files = 0 /\ h_ops = 0 /\ h_ev = H!NoEvent /\ h_work.st = "idle" /\ h_pc = "idle"
        /\ h_base = [n \in H!Nodes |-> 0] /\ h_past = [n \in H!Nodes |-> H!NoPast]
        /\ h_flow.node = [n \in H!Nodes |-> blank] /\ h_flow.approvals = {}
        /\ ~h_flow.report.some
        /\ h_flow = [user |-> h_flow.user, version |-> h_flow.version, node |-> h_flow.node,
                     approvals |-> h_flow.approvals, artifact |-> h_flow.artifact,
                     report |-> h_flow.report]
        /\ h_flow.report = [some |-> h_flow.report.some, rev |-> h_flow.report.rev,
                            docs |-> h_flow.report.docs]
    BY <1>1 DEF H!Init, H!NoWork
  <1>4. h_ev.op = 0 /\ ~h_ev.sent /\ ~h_ev.rule /\ h_ev.st = "none"
    BY <1>3 DEF H!NoEvent
  <1>5. HandTypes
    <2>1. EventTypes
      BY <1>3 DEF EventTypes, H!NoEvent
    <2>2. FlowTypes
      BY <1>2, <1>3 DEF FlowTypes
    <2> QED
      BY <1>3, <2>1, <2>2 DEF HandTypes
  <1>6. Event /\ Heard /\ Approved
    BY <1>3, <1>4 DEF Event, Heard, Approved
  <1>7. ASSUME NEW n \in H!Nodes
        PROVE  Ordered(n) /\ Mended(n)
    BY <1>2, <1>3, <1>4 DEF Ordered, Mended, Order
  <1> QED
    BY <1>5, <1>6, <1>7 DEF HandInv

LEMMA HandNext == HandInv /\ [H!Next]_(H!vars) => HandInv'
  <1> SUFFICES ASSUME HandInv, [H!Next]_(H!vars)
               PROVE  HandInv'
    OBVIOUS
  <1>1. CASE UNCHANGED H!vars
    <2>1. /\ UNCHANGED <<h_files, h_flow, h_ev, h_dir, h_work, h_base, h_past, h_agreed, h_ops>>
          /\ UNCHANGED <<h_pc, h_look, h_fault>>
      BY <1>1 DEF H!vars, H!outside, H!settling, H!history
    <2>2. h_files \in Nat /\ h_files' >= h_files /\ Heard'
      BY <2>1 DEF HandInv, HandTypes, Heard
    <2> QED
      BY <2>1, <2>2, HandWaits
  <1>2. CASE H!Next
    BY <1>2, HandOutside, HandParticipant, HandEnds, HandPlans, HandSelects, HandFreezes,
       HandSends, HandSettles, HandTakes, HandRejects, HandCrashes DEF H!Next
  <1> QED
    BY <1>1, <1>2

(* Of the handoffs: the live event is the only order, what is said of a    *)
(* repair is what was rejected, and an approval is of the documents its    *)
(* participant read (handoff.ts, receipt-recovery.ts, consensus.ts).       *)
THEOREM HandoffInvariant == H!Spec => []HandInv
  BY HandInit, HandNext, PTL DEF H!Spec

(* The report that is delivered holds documents each participant read and  *)
(* approved, in those contents and for that request of the user            *)
(* (settlement.ts assertDelivery, consensus.ts).                           *)
THEOREM ReportIsAgreed == H!Spec => DeliveredIsAgreed
  <1> DEFINE Agreed == h_delivered' # h_delivered =>
                         \A p \in H!People : <<p, h_flow.report.docs, h_user>> \in h_agreed
  <1>1. HandInv /\ [H!Next]_(H!vars) => [Agreed]_(H!vars)
    <2> SUFFICES ASSUME HandInv, H!Next, h_delivered' # h_delivered, NEW p \in H!People
                 PROVE  <<p, h_flow.report.docs, h_user>> \in h_agreed
      OBVIOUS
    <2>1. H!Deliver
      BY DEF H!Next, H!Says, H!EditFiles, H!EditDocument, H!Rest, H!Read, H!Answer,
             H!Supersede, H!Reset, H!Select, H!NoProgress, H!Replan, H!Freeze, H!Send,
             H!Settle, H!Take, H!Reject, H!Crash
    <2>2. PICK n \in 1..Len(Confirmers) : p = Confirmers[n]
      BY HandConstants DEF H!People
    <2>3. n \in H!Nodes
      BY <2>2, HandConstants
    <2>4. h_flow.report.some /\ H!Completed(n) /\ h_flow.user = h_user
      BY <2>1, <2>3 DEF H!Deliver, H!Idle, H!Contract
    <2>5. PICK a \in h_flow.approvals :
            a.who = p /\ a.op = Order(n).op /\ a.docs = h_flow.report.docs
      BY <2>2, <2>4 DEF HandInv, Approved, H!AllApproved, H!Approval, Order
    <2>6. Order(n).input = h_user
      BY <2>3, <2>4 DEF HandInv, Ordered, Order, H!Completed, H!Node
    <2> QED
      BY <2>3, <2>5, <2>6 DEF HandInv, Ordered
  <1> QED
    BY <1>1, HandoffInvariant, PTL DEF H!Spec, DeliveredIsAgreed, H!DeliveredIsAgreed

(* Work that is accepted, after any number of repairs of its receipt, is   *)
(* work during which the files stayed as they were when it was ordered     *)
(* (settlement.ts, receipt-recovery.ts).                                   *)
THEOREM AcceptedWorkIsUntouched == H!Spec => AcceptedIsUntouched
  <1> DEFINE Kept == \A n \in H!Nodes :
                       (H!Node(n).st = "dispatched" /\ H!Completed(n)')
                         => h_flow'.node[n].rev = h_base[n]
  <1>1. HandInv /\ [H!Next]_(H!vars) => [Kept]_(H!vars)
    <2> SUFFICES ASSUME HandInv, H!Next, NEW n \in H!Nodes, Order(n).st = "dispatched",
                        h_flow'.node[n].st = "completed"
                 PROVE  h_flow'.node[n].rev = h_base[n]
      BY DEF H!Completed, H!Node, Order
    <2>1. n \in H!Dispatched
      BY DEF H!Dispatched, H!Node, Order
    <2>2. n = h_ev.node /\ h_ev.sent
      BY <2>1, HandDispatched
    <2>3. h_flow' # h_flow
      BY DEF Order
    <2>4. CASE H!Take
      <3>1. PICK m \in H!Dispatched : Takes(m)
        BY <2>4, HandTakesOne
      <3>2. m = n
        BY <2>2, HandDispatched
      <3>3. h_flow' = TakenFlow(n)
        BY <2>3, <3>1, <3>2 DEF Takes
      <3>4. h_flow'.node[n].rev = h_look
        BY <3>3, HandTaken DEF HandInv, HandTypes, FlowTypes
      <3>5. h_look = h_base[n]
        BY <2>2, <2>4 DEF H!Take, HandInv, Heard
      <3> QED
        BY <3>4, <3>5
    <2>5. CASE H!Reject
      <3>1. PICK m \in H!Dispatched : Rejects(m)
        BY <2>5, HandRejectsOne
      <3>2. m = n
        BY <2>2, HandDispatched
      <3>3. h_flow'.node[n].st = "blocked"
        BY <3>1, <3>2, HandRejected DEF HandInv, HandTypes, FlowTypes
      <3> QED
        BY <3>3
    <2>6. CASE H!Reset \/ H!Replan
      <3>1. h_flow'.node = [m \in H!Nodes |-> H!Blank]
        BY <2>6 DEF H!Reset, H!Replan, H!Afresh, HandInv, HandTypes, FlowTypes
      <3> QED
        BY <3>1 DEF H!Blank
    <2>7. ~H!Send
      BY <2>2 DEF H!Send, HandInv, Heard
    <2> QED
      BY <2>3, <2>4, <2>5, <2>6, <2>7
      DEF H!Next, H!Says, H!EditFiles, H!EditDocument, H!Rest, H!Read, H!Answer,
          H!Supersede, H!Select, H!NoProgress, H!Freeze, H!Settle, H!Deliver, H!Crash
  <1> QED
    BY <1>1, HandoffInvariant, PTL DEF H!Spec, AcceptedIsUntouched, H!AcceptedIsUntouched

(* A repair that was answered with the same defect in the same context is  *)
(* not ordered a second time (receipt-recovery.ts).                        *)
THEOREM NoRepairInVain == H!Spec => NoVainRepair
  <1> DEFINE Fruitful == h_ev'.sent /\ ~h_ev.sent /\ h_ev.rule => ~h_past[h_ev.node].vain
  <1>1. HandInv /\ [H!Next]_(H!vars) => [Fruitful]_(H!vars)
    <2> SUFFICES ASSUME HandInv, H!Next, h_ev'.sent, ~h_ev.sent, h_ev.rule
                 PROVE  ~h_past[h_ev.node].vain
      OBVIOUS
    <2>1. h_ev.op # 0 /\ h_ev.node \in H!Nodes
      BY DEF HandInv, Event, Selected
    <2>2. h_ev' # h_ev /\ h_ev' # H!NoEvent
      BY DEF H!NoEvent
    <2>3. H!Send /\ H!Fits
      <3>1. ~H!Freeze
        <4>1. H!Freeze => h_ev'.sent = h_ev.sent \/ h_ev' = H!NoEvent
          BY DEF H!Freeze, H!Failed, HandInv, HandTypes, EventTypes
        <4> QED
          BY <2>2, <4>1
      <3>2. ~H!Select /\ ~H!NoProgress /\ ~H!Deliver
        BY <2>1 DEF H!Select, H!NoProgress, H!Deliver, H!Idle, H!NoEvent
      <3>3. ~H!Supersede /\ ~H!Reset /\ ~H!Take /\ ~H!Reject
        BY <2>2, HandTakesOne DEF H!Supersede, H!Reset, H!Take, H!Reject
      <3>4. H!Send
        BY <2>2, <3>1, <3>2, <3>3
        DEF H!Next, H!Says, H!EditFiles, H!EditDocument, H!Rest, H!Read, H!Answer,
            H!Replan, H!Settle, H!Crash
      <3> QED
        BY <2>2, <3>4 DEF H!Send
    <2>4. /\ Order(h_ev.node).repair.ok /\ Order(h_ev.node).repair.times < 2
          /\ Order(h_ev.node).repair.times \in Nat /\ Mended(h_ev.node)
      BY <2>1, <2>3 DEF H!Fits, H!StillCurrent, H!Node, Order, HandInv, Event, Chosen,
                        HandTypes, FlowTypes
    <2> QED
      BY <2>4 DEF Mended
  <1> QED
    BY <1>1, HandoffInvariant, PTL DEF H!Spec, NoVainRepair, H!NoVainRepair

(***************************************************************************)
(* The conversation an engine saves.                                       *)
(***************************************************************************)

(* While no write of a chat's run has failed, the checkpoint holds what    *)
(* the engine shows: its rows, the older ones folded.                      *)
Shown ==
  t_kind = "chat" /\ t_halted = "no" /\ t_pc \in {"ask", "think", "tools", "settle"}
    => t_saved = T!View(t_live, t_fold)

(* A request is on its way only while the run may go on.                   *)
Thinking == t_pc = "think" => t_halted = "no" /\ t_sent = T!View(t_live, t_fold)

TranscriptInv == Shown /\ Thinking

LEMMA KeptWhole == ASSUME t_kind = "chat", NEW rows
                   PROVE  T!Kept(rows) = rows
  BY DEF T!Kept

LEMMA RowEnds ==
  ASSUME TranscriptInv, NEW row, NEW next, T!Ends(row, next), next # "think",
         UNCHANGED <<t_kind, t_fold>>
  PROVE  TranscriptInv'
  <1>1. CASE t_saved' = T!Kept(T!View(t_live', t_fold)) /\ t_pc' = next
    BY <1>1, KeptWhole DEF TranscriptInv, Shown, Thinking, T!View
  <1>2. CASE t_pc' = "settle" /\ t_halted' = IF t_halted = "no" THEN "checkpoint" ELSE t_halted
    <2>1. t_halted' # "no" /\ t_pc' # "think"
      BY <1>2
    <2> QED
      BY <2>1 DEF TranscriptInv, Shown, Thinking
  <1> QED
    BY <1>1, <1>2 DEF T!Ends

LEMMA RunRests ==
  ASSUME t_pc' \notin {"ask", "think", "tools", "settle"}
  PROVE  TranscriptInv'
  BY DEF TranscriptInv, Shown, Thinking

LEMMA TranscriptStarts ==
  ASSUME TranscriptInv, T!Begin \/ T!Resume
  PROVE  TranscriptInv'
  <1>1. t_saved' = T!Kept(t_live') /\ t_pc' = "ask" /\ t_fold' = T!NoFold /\ t_kind' = t_kind
    BY DEF T!Begin, T!Resume, T!Fresh
  <1>2. T!View(t_live', t_fold') = t_live'
    BY <1>1 DEF T!View, T!NoFold
  <1> QED
    BY <1>1, <1>2, KeptWhole DEF TranscriptInv, Shown, Thinking, T!View

LEMMA TranscriptAsks ==
  ASSUME TranscriptInv, T!Ask \/ T!AskFolded \/ T!CannotAsk
  PROVE  TranscriptInv'
  <1>1. t_kind' = t_kind /\ t_live' = t_live /\ t_pc = "ask" /\ t_halted = "no"
    BY DEF T!Ask, T!AskFolded, T!CannotAsk, T!Unchanged
  <1>2. CASE T!Ask
    <2>1. /\ t_sent' = T!View(t_live, t_fold) /\ UNCHANGED <<t_fold, t_saved, t_halted>>
      BY <1>2 DEF T!Ask, T!Unchanged
    <2> QED
      BY <1>1, <2>1 DEF TranscriptInv, Shown, Thinking, T!View
  <1>3. CASE T!AskFolded
    <2>1. PICK v : v = T!View(t_live, t_fold')
      OBVIOUS
    <2>2. T!View(t_live', t_fold') = v
      BY <1>1, <2>1
    <2>3. /\ t_saved' = T!Kept(v)
          /\ \/ t_sent' = v /\ t_pc' = "think" /\ t_halted' = "no"
             \/ t_halted' = "budget" /\ t_pc' = "ask"
      BY <1>1, <1>3, <2>1 DEF T!AskFolded, T!Persisted
    <2> QED
      BY <1>1, <2>2, <2>3, KeptWhole DEF TranscriptInv, Shown, Thinking
  <1>4. CASE T!CannotAsk
    <2>1. t_halted' # "no" /\ t_pc' = "ask"
      BY <1>1, <1>4 DEF T!CannotAsk, T!Unchanged
    <2> QED
      BY <2>1 DEF TranscriptInv, Shown, Thinking
  <1> QED
    BY <1>2, <1>3, <1>4

LEMMA TranscriptAnswers ==
  ASSUME TranscriptInv, T!Refuse \/ T!Speak \/ T!Call \/ T!Break \/ T!Claims
  PROVE  TranscriptInv'
  <1>1. UNCHANGED <<t_kind, t_fold>>
    BY DEF T!Refuse, T!Speak, T!Call, T!Break, T!Claims, T!Unchanged
  <1>2. \E row : \E next \in {"settle", "tools", "ask"} : T!Ends(row, next)
    BY DEF T!Refuse, T!Speak, T!Call, T!Break, T!Claims
  <1> QED
    BY <1>1, <1>2, RowEnds

LEMMA TranscriptCalls ==
  ASSUME TranscriptInv, T!Start \/ T!Return \/ T!ReturnUnsaved \/ T!ReturnNothing
  PROVE  TranscriptInv'
  <1>1. UNCHANGED <<t_kind, t_fold>>
    BY DEF T!Start, T!Return, T!ReturnUnsaved, T!ReturnNothing
  <1>2. CASE T!Start
    BY <1>2 DEF T!Start, TranscriptInv, Shown, Thinking, T!View
  <1>3. CASE T!Return
    <2>1. /\ t_saved' = T!Kept(T!View(t_live', t_fold)) /\ t_pc' \in {"tools", "ask"}
      BY <1>3 DEF T!Return
    <2> QED
      BY <1>1, <2>1, KeptWhole DEF TranscriptInv, Shown, Thinking, T!View
  <1>4. CASE T!ReturnUnsaved
    <2>1. t_halted' # "no" /\ t_pc' = "settle"
      BY <1>4 DEF T!ReturnUnsaved
    <2> QED
      BY <2>1 DEF TranscriptInv, Shown, Thinking
  <1>5. CASE T!ReturnNothing
    <2>1. \E row : \E next \in {"tools", "ask"} : T!Ends(row, next)
      BY <1>5 DEF T!ReturnNothing, T!Returned
    <2> QED
      BY <1>1, <2>1, RowEnds
  <1> QED
    BY <1>2, <1>3, <1>4, <1>5

LEMMA TranscriptInit == T!Init => TranscriptInv
  BY DEF T!Init, TranscriptInv, Shown, Thinking

LEMMA TranscriptNext == TranscriptInv /\ [T!Next]_(T!vars) => TranscriptInv'
  <1> SUFFICES ASSUME TranscriptInv, [T!Next]_(T!vars)
               PROVE  TranscriptInv'
    OBVIOUS
  <1>1. CASE UNCHANGED T!vars
    BY <1>1 DEF T!vars, TranscriptInv, Shown, Thinking, T!View
  <1>2. CASE T!Finish \/ T!Fail \/ T!Crash
    <2>1. t_pc' \in {"finished", "refused", "down"}
      BY <1>2 DEF T!Finish, T!Fail, T!Crash, T!Rest
    <2> QED
      BY <2>1, RunRests
  <1> QED
    BY <1>1, <1>2, TranscriptStarts, TranscriptAsks, TranscriptAnswers, TranscriptCalls
    DEF T!Next

(* While the provider works on a chat's request the checkpoint holds that  *)
(* request: a crash takes up what was asked (engine.ts, sessions.ts).      *)
THEOREM WhatIsSentIsSaved == T!Spec => []SavedIsSent
  <1>1. TranscriptInv => SavedIsSent
    BY DEF TranscriptInv, Shown, Thinking, SavedIsSent, T!SavedIsSent
  <1> QED
    BY <1>1, TranscriptInit, TranscriptNext, PTL DEF T!Spec

(***************************************************************************)
(* The pages of a large result (Pages).                                    *)
(*                                                                         *)
(* Where pages start is computed by a recursive function.  That there is   *)
(* one, and what it says, is shown through the least number at which it    *)
(* would fail.                                                             *)
(***************************************************************************)
LEMMA Least ==
  ASSUME NEW X \in SUBSET Nat, X # {}
  PROVE  \E i \in X : \A j \in X : i <= j
  <1> DEFINE Less == {ss \in Nat \X Nat : ss[1] < ss[2]}
  <1>1. IsWellFoundedOn(Less, Nat)
    BY NatLessThanWellFounded DEF OpToRel
  <1>2. \A x, y \in Nat : <<y, x>> \notin Less => x <= y
    OBVIOUS
  <1> HIDE DEF Less
  <1>3. \E x \in X : \A y \in X : <<y, x>> \notin Less
    BY <1>1, WFMin
  <1> QED
    BY <1>2, <1>3

LEMMA Greatest ==
  ASSUME NEW n \in Nat, NEW X \in SUBSET (0..n), X # {}
  PROVE  \E i \in X : \A j \in X : i >= j
  <1> DEFINE U == {n - x : x \in X}
  <1>1. U \in SUBSET Nat /\ U # {}
    <2>1. \A x \in X : n - x \in Nat
      OBVIOUS
    <2>2. \A u \in U : u \in Nat
      BY <2>1
    <2>3. U # {}
      OBVIOUS
    <2> QED
      BY <2>2, <2>3
  <1>2. PICK u \in U : \A v \in U : u <= v
    <2> HIDE DEF U
    <2> QED
      BY <1>1, Least
  <1>3. PICK x \in X : u = n - x
    BY <1>2
  <1>4. \A y \in X : n - y \in U
    OBVIOUS
  <1>5. \A y \in X : x >= y
    BY <1>2, <1>3, <1>4
  <1> QED
    BY <1>3, <1>5

LEMMA PageConstants ==
  /\ PageRoom \in Nat /\ OlderRoom \in Nat /\ MaxPages \in Nat
  /\ \A t \in Texts : t \in Seq(Nat \ {0})
  BY PagesOk DEF G!PagesAssumption

LEMMA CostOfNothing ==
  ASSUME NEW text, Len(text) = 0
  PROVE  G!Cost(text) = 0
  <1> DEFINE Is(c) == c = [n \in 0..Len(text) |-> IF n = 0 THEN 0 ELSE c[n - 1] + text[n]]
             cost == CHOOSE c : Is(c)
  <1>1. Is([n \in 0..0 |-> 0])
    OBVIOUS
  <1>2. Is(cost)
    BY <1>1
  <1>3. G!Cost(text) = cost[Len(text)]
    BY DEF G!Cost
  <1>4. cost[0] = 0
    <2> HIDE DEF cost
    <2> QED
      BY <1>2
  <1> QED
    BY <1>3, <1>4

(* A page takes some of what is left, maybe nothing. *)
LEMMA FittingIs ==
  ASSUME NEW S, NEW text \in Seq(S), NEW from \in 1..(Len(text) + 1), NEW size \in Nat
  PROVE  G!Fitting(text, from, size) \in 0..(Len(text) - from + 1)
  <1> DEFINE n == Len(text) - from + 1
             X == {k \in 0..n : G!Cost(SubSeq(text, from, from + k - 1)) <= size}
  <1>1. n \in Nat /\ X \in SUBSET (0..n)
    OBVIOUS
  <1>2. 0 \in X
    <2>1. Len(SubSeq(text, from, from + 0 - 1)) = 0
      OBVIOUS
    <2>2. G!Cost(SubSeq(text, from, from + 0 - 1)) = 0
      BY <2>1, CostOfNothing
    <2> QED
      BY <2>2
  <1>3. G!Fitting(text, from, size) = CHOOSE x \in X : \A y \in X : x >= y
    BY DEF G!Fitting, G!Max
  <1> HIDE DEF X, n
  <1>4. \E x \in X : \A y \in X : x >= y
    BY <1>1, <1>2, Greatest
  <1>5. G!Fitting(text, from, size) \in X
    BY <1>3, <1>4
  <1> QED
    BY <1>1, <1>5 DEF n

-----------------------------------------------------------------------------
(* The function of the starts.                                             *)
StartsOf(g, text, size, m) ==
  g = [i \in 1..m |-> IF i = 1 THEN 1 ELSE g[i - 1] + G!Fitting(text, g[i - 1], size)]

LEMMA StartsExist ==
  ASSUME NEW text, NEW size, NEW m \in Nat
  PROVE  \E g : StartsOf(g, text, size, m)
  <1> DEFINE Is(g, k) == StartsOf(g, text, size, k)
             Lacking == {k \in Nat : ~\E g : Is(g, k)}
  <1> USE DEF StartsOf
  <1> SUFFICES ASSUME m \in Lacking PROVE FALSE
    OBVIOUS
  <1>1. PICK k \in Lacking : \A j \in Lacking : k <= j
    <2>1. Lacking \in SUBSET Nat /\ Lacking # {}
      OBVIOUS
    <2> HIDE DEF Lacking
    <2> QED
      BY <2>1, Least
  <1>2. k \in Nat /\ ~\E g : Is(g, k)
    BY <1>1
  <1>3. CASE k = 0
    <2>1. Is([i \in 1..0 |-> 1], 0)
      OBVIOUS
    <2> QED
      BY <1>2, <1>3, <2>1
  <1>4. CASE k # 0
    <2>1. k - 1 \in Nat /\ k - 1 \notin Lacking
      <3>1. k - 1 \in Nat /\ ~(k <= k - 1)
        BY <1>2, <1>4
      <3> HIDE DEF Lacking
      <3> QED
        BY <1>1, <3>1
    <2>2. PICK g : Is(g, k - 1)
      BY <2>1
    <2> DEFINE h == [i \in 1..k |-> IF i # k THEN g[i]
                                    ELSE IF k = 1 THEN 1 ELSE g[k - 1] + G!Fitting(text, g[k - 1], size)]
    <2>3. ASSUME NEW i \in 1..k
          PROVE  h[i] = IF i = 1 THEN 1 ELSE h[i - 1] + G!Fitting(text, h[i - 1], size)
      <3>1. CASE i = k
        <4>1. k # 1 => h[k - 1] = g[k - 1]
          BY <1>2, <1>4
        <4> QED
          BY <3>1, <4>1
      <3>2. CASE i # k
        <4>1. i \in 1..(k - 1)
          BY <3>2, <1>2
        <4>2. g[i] = IF i = 1 THEN 1 ELSE g[i - 1] + G!Fitting(text, g[i - 1], size)
          BY <2>2, <4>1
        <4>3. h[i] = g[i] /\ (i # 1 => h[i - 1] = g[i - 1])
          BY <3>2, <4>1, <1>2
        <4> QED
          BY <4>2, <4>3
      <3> QED
        BY <3>1, <3>2
    <2>4. Is(h, k)
      <3>1. h = [i \in 1..k |-> h[i]]
        OBVIOUS
      <3> HIDE DEF h
      <3> QED
        BY <2>3, <3>1
    <2> QED
      BY <1>2, <2>4
  <1> QED
    BY <1>3, <1>4

LEMMA StartsAre ==
  ASSUME NEW text \in Texts, NEW size \in Nat, NEW start, start = G!PageStarts(text, size)
  PROVE  /\ start[1] = 1
         /\ \A i \in 1..(MaxPages + 1) : start[i] \in 1..(Len(text) + 1)
         /\ \A i \in 1..MaxPages : /\ start[i + 1] = start[i] + G!Fitting(text, start[i], size)
                                   /\ G!Fitting(text, start[i], size) \in 0..(Len(text) - start[i] + 1)
  <1> DEFINE Is(g) == StartsOf(g, text, size, MaxPages + 1)
  <1>1. MaxPages \in Nat /\ MaxPages + 1 \in Nat /\ text \in Seq(Nat \ {0}) /\ Len(text) \in Nat
    BY PageConstants
  <1>2. start = CHOOSE g : Is(g)
    BY DEF G!PageStarts, StartsOf
  <1>3. \E g : Is(g)
    BY <1>1, StartsExist
  <1>4. Is(start)
    BY <1>2, <1>3
  <1>5. start[1] = 1
    BY <1>1, <1>4 DEF StartsOf
  <1>6. ASSUME NEW i \in 1..MaxPages PROVE start[i + 1] = start[i] + G!Fitting(text, start[i], size)
    <2>1. i + 1 \in 1..(MaxPages + 1) /\ i + 1 # 1 /\ (i + 1) - 1 = i
      BY <1>1
    <2> QED
      BY <1>4, <2>1 DEF StartsOf
  <1> HIDE DEF Is
  <1>7. ASSUME NEW i \in 1..(MaxPages + 1) PROVE start[i] \in 1..(Len(text) + 1)
    <2> DEFINE Out == {j \in 1..(MaxPages + 1) : start[j] \notin 1..(Len(text) + 1)}
    <2> SUFFICES ASSUME i \in Out PROVE FALSE
      OBVIOUS
    <2>1. PICK j \in Out : \A k \in Out : j <= k
      <3>1. Out \in SUBSET Nat /\ Out # {}
        BY <1>1
      <3> HIDE DEF Out
      <3> QED
        BY <3>1, Least
    <2>2. j # 1
      BY <1>5, <1>1, <2>1
    <2>3. j - 1 \in 1..MaxPages /\ j - 1 \notin Out
      BY <1>1, <2>1, <2>2
    <2>4. start[j - 1] \in 1..(Len(text) + 1)
      BY <1>1, <2>3
    <2>5. G!Fitting(text, start[j - 1], size) \in 0..(Len(text) - start[j - 1] + 1)
      BY <1>1, <2>4, FittingIs
    <2>6. start[j] = start[j - 1] + G!Fitting(text, start[j - 1], size)
      <3>1. start[(j - 1) + 1] = start[j - 1] + G!Fitting(text, start[j - 1], size)
        BY <1>6, <2>3
      <3>2. (j - 1) + 1 = j
        BY <2>1, <1>1
      <3> QED
        BY <3>1, <3>2
    <2>7. start[j] \in 1..(Len(text) + 1)
      BY <1>1, <2>4, <2>5, <2>6
    <2> QED
      BY <2>1, <2>7
  <1>8. ASSUME NEW i \in 1..MaxPages
        PROVE  G!Fitting(text, start[i], size) \in 0..(Len(text) - start[i] + 1)
    <2>1. i \in 1..(MaxPages + 1)
      BY <1>1
    <2> QED
      BY <1>1, <1>7, <2>1, FittingIs
  <1> QED
    BY <1>5, <1>6, <1>7, <1>8

(* Pages that are stored follow each other without a gap, from the first   *)
(* character to the last.                                                  *)
LEMMA PagesAre ==
  ASSUME NEW text \in Texts, NEW size \in Nat, NEW start, start = G!PageStarts(text, size),
         G!Pages(text, size) # <<>>
  PROVE  /\ Len(G!Pages(text, size)) \in 1..MaxPages
         /\ start[Len(G!Pages(text, size)) + 1] = Len(text) + 1
         /\ \A i \in 1..Len(G!Pages(text, size)) : G!Pages(text, size)[i] = SubSeq(text, start[i], start[i + 1] - 1)
  <1> DEFINE ends == {n \in 1..MaxPages : start[n + 1] > Len(text)}
             last == CHOOSE x \in ends : \A y \in ends : x =< y
  <1>1. MaxPages \in Nat /\ text \in Seq(Nat \ {0}) /\ Len(text) \in Nat
    BY PageConstants
  <1>2. G!Pages(text, size) = IF ends = {} THEN <<>>
                        ELSE [i \in 1..last |-> SubSeq(text, start[i], start[i] + G!Fitting(text, start[i], size) - 1)]
    BY DEF G!Pages, G!Min
  <1>3. ends # {} /\ ends \in SUBSET Nat
    BY <1>1, <1>2
  <1>4. last \in ends
    <2> HIDE DEF ends
    <2>1. \E x \in ends : \A y \in ends : x =< y
      BY <1>3, Least
    <2> QED
      BY <2>1
  <1> HIDE DEF last
  <1>5. last \in 1..MaxPages /\ start[last + 1] > Len(text)
    BY <1>4
  <1>6. start[last + 1] = Len(text) + 1
    <2>1. last + 1 \in 1..(MaxPages + 1)
      BY <1>1, <1>5
    <2>2. start[last + 1] \in 1..(Len(text) + 1)
      BY <2>1, StartsAre
    <2> QED
      BY <1>1, <1>5, <2>2
  <1>7. G!Pages(text, size) = [i \in 1..last |-> SubSeq(text, start[i], start[i] + G!Fitting(text, start[i], size) - 1)]
    BY <1>2, <1>3
  <1>8. Len(G!Pages(text, size)) = last
    BY <1>5, <1>7
  <1>9. ASSUME NEW i \in 1..last PROVE G!Pages(text, size)[i] = SubSeq(text, start[i], start[i + 1] - 1)
    <2>1. i \in 1..MaxPages
      BY <1>1, <1>5
    <2>2. /\ start[i + 1] = start[i] + G!Fitting(text, start[i], size)
          /\ start[i] \in Int /\ G!Fitting(text, start[i], size) \in Int
      <3>1. i \in 1..(MaxPages + 1)
        BY <1>1, <2>1
      <3>2. start[i + 1] = start[i] + G!Fitting(text, start[i], size)
        BY <2>1, StartsAre
      <3>3. start[i] \in 1..(Len(text) + 1)
        BY <3>1, StartsAre
      <3>4. G!Fitting(text, start[i], size) \in 0..(Len(text) - start[i] + 1)
        BY <2>1, StartsAre
      <3> QED
        BY <1>1, <3>2, <3>3, <3>4
    <2>3. G!Pages(text, size)[i] = SubSeq(text, start[i], start[i] + G!Fitting(text, start[i], size) - 1)
      BY <1>7
    <2>4. start[i + 1] - 1 = start[i] + G!Fitting(text, start[i], size) - 1
      BY <2>2
    <2> QED
      BY <2>3, <2>4
  <1> QED
    BY <1>5, <1>6, <1>8, <1>9

-----------------------------------------------------------------------------
(* The invariant: what is stored are the pages of its text, of this release *)
(* or an earlier one; the reference that is shown is of the last result;    *)
(* and a reader has got the text up to its place, the page it is on and the *)
(* offset in it.                                                            *)
Sizes == {PageRoom, OlderRoom}
Stored(text, pages) == \E size \in Sizes : pages = G!Pages(text, size)

Reading(text, start, count, r) ==
  /\ r.page \in Nat /\ r.page < count
  /\ r.offset \in Nat /\ r.offset <= start[r.page + 2] - start[r.page + 1]
  /\ r.got = SubSeq(text, 1, start[r.page + 1] - 1 + r.offset)

ReadingOn(text, pages, r) ==
  \E size \in Sizes : /\ pages = G!Pages(text, size)
                      /\ Reading(text, G!PageStarts(text, size), Len(pages), r)

PageInv ==
  /\ g_truth # <<>> => g_truth[1] \in G!Results
  /\ \A ref \in DOMAIN g_kept : /\ ref.text \in Texts
                               /\ Stored(ref.text, g_kept[ref].pages)
                               /\ g_kept[ref].pages # <<>>
  /\ g_face.ref # <<>> => /\ g_truth # <<>> /\ g_face.ref = <<g_face.ref[1]>>
                          /\ g_face.ref[1] \in DOMAIN g_kept
                          /\ g_face.ref[1].text = g_truth[1].text
  /\ g_reader = [ref |-> g_reader.ref, page |-> g_reader.page, offset |-> g_reader.offset,
                 got |-> g_reader.got, at |-> g_reader.at]
  /\ g_reader.at # "none" => g_face.ref # <<>> /\ g_reader.ref = g_face.ref
  /\ g_reader.at = "reading" =>
       ReadingOn(g_truth[1].text, g_kept[g_reader.ref[1]].pages, g_reader)
  /\ g_reader.at = "complete" => g_reader.got = g_truth[1].text

LEMMA PageInit == G!Init => PageInv
  <1> SUFFICES ASSUME G!Init PROVE PageInv
    OBVIOUS
  <1>1. /\ g_truth = <<>> /\ g_face.ref = <<>> /\ g_reader.at = "none"
        /\ g_reader = [ref |-> <<>>, page |-> 0, offset |-> 0, got |-> <<>>, at |-> "none"]
    BY DEF G!Init, G!NoFace, G!NoReader
  <1>2. PICK S \in SUBSET {r \in G!Results : G!Storable(r)} : g_kept = G!Older(S)
    BY DEF G!Init
  <1>3. ASSUME NEW ref \in DOMAIN g_kept
        PROVE  /\ ref.text \in Texts /\ Stored(ref.text, g_kept[ref].pages)
               /\ g_kept[ref].pages # <<>>
    <2>1. DOMAIN g_kept = {G!Reference(0, r) : r \in S}
      BY <1>2 DEF G!Older
    <2>2. PICK r \in S : ref = G!Reference(0, r)
      BY <2>1
    <2>3. ref.text = r.text /\ r \in G!Results /\ G!Storable(r)
      BY <1>2, <2>2 DEF G!Reference
    <2>4. g_kept[ref].pages = G!Pages(ref.text, OlderRoom)
      BY <1>2, <2>1 DEF G!Older, G!Manifest
    <2> QED
      BY <2>3, <2>4 DEF G!Results, G!Storable, Stored, Sizes
  <1> QED
    BY <1>1, <1>3 DEF PageInv

(* What a result leaves in the store and shows of itself.                  *)
LEMMA ProjectKeeps ==
  ASSUME PageInv, NEW r \in G!Results, G!Project(r)
  PROVE  /\ \A ref \in DOMAIN g_kept' : /\ ref.text \in Texts
                                     /\ Stored(ref.text, g_kept'[ref].pages)
                                     /\ g_kept'[ref].pages # <<>>
         /\ g_face'.ref # <<>> => /\ g_face'.ref = <<g_face'.ref[1]>>
                                  /\ g_face'.ref[1] \in DOMAIN g_kept'
                                  /\ g_face'.ref[1].text = r.text
  <1> DEFINE ref == G!Reference(g_scope, r)
  <1>1. ref.text = r.text /\ r.text \in Texts
    BY DEF G!Reference, G!Results
  <1> HIDE DEF ref
  <1>2. CASE UNCHANGED g_kept /\ g_face' = G!Whole(r)
    BY <1>2 DEF PageInv, G!Whole
  <1>3. CASE UNCHANGED g_kept /\ ref \in DOMAIN g_kept
             /\ (g_face' = G!Referenced(ref) \/ g_face' = G!Marker(r, <<ref>>))
    <2>1. g_face'.ref = <<ref>>
      BY <1>3 DEF G!Referenced, G!Marker
    <2> QED
      BY <1>1, <1>3, <2>1 DEF PageInv
  <1>4. CASE UNCHANGED g_kept /\ g_face' = G!Marker(r, <<>>)
    BY <1>4 DEF PageInv, G!Marker
  <1>5. CASE G!Pages(r.text, PageRoom) # <<>> /\ G!Archive(ref, r, G!Pages(r.text, PageRoom))
             /\ g_face' = G!Referenced(ref)
    <2>1. g_face'.ref = <<ref>>
      BY <1>5 DEF G!Referenced
    <2>2. DOMAIN g_kept' = DOMAIN g_kept \cup {ref}
      BY <1>5 DEF G!Archive
    <2>3. \A k \in DOMAIN g_kept' :
             g_kept'[k].pages = IF k = ref THEN G!Pages(r.text, PageRoom) ELSE g_kept[k].pages
      BY <1>5 DEF G!Archive, G!Manifest
    <2>4. Stored(r.text, G!Pages(r.text, PageRoom))
      BY DEF Stored, Sizes
    <2> QED
      BY <1>1, <1>5, <2>1, <2>2, <2>3, <2>4 DEF PageInv
  <1> QED
    BY <1>2, <1>3, <1>4, <1>5 DEF G!Project, ref

LEMMA GiveKeeps ==
  ASSUME PageInv, G!Give
  PROVE  PageInv'
  <1>1. PICK r \in G!Results : G!Project(r) /\ g_truth' = <<r>> /\ g_reader' = G!NoReader
    BY DEF G!Give
  <1>2. /\ g_truth' # <<>> /\ g_truth'[1] = r
        /\ g_reader'.at = "none"
        /\ g_reader' = [ref |-> g_reader'.ref, page |-> g_reader'.page,
                        offset |-> g_reader'.offset, got |-> g_reader'.got, at |-> g_reader'.at]
    BY <1>1 DEF G!NoReader
  <1> QED
    BY <1>1, <1>2, ProjectKeeps DEF PageInv

LEMMA OpenKeeps ==
  ASSUME PageInv, G!Open
  PROVE  PageInv'
  <1> DEFINE text == g_truth[1].text
             pages == g_kept[g_face.ref[1]].pages
  <1>1. /\ g_face.ref # <<>> /\ UNCHANGED <<g_kept, g_face, g_truth>>
        /\ g_reader' = [ref |-> g_face.ref, page |-> 0, offset |-> 0, got |-> <<>>, at |-> "reading"]
    BY DEF G!Open, G!NoReader
  <1>2. text \in Texts /\ Stored(text, pages) /\ pages # <<>>
    BY <1>1 DEF PageInv
  <1> HIDE DEF text, pages
  <1>3. PICK size \in Sizes : pages = G!Pages(text, size)
    BY <1>2 DEF Stored
  <1> DEFINE start == G!PageStarts(text, size)
  <1>4. start[1] = 1 /\ start[2] - start[1] \in Nat /\ Len(pages) \in Nat \ {0}
    <2>1. /\ MaxPages \in Nat /\ text \in Seq(Nat \ {0}) /\ Len(text) \in Nat /\ size \in Nat
      BY <1>2, PageConstants DEF Sizes
    <2>2. Len(pages) \in 1..MaxPages
      BY <1>2, <1>3, <2>1, PagesAre
    <2>3. 1 \in 1..MaxPages /\ 2 \in 1..(MaxPages + 1)
      BY <2>1, <2>2
    <2>4. start[1] = 1 /\ start[2] \in 1..(Len(text) + 1)
      BY <1>2, <2>1, <2>3, StartsAre
    <2> QED
      BY <2>1, <2>2, <2>4
  <1>5. SubSeq(text, 1, 0) = <<>>
    <2>1. text \in Seq(Nat \ {0})
      BY <1>2, PageConstants
    <2> QED
      BY <2>1
  <1>6. Reading(text, start, Len(pages), g_reader')
    BY <1>1, <1>4, <1>5 DEF Reading
  <1>7. ReadingOn(text, pages, g_reader')
    BY <1>3, <1>6 DEF ReadingOn
  <1> QED
    BY <1>1, <1>7 DEF PageInv, text, pages

(* Two pieces that follow each other are one.                              *)
Glued(text, a, b, o, n) ==
  /\ Len(SubSeq(SubSeq(text, a, b - 1), o + 1, o + n)) = n
  /\ SubSeq(text, 1, a - 1 + o) \o SubSeq(SubSeq(text, a, b - 1), o + 1, o + n)
       = SubSeq(text, 1, a - 1 + (o + n))

LEMMA Joined ==
  ASSUME NEW S, NEW text \in Seq(S), NEW a \in 1..(Len(text) + 1), NEW b \in a..(Len(text) + 1),
         NEW o \in 0..(b - a), NEW n \in 0..(b - a - o)
  PROVE  /\ SubSeq(text, a, b - 1) \in Seq(S)
         /\ Len(SubSeq(text, a, b - 1)) = b - a
         /\ Glued(text, a, b, o, n)
  <1> USE DEF Glued
  <1>1. /\ a \in Nat /\ b \in Nat /\ o \in Nat /\ n \in Nat /\ Len(text) \in Nat
        /\ a >= 1 /\ a <= b /\ b - 1 <= Len(text) /\ o + n <= b - a
    OBVIOUS
  <1> DEFINE page == SubSeq(text, a, b - 1)
             piece == SubSeq(page, o + 1, o + n)
             head == SubSeq(text, 1, a - 1 + o)
  <1>2. page \in Seq(S) /\ Len(page) = b - a
    <2>1. \A i \in a..(b - 1) : i \in 1..Len(text) /\ text[i] \in S
      BY <1>1
    <2>2. b - 1 \in Int /\ (IF a <= b - 1 THEN b - 1 - a + 1 ELSE 0) = b - a
      BY <1>1
    <2> HIDE DEF page
    <2>3. page \in Seq(S) /\ Len(page) = IF a <= b - 1 THEN b - 1 - a + 1 ELSE 0
      BY <1>1, <2>1, <2>2, SubSeqProperties DEF page
    <2> QED
      BY <2>2, <2>3
  <1>3. head \in Seq(S)
    <2>1. \A i \in 1..(a - 1 + o) : i \in 1..Len(text) /\ text[i] \in S
      BY <1>1
    <2>2. a - 1 + o \in Int
      BY <1>1
    <2> QED
      BY <1>1, <2>1, <2>2, SubSeqProperties
  <1> HIDE DEF page
  <1>4. CASE n = 0
    <2>1. piece = <<>>
      <3>1. o + 1 \in Int /\ o + n \in Int /\ o + n < o + 1
        BY <1>1, <1>4
      <3> QED
        BY <3>1, SubSeqEmpty
    <2>2. head \o <<>> = head /\ a - 1 + (o + n) = a - 1 + o
      BY <1>1, <1>3, <1>4, ConcatEmptySeq
    <2> QED
      BY <1>2, <1>4, <2>1, <2>2 DEF page
  <1>5. CASE n # 0
    <2>1. /\ a \in 1..Len(text) /\ b - 1 \in 1..Len(text)
          /\ o + 1 \in 1..(b - 1 - a + 1) /\ o + n \in 1..(b - 1 - a + 1)
          /\ a + (o + 1) - 1 = a - 1 + o + 1 /\ a + (o + n) - 1 = a - 1 + (o + n)
      BY <1>1, <1>5
    <2>2. piece = SubSeq(text, a + (o + 1) - 1, a + (o + n) - 1)
      BY <2>1, SubSeqOfSubSeq DEF page
    <2>3. piece = SubSeq(text, a - 1 + o + 1, a - 1 + (o + n))
      BY <2>1, <2>2
    <2>4. Len(piece) = n
      <3>1. \A i \in (a - 1 + o + 1)..(a - 1 + (o + n)) : i \in 1..Len(text) /\ text[i] \in S
        BY <1>1
      <3>2. /\ a - 1 + o + 1 \in Int /\ a - 1 + (o + n) \in Int
            /\ (IF a - 1 + o + 1 <= a - 1 + (o + n)
                THEN a - 1 + (o + n) - (a - 1 + o + 1) + 1 ELSE 0) = n
        BY <1>1, <1>5
      <3> QED
        BY <2>3, <3>1, <3>2, SubSeqProperties
    <2>5. /\ 1 \in 1..(Len(text) + 1) /\ a - 1 + o \in (1 - 1)..Len(text)
          /\ a - 1 + (o + n) \in (a - 1 + o)..Len(text)
      BY <1>1
    <2>6. head \o SubSeq(text, a - 1 + o + 1, a - 1 + (o + n)) = SubSeq(text, 1, a - 1 + (o + n))
      BY <2>5, ConcatAdjacentSubSeq
    <2> QED
      BY <1>2, <2>3, <2>4, <2>6 DEF page
  <1> QED
    BY <1>4, <1>5

LEMMA ReadKeeps ==
  ASSUME PageInv, G!ReadPage
  PROVE  PageInv'
  <1> DEFINE text == g_truth[1].text
             pages == g_kept[g_reader.ref[1]].pages
  <1>0. /\ g_reader.at = "reading" /\ UNCHANGED <<g_kept, g_face, g_truth>>
        /\ text \in Texts /\ pages # <<>> /\ ReadingOn(text, pages, g_reader)
    BY DEF G!ReadPage, PageInv
  <1>9. PICK size \in Sizes : /\ pages = G!Pages(text, size)
                              /\ Reading(text, G!PageStarts(text, size), Len(pages), g_reader)
    BY <1>0 DEF ReadingOn
  <1> DEFINE start == G!PageStarts(text, size)
             a == start[g_reader.page + 1]
             b == start[g_reader.page + 2]
             o == g_reader.offset
             body == pages[g_reader.page + 1]
             n == G!Fitting(body, o + 1, PageRoom)
             slice == SubSeq(body, o + 1, o + n)
             last == g_reader.page >= Len(pages) - 1
             next == G!Cursor(slice, body, o + Len(slice), last)
  <1>1. /\ g_reader.at = "reading" /\ UNCHANGED <<g_kept, g_face, g_truth>>
        /\ text \in Texts /\ pages # <<>> /\ Reading(text, start, Len(pages), g_reader)
    BY <1>0, <1>9
  <1>2. \/ g_reader' = [g_reader EXCEPT !.at = "refused"]
        \/ g_reader' = next
    BY <1>1 DEF G!ReadPage, G!Slice
  <1>3. CASE g_reader' = [g_reader EXCEPT !.at = "refused"]
    BY <1>1, <1>3 DEF PageInv
  <1>4. CASE g_reader' = next
    <2> HIDE DEF text, start, pages
    <2>1. /\ MaxPages \in Nat /\ text \in Seq(Nat \ {0}) /\ Len(text) \in Nat
          /\ size \in Nat /\ PageRoom \in Nat
      BY <1>1, PageConstants DEF Sizes
    <2>2. /\ Len(pages) \in 1..MaxPages
          /\ start[Len(pages) + 1] = Len(text) + 1
          /\ \A i \in 1..Len(pages) : pages[i] = SubSeq(text, start[i], start[i + 1] - 1)
      BY <1>1, <1>9, <2>1, PagesAre DEF start
    <2>3. /\ g_reader.page \in Nat /\ g_reader.page < Len(pages) /\ o \in Nat /\ o <= b - a
          /\ g_reader.got = SubSeq(text, 1, a - 1 + o)
      BY <1>1 DEF Reading
    <2>4. g_reader.page + 1 \in 1..MaxPages /\ g_reader.page + 2 = (g_reader.page + 1) + 1
      BY <2>1, <2>2, <2>3
    <2>5. /\ a \in 1..(Len(text) + 1) /\ b \in 1..(Len(text) + 1)
          /\ b = a + G!Fitting(text, a, size) /\ G!Fitting(text, a, size) \in 0..(Len(text) - a + 1)
      <3>1. g_reader.page + 1 \in 1..(MaxPages + 1) /\ g_reader.page + 2 \in 1..(MaxPages + 1)
        BY <2>1, <2>4
      <3> QED
        BY <1>1, <2>1, <2>4, <3>1, StartsAre DEF start
    <2>6. b \in a..(Len(text) + 1) /\ o \in 0..(b - a)
      BY <2>1, <2>3, <2>5
    <2>7. body = SubSeq(text, a, b - 1)
      <3>1. g_reader.page + 1 \in 1..Len(pages)
        BY <2>2, <2>3
      <3> QED
        BY <2>2, <2>4, <3>1
    <2> HIDE DEF body, a, b, o
    <2>8. body \in Seq(Nat \ {0}) /\ Len(body) = b - a
      <3>1. 0 \in 0..(b - a - o)
        BY <2>1, <2>5, <2>6
      <3> QED
        BY <2>1, <2>5, <2>6, <2>7, <3>1, Joined
    <2> HIDE DEF n, slice
    <2>9. n \in 0..(b - a - o)
      <3>1. o + 1 \in 1..(Len(body) + 1)
        BY <2>1, <2>5, <2>6, <2>8
      <3>2. n \in 0..(Len(body) - (o + 1) + 1)
        BY <2>1, <2>8, <3>1, FittingIs DEF n
      <3> QED
        BY <2>1, <2>5, <2>6, <2>8, <3>2
    <2>10. Len(slice) = n /\ g_reader.got \o slice = SubSeq(text, 1, a - 1 + (o + n))
      <3>1. Glued(text, a, b, o, n)
        <4>1. /\ text \in Seq(Nat \ {0}) /\ a \in 1..(Len(text) + 1) /\ b \in a..(Len(text) + 1)
              /\ o \in 0..(b - a) /\ n \in 0..(b - a - o)
          BY <2>1, <2>5, <2>6, <2>9
        <4> QED
          BY <4>1, Joined
      <3> QED
        BY <2>3, <2>7, <3>1 DEF slice, Glued
    <2>0. /\ a \in Nat /\ b \in Nat /\ o \in Nat /\ n \in Nat /\ a <= b /\ o + n <= b - a
          /\ a >= 1 /\ b <= Len(text) + 1
      BY <2>1, <2>5, <2>6, <2>9
    <2>11. next = [ref |-> g_reader.ref, got |-> g_reader.got \o slice,
                   page |-> IF o + n < b - a \/ last THEN g_reader.page ELSE g_reader.page + 1,
                   offset |-> IF o + n < b - a THEN o + n ELSE 0,
                   at |-> IF o + n >= b - a /\ last THEN "complete" ELSE "reading"]
      BY <2>8, <2>10 DEF G!Cursor, o
    <2> HIDE DEF next
    <2>12. next.at = "reading" => Reading(text, start, Len(pages), next)
      <3>1. CASE o + n < b - a
        <4>1. o + n \in Nat /\ o + n <= b - a /\ next.page = g_reader.page /\ next.offset = o + n
          BY <3>1, <2>5, <2>6, <2>9, <2>11
        <4> QED
          BY <4>1, <2>3, <2>10, <2>11 DEF Reading, a, b
      <3>2. CASE ~(o + n < b - a) /\ ~last
        <4>1. /\ next.page = g_reader.page + 1 /\ next.offset = 0
              /\ next.page < Len(pages) /\ next.page \in Nat
          BY <3>2, <2>2, <2>3, <2>11
        <4>2. next.page + 1 = g_reader.page + 2 /\ next.page + 1 \in 1..MaxPages
              /\ next.page + 2 = (next.page + 1) + 1
          BY <4>1, <2>1, <2>2, <2>3
        <4>3. start[next.page + 2] - start[next.page + 1] \in Nat
          <5>1. next.page + 1 \in 1..(MaxPages + 1)
            BY <2>1, <4>2
          <5>2. /\ start[next.page + 1] \in 1..(Len(text) + 1)
                /\ start[next.page + 2] = start[next.page + 1] + G!Fitting(text, start[next.page + 1], size)
                /\ G!Fitting(text, start[next.page + 1], size) \in 0..(Len(text) - start[next.page + 1] + 1)
            BY <1>1, <2>1, <4>2, <5>1, StartsAre DEF start
          <5> QED
            BY <2>1, <5>2
        <4>4. a - 1 + (o + n) = start[next.page + 1] - 1 + next.offset
          <5>1. start[next.page + 1] = b
            BY <4>2 DEF b
          <5>2. a - 1 + (o + n) = b - 1 + 0
            BY <3>2, <2>0
          <5> QED
            BY <4>1, <5>1, <5>2
        <4>5. next.got = SubSeq(text, 1, start[next.page + 1] - 1 + next.offset)
          BY <4>4, <2>10, <2>11
        <4> QED
          BY <4>1, <4>3, <4>5 DEF Reading
      <3>3. CASE ~(o + n < b - a) /\ last
        BY <3>3, <2>5, <2>6, <2>9, <2>11
      <3> QED
        BY <3>1, <3>2, <3>3
    <2>13. next.at = "complete" => next.got = text
      <3> SUFFICES ASSUME next.at = "complete" PROVE next.got = text
        OBVIOUS
      <3>1. o + n >= b - a /\ last
        BY <2>11
      <3>2. g_reader.page + 2 = Len(pages) + 1
        BY <3>1, <2>2, <2>3
      <3>3. b = Len(text) + 1
        BY <3>2, <2>2 DEF b
      <3>4. a - 1 + (o + n) = Len(text)
        BY <3>1, <3>3, <2>0, <2>1
      <3>5. SubSeq(text, 1, Len(text)) = text
        BY <2>1
      <3> QED
        BY <3>4, <3>5, <2>10, <2>11
    <2>14. /\ next.ref = g_reader.ref /\ next.at \in {"reading", "complete"}
           /\ next = [ref |-> next.ref, page |-> next.page, offset |-> next.offset,
                      got |-> next.got, at |-> next.at]
      BY <2>11
    <2>15. next.at = "reading" => ReadingOn(text, pages, next)
      BY <1>9, <2>12 DEF ReadingOn, start
    <2>16. text' = text /\ g_reader'.ref = g_reader.ref /\ g_kept'[g_reader'.ref[1]].pages = pages
      BY <1>1, <1>4, <2>14 DEF text, pages
    <2> QED
      BY <1>1, <1>4, <2>13, <2>14, <2>15, <2>16 DEF PageInv, text
  <1> QED
    BY <1>2, <1>3, <1>4

LEMMA ClearKeeps ==
  ASSUME PageInv, G!Clear
  PROVE  PageInv'
  BY DEF G!Clear, PageInv

LEMMA PageRests ==
  ASSUME PageInv, UNCHANGED g_vars
  PROVE  PageInv'
  BY DEF g_vars, PageInv

THEOREM PageInvariant == G!Spec => []PageInv
  <1>1. PageInv /\ [G!Next]_g_vars => PageInv'
    BY GiveKeeps, OpenKeeps, ReadKeeps, ClearKeeps, PageRests DEF G!Next
  <1> QED
    BY <1>1, PageInit, PTL DEF G!Spec, G!vars, g_vars

(* Who follows the references of a large result to the end has read the    *)
(* whole result, every character once and in order, for any text and any   *)
(* two sizes: the room of a read message, which is the size of a page, and *)
(* the size of the pages an earlier release stored, read in slices.        *)
THEOREM ReadersGetItAll == G!Spec => []ReadsBackWhole
  <1>1. PageInv => ReadsBackWhole
    BY DEF PageInv, ReadsBackWhole, G!ReadsBackWhole
  <1> QED
    BY <1>1, PageInvariant, PTL

(***************************************************************************)
(* Every call is answered (Transcript).                                    *)
(*                                                                         *)
(* The rows of a run pair each answer with its results, but for the calls  *)
(* that have yet to run.  A checkpoint may break off after any row: in it  *)
(* no result stands apart from its answer, which is what a recovery needs. *)
(***************************************************************************)
Plain == {"old", "request", "again", "summary", "text", "broken"}
Says == {"", "done", "unknown", "not_executed"}
Bodies == {"", "whole", "reference", "marker"}
Rows == {r \in [role : Plain \cup {"answer", "result"}, calls : Seq(ToolCalls), says : Says,
                body : Bodies, told : SUBSET ToolCalls] : r.role = "result" => Len(r.calls) = 1}

Met(rows, left, i) ==
  rows[i].role = "answer" =>
    \A k \in 1..Len(rows[i].calls) :
      IF i + k <= Len(rows)
      THEN rows[i + k].role = "result" /\ rows[i + k].calls = <<rows[i].calls[k]>>
      ELSE i + k <= Len(rows) + Len(left) /\ left[i + k - Len(rows)] = rows[i].calls[k]

Asked(rows, i, c) ==
  \E j \in 1..Len(rows) : \E k \in 1..Len(rows[j].calls) :
    rows[j].role = "answer" /\ j + k = i /\ rows[j].calls[k] = c

Owes(rows, left) ==
  /\ \A i \in 1..Len(rows) : Met(rows, left, i)
  /\ \A i \in 1..Len(rows) : rows[i].role = "result" => Asked(rows, i, rows[i].calls[1])
  /\ \A m \in 1..Len(left) : Asked(rows, Len(rows) + m, left[m])

Whole(rows) == Owes(rows, <<>>)

Attached(rows) ==
  \A i \in 1..Len(rows) :
    rows[i].role = "result" => i > 1 /\ rows[i - 1].role \in {"answer", "result"}

LEMMA WholeIsPaired ==
  ASSUME NEW rows \in Seq(Rows), Whole(rows)
  PROVE  \A i \in 1..Len(rows) :
    /\ rows[i].role = "answer" =>
         \A k \in 1..Len(rows[i].calls) :
           i + k <= Len(rows) /\ rows[i + k].role = "result" /\ rows[i + k].calls = <<rows[i].calls[k]>>
    /\ rows[i].role = "result" =>
         \E j \in 1..(i - 1) : \E k \in 1..Len(rows[j].calls) :
           rows[j].role = "answer" /\ j + k = i /\ rows[j].calls[k] = rows[i].calls[1]
  <1> SUFFICES ASSUME NEW i \in 1..Len(rows)
               PROVE  /\ rows[i].role = "answer" =>
                           \A k \in 1..Len(rows[i].calls) :
                             i + k <= Len(rows) /\ rows[i + k].role = "result" /\ rows[i + k].calls = <<rows[i].calls[k]>>
                      /\ rows[i].role = "result" =>
                           \E j \in 1..(i - 1) : \E k \in 1..Len(rows[j].calls) :
                             rows[j].role = "answer" /\ j + k = i /\ rows[j].calls[k] = rows[i].calls[1]
    OBVIOUS
  <1>0. Len(rows) \in Nat /\ Len(<<>>) = 0 /\ \A j \in 1..Len(rows) : Len(rows[j].calls) \in Nat
    BY DEF Rows
  <1>1. ASSUME rows[i].role = "answer", NEW k \in 1..Len(rows[i].calls)
        PROVE  i + k <= Len(rows) /\ rows[i + k].role = "result" /\ rows[i + k].calls = <<rows[i].calls[k]>>
    <2>1. i + k <= Len(rows) \/ i + k <= Len(rows) + 0
      BY <1>0, <1>1 DEF Whole, Owes, Met
    <2>2. i + k <= Len(rows)
      BY <2>1, <1>0
    <2> QED
      BY <1>1, <2>2 DEF Whole, Owes, Met
  <1>2. ASSUME rows[i].role = "result"
        PROVE  \E j \in 1..(i - 1) : \E k \in 1..Len(rows[j].calls) :
                 rows[j].role = "answer" /\ j + k = i /\ rows[j].calls[k] = rows[i].calls[1]
    <2>1a. PICK j \in 1..Len(rows) : \E k \in 1..Len(rows[j].calls) :
             rows[j].role = "answer" /\ j + k = i /\ rows[j].calls[k] = rows[i].calls[1]
      BY <1>2 DEF Whole, Owes, Asked
    <2>1. PICK k \in 1..Len(rows[j].calls) :
             rows[j].role = "answer" /\ j + k = i /\ rows[j].calls[k] = rows[i].calls[1]
      BY <2>1a
    <2>2. j \in 1..(i - 1)
      BY <1>0, <2>1
    <2> QED
      BY <2>1, <2>2
  <1> QED
    BY <1>1, <1>2

LEMMA OwesAttached ==
  ASSUME NEW rows \in Seq(Rows), NEW left, Owes(rows, left)
  PROVE  Attached(rows)
  <1> SUFFICES ASSUME NEW i \in 1..Len(rows), rows[i].role = "result"
               PROVE  i > 1 /\ rows[i - 1].role \in {"answer", "result"}
    BY DEF Attached
  <1>1a. PICK j \in 1..Len(rows) : \E k \in 1..Len(rows[j].calls) :
           rows[j].role = "answer" /\ j + k = i
    BY DEF Owes, Asked
  <1>1. PICK k \in 1..Len(rows[j].calls) :
           rows[j].role = "answer" /\ j + k = i
    BY <1>1a
  <1>2. Len(rows[j].calls) \in Nat /\ Len(rows) \in Nat
    BY DEF Rows
  <1>3. CASE k = 1
    BY <1>1, <1>2, <1>3
  <1>4. CASE k # 1
    <2>1. k - 1 \in 1..Len(rows[j].calls) /\ j + (k - 1) = i - 1 /\ i - 1 <= Len(rows) /\ i > 1
      BY <1>1, <1>2, <1>4
    <2>2. Met(rows, left, j)
      BY DEF Owes
    <2>3. rows[j + (k - 1)].role = "result"
      BY <1>1, <2>1, <2>2 DEF Met
    <2> QED
      BY <2>1, <2>3
  <1> QED
    BY <1>3, <1>4

(* A row that is neither answer nor result changes no debt.                *)
LEMMA PlainRow ==
  ASSUME NEW rows \in Seq(Rows), Whole(rows), NEW r \in Rows, r.role \notin {"answer", "result"}
  PROVE  Append(rows, r) \in Seq(Rows) /\ Whole(Append(rows, r))
  <1> DEFINE new == Append(rows, r)
  <1>1. /\ new \in Seq(Rows) /\ Len(new) = Len(rows) + 1 /\ Len(rows) \in Nat
        /\ \A i \in 1..Len(rows) : new[i] = rows[i]
        /\ new[Len(rows) + 1] = r
    BY AppendProperties
  <1>2. Len(<<>>) = 0 /\ \A j \in 1..Len(rows) : Len(rows[j].calls) \in Nat
    BY DEF Rows
  <1> HIDE DEF new
  <1>3. ASSUME NEW i \in 1..Len(new) PROVE Met(new, <<>>, i)
    <2>1. CASE i = Len(rows) + 1
      BY <1>1, <2>1 DEF Met
    <2>2. CASE i \in 1..Len(rows)
      <3> SUFFICES ASSUME rows[i].role = "answer", NEW k \in 1..Len(rows[i].calls)
                   PROVE  i + k <= Len(new) /\ new[i + k].role = "result" /\ new[i + k].calls = <<rows[i].calls[k]>>
        BY <1>1, <2>2 DEF Met
      <3>1. i + k <= Len(rows) /\ rows[i + k].role = "result" /\ rows[i + k].calls = <<rows[i].calls[k]>>
        BY <2>2, WholeIsPaired
      <3>2. i + k \in 1..Len(rows)
        BY <1>1, <1>2, <2>2, <3>1
      <3> QED
        BY <1>1, <3>1, <3>2
    <2> QED
      BY <1>1, <2>1, <2>2
  <1>4. ASSUME NEW i \in 1..Len(new), new[i].role = "result" PROVE Asked(new, i, new[i].calls[1])
    <2>1. i \in 1..Len(rows)
      BY <1>1, <1>4
    <2>2. rows[i].role = "result"
      BY <1>1, <1>4, <2>1
    <2>3a. PICK j \in 1..Len(rows) : \E k \in 1..Len(rows[j].calls) :
             rows[j].role = "answer" /\ j + k = i /\ rows[j].calls[k] = rows[i].calls[1]
      BY <2>1, <2>2 DEF Whole, Owes, Asked
    <2>3. PICK k \in 1..Len(rows[j].calls) :
             rows[j].role = "answer" /\ j + k = i /\ rows[j].calls[k] = rows[i].calls[1]
      BY <2>3a
    <2>4. j \in 1..Len(new) /\ new[j] = rows[j] /\ new[i] = rows[i]
      BY <1>1, <2>1
    <2> QED
      BY <2>3, <2>4 DEF Asked
  <1> QED
    BY <1>1, <1>2, <1>3, <1>4 DEF Whole, Owes, new

(* An answer owes its calls. *)
LEMMA AnswerRow ==
  ASSUME NEW rows \in Seq(Rows), Whole(rows), NEW r \in Rows, r.role = "answer"
  PROVE  Append(rows, r) \in Seq(Rows) /\ Owes(Append(rows, r), r.calls)
  <1> DEFINE new == Append(rows, r)
  <1>1. /\ new \in Seq(Rows) /\ Len(new) = Len(rows) + 1 /\ Len(rows) \in Nat
        /\ \A i \in 1..Len(rows) : new[i] = rows[i]
        /\ new[Len(rows) + 1] = r
    BY AppendProperties
  <1>2. Len(<<>>) = 0 /\ Len(r.calls) \in Nat /\ \A j \in 1..Len(rows) : Len(rows[j].calls) \in Nat
    BY DEF Rows
  <1> HIDE DEF new
  <1>3. ASSUME NEW i \in 1..Len(new) PROVE Met(new, r.calls, i)
    <2>1. CASE i = Len(rows) + 1
      <3> SUFFICES ASSUME NEW k \in 1..Len(r.calls)
                   PROVE  ~(i + k <= Len(new)) /\ i + k <= Len(new) + Len(r.calls) /\ i + k - Len(new) = k
        BY <1>1, <2>1 DEF Met
      <3> QED
        BY <1>1, <1>2, <2>1
    <2>2. CASE i \in 1..Len(rows)
      <3> SUFFICES ASSUME rows[i].role = "answer", NEW k \in 1..Len(rows[i].calls)
                   PROVE  i + k <= Len(new) /\ new[i + k].role = "result" /\ new[i + k].calls = <<rows[i].calls[k]>>
        BY <1>1, <2>2 DEF Met
      <3>1. i + k <= Len(rows) /\ rows[i + k].role = "result" /\ rows[i + k].calls = <<rows[i].calls[k]>>
        BY <2>2, WholeIsPaired
      <3>2. i + k \in 1..Len(rows)
        BY <1>1, <1>2, <2>2, <3>1
      <3> QED
        BY <1>1, <3>1, <3>2
    <2> QED
      BY <1>1, <2>1, <2>2
  <1>4. ASSUME NEW i \in 1..Len(new), new[i].role = "result" PROVE Asked(new, i, new[i].calls[1])
    <2>1. i \in 1..Len(rows)
      BY <1>1, <1>4
    <2>2. rows[i].role = "result"
      BY <1>1, <1>4, <2>1
    <2>3a. PICK j \in 1..Len(rows) : \E k \in 1..Len(rows[j].calls) :
             rows[j].role = "answer" /\ j + k = i /\ rows[j].calls[k] = rows[i].calls[1]
      BY <2>1, <2>2 DEF Whole, Owes, Asked
    <2>3. PICK k \in 1..Len(rows[j].calls) :
             rows[j].role = "answer" /\ j + k = i /\ rows[j].calls[k] = rows[i].calls[1]
      BY <2>3a
    <2>4. j \in 1..Len(new) /\ new[j] = rows[j] /\ new[i] = rows[i]
      BY <1>1, <2>1
    <2> QED
      BY <2>3, <2>4 DEF Asked
  <1>5. ASSUME NEW m \in 1..Len(r.calls) PROVE Asked(new, Len(new) + m, r.calls[m])
    <2>1. Len(new) \in 1..Len(new) /\ new[Len(new)] = r
      BY <1>1
    <2> QED
      BY <2>1 DEF Asked
  <1> QED
    BY <1>1, <1>3, <1>4, <1>5 DEF Owes, new

(* The next result pays one. *)
LEMMA ResultRow ==
  ASSUME NEW rows \in Seq(Rows), NEW left \in Seq(ToolCalls), left # <<>>, Owes(rows, left),
         NEW r \in Rows, r.role = "result", r.calls = <<Head(left)>>
  PROVE  Append(rows, r) \in Seq(Rows) /\ Owes(Append(rows, r), Tail(left))
  <1> DEFINE new == Append(rows, r)
             rest == Tail(left)
  <1>1. /\ new \in Seq(Rows) /\ Len(new) = Len(rows) + 1 /\ Len(rows) \in Nat
        /\ \A i \in 1..Len(rows) : new[i] = rows[i]
        /\ new[Len(rows) + 1] = r
    BY AppendProperties
  <1>2. \A j \in 1..Len(rows) : Len(rows[j].calls) \in Nat
    BY DEF Rows
  <1>3. /\ Len(left) \in Nat /\ Len(left) >= 1 /\ Len(rest) = Len(left) - 1 /\ Head(left) = left[1]
        /\ \A m \in 1..Len(rest) : rest[m] = left[m + 1]
    BY HeadTailProperties, EmptySeq
  <1> HIDE DEF new, rest
  <1>4. ASSUME NEW i \in 1..Len(new) PROVE Met(new, rest, i)
    <2>1. CASE i = Len(rows) + 1
      BY <1>1, <2>1 DEF Met
    <2>2. CASE i \in 1..Len(rows)
      <3> SUFFICES ASSUME rows[i].role = "answer", NEW k \in 1..Len(rows[i].calls)
                   PROVE  IF i + k <= Len(new)
                          THEN new[i + k].role = "result" /\ new[i + k].calls = <<rows[i].calls[k]>>
                          ELSE i + k <= Len(new) + Len(rest) /\ rest[i + k - Len(new)] = rows[i].calls[k]
        BY <1>1, <2>2 DEF Met
      <3>0. IF i + k <= Len(rows)
            THEN rows[i + k].role = "result" /\ rows[i + k].calls = <<rows[i].calls[k]>>
            ELSE i + k <= Len(rows) + Len(left) /\ left[i + k - Len(rows)] = rows[i].calls[k]
        BY <2>2 DEF Owes, Met
      <3>1. CASE i + k <= Len(rows)
        <4>1. i + k \in 1..Len(rows) /\ i + k <= Len(new)
          BY <1>1, <1>2, <2>2, <3>1
        <4> QED
          BY <1>1, <3>0, <3>1, <4>1
      <3>2. CASE i + k = Len(rows) + 1
        <4>1. i + k - Len(rows) = 1 /\ ~(i + k <= Len(rows)) /\ i + k <= Len(new)
          BY <1>1, <3>2
        <4> QED
          BY <1>1, <1>3, <3>0, <3>2, <4>1
      <3>3. CASE i + k > Len(rows) + 1
        <4>1. /\ ~(i + k <= Len(rows)) /\ ~(i + k <= Len(new))
              /\ (i + k - Len(new)) + 1 = i + k - Len(rows)
          BY <1>1, <1>2, <2>2, <3>3
        <4>2. i + k <= Len(rows) + Len(left)
          BY <3>0, <4>1
        <4>3. i + k - Len(new) \in 1..Len(rest) /\ i + k <= Len(new) + Len(rest)
          BY <1>1, <1>2, <1>3, <2>2, <3>3, <4>2
        <4>4. rest[i + k - Len(new)] = left[i + k - Len(rows)]
          BY <1>3, <4>1, <4>3
        <4> QED
          BY <3>0, <4>1, <4>3, <4>4
      <3>4. i + k <= Len(rows) \/ i + k = Len(rows) + 1 \/ i + k > Len(rows) + 1
        <4>1. i + k \in Int /\ Len(rows) \in Int
          BY <1>1, <1>2, <2>2
        <4> QED
          BY <4>1
      <3> QED
        BY <3>1, <3>2, <3>3, <3>4
    <2> QED
      BY <1>1, <2>1, <2>2
  <1>5. ASSUME NEW i, NEW c, Asked(rows, i, c) PROVE Asked(new, i, c)
    <2>1a. PICK j \in 1..Len(rows) : \E k \in 1..Len(rows[j].calls) :
             rows[j].role = "answer" /\ j + k = i /\ rows[j].calls[k] = c
      BY <1>5 DEF Asked
    <2>1. PICK k \in 1..Len(rows[j].calls) :
             rows[j].role = "answer" /\ j + k = i /\ rows[j].calls[k] = c
      BY <2>1a
    <2>2. j \in 1..Len(new) /\ new[j] = rows[j]
      BY <1>1
    <2> QED
      BY <2>1, <2>2 DEF Asked
  <1>6. ASSUME NEW i \in 1..Len(new), new[i].role = "result" PROVE Asked(new, i, new[i].calls[1])
    <2>1. CASE i \in 1..Len(rows)
      BY <1>1, <1>5, <1>6, <2>1 DEF Owes
    <2>2. CASE i = Len(rows) + 1
      <3>1. 1 \in 1..Len(left) /\ new[i].calls[1] = left[1]
        BY <1>1, <1>3, <2>2
      <3>2. Asked(rows, Len(rows) + 1, left[1])
        BY <3>1 DEF Owes
      <3> QED
        BY <1>5, <2>2, <3>1, <3>2
    <2> QED
      BY <1>1, <2>1, <2>2
  <1>7. ASSUME NEW m \in 1..Len(rest) PROVE Asked(new, Len(new) + m, rest[m])
    <2>1. m + 1 \in 1..Len(left) /\ rest[m] = left[m + 1] /\ Len(new) + m = Len(rows) + (m + 1)
      BY <1>1, <1>3
    <2>2. Asked(rows, Len(rows) + (m + 1), left[m + 1])
      BY <2>1 DEF Owes
    <2> QED
      BY <1>5, <2>1, <2>2
  <1> QED
    BY <1>1, <1>4, <1>6, <1>7 DEF Owes, new, rest

-----------------------------------------------------------------------------
(* Two whole transcripts are one, and so is what begins at another row.    *)
LEMMA WholeJoined ==
  ASSUME NEW a \in Seq(Rows), NEW b \in Seq(Rows), Whole(a), Whole(b)
  PROVE  a \o b \in Seq(Rows) /\ Whole(a \o b)
  <1> DEFINE new == a \o b
             n == Len(a)
  <1>1. /\ new \in Seq(Rows) /\ n \in Nat /\ Len(b) \in Nat /\ Len(new) = n + Len(b)
        /\ \A i \in 1..n : new[i] = a[i]
        /\ \A i \in 1..Len(b) : new[n + i] = b[i]
    <2>1. /\ new \in Seq(Rows) /\ Len(new) = Len(a) + Len(b)
          /\ \A i \in 1..(Len(a) + Len(b)) : new[i] = IF i <= Len(a) THEN a[i] ELSE b[i - Len(a)]
      BY ConcatProperties
    <2>2. n \in Nat /\ Len(b) \in Nat
      OBVIOUS
    <2>3. ASSUME NEW i \in 1..n PROVE new[i] = a[i]
      BY <2>1, <2>2
    <2>4. ASSUME NEW i \in 1..Len(b) PROVE new[n + i] = b[i]
      <3>1. n + i \in 1..(Len(a) + Len(b)) /\ ~(n + i <= Len(a)) /\ (n + i) - Len(a) = i
        BY <2>2
      <3> HIDE DEF new
      <3> QED
        BY <2>1, <3>1
    <2> QED
      BY <2>1, <2>2, <2>3, <2>4
  <1>2. /\ \A j \in 1..Len(a) : Len(a[j].calls) \in Nat
        /\ \A j \in 1..Len(b) : Len(b[j].calls) \in Nat
    BY DEF Rows
  <1>0. \A i \in 1..Len(new) : i \in 1..n \/ \E h \in 1..Len(b) : i = n + h
    <2> SUFFICES ASSUME NEW i \in 1..Len(new), i \notin 1..n PROVE \E h \in 1..Len(b) : i = n + h
      OBVIOUS
    <2>1. i - n \in 1..Len(b) /\ i = n + (i - n)
      BY <1>1
    <2> QED
      BY <2>1
  <1> HIDE DEF new, n
  <1>3. ASSUME NEW i \in 1..Len(new) PROVE Met(new, <<>>, i)
    <2>1. CASE i \in 1..n
      <3> SUFFICES ASSUME a[i].role = "answer", NEW k \in 1..Len(a[i].calls)
                   PROVE  i + k <= Len(new) /\ new[i + k].role = "result" /\ new[i + k].calls = <<a[i].calls[k]>>
        BY <1>1, <2>1 DEF Met
      <3>1. i + k <= Len(a) /\ a[i + k].role = "result" /\ a[i + k].calls = <<a[i].calls[k]>>
        BY <2>1, WholeIsPaired DEF n
      <3>2. i + k \in 1..n /\ i + k <= Len(new)
        BY <1>1, <1>2, <2>1, <3>1 DEF n
      <3> QED
        BY <1>1, <3>1, <3>2
    <2>2. ASSUME NEW h \in 1..Len(b), i = n + h PROVE Met(new, <<>>, i)
      <3> SUFFICES ASSUME b[h].role = "answer", NEW k \in 1..Len(b[h].calls)
                   PROVE  i + k <= Len(new) /\ new[i + k].role = "result" /\ new[i + k].calls = <<b[h].calls[k]>>
        BY <1>1, <2>2 DEF Met
      <3>1. h + k <= Len(b) /\ b[h + k].role = "result" /\ b[h + k].calls = <<b[h].calls[k]>>
        BY WholeIsPaired
      <3>2. h + k \in 1..Len(b) /\ i + k = n + (h + k) /\ i + k <= Len(new)
        <4>1. h \in Nat /\ k \in Nat /\ n \in Nat /\ h >= 1 /\ k >= 1
          BY <1>1, <1>2
        <4>2. h + k <= Len(b) /\ Len(new) = n + Len(b) /\ Len(b) \in Nat
          BY <1>1, <3>1
        <4> QED
          BY <2>2, <4>1, <4>2
      <3> QED
        BY <1>1, <3>1, <3>2
    <2> QED
      BY <1>0, <2>1, <2>2
  <1>4. ASSUME NEW i \in 1..Len(new), new[i].role = "result" PROVE Asked(new, i, new[i].calls[1])
    <2>1. CASE i \in 1..n
      <3>1. Asked(a, i, a[i].calls[1])
        BY <1>1, <1>4, <2>1 DEF Whole, Owes, n
      <3>2a. PICK j \in 1..Len(a) : \E k \in 1..Len(a[j].calls) :
              a[j].role = "answer" /\ j + k = i /\ a[j].calls[k] = a[i].calls[1]
        BY <3>1 DEF Asked
      <3>2. PICK k \in 1..Len(a[j].calls) :
              a[j].role = "answer" /\ j + k = i /\ a[j].calls[k] = a[i].calls[1]
        BY <3>2a
      <3>3. j \in 1..Len(new) /\ new[j] = a[j] /\ new[i] = a[i]
        BY <1>1, <2>1 DEF n
      <3> QED
        BY <3>2, <3>3 DEF Asked
    <2>2. ASSUME NEW h \in 1..Len(b), i = n + h PROVE Asked(new, i, new[i].calls[1])
      <3>1. Asked(b, h, b[h].calls[1])
        BY <1>1, <1>4, <2>2 DEF Whole, Owes
      <3>2a. PICK j \in 1..Len(b) : \E k \in 1..Len(b[j].calls) :
              b[j].role = "answer" /\ j + k = h /\ b[j].calls[k] = b[h].calls[1]
        BY <3>1 DEF Asked
      <3>2. PICK k \in 1..Len(b[j].calls) :
              b[j].role = "answer" /\ j + k = h /\ b[j].calls[k] = b[h].calls[1]
        BY <3>2a
      <3>3. n + j \in 1..Len(new) /\ new[n + j] = b[j] /\ new[i] = b[h] /\ (n + j) + k = i
        <4>1. j \in Nat /\ k \in Nat /\ n \in Nat /\ j >= 1 /\ h \in Nat
          BY <1>1, <1>2
        <4>2. n + j \in 1..Len(new) /\ (n + j) + k = i
          BY <1>1, <2>2, <3>2, <4>1
        <4> QED
          BY <1>1, <2>2, <4>2
      <3> QED
        BY <3>2, <3>3 DEF Asked
    <2> QED
      BY <1>0, <2>1, <2>2
  <1> QED
    BY <1>1, <1>3, <1>4 DEF Whole, Owes, new

LEMMA WholeFrom ==
  ASSUME NEW rows \in Seq(Rows), Whole(rows), NEW from \in 1..Len(rows), rows[from].role # "result"
  PROVE  SubSeq(rows, from, Len(rows)) \in Seq(Rows) /\ Whole(SubSeq(rows, from, Len(rows)))
  <1> DEFINE new == SubSeq(rows, from, Len(rows))
             n == from - 1
  <1>1. /\ new \in Seq(Rows) /\ n \in Nat /\ Len(rows) \in Nat /\ Len(rows) = n + Len(new)
        /\ Len(new) \in Nat /\ from = n + 1
        /\ \A i \in 1..Len(new) : new[i] = rows[n + i]
    <2>1. /\ Len(rows) \in Nat /\ from \in Int /\ Len(rows) \in Int
          /\ \A i \in from..Len(rows) : rows[i] \in Rows
          /\ from <= Len(rows)
      OBVIOUS
    <2>2. /\ new \in Seq(Rows) /\ Len(new) = Len(rows) - from + 1
          /\ \A i \in 1..(Len(rows) - from + 1) : new[i] = rows[from + i - 1]
      BY <2>1, SubSeqProperties
    <2> HIDE DEF new
    <2>3. ASSUME NEW i \in 1..Len(new) PROVE new[i] = rows[n + i]
      <3>1. from + i - 1 = n + i /\ i \in 1..(Len(rows) - from + 1)
        BY <2>1, <2>2
      <3> QED
        BY <2>2, <3>1
    <2> QED
      BY <2>1, <2>2, <2>3
  <1>2. \A j \in 1..Len(rows) : Len(rows[j].calls) \in Nat
    BY DEF Rows
  <1> HIDE DEF new, n
  <1>3. ASSUME NEW i \in 1..Len(new) PROVE Met(new, <<>>, i)
    <2> SUFFICES ASSUME new[i].role = "answer", NEW k \in 1..Len(new[i].calls)
                 PROVE  i + k <= Len(new) /\ new[i + k].role = "result" /\ new[i + k].calls = <<new[i].calls[k]>>
      BY DEF Met
    <2>1. n + i \in 1..Len(rows) /\ new[i] = rows[n + i]
      BY <1>1
    <2>2. (n + i) + k <= Len(rows) /\ rows[(n + i) + k].role = "result" /\ rows[(n + i) + k].calls = <<new[i].calls[k]>>
      <3>1. PICK p \in 1..Len(rows) : p = n + i
        BY <2>1
      <3>2. rows[p].role = "answer" /\ rows[p] = new[i]
        BY <2>1, <3>1
      <3>3. p + k <= Len(rows) /\ rows[p + k].role = "result" /\ rows[p + k].calls = <<rows[p].calls[k]>>
        BY <3>2, WholeIsPaired
      <3> QED
        BY <3>1, <3>2, <3>3
    <2>3. i + k \in 1..Len(new) /\ n + (i + k) = (n + i) + k
      <3>1. i \in Nat /\ k \in Nat /\ n \in Nat /\ i >= 1 /\ k >= 1
        BY <1>1, <1>2, <2>1
      <3>2. (n + i) + k <= Len(rows) /\ Len(rows) = n + Len(new) /\ Len(new) \in Nat
        BY <1>1, <2>2
      <3> QED
        BY <3>1, <3>2
    <2> QED
      BY <1>1, <2>2, <2>3
  <1>4. ASSUME NEW i \in 1..Len(new), new[i].role = "result" PROVE Asked(new, i, new[i].calls[1])
    <2>1. n + i \in 1..Len(rows) /\ new[i] = rows[n + i]
      BY <1>1
    <2>2. Asked(rows, n + i, new[i].calls[1])
      BY <1>4, <2>1 DEF Whole, Owes
    <2>3a. PICK j \in 1..Len(rows) : \E k \in 1..Len(rows[j].calls) :
            rows[j].role = "answer" /\ j + k = n + i /\ rows[j].calls[k] = new[i].calls[1]
      BY <2>2 DEF Asked
    <2>3. PICK k \in 1..Len(rows[j].calls) :
            rows[j].role = "answer" /\ j + k = n + i /\ rows[j].calls[k] = new[i].calls[1]
      BY <2>3a
    <2>4. j > n
      <3> SUFFICES ASSUME ~(j > n) PROVE FALSE
        OBVIOUS
      <3>0. k \in Nat /\ j \in Nat /\ i \in Nat /\ i >= 1
        BY <1>2, <1>1
      <3>1. from - j \in 1..Len(rows[j].calls) /\ j + (from - j) = from
        <4>1. Len(rows[j].calls) \in Nat /\ k <= Len(rows[j].calls)
          BY <1>2
        <4>2. from - j \in Int /\ from - j >= 1 /\ from - j <= k
          BY <1>1, <2>3, <3>0
        <4> QED
          BY <4>1, <4>2, <3>0, <1>1
      <3>2. rows[j + (from - j)].role = "result"
        BY <2>3, <3>1, WholeIsPaired
      <3> QED
        BY <3>1, <3>2
    <2>5. j - n \in 1..Len(new) /\ n + (j - n) = j /\ (j - n) + k = i
      <3>1. k \in Nat /\ k >= 1 /\ j \in Nat /\ n \in Nat /\ i \in Nat /\ Len(new) \in Nat
        BY <1>1, <1>2
      <3>2. j + k = n + i /\ j > n /\ i <= Len(new)
        BY <2>3, <2>4
      <3>3. j - n = i - k /\ j - n \in Nat /\ j - n >= 1 /\ i - k <= Len(new)
        BY <3>1, <3>2
      <3> QED
        BY <3>1, <3>3
    <2>6. new[j - n] = rows[j]
      BY <1>1, <2>5
    <2> QED
      BY <2>3, <2>5, <2>6 DEF Asked
  <1>5. 1..Len(<<>>) = {}
    OBVIOUS
  <1> QED
    BY <1>1, <1>3, <1>4, <1>5 DEF Whole, Owes, new

LEMMA WholeNothing == <<>> \in Seq(Rows) /\ Whole(<<>>) /\ Attached(<<>>)
  BY DEF Whole, Owes, Attached

LEMMA WholeOne ==
  ASSUME NEW r \in Rows, r.role \notin {"answer", "result"}
  PROVE  <<r>> \in Seq(Rows) /\ Whole(<<r>>)
  <1>1. Append(<<>>, r) = <<r>>
    OBVIOUS
  <1> QED
    BY <1>1, WholeNothing, PlainRow

LEMMA WholeAnswer ==
  ASSUME NEW r \in Rows, r.role = "answer", NEW res \in Seq(Rows), Len(res) = Len(r.calls),
         \A k \in 1..Len(res) : res[k].role = "result" /\ res[k].calls = <<r.calls[k]>>
  PROVE  <<r>> \o res \in Seq(Rows) /\ Whole(<<r>> \o res)
  <1> DEFINE new == <<r>> \o res
  <1>1. /\ new \in Seq(Rows) /\ Len(res) \in Nat /\ Len(new) = 1 + Len(res) /\ new[1] = r
        /\ \A k \in 1..Len(res) : new[1 + k] = res[k]
    <2>1. <<r>> \in Seq(Rows) /\ Len(<<r>>) = 1 /\ <<r>>[1] = r
      OBVIOUS
    <2>2. /\ new \in Seq(Rows) /\ Len(new) = 1 + Len(res)
          /\ \A i \in 1..(1 + Len(res)) : new[i] = IF i <= 1 THEN <<r>>[i] ELSE res[i - 1]
      BY <2>1, ConcatProperties
    <2>3. Len(res) \in Nat
      OBVIOUS
    <2> HIDE DEF new
    <2>4. ASSUME NEW k \in 1..Len(res) PROVE new[1 + k] = res[k]
      <3>1. 1 + k \in 1..(1 + Len(res)) /\ ~(1 + k <= 1) /\ (1 + k) - 1 = k
        BY <2>3
      <3> QED
        BY <2>2, <3>1
    <2>5. new[1] = r
      BY <2>1, <2>2, <2>3
    <2> QED
      BY <2>2, <2>3, <2>4, <2>5
  <1> HIDE DEF new
  <1>2. \A i \in 1..Len(new) : i = 1 \/ \E k \in 1..Len(res) : i = 1 + k
    <2> SUFFICES ASSUME NEW i \in 1..Len(new), i # 1 PROVE \E k \in 1..Len(res) : i = 1 + k
      OBVIOUS
    <2>1. i - 1 \in 1..Len(res) /\ i = 1 + (i - 1)
      BY <1>1
    <2> QED
      BY <2>1
  <1>3. ASSUME NEW i \in 1..Len(new) PROVE Met(new, <<>>, i)
    <2>1. CASE i = 1
      <3> SUFFICES ASSUME NEW k \in 1..Len(r.calls)
                   PROVE  1 + k <= Len(new) /\ new[1 + k].role = "result" /\ new[1 + k].calls = <<r.calls[k]>>
        BY <1>1, <2>1 DEF Met
      <3>1. 1 + k <= Len(new)
        BY <1>1
      <3> QED
        BY <1>1, <3>1
    <2>2. ASSUME NEW k \in 1..Len(res), i = 1 + k PROVE Met(new, <<>>, i)
      BY <1>1, <2>2 DEF Met
    <2> QED
      BY <1>2, <2>1, <2>2
  <1>4. ASSUME NEW i \in 1..Len(new), new[i].role = "result" PROVE Asked(new, i, new[i].calls[1])
    <2>1. PICK k \in 1..Len(res) : i = 1 + k
      BY <1>1, <1>2, <1>4
    <2>2. new[i].calls[1] = r.calls[k] /\ 1 \in 1..Len(new) /\ k \in 1..Len(new[1].calls)
      BY <1>1, <2>1
    <2> QED
      BY <1>1, <2>1, <2>2 DEF Asked
  <1>5. 1..Len(<<>>) = {}
    OBVIOUS
  <1> QED
    BY <1>1, <1>3, <1>4, <1>5 DEF Whole, Owes, new

-----------------------------------------------------------------------------
(* What keeps a result with its answer.                                    *)
LEMMA AttachedMore ==
  ASSUME NEW rows \in Seq(Rows), Attached(rows), NEW r \in Rows,
         r.role = "result" => rows # <<>> /\ rows[Len(rows)].role \in {"answer", "result"}
  PROVE  Append(rows, r) \in Seq(Rows) /\ Attached(Append(rows, r))
  <1> DEFINE new == Append(rows, r)
  <1>1. /\ new \in Seq(Rows) /\ Len(new) = Len(rows) + 1 /\ Len(rows) \in Nat
        /\ \A i \in 1..Len(rows) : new[i] = rows[i]
        /\ new[Len(rows) + 1] = r
    BY AppendProperties
  <1>2. rows # <<>> => Len(rows) >= 1
    BY EmptySeq
  <1> HIDE DEF new
  <1> SUFFICES ASSUME NEW i \in 1..Len(new), new[i].role = "result"
               PROVE  i > 1 /\ new[i - 1].role \in {"answer", "result"}
    BY <1>1 DEF Attached, new
  <1>3. CASE i \in 1..Len(rows)
    <2>1. i > 1 /\ rows[i - 1].role \in {"answer", "result"}
      BY <1>1, <1>3 DEF Attached
    <2>2. i - 1 \in 1..Len(rows)
      BY <1>1, <1>3, <2>1
    <2> QED
      BY <1>1, <2>1, <2>2
  <1>4. CASE i = Len(rows) + 1
    <2>1. rows # <<>> /\ rows[Len(rows)].role \in {"answer", "result"}
      BY <1>1, <1>4
    <2>2. i > 1 /\ i - 1 = Len(rows) /\ Len(rows) \in 1..Len(rows)
      BY <1>1, <1>2, <1>4, <2>1
    <2> QED
      BY <1>1, <2>1, <2>2
  <1> QED
    BY <1>1, <1>3, <1>4

LEMMA AttachedAfter ==
  ASSUME NEW r \in Rows, r.role # "result", NEW rows \in Seq(Rows), Attached(rows)
  PROVE  <<r>> \o rows \in Seq(Rows) /\ Attached(<<r>> \o rows)
  <1> DEFINE new == <<r>> \o rows
  <1>1. <<r>> \in Seq(Rows) /\ Len(<<r>>) = 1 /\ <<r>>[1] = r
    OBVIOUS
  <1>2. /\ new \in Seq(Rows) /\ Len(new) = 1 + Len(rows) /\ Len(rows) \in Nat
        /\ \A i \in 1..(1 + Len(rows)) : new[i] = IF i <= 1 THEN <<r>>[i] ELSE rows[i - 1]
    BY <1>1, ConcatProperties
  <1> HIDE DEF new
  <1> SUFFICES ASSUME NEW i \in 1..Len(new), new[i].role = "result"
               PROVE  i > 1 /\ new[i - 1].role \in {"answer", "result"}
    BY <1>2 DEF Attached, new
  <1>3. i # 1
    BY <1>1, <1>2
  <1>4. i - 1 \in 1..Len(rows) /\ ~(i <= 1) /\ new[i] = rows[i - 1]
    BY <1>2, <1>3
  <1>5. i - 1 > 1 /\ rows[(i - 1) - 1].role \in {"answer", "result"}
    BY <1>4 DEF Attached
  <1>6. i - 1 \in 1..(1 + Len(rows)) /\ ~(i - 1 <= 1)
    BY <1>2, <1>4, <1>5
  <1> QED
    BY <1>2, <1>5, <1>6

LEMMA AttachedFrom ==
  ASSUME NEW rows \in Seq(Rows), Attached(rows), NEW from \in 1..(Len(rows) + 1),
         from <= Len(rows) => rows[from].role # "result"
  PROVE  SubSeq(rows, from, Len(rows)) \in Seq(Rows) /\ Attached(SubSeq(rows, from, Len(rows)))
  <1> DEFINE new == SubSeq(rows, from, Len(rows))
             n == from - 1
  <1>0. /\ Len(rows) \in Nat /\ from \in Int /\ n \in Nat /\ from = n + 1 /\ Len(rows) - n \in Nat
        /\ (IF from <= Len(rows) THEN Len(rows) - from + 1 ELSE 0) = Len(rows) - n
    OBVIOUS
  <1>1. /\ new \in Seq(Rows) /\ Len(new) = Len(rows) - n
        /\ \A i \in 1..Len(new) : new[i] = rows[n + i]
    <2>1. \A i \in from..Len(rows) : rows[i] \in Rows
      BY <1>0
    <2> HIDE DEF n
    <2>2. /\ new \in Seq(Rows) /\ Len(new) = IF from <= Len(rows) THEN Len(rows) - from + 1 ELSE 0
          /\ \A i \in 1..(Len(rows) - from + 1) : new[i] = rows[from + i - 1]
      BY <1>0, <2>1, SubSeqProperties
    <2> HIDE DEF new
    <2>3. Len(new) = Len(rows) - n
      BY <1>0, <2>2
    <2>4. ASSUME NEW i \in 1..Len(new) PROVE new[i] = rows[n + i]
      <3>0. n \in Nat /\ from = n + 1 /\ Len(rows) \in Nat /\ i \in 1..(Len(rows) - n)
        BY <1>0, <2>3
      <3>1. from + i - 1 = n + i /\ i \in 1..(Len(rows) - from + 1)
        BY <3>0
      <3> QED
        BY <2>2, <3>1
    <2> QED
      BY <2>2, <2>3, <2>4
  <1> HIDE DEF new, n
  <1> SUFFICES ASSUME NEW i \in 1..Len(new), new[i].role = "result"
               PROVE  i > 1 /\ new[i - 1].role \in {"answer", "result"}
    BY <1>1 DEF Attached, new
  <1>2. n + i \in 1..Len(rows) /\ rows[n + i].role = "result"
    BY <1>0, <1>1
  <1>3. n + i > 1 /\ rows[(n + i) - 1].role \in {"answer", "result"}
    BY <1>2 DEF Attached
  <1>4. i # 1
    BY <1>0, <1>2
  <1>5. i - 1 \in 1..Len(new) /\ n + (i - 1) = (n + i) - 1 /\ i > 1
    BY <1>0, <1>1, <1>4
  <1> QED
    BY <1>1, <1>3, <1>5

-----------------------------------------------------------------------------
(* Rows put together from blocks.                                          *)
JoinOf(g, b, m) == g = [i \in 1..m |-> IF i = 1 THEN b[i] ELSE g[i - 1] \o b[i]]

LEMMA JoinsExist ==
  ASSUME NEW b, NEW m \in Nat
  PROVE  \E g : JoinOf(g, b, m)
  <1> DEFINE Is(g, k) == JoinOf(g, b, k)
             Lacking == {k \in Nat : ~\E g : Is(g, k)}
  <1> USE DEF JoinOf
  <1> SUFFICES ASSUME m \in Lacking PROVE FALSE
    OBVIOUS
  <1>1. PICK k \in Lacking : \A j \in Lacking : k <= j
    <2>1. Lacking \in SUBSET Nat /\ Lacking # {}
      OBVIOUS
    <2> HIDE DEF Lacking
    <2> QED
      BY <2>1, Least
  <1>2. k \in Nat /\ ~\E g : Is(g, k)
    BY <1>1
  <1>3. CASE k = 0
    <2>1. Is([i \in 1..0 |-> 1], 0)
      OBVIOUS
    <2> QED
      BY <1>2, <1>3, <2>1
  <1>4. CASE k # 0
    <2>1. k - 1 \in Nat /\ k - 1 \notin Lacking
      <3>1. k - 1 \in Nat /\ ~(k <= k - 1)
        BY <1>2, <1>4
      <3> HIDE DEF Lacking
      <3> QED
        BY <1>1, <3>1
    <2>2. PICK g : Is(g, k - 1)
      BY <2>1
    <2> DEFINE h == [i \in 1..k |-> IF i # k THEN g[i]
                                    ELSE IF k = 1 THEN b[k] ELSE g[k - 1] \o b[k]]
    <2>3. ASSUME NEW i \in 1..k
          PROVE  h[i] = IF i = 1 THEN b[i] ELSE h[i - 1] \o b[i]
      <3>1. CASE i = k
        <4>1. k # 1 => h[k - 1] = g[k - 1]
          BY <1>2, <1>4
        <4> QED
          BY <3>1, <4>1
      <3>2. CASE i # k
        <4>1. i \in 1..(k - 1)
          BY <3>2, <1>2
        <4>2. g[i] = IF i = 1 THEN b[i] ELSE g[i - 1] \o b[i]
          BY <2>2, <4>1
        <4>3. h[i] = g[i] /\ (i # 1 => h[i - 1] = g[i - 1])
          BY <3>2, <4>1, <1>2
        <4> QED
          BY <4>2, <4>3
      <3> QED
        BY <3>1, <3>2
    <2>4. Is(h, k)
      <3>1. h = [i \in 1..k |-> h[i]]
        OBVIOUS
      <3> HIDE DEF h
      <3> QED
        BY <2>3, <3>1
    <2> QED
      BY <1>2, <2>4
  <1> QED
    BY <1>3, <1>4

LEMMA Flattened ==
  ASSUME NEW b, Len(b) \in Nat, Len(b) # 0
  PROVE  \E f : /\ f[1] = b[1]
                /\ \A i \in 2..Len(b) : f[i] = f[i - 1] \o b[i]
                /\ T!FlattenSeq(b) = f[Len(b)]
  <1> DEFINE Is(g) == JoinOf(g, b, Len(b))
             f == CHOOSE g : Is(g)
  <1>1. \E g : Is(g)
    BY JoinsExist
  <1>2. Is(f)
    BY <1>1
  <1>3. T!FlattenSeq(b) = f[Len(b)]
    BY DEF T!FlattenSeq, JoinOf
  <1> HIDE DEF f
  <1>4. f[1] = b[1]
    BY <1>2 DEF JoinOf
  <1>5. ASSUME NEW i \in 2..Len(b) PROVE f[i] = f[i - 1] \o b[i]
    <2>1. i \in 1..Len(b) /\ i # 1
      OBVIOUS
    <2> QED
      BY <1>2, <2>1 DEF JoinOf
  <1> QED
    BY <1>3, <1>4, <1>5

LEMMA FlattenedWhole ==
  ASSUME NEW b, Len(b) \in Nat,
         \A i \in 1..Len(b) : b[i] \in Seq(Rows) /\ Whole(b[i]),
         Len(b) = 0 => b = <<>>
  PROVE  T!FlattenSeq(b) \in Seq(Rows) /\ Whole(T!FlattenSeq(b))
  <1>1. CASE Len(b) = 0
    BY <1>1, WholeNothing DEF T!FlattenSeq
  <1>2. CASE Len(b) # 0
    <2>1. PICK f : /\ f[1] = b[1]
                   /\ \A i \in 2..Len(b) : f[i] = f[i - 1] \o b[i]
                   /\ T!FlattenSeq(b) = f[Len(b)]
      BY <1>2, Flattened
    <2> DEFINE Good(i) == f[i] \in Seq(Rows) /\ Whole(f[i])
               Bad == {i \in 1..Len(b) : ~Good(i)}
    <2>2. Bad = {}
      <3> SUFFICES ASSUME Bad # {} PROVE FALSE
        OBVIOUS
      <3>1. PICK i \in Bad : \A j \in Bad : i <= j
        <4>1. Bad \in SUBSET Nat
          OBVIOUS
        <4> HIDE DEF Bad
        <4> QED
          BY <4>1, Least
      <3>2. i # 1
        BY <2>1, <3>1
      <3>3. i \in 2..Len(b) /\ i - 1 \in 1..Len(b) /\ i - 1 \notin Bad /\ i \in 1..Len(b)
        BY <3>1, <3>2
      <3>4. Good(i - 1) /\ f[i] = f[i - 1] \o b[i]
        BY <2>1, <3>3
      <3>5. Good(i)
        BY <3>3, <3>4, WholeJoined
      <3> QED
        BY <3>1, <3>5
    <2>3. Good(Len(b))
      BY <1>2, <2>2
    <2> QED
      BY <2>1, <2>3
  <1> QED
    BY <1>1, <1>2

(* Taking out rows that are neither answers nor results keeps the rest     *)
(* together.                                                               *)
LEMMA FlattenedAttached ==
  ASSUME NEW rows \in Seq(Rows), Attached(rows), NEW b,
         b = [i \in 1..Len(rows) |-> IF rows[i].role = "request" THEN <<>> ELSE <<rows[i]>>]
  PROVE  T!FlattenSeq(b) \in Seq(Rows) /\ Attached(T!FlattenSeq(b))
  <1>0. Len(rows) \in Nat /\ Len(b) = Len(rows)
    OBVIOUS
  <1>1. CASE Len(b) = 0
    <2>1. T!FlattenSeq(b) = b /\ b = <<>>
      BY <1>0, <1>1 DEF T!FlattenSeq
    <2> QED
      BY <2>1, WholeNothing
  <1>2. CASE Len(b) # 0
    <2>1. PICK f : /\ f[1] = b[1]
                   /\ \A i \in 2..Len(b) : f[i] = f[i - 1] \o b[i]
                   /\ T!FlattenSeq(b) = f[Len(b)]
      BY <1>0, <1>2, Flattened
    <2> DEFINE Good(i) == /\ f[i] \in Seq(Rows) /\ Attached(f[i])
                          /\ rows[i].role \in {"answer", "result"} =>
                               f[i] # <<>> /\ f[i][Len(f[i])] = rows[i]
               Bad == {i \in 1..Len(b) : ~Good(i)}
    <2>2. ASSUME NEW i \in 1..Len(b), NEW a \in Seq(Rows), Attached(a), f[i] = a \o b[i],
                 rows[i].role = "result" => a # <<>> /\ a[Len(a)].role \in {"answer", "result"}
          PROVE  Good(i)
      <3>1. CASE rows[i].role = "request"
        <4>1. a \o <<>> = a
          BY ConcatEmptySeq
        <4> QED
          BY <1>0, <2>2, <3>1, <4>1
      <3>2. CASE rows[i].role # "request"
        <4>0. rows[i] \in Rows
          BY <1>0
        <4>1. f[i] = a \o <<rows[i]>>
          BY <1>0, <2>2, <3>2
        <4>2. f[i] = Append(a, rows[i])
          BY <4>0, <4>1, AppendIsConcat
        <4>3. f[i] \in Seq(Rows) /\ Attached(f[i])
          BY <2>2, <4>0, <4>2, AttachedMore
        <4>4. f[i] # <<>> /\ f[i][Len(f[i])] = rows[i]
          BY <4>0, <4>2, AppendProperties
        <4> QED
          BY <4>3, <4>4
      <3> QED
        BY <3>1, <3>2
    <2> HIDE DEF Good
    <2>3. Bad = {}
      <3> SUFFICES ASSUME Bad # {} PROVE FALSE
        OBVIOUS
      <3>1. PICK i \in Bad : \A j \in Bad : i <= j
        <4>1. Bad \in SUBSET Nat
          OBVIOUS
        <4> HIDE DEF Bad
        <4> QED
          BY <4>1, Least
      <3>2. CASE i = 1
        <4>1. rows[i].role # "result"
          <5>1. i \in 1..Len(rows) /\ ~(i > 1)
            BY <1>0, <3>1, <3>2
          <5> QED
            BY <5>1 DEF Attached
        <4>2. b[i] \in Seq(Rows)
          BY <1>0, <3>1
        <4>3. f[i] = <<>> \o b[i]
          BY <2>1, <3>2, <4>2, ConcatEmptySeq
        <4>4. i \in 1..Len(b)
          BY <3>1
        <4> QED
          BY <2>2, <3>1, <4>1, <4>3, <4>4, WholeNothing
      <3>3. CASE i # 1
        <4>1. i \in 2..Len(b) /\ i - 1 \in 1..Len(b) /\ i - 1 \notin Bad /\ i \in 1..Len(b)
          BY <3>1, <3>3
        <4>2. Good(i - 1) /\ f[i] = f[i - 1] \o b[i]
          BY <2>1, <4>1
        <4>3. rows[i].role = "result" => rows[i - 1].role \in {"answer", "result"}
          BY <1>0, <4>1 DEF Attached
        <4>4. rows[i].role = "result" => f[i - 1] # <<>> /\ f[i - 1][Len(f[i - 1])].role \in {"answer", "result"}
          BY <4>2, <4>3 DEF Good
        <4>5. f[i - 1] \in Seq(Rows) /\ Attached(f[i - 1])
          BY <4>2 DEF Good
        <4> QED
          BY <2>2, <3>1, <4>1, <4>2, <4>4, <4>5
      <3> QED
        BY <3>2, <3>3
    <2>4. Good(Len(b))
      BY <1>0, <1>2, <2>3
    <2> QED
      BY <2>1, <2>4 DEF Good
  <1> QED
    BY <1>1, <1>2

-----------------------------------------------------------------------------
(* What is told, and the rows a model or the engine writes.                *)
LEMMA ToldCalls ==
  ASSUME NEW rows \in Seq(Rows)
  PROVE  T!Told(rows) \subseteq ToolCalls
  <1> DEFINE Tells(i) == rows[i].told \cup (IF rows[i].role = "result" THEN {rows[i].calls[1]} ELSE {})
  <1>1. ASSUME NEW i \in 1..Len(rows) PROVE Tells(i) \subseteq ToolCalls
    <2>1. rows[i] \in Rows
      OBVIOUS
    <2>2. rows[i].role = "result" => rows[i].calls[1] \in ToolCalls
      <3>1. rows[i].role = "result" => Len(rows[i].calls) = 1 /\ rows[i].calls \in Seq(ToolCalls)
        BY <2>1 DEF Rows
      <3> QED
        BY <3>1
    <2> QED
      BY <2>1, <2>2 DEF Rows
  <1> HIDE DEF Tells
  <1>2. T!Told(rows) = UNION {Tells(i) : i \in 1..Len(rows)}
    BY DEF T!Told, Tells
  <1> QED
    BY <1>1, <1>2

LEMMA RowTypes ==
  /\ \A role \in Plain : T!User(role) \in Rows /\ T!User(role).role = role
  /\ \A told \in SUBSET ToolCalls : T!Summary(told) \in Rows /\ T!Summary(told).role = "summary"
  /\ \A c \in ToolCalls : \A says \in Says, body \in Bodies :
       /\ T!Result(c, says, body) \in Rows /\ T!Result(c, says, body).role = "result"
       /\ T!Result(c, says, body).calls = <<c>>
  /\ \A calls \in Seq(ToolCalls) :
       /\ T!Row("answer", calls, "", "") \in Rows /\ T!Row("answer", calls, "", "").role = "answer"
       /\ T!Row("answer", calls, "", "").calls = calls
  /\ \A role \in {"text", "broken"} : /\ T!Row(role, <<>>, "", "") \in Rows
                                      /\ T!Row(role, <<>>, "", "").role = role
  <1>1. \A c \in ToolCalls : <<c>> \in Seq(ToolCalls) /\ Len(<<c>>) = 1
    OBVIOUS
  <1>2. <<>> \in Seq(ToolCalls) /\ {} \in SUBSET ToolCalls
    OBVIOUS
  <1>3. \A role \in Plain : T!User(role) \in Rows /\ T!User(role).role = role
    BY <1>2 DEF T!User, T!Row, Rows, Plain, Says, Bodies
  <1>4. \A told \in SUBSET ToolCalls : T!Summary(told) \in Rows /\ T!Summary(told).role = "summary"
    BY <1>2 DEF T!Summary, T!User, T!Row, Rows, Plain, Says, Bodies
  <1>5. ASSUME NEW c \in ToolCalls, NEW says \in Says, NEW body \in Bodies
        PROVE  /\ T!Result(c, says, body) \in Rows /\ T!Result(c, says, body).role = "result"
               /\ T!Result(c, says, body).calls = <<c>>
    <2>1. <<c>> \in Seq(ToolCalls) /\ Len(<<c>>) = 1
      BY <1>1
    <2>2. ASSUME NEW calls \in Seq(ToolCalls), Len(calls) = 1
          PROVE  LET r == T!Row("result", calls, says, body)
                 IN  r \in Rows /\ r.role = "result" /\ r.calls = calls
      BY <1>2, <2>2 DEF T!Row, Rows, Plain, Says, Bodies
    <2>3. T!Result(c, says, body) = T!Row("result", <<c>>, says, body)
      BY DEF T!Result
    <2> QED
      BY <2>1, <2>2, <2>3
  <1>6. ASSUME NEW calls \in Seq(ToolCalls)
        PROVE  /\ T!Row("answer", calls, "", "") \in Rows /\ T!Row("answer", calls, "", "").role = "answer"
               /\ T!Row("answer", calls, "", "").calls = calls
    BY <1>2 DEF T!Row, Rows, Plain, Says, Bodies
  <1>7. \A role \in {"text", "broken"} : /\ T!Row(role, <<>>, "", "") \in Rows
                                         /\ T!Row(role, <<>>, "", "").role = role
    BY <1>2 DEF T!Row, Rows, Plain, Says, Bodies
  <1> QED
    BY <1>3, <1>4, <1>5, <1>6, <1>7

(* The nearest row before a result that is none is its answer.             *)
LEMMA OwnerIs ==
  ASSUME NEW rows \in Seq(Rows), Attached(rows), NEW i \in 1..Len(rows), rows[i].role = "result"
  PROVE  T!Owner(rows, i) \in 1..Len(rows) /\ rows[T!Owner(rows, i)].role = "answer"
  <1> DEFINE X == {j \in 1..(i - 1) : rows[j].role # "result"}
             Is(j) == /\ j = 0 \/ rows[j].role # "result"
                      /\ \A h \in (j + 1)..(i - 1) : rows[h].role = "result"
             own == CHOOSE j \in 0..(i - 1) : Is(j)
  <1>0. Len(rows) \in Nat /\ i > 1 /\ i \in Nat /\ i - 1 \in Nat /\ i <= Len(rows)
    BY DEF Attached
  <1>1. rows[1].role # "result"
    <2>1. 1 \in 1..Len(rows) /\ ~(1 > 1)
      BY <1>0
    <2> QED
      BY <2>1 DEF Attached
  <1>2. \E j \in 0..(i - 1) : Is(j)
    <2>1. X \in SUBSET (0..(i - 1)) /\ X # {}
      BY <1>0, <1>1
    <2>2. PICK j \in X : \A h \in X : j >= h
      <3> HIDE DEF X
      <3> QED
        BY <1>0, <2>1, Greatest
    <2>3. ASSUME NEW h \in (j + 1)..(i - 1) PROVE rows[h].role = "result"
      <3>1. h \in 1..(i - 1) /\ ~(j >= h)
        BY <1>0, <2>1, <2>2
      <3>2. h \notin X
        BY <2>2, <3>1
      <3> QED
        BY <3>1, <3>2
    <2>4. j \in 0..(i - 1) /\ rows[j].role # "result"
      BY <2>1, <2>2
    <2> QED
      BY <2>3, <2>4
  <1>3. own \in 0..(i - 1) /\ Is(own)
    BY <1>2
  <1>4. T!Owner(rows, i) = own
    BY DEF T!Owner
  <1> HIDE DEF own
  <1>5. own # 0
    <2>1. 1 \in 1..(i - 1)
      BY <1>0
    <2> QED
      BY <1>1, <1>3, <2>1
  <1>6. own \in 1..Len(rows) /\ rows[own].role # "result"
    BY <1>0, <1>3, <1>5
  <1>7. own + 1 \in 1..Len(rows) /\ own + 1 > 1 /\ (own + 1) - 1 = own
    BY <1>0, <1>3, <1>5
  <1>8. rows[own + 1].role = "result"
    <2>1. own + 1 = i \/ own + 1 \in (own + 1)..(i - 1)
      BY <1>0, <1>3
    <2> QED
      BY <1>3, <2>1
  <1>9. rows[own].role \in {"answer", "result"}
    BY <1>7, <1>8 DEF Attached
  <1> QED
    BY <1>4, <1>6, <1>9

-----------------------------------------------------------------------------
(* A recovery gives every call of a checkpoint its result.                 *)
LEMMA BodyIs == ASSUME NEW c, NEW fails
                PROVE  T!Body(c, fails) \in Bodies
  BY DEF T!Body, Bodies

LEMMA ClosedIs ==
  ASSUME NEW c \in ToolCalls, NEW fails
  PROVE  /\ T!Closed(c, fails) \in Rows /\ T!Closed(c, fails).role = "result"
         /\ T!Closed(c, fails).calls = <<c>>
  <1>1. T!Body(c, fails) \in Bodies
    BY BodyIs
  <1>2. \/ T!Closed(c, fails) = T!Result(c, "done", T!Body(c, fails))
        \/ T!Closed(c, fails) = T!Result(c, "unknown", "whole")
        \/ T!Closed(c, fails) = T!Result(c, "not_executed", "whole")
    BY DEF T!Closed
  <1>3. \A says \in Says, body \in Bodies :
          /\ T!Result(c, says, body) \in Rows /\ T!Result(c, says, body).role = "result"
          /\ T!Result(c, says, body).calls = <<c>>
    BY RowTypes
  <1>4. {"done", "unknown", "not_executed"} \subseteq Says /\ "whole" \in Bodies
    BY DEF Says, Bodies
  <1> QED
    BY <1>1, <1>2, <1>3, <1>4

LEMMA RecoveredRowWhole ==
  ASSUME NEW rows \in Seq(Rows), Attached(rows), NEW i \in 1..Len(rows), NEW fails
  PROVE  T!RecoveredRow(rows, i, fails) \in Seq(Rows) /\ Whole(T!RecoveredRow(rows, i, fails))
  <1> DEFINE r == rows[i]
             own == T!Owner(rows, i)
             mine(c) == {j \in (i + 1)..Len(rows) :
                           rows[j].role = "result" /\ T!Owner(rows, j) = i /\ rows[j].calls = <<c>>}
             Answer(c) == IF mine(c) = {} THEN T!Closed(c, fails) ELSE rows[CHOOSE j \in mine(c) : TRUE]
             res == [k \in 1..Len(r.calls) |-> Answer(r.calls[k])]
             block == T!RecoveredRow(rows, i, fails)
  <1>0. Len(rows) \in Nat /\ r \in Rows /\ r.calls \in Seq(ToolCalls) /\ Len(r.calls) \in Nat
    BY DEF Rows
  <1>1. block = CASE r.role = "broken" -> <<>>
                  [] r.role = "answer" -> <<r>> \o res
                  [] r.role = "result" /\ own > 0 /\ rows[own].role \in {"answer", "broken"} -> <<>>
                  [] OTHER -> <<r>>
    BY DEF T!RecoveredRow
  <1>2. CASE r.role = "broken"
    BY <1>1, <1>2, WholeNothing
  <1>3. CASE r.role = "answer"
    <2>1. ASSUME NEW c \in ToolCalls
          PROVE  Answer(c) \in Rows /\ Answer(c).role = "result" /\ Answer(c).calls = <<c>>
      <3>1. CASE mine(c) = {}
        BY <3>1, ClosedIs
      <3>2. CASE mine(c) # {}
        <4>1. PICK j : j = CHOOSE h \in mine(c) : TRUE
          OBVIOUS
        <4>2. j \in mine(c) /\ Answer(c) = rows[j]
          BY <3>2, <4>1
        <4>3. j \in 1..Len(rows) /\ rows[j].role = "result" /\ rows[j].calls = <<c>>
          BY <1>0, <4>2
        <4> QED
          BY <1>0, <4>2, <4>3
      <3> QED
        BY <3>1, <3>2
    <2>2. block = <<r>> \o res
      BY <1>1, <1>3
    <2> HIDE DEF Answer, r
    <2>3. \A k \in 1..Len(r.calls) : r.calls[k] \in ToolCalls
      BY <1>0
    <2>4. /\ res \in Seq(Rows) /\ Len(res) = Len(r.calls)
          /\ \A k \in 1..Len(res) : res[k].role = "result" /\ res[k].calls = <<r.calls[k]>>
      BY <1>0, <2>1, <2>3
    <2> QED
      BY <1>0, <1>3, <2>2, <2>4, WholeAnswer
  <1>4. CASE r.role = "result"
    <2>1. own > 0 /\ rows[own].role = "answer"
      BY <1>0, <1>4, OwnerIs
    <2>2. block = <<>>
      BY <1>1, <1>4, <2>1
    <2> QED
      BY <2>2, WholeNothing
  <1>5. CASE r.role \notin {"broken", "answer", "result"}
    <2>1. block = <<r>>
      BY <1>1, <1>5
    <2> QED
      BY <1>0, <1>5, <2>1, WholeOne
  <1> QED
    BY <1>2, <1>3, <1>4, <1>5

LEMMA RecoveredWhole ==
  ASSUME NEW rows \in Seq(Rows), Attached(rows), NEW fails
  PROVE  T!Recovered(rows, fails) \in Seq(Rows) /\ Whole(T!Recovered(rows, fails))
  <1> DEFINE b == [i \in 1..Len(rows) |-> T!RecoveredRow(rows, i, fails)]
  <1>1. T!Recovered(rows, fails) = T!FlattenSeq(b)
    BY DEF T!Recovered
  <1>2. Len(rows) \in Nat /\ Len(b) = Len(rows) /\ (Len(b) = 0 => b = <<>>)
    OBVIOUS
  <1>3. \A i \in 1..Len(b) : b[i] \in Seq(Rows) /\ Whole(b[i])
    BY <1>2, RecoveredRowWhole
  <1> HIDE DEF b
  <1> QED
    BY <1>1, <1>2, <1>3, FlattenedWhole

-----------------------------------------------------------------------------
(* The fold begins at a row of the user.                                   *)
HasUser(rows) == \E i \in 1..Len(rows) : T!IsUser(rows[i])

Folds(rows, f) ==
  /\ f.told \in SUBSET ToolCalls
  /\ f.from = 1 \/ (f.from \in 1..Len(rows) /\ T!IsUser(rows[f.from]))

LEMMA BoundaryIs ==
  ASSUME NEW rows \in Seq(Rows), HasUser(rows)
  PROVE  T!Boundary(rows) \in 1..Len(rows) /\ T!IsUser(rows[T!Boundary(rows)])
  <1> DEFINE X == {i \in 1..Len(rows) : T!IsUser(rows[i])}
             Is(i) == T!IsUser(rows[i]) /\ \A j \in (i + 1)..Len(rows) : ~T!IsUser(rows[j])
  <1>1. \E i \in 1..Len(rows) : Is(i)
    <2>1. X \in SUBSET (0..Len(rows)) /\ X # {} /\ Len(rows) \in Nat
      BY DEF HasUser
    <2>2. PICK i \in X : \A j \in X : i >= j
      <3> HIDE DEF X
      <3> QED
        BY <2>1, Greatest
    <2>3. ASSUME NEW j \in (i + 1)..Len(rows) PROVE ~T!IsUser(rows[j])
      <3>1. j \in 1..Len(rows) /\ ~(i >= j)
        BY <2>1, <2>2
      <3>2. j \notin X
        BY <2>2, <3>1
      <3> QED
        BY <3>1, <3>2
    <2> QED
      BY <2>2, <2>3
  <1>2. T!Boundary(rows) = CHOOSE i \in 1..Len(rows) : Is(i)
    BY DEF T!Boundary
  <1> QED
    BY <1>1, <1>2

LEMMA FoldedFolds ==
  ASSUME NEW rows \in Seq(Rows), HasUser(rows), NEW f, Folds(rows, f)
  PROVE  Folds(rows, T!Folded(rows, f))
  <1> DEFINE b == T!Boundary(rows)
             gone == SubSeq(rows, f.from, b - 1)
  <1>1. b \in 1..Len(rows) /\ T!IsUser(rows[b]) /\ Len(rows) \in Nat
    BY BoundaryIs
  <1>2. f.from \in Nat /\ f.from >= 1
    BY DEF Folds
  <1> HIDE DEF b
  <1>3. gone \in Seq(Rows)
    <2>1. \A i \in f.from..(b - 1) : rows[i] \in Rows
      <3> SUFFICES ASSUME NEW i \in f.from..(b - 1) PROVE rows[i] \in Rows
        OBVIOUS
      <3>1. i \in 1..Len(rows)
        BY <1>1, <1>2
      <3> QED
        BY <3>1
    <2>2. b - 1 \in Int /\ f.from \in Int
      BY <1>1, <1>2
    <2> QED
      BY <2>1, <2>2, SubSeqProperties
  <1>4. T!Told(gone) \subseteq ToolCalls
    BY <1>3, ToldCalls
  <1>5. T!Folded(rows, f) = [from |-> b, told |-> f.told \cup T!Told(gone)]
    BY DEF T!Folded, b
  <1> QED
    BY <1>1, <1>4, <1>5 DEF Folds

LEMMA UserIsPlain ==
  ASSUME NEW r, T!IsUser(r)
  PROVE  r.role \notin {"answer", "result"}
  BY DEF T!IsUser

(* What a request carries is whole, and a checkpoint of it keeps results   *)
(* with their answers.                                                     *)
LEMMA ViewWhole ==
  ASSUME NEW rows \in Seq(Rows), NEW f, Folds(rows, f), Whole(rows)
  PROVE  T!View(rows, f) \in Seq(Rows) /\ Whole(T!View(rows, f))
  <1>1. CASE f.from = 1
    BY <1>1 DEF T!View
  <1>2. CASE f.from # 1
    <2>1. f.from \in 1..Len(rows) /\ rows[f.from].role # "result" /\ f.told \in SUBSET ToolCalls
      BY <1>2, UserIsPlain DEF Folds
    <2>2. SubSeq(rows, f.from, Len(rows)) \in Seq(Rows) /\ Whole(SubSeq(rows, f.from, Len(rows)))
      BY <2>1, WholeFrom
    <2>3. T!Summary(f.told) \in Rows /\ T!Summary(f.told).role = "summary"
      BY <2>1, RowTypes
    <2>4. <<T!Summary(f.told)>> \in Seq(Rows) /\ Whole(<<T!Summary(f.told)>>)
      BY <2>3, WholeOne
    <2>5. T!View(rows, f) = <<T!Summary(f.told)>> \o SubSeq(rows, f.from, Len(rows))
      BY <1>2 DEF T!View
    <2> QED
      BY <2>2, <2>4, <2>5, WholeJoined
  <1> QED
    BY <1>1, <1>2

LEMMA ViewAttached ==
  ASSUME NEW rows \in Seq(Rows), NEW f, Folds(rows, f), Attached(rows)
  PROVE  T!View(rows, f) \in Seq(Rows) /\ Attached(T!View(rows, f))
  <1>1. CASE f.from = 1
    BY <1>1 DEF T!View
  <1>2. CASE f.from # 1
    <2>1. f.from \in 1..Len(rows) /\ rows[f.from].role # "result" /\ f.told \in SUBSET ToolCalls
      BY <1>2, UserIsPlain DEF Folds
    <2>2. SubSeq(rows, f.from, Len(rows)) \in Seq(Rows) /\ Attached(SubSeq(rows, f.from, Len(rows)))
      <3>1. f.from \in 1..(Len(rows) + 1)
        BY <2>1
      <3> QED
        BY <2>1, <3>1, AttachedFrom
    <2>3. T!Summary(f.told) \in Rows /\ T!Summary(f.told).role = "summary"
      BY <2>1, RowTypes
    <2>4. T!View(rows, f) = <<T!Summary(f.told)>> \o SubSeq(rows, f.from, Len(rows))
      BY <1>2 DEF T!View
    <2> QED
      BY <2>2, <2>3, <2>4, AttachedAfter
  <1> QED
    BY <1>1, <1>2

(* The leader's checkpoint drops whole batches.                            *)
LEMMA CappedAttached ==
  ASSUME NEW rows \in Seq(Rows), Attached(rows)
  PROVE  /\ T!Capped(<<T!User("request")>>, rows) \in Seq(Rows)
         /\ Attached(T!Capped(<<T!User("request")>>, rows))
  <1> DEFINE pinned == <<T!User("request")>>
             n == Len(rows)
             Fits(c) == Len(pinned) + (n + 1 - c) + (IF c > 1 THEN 1 ELSE 0) <= CheckpointRows
             Cuts == {c \in T!Starts(rows) \cup {1, n + 1} : Fits(c) \/ c = n + 1}
             cut == CHOOSE c \in Cuts : \A d \in Cuts : c <= d
             last == CHOOSE i \in T!Starts(rows) \cup {1} : \A j \in T!Starts(rows) : j <= i
             gone == IF cut = n + 1 /\ last > 1 THEN last ELSE cut
             told == T!Told(SubSeq(rows, 1, gone - 1))
             body == SubSeq(rows, cut, n)
  <1>1. T!Capped(pinned, rows) = pinned \o body \o (IF cut > 1 THEN <<T!Summary(told)>> ELSE <<>>)
    BY DEF T!Capped
  <1>2. n \in Nat /\ T!Starts(rows) \in SUBSET (1..n)
    BY DEF T!Starts
  <1>3. cut \in Cuts
    <2>1. Cuts \in SUBSET Nat /\ n + 1 \in Cuts
      BY <1>2
    <2> HIDE DEF Cuts
    <2>2. \E c \in Cuts : \A d \in Cuts : c <= d
      BY <2>1, Least
    <2> QED
      BY <2>2
  <1> HIDE DEF Fits, cut
  <1>4. cut \in 1..(n + 1) /\ (cut <= n => cut \in T!Starts(rows) \cup {1})
    BY <1>2, <1>3
  <1>5. last \in T!Starts(rows) \cup {1}
    <2> DEFINE X == T!Starts(rows) \cup {1}
    <2>1. X \in SUBSET (0..(n + 1)) /\ X # {} /\ n + 1 \in Nat
      BY <1>2
    <2> HIDE DEF X
    <2>2. \E i \in X : \A j \in X : i >= j
      BY <2>1, Greatest
    <2>3. \E i \in X : \A j \in T!Starts(rows) : j <= i
      <3>1. PICK i \in X : \A j \in X : i >= j
        BY <2>2
      <3>2. \A j \in T!Starts(rows) : j \in X
        BY DEF X
      <3>3. \A j \in X : j \in Int
        BY <2>1
      <3> QED
        BY <3>1, <3>2, <3>3
    <2> QED
      BY <2>3 DEF X
  <1> HIDE DEF last, n
  <1>6. gone - 1 \in 0..n
    BY <1>2, <1>4, <1>5
  <1> HIDE DEF gone
  <1>7. told \subseteq ToolCalls
    <2>1. \A i \in 1..(gone - 1) : rows[i] \in Rows
      BY <1>2, <1>6 DEF n
    <2>2. gone - 1 \in Int
      BY <1>2, <1>6
    <2>3. SubSeq(rows, 1, gone - 1) \in Seq(Rows)
      BY <2>1, <2>2, SubSeqProperties
    <2> QED
      BY <2>3, ToldCalls
  <1>8. body \in Seq(Rows) /\ Attached(body)
    <2>1. cut <= n => rows[cut].role # "result"
      <3>1. CASE cut = 1
        BY <3>1, <1>2 DEF Attached, n
      <3>2. CASE cut \in T!Starts(rows)
        <4>1. cut = 1 \/ rows[cut].role # "result"
          BY <3>2 DEF T!Starts
        <4> QED
          BY <4>1, <3>1
      <3> QED
        BY <1>4, <3>1, <3>2
    <2> QED
      BY <1>4, <2>1, AttachedFrom DEF n
  <1>9. T!User("request") \in Rows /\ T!User("request").role = "request"
    <2>1. "request" \in Plain
      BY DEF Plain
    <2> QED
      BY <2>1, RowTypes
  <1> HIDE DEF body, told
  <1>10. pinned \o body \in Seq(Rows) /\ Attached(pinned \o body)
    BY <1>8, <1>9, AttachedAfter
  <1> HIDE DEF pinned
  <1>11. CASE cut > 1
    <2>1. T!Summary(told) \in Rows /\ T!Summary(told).role = "summary"
      BY <1>7, RowTypes
    <2>2. T!Capped(pinned, rows) = Append(pinned \o body, T!Summary(told))
      <3>1. T!Capped(pinned, rows) = (pinned \o body) \o <<T!Summary(told)>>
        BY <1>1, <1>11
      <3> QED
        BY <1>10, <2>1, <3>1, AppendIsConcat
    <2> QED
      BY <1>10, <2>1, <2>2, AttachedMore DEF pinned
  <1>12. CASE ~(cut > 1)
    <2>1. T!Capped(pinned, rows) = pinned \o body
      BY <1>1, <1>10, <1>12, ConcatEmptySeq
    <2> QED
      BY <1>10, <2>1 DEF pinned
  <1> QED
    BY <1>11, <1>12

LEMMA KeptAttached ==
  ASSUME NEW rows \in Seq(Rows), Attached(rows)
  PROVE  T!Kept(rows) \in Seq(Rows) /\ Attached(T!Kept(rows))
  <1>1. CASE t_kind = "chat"
    BY <1>1 DEF T!Kept
  <1>2. CASE t_kind # "chat"
    <2> DEFINE b == [i \in 1..Len(rows) |-> IF rows[i].role = "request" THEN <<>> ELSE <<rows[i]>>]
               rest == T!FlattenSeq(b)
    <2>1. rest \in Seq(Rows) /\ Attached(rest)
      BY FlattenedAttached
    <2>2. T!Kept(rows) = T!Capped(<<T!User("request")>>, rest)
      BY <1>2 DEF T!Kept, T!Pinned
    <2> HIDE DEF rest
    <2> QED
      BY <2>1, <2>2, CappedAttached
  <1> QED
    BY <1>1, <1>2

-----------------------------------------------------------------------------
(* The invariant.  While the engine asks, its rows are whole; while calls  *)
(* run, they owe the calls that are left; the checkpoint has come apart at *)
(* most after its last row.                                                *)
PairInv ==
  /\ t_live \in Seq(Rows) /\ t_saved \in Seq(Rows) /\ t_sent \in Seq(Rows) /\ t_left \in Seq(ToolCalls)
  /\ Folds(t_live, t_fold)
  /\ Attached(t_saved)
  /\ t_pc \in {"ask", "think"} => Whole(t_live)
  /\ t_pc = "tools" => Owes(t_live, t_left)
  /\ t_pc = "settle" /\ t_live[Len(t_live)].role = "text" => Whole(t_live)
  /\ t_pc \in {"ask", "think", "tools", "settle"} => HasUser(t_live)
  /\ Whole(t_sent)

LEMMA WholeAttached == ASSUME NEW rows \in Seq(Rows), Whole(rows) PROVE Attached(rows)
  BY OwesAttached DEF Whole

LEMMA MoreRows ==
  ASSUME NEW rows \in Seq(Rows), NEW r \in Rows, NEW f
  PROVE  /\ HasUser(rows) => HasUser(Append(rows, r))
         /\ Folds(rows, f) => Folds(Append(rows, r), f)
         /\ T!IsUser(r) => HasUser(Append(rows, r))
         /\ Append(rows, r)[Len(Append(rows, r))] = r
  <1> DEFINE new == Append(rows, r)
  <1>1. /\ Len(new) = Len(rows) + 1 /\ Len(rows) \in Nat
        /\ \A i \in 1..Len(rows) : new[i] = rows[i]
        /\ new[Len(rows) + 1] = r
    BY AppendProperties
  <1> HIDE DEF new
  <1>2. \A i \in 1..Len(rows) : i \in 1..Len(new)
    BY <1>1
  <1>3. HasUser(rows) => HasUser(new)
    BY <1>1, <1>2 DEF HasUser
  <1>4. Folds(rows, f) => Folds(new, f)
    BY <1>1, <1>2 DEF Folds
  <1>5. Len(new) \in 1..Len(new) /\ new[Len(new)] = r
    BY <1>1
  <1>6. T!IsUser(r) => HasUser(new)
    BY <1>5 DEF HasUser
  <1> QED
    BY <1>3, <1>4, <1>5, <1>6 DEF new

LEMMA PairEnds ==
  ASSUME PairInv, NEW row \in Rows, NEW next \in {"ask", "tools", "settle"}, T!Ends(row, next),
         UNCHANGED <<t_fold, t_sent>>, t_left' \in Seq(ToolCalls), HasUser(t_live),
         Attached(Append(t_live, row)),
         next = "ask" => Whole(Append(t_live, row)),
         next = "tools" => Owes(Append(t_live, row), t_left'),
         row.role = "text" => Whole(Append(t_live, row))
  PROVE  PairInv'
  <1>1. t_live' = Append(t_live, row) /\ t_live' \in Seq(Rows)
    BY AppendProperties DEF T!Ends, PairInv
  <1>2. Folds(t_live', t_fold) /\ HasUser(t_live') /\ t_live'[Len(t_live')] = row
    BY <1>1, MoreRows DEF PairInv
  <1>3. t_saved' \in Seq(Rows) /\ Attached(t_saved')
    <2>1. T!View(t_live', t_fold) \in Seq(Rows) /\ Attached(T!View(t_live', t_fold))
      BY <1>1, <1>2, ViewAttached
    <2>2. T!Kept(T!View(t_live', t_fold)) \in Seq(Rows) /\ Attached(T!Kept(T!View(t_live', t_fold)))
      BY <2>1, KeptAttached
    <2>3. t_saved' = T!Kept(T!View(t_live', t_fold)) \/ t_saved' = t_saved
      BY DEF T!Ends
    <2> QED
      BY <2>2, <2>3 DEF PairInv
  <1>4. t_pc' = next \/ t_pc' = "settle"
    BY DEF T!Ends
  <1>5. /\ t_pc' \in {"ask", "think"} => Whole(t_live')
        /\ t_pc' = "tools" => Owes(t_live', t_left')
        /\ t_live'[Len(t_live')].role = "text" => Whole(t_live')
    BY <1>1, <1>2, <1>4
  <1> QED
    BY <1>1, <1>2, <1>3, <1>5 DEF PairInv

LEMMA PairPlain ==
  ASSUME PairInv, NEW row \in Rows, row.role \in Plain, Whole(t_live), HasUser(t_live),
         NEW next \in {"ask", "settle"}, T!Ends(row, next), UNCHANGED <<t_fold, t_sent, t_left>>
  PROVE  PairInv'
  <1>1. row.role \notin {"answer", "result"}
    BY DEF Plain
  <1>2. t_live \in Seq(Rows) /\ t_left' \in Seq(ToolCalls)
    BY DEF PairInv
  <1>3. Append(t_live, row) \in Seq(Rows) /\ Whole(Append(t_live, row))
    BY <1>1, <1>2, PlainRow
  <1>4. Attached(Append(t_live, row))
    BY <1>3, WholeAttached
  <1> QED
    BY <1>2, <1>3, <1>4, PairEnds

LEMMA PairResult ==
  ASSUME PairInv, t_pc = "tools", t_left # <<>>, NEW row \in Rows, row.role = "result",
         row.calls = <<Head(t_left)>>
  PROVE  /\ t_left \in Seq(ToolCalls) /\ Head(t_left) \in ToolCalls
         /\ Tail(t_left) \in Seq(ToolCalls) /\ (~(Len(t_left) > 1) => Tail(t_left) = <<>>)
         /\ Append(t_live, row) \in Seq(Rows) /\ Owes(Append(t_live, row), Tail(t_left))
         /\ Attached(Append(t_live, row)) /\ HasUser(t_live)
  <1>1. t_left \in Seq(ToolCalls) /\ t_live \in Seq(Rows) /\ Owes(t_live, t_left) /\ HasUser(t_live)
    BY DEF PairInv
  <1>2. Head(t_left) \in ToolCalls /\ Tail(t_left) \in Seq(ToolCalls) /\ Len(Tail(t_left)) = Len(t_left) - 1
    BY <1>1, HeadTailProperties
  <1>3. ~(Len(t_left) > 1) => Tail(t_left) = <<>>
    <2>1. Len(t_left) \in Nat /\ (Tail(t_left) # <<>> => Len(Tail(t_left)) \in Nat \ {0})
      BY <1>1, <1>2, EmptySeq
    <2> QED
      BY <1>2, <2>1
  <1>4. Append(t_live, row) \in Seq(Rows) /\ Owes(Append(t_live, row), Tail(t_left))
    BY <1>1, ResultRow
  <1>5. Attached(Append(t_live, row))
    BY <1>4, OwesAttached
  <1> QED
    BY <1>1, <1>2, <1>3, <1>4, <1>5

LEMMA PairReturned ==
  ASSUME PairInv, t_pc = "tools", t_left # <<>>, NEW says \in Says, NEW body \in Bodies,
         T!Returned(Head(t_left), says, body), UNCHANGED <<t_fold, t_sent>>
  PROVE  PairInv'
  <1> DEFINE row == T!Result(Head(t_left), says, body)
             next == IF Len(t_left) > 1 THEN "tools" ELSE "ask"
  <1>0. Head(t_left) \in ToolCalls
    <2>1. t_left \in Seq(ToolCalls)
      BY DEF PairInv
    <2> QED
      BY <2>1, HeadTailProperties
  <1>1. row \in Rows /\ row.role = "result" /\ row.calls = <<Head(t_left)>>
    BY <1>0, RowTypes
  <1>2. t_left' = Tail(t_left) /\ T!Ends(row, next)
    BY DEF T!Returned
  <1> HIDE DEF row
  <1>3. /\ Tail(t_left) \in Seq(ToolCalls) /\ (~(Len(t_left) > 1) => Tail(t_left) = <<>>)
        /\ Append(t_live, row) \in Seq(Rows) /\ Owes(Append(t_live, row), Tail(t_left))
        /\ Attached(Append(t_live, row)) /\ HasUser(t_live)
    BY <1>1, PairResult
  <1>4. /\ next = "ask" => Whole(Append(t_live, row))
        /\ next = "tools" => Owes(Append(t_live, row), t_left')
        /\ next \in {"ask", "tools", "settle"}
    BY <1>2, <1>3 DEF Whole
  <1> HIDE DEF next
  <1> QED
    BY <1>1, <1>2, <1>3, <1>4, PairEnds

-----------------------------------------------------------------------------
(* The steps.                                                              *)
LEMMA PairInit == T!Init => PairInv
  <1> SUFFICES ASSUME T!Init PROVE PairInv
    OBVIOUS
  <1>1. t_live = <<>> /\ t_saved = <<>> /\ t_sent = <<>> /\ t_left = <<>> /\ t_pc = "idle"
        /\ t_fold.from = 1 /\ t_fold.told = {}
    BY DEF T!Init, T!NoFold
  <1>2. <<>> \in Seq(ToolCalls)
    OBVIOUS
  <1> QED
    BY <1>1, <1>2, WholeNothing DEF PairInv, Folds

LEMMA PairBegins ==
  ASSUME PairInv, T!Begin
  PROVE  PairInv'
  <1> DEFINE n == MaxHistory + 1
             role(i) == IF i > MaxHistory THEN "request" ELSE "old"
             rows == [i \in 1..n |-> T!User(role(i))]
  <1>1. n \in Nat /\ n >= 1
    BY TranscriptOk DEF T!TranscriptAssumption
  <1>2. /\ t_live' = rows /\ t_saved' = T!Kept(rows)
        /\ t_pc' = "ask" /\ t_sent' = <<>> /\ t_left' = <<>> /\ t_fold' = T!NoFold
    BY DEF T!Begin, T!Fresh
  <1>3. ASSUME NEW i \in 1..n PROVE T!User(role(i)) \in Rows /\ T!User(role(i)).role \in {"old", "request"}
    <2>1. role(i) \in Plain /\ role(i) \in {"old", "request"}
      BY DEF Plain
    <2> HIDE DEF role
    <2> QED
      BY <2>1, RowTypes
  <1> HIDE DEF role
  <1>4. /\ rows \in Seq(Rows) /\ Len(rows) = n
        /\ \A i \in 1..n : rows[i].role \in {"old", "request"}
    BY <1>1, <1>3
  <1> HIDE DEF rows, n
  <1>5. Whole(rows)
    <2>1. 1..Len(<<>>) = {}
      OBVIOUS
    <2> QED
      BY <1>4, <2>1 DEF Whole, Owes, Met
  <1>6. HasUser(rows)
    <2>1. 1 \in 1..Len(rows) /\ rows[1].role \in {"old", "request"}
      BY <1>1, <1>4
    <2> QED
      BY <2>1 DEF HasUser, T!IsUser
  <1>7. T!Kept(rows) \in Seq(Rows) /\ Attached(T!Kept(rows))
    BY <1>4, <1>5, WholeAttached, KeptAttached
  <1>8. Folds(rows, T!NoFold) /\ <<>> \in Seq(ToolCalls)
    BY DEF Folds, T!NoFold
  <1> QED
    BY <1>2, <1>4, <1>5, <1>6, <1>7, <1>8, WholeNothing DEF PairInv

LEMMA PairAsks ==
  ASSUME PairInv, T!Ask \/ T!AskFolded \/ T!CannotAsk
  PROVE  PairInv'
  <1>1. t_live' = t_live /\ t_pc = "ask" /\ t_left' = t_left
    BY DEF T!Ask, T!AskFolded, T!CannotAsk, T!Unchanged
  <1>2. Whole(t_live) /\ HasUser(t_live) /\ t_live \in Seq(Rows) /\ Folds(t_live, t_fold)
    BY <1>1 DEF PairInv
  <1>3. Folds(t_live, T!Folded(t_live, t_fold))
    BY <1>2, FoldedFolds
  <1>4. t_pc' \in {"ask", "think"} /\ (t_fold' = t_fold \/ t_fold' = T!Folded(t_live, t_fold))
    BY <1>1 DEF T!Ask, T!AskFolded, T!CannotAsk, T!Unchanged
  <1>5. Folds(t_live, t_fold')
    BY <1>2, <1>3, <1>4
  <1>6. T!View(t_live, t_fold') \in Seq(Rows) /\ Whole(T!View(t_live, t_fold'))
    BY <1>2, <1>5, ViewWhole
  <1>7. T!Kept(T!View(t_live, t_fold')) \in Seq(Rows) /\ Attached(T!Kept(T!View(t_live, t_fold')))
    BY <1>6, WholeAttached, KeptAttached
  <1>8. t_sent' = T!View(t_live, t_fold') \/ t_sent' = t_sent
    BY DEF T!Ask, T!AskFolded, T!CannotAsk, T!Unchanged
  <1>9. t_saved' = T!Kept(T!View(t_live, t_fold')) \/ t_saved' = t_saved
    BY DEF T!Ask, T!AskFolded, T!CannotAsk, T!Unchanged, T!Persisted
  <1>10. t_sent' \in Seq(Rows) /\ Whole(t_sent') /\ t_saved' \in Seq(Rows) /\ Attached(t_saved')
    BY <1>6, <1>7, <1>8, <1>9 DEF PairInv
  <1> QED
    BY <1>1, <1>2, <1>4, <1>5, <1>10 DEF PairInv

LEMMA PairAnswers ==
  ASSUME PairInv, T!Refuse \/ T!Speak \/ T!Break
  PROVE  PairInv'
  <1>1. /\ t_pc \in {"ask", "think"} /\ UNCHANGED <<t_fold, t_sent, t_left>>
        /\ \E role \in {"text", "broken"} : T!Ends(T!Row(role, <<>>, "", ""), "settle")
    BY DEF T!Refuse, T!Speak, T!Break, T!Unchanged
  <1>2. PICK role \in {"text", "broken"} : T!Ends(T!Row(role, <<>>, "", ""), "settle")
    BY <1>1
  <1> DEFINE row == T!Row(role, <<>>, "", "")
  <1>3. row \in Rows /\ row.role \in Plain
    BY <1>2, RowTypes DEF Plain
  <1>4. Whole(t_live) /\ HasUser(t_live)
    BY <1>1 DEF PairInv
  <1> HIDE DEF row
  <1> QED
    BY <1>1, <1>2, <1>3, <1>4, PairPlain DEF row

LEMMA PairClaims ==
  ASSUME PairInv, T!Claims
  PROVE  PairInv'
  <1>1. /\ t_pc = "settle" /\ t_live[Len(t_live)].role = "text" /\ UNCHANGED <<t_fold, t_sent, t_left>>
        /\ T!Ends(T!User("again"), "ask")
    BY DEF T!Claims, T!Unchanged
  <1>2. T!User("again") \in Rows /\ T!User("again").role \in Plain
    <2>1. "again" \in Plain
      BY DEF Plain
    <2> QED
      BY <2>1, RowTypes
  <1>3. Whole(t_live) /\ HasUser(t_live)
    BY <1>1 DEF PairInv
  <1> QED
    BY <1>1, <1>2, <1>3, PairPlain

LEMMA PairCalls ==
  ASSUME PairInv, T!Call
  PROVE  PairInv'
  <1>1. PICK n \in 1..2 : \E batch \in T!Batches(n) :
          T!Ends(T!Row("answer", batch, "", ""), "tools") /\ t_left' = batch
    BY DEF T!Call
  <1>2. PICK batch \in T!Batches(n) :
          T!Ends(T!Row("answer", batch, "", ""), "tools") /\ t_left' = batch
    BY <1>1
  <1>3. batch \in Seq(ToolCalls)
    <2>1. batch \in [1..n -> T!Ready]
      BY <1>2 DEF T!Batches
    <2>2. T!Ready \subseteq ToolCalls
      BY DEF T!Ready, T!Unused
    <2>3. batch \in [1..n -> ToolCalls]
      BY <2>1, <2>2
    <2> QED
      BY <2>3
  <1> DEFINE row == T!Row("answer", batch, "", "")
  <1>4. row \in Rows /\ row.role = "answer" /\ row.calls = batch
    BY <1>3, RowTypes
  <1>5. /\ t_pc = "think" /\ UNCHANGED <<t_fold, t_sent>>
        /\ Whole(t_live) /\ HasUser(t_live) /\ t_live \in Seq(Rows)
    BY DEF T!Call, T!Unchanged, PairInv
  <1> HIDE DEF row
  <1>6. Append(t_live, row) \in Seq(Rows) /\ Owes(Append(t_live, row), batch)
    BY <1>4, <1>5, AnswerRow
  <1>7. Attached(Append(t_live, row))
    BY <1>6, OwesAttached
  <1>8. T!Ends(row, "tools")
    BY <1>2 DEF row
  <1> QED
    BY <1>2, <1>3, <1>4, <1>5, <1>6, <1>7, <1>8, PairEnds

LEMMA PairReturns ==
  ASSUME PairInv, T!Return \/ T!ReturnUnsaved
  PROVE  PairInv'
  <1> DEFINE c == Head(t_left)
  <1>1. /\ t_pc = "tools" /\ t_left # <<>> /\ UNCHANGED <<t_fold, t_sent>>
        /\ \E fails \in BOOLEAN : t_live' = Append(t_live, T!Result(c, "done", T!Body(c, fails)))
    BY DEF T!Return, T!ReturnUnsaved
  <1>2. PICK fails \in BOOLEAN : t_live' = Append(t_live, T!Result(c, "done", T!Body(c, fails)))
    BY <1>1
  <1> DEFINE row == T!Result(c, "done", T!Body(c, fails))
  <1>3. row \in Rows /\ row.role = "result" /\ row.calls = <<c>>
    <2>1. c \in ToolCalls
      <3>1. t_left \in Seq(ToolCalls)
        BY DEF PairInv
      <3> QED
        BY <1>1, <3>1, HeadTailProperties
    <2>2. "done" \in Says /\ T!Body(c, fails) \in Bodies
      BY BodyIs DEF Says
    <2> HIDE DEF c
    <2> QED
      BY <2>1, <2>2, RowTypes
  <1> HIDE DEF row
  <1>4. /\ Tail(t_left) \in Seq(ToolCalls) /\ (~(Len(t_left) > 1) => Tail(t_left) = <<>>)
        /\ Append(t_live, row) \in Seq(Rows) /\ Owes(Append(t_live, row), Tail(t_left))
        /\ Attached(Append(t_live, row)) /\ HasUser(t_live)
    BY <1>1, <1>3, PairResult DEF c
  <1>5. t_live' = Append(t_live, row)
    BY <1>2 DEF row
  <1>6. Folds(t_live', t_fold) /\ HasUser(t_live') /\ t_live'[Len(t_live')] = row
    BY <1>3, <1>4, <1>5, MoreRows DEF PairInv
  <1>7. T!Kept(T!View(t_live', t_fold)) \in Seq(Rows) /\ Attached(T!Kept(T!View(t_live', t_fold)))
    BY <1>4, <1>5, <1>6, ViewAttached, KeptAttached
  <1>8. /\ t_saved' \in Seq(Rows) /\ Attached(t_saved') /\ t_left' \in Seq(ToolCalls)
        /\ t_pc' \in {"tools", "ask", "settle"}
        /\ t_pc' = "tools" => Owes(t_live', t_left')
        /\ t_pc' = "ask" => Whole(t_live')
    <2>1. CASE T!Return
      <3>1. /\ t_left' = Tail(t_left) /\ t_saved' = T!Kept(T!View(t_live', t_fold))
            /\ t_pc' = IF Len(t_left) > 1 THEN "tools" ELSE "ask"
        BY <2>1 DEF T!Return
      <3> QED
        BY <1>4, <1>5, <1>7, <3>1 DEF Whole
    <2>2. CASE T!ReturnUnsaved
      <3>1. t_left' = <<>> /\ t_saved' = t_saved /\ t_pc' = "settle"
        BY <2>2 DEF T!ReturnUnsaved
      <3>2. <<>> \in Seq(ToolCalls)
        OBVIOUS
      <3> QED
        BY <3>1, <3>2 DEF PairInv
    <2> QED
      BY <2>1, <2>2
  <1> QED
    BY <1>1, <1>3, <1>4, <1>5, <1>6, <1>8 DEF PairInv

LEMMA PairReturnsNothing ==
  ASSUME PairInv, T!ReturnNothing
  PROVE  PairInv'
  <1>1. /\ t_pc = "tools" /\ t_left # <<>> /\ UNCHANGED <<t_fold, t_sent>>
        /\ T!Returned(Head(t_left), "unknown", "whole") \/ T!Returned(Head(t_left), "not_executed", "whole")
    BY DEF T!ReturnNothing
  <1>2. "unknown" \in Says /\ "not_executed" \in Says /\ "whole" \in Bodies
    BY DEF Says, Bodies
  <1> QED
    BY <1>1, <1>2, PairReturned

LEMMA PairRests ==
  ASSUME PairInv, T!Finish \/ T!Fail \/ T!Crash
  PROVE  PairInv'
  <1>1. /\ t_live' = <<>> /\ t_sent' = <<>> /\ t_left' = <<>> /\ t_fold' = T!NoFold /\ t_saved' = t_saved
        /\ t_pc' \in {"finished", "refused", "down"}
    BY DEF T!Finish, T!Fail, T!Crash, T!Rest
  <1>2. <<>> \in Seq(ToolCalls) /\ Folds(<<>>, T!NoFold)
    BY DEF Folds, T!NoFold
  <1> QED
    BY <1>1, <1>2, WholeNothing DEF PairInv

LEMMA PairResumes ==
  ASSUME PairInv, T!Resume
  PROVE  PairInv'
  <1> DEFINE base == T!Kept(t_saved)
             again == T!User("again")
  <1>1. PICK fails \in BOOLEAN :
          t_live' = Append(T!Recovered(base, fails), again) /\ t_saved' = T!Kept(t_live')
    BY DEF T!Resume
  <1>2. t_pc' = "ask" /\ t_sent' = <<>> /\ t_left' = <<>> /\ t_fold' = T!NoFold
    BY DEF T!Resume, T!Fresh
  <1>3. base \in Seq(Rows) /\ Attached(base)
    BY KeptAttached DEF PairInv
  <1> HIDE DEF base
  <1> DEFINE rows == T!Recovered(base, fails)
  <1>4. rows \in Seq(Rows) /\ Whole(rows)
    BY <1>3, RecoveredWhole
  <1>5. again \in Rows /\ again.role = "again"
    <2>1. "again" \in Plain
      BY DEF Plain
    <2> QED
      BY <2>1, RowTypes
  <1>6. t_live' = Append(rows, again)
    BY <1>1
  <1> HIDE DEF rows, again
  <1>7. t_live' \in Seq(Rows) /\ Whole(t_live')
    BY <1>4, <1>5, <1>6, PlainRow
  <1>8. HasUser(t_live')
    <2>1. T!IsUser(again)
      BY <1>5 DEF T!IsUser
    <2> QED
      BY <1>4, <1>5, <1>6, <2>1, MoreRows
  <1>9. t_saved' \in Seq(Rows) /\ Attached(t_saved')
    BY <1>1, <1>7, WholeAttached, KeptAttached
  <1>10. Folds(t_live', T!NoFold) /\ <<>> \in Seq(ToolCalls)
    BY DEF Folds, T!NoFold
  <1> QED
    BY <1>2, <1>7, <1>8, <1>9, <1>10, WholeNothing DEF PairInv

LEMMA PairNext == PairInv /\ [T!Next]_(T!vars) => PairInv'
  <1> SUFFICES ASSUME PairInv, [T!Next]_(T!vars)
               PROVE  PairInv'
    OBVIOUS
  <1>1. CASE UNCHANGED T!vars
    BY <1>1 DEF T!vars, PairInv
  <1>2. CASE T!Start
    BY <1>2 DEF T!Start, PairInv
  <1> QED
    BY <1>1, <1>2, PairBegins, PairAsks, PairAnswers, PairClaims, PairCalls, PairReturns,
       PairReturnsNothing, PairRests, PairResumes DEF T!Next

THEOREM PairInvariant == T!Spec => []PairInv
  BY PairInit, PairNext, PTL DEF T!Spec

(* Every request the provider gets answers each call once, right after the *)
(* message that made it, and holds no result without its call, whatever    *)
(* was folded, dropped, broken off or recovered (engine.ts).               *)
THEOREM EveryCallIsAnswered == T!Spec => []Paired
  <1>1. PairInv => Paired
    <2> SUFFICES ASSUME PairInv PROVE Paired
      OBVIOUS
    <2>1. t_sent \in Seq(Rows) /\ Whole(t_sent)
      BY DEF PairInv
    <2> QED
      BY <2>1, WholeIsPaired DEF Paired, T!Paired
  <1> QED
    BY <1>1, PairInvariant, PTL
=============================================================================
