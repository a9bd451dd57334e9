------------------------------ MODULE StateLock ------------------------------
(***************************************************************************)
(* The two lock files of a state directory (src/storage/lock.ts): the      *)
(* compatibility file, taken first, that older installations also take,    *)
(* and the primary one.  A file is a path that may name an inode; flock    *)
(* belongs to the inode, so a path that was unlinked and created again is  *)
(* another lock.  Every system call is a step of its own.                  *)
(*                                                                         *)
(* Services acquire both files, Old stands for installations that know     *)
(* only the compatibility file, Probes run inspectStateLock.               *)
(***************************************************************************)
EXTENDS Naturals, FiniteSets

CONSTANTS Services, Old, Probes, Inodes, None,
          MaxAttempts   \* acquireLockFile gives up after so many rounds

ASSUME LockAssumption ==
    /\ Services \cap Old = {} /\ (Services \cup Old) \cap Probes = {}
    /\ None \notin Services \cup Old \cup Probes \cup Inodes
    /\ MaxAttempts \in Nat \ {0}

Procs == Services \cup Old
All   == Procs \cup Probes
Files == {"herdr-agent.pid", "myrix.pid"}
Legacy  == "herdr-agent.pid"
Primary == "myrix.pid"

VARIABLES
    path,     \* path[f]: the inode the name refers to, or None
    flock,    \* flock[n]: the process that holds the lock of inode n, or None
    phase,    \* phase[p]: the system call p makes next
    file,     \* file[p]: the file that call is about
    fd,       \* fd[p]: the inode p has open and does not hold for good
    kept,     \* kept[p][f]: the inode p holds for file f, or None
    tries,    \* tries[p]: rounds of the loop in acquireLockFile
    verdict,  \* verdict[p][f]: what a probe found out about f
    calm      \* calm[p]: at some time since p began to probe nobody served

vars == <<path, flock, phase, file, fd, kept, tries, verdict, calm>>
fs   == <<path, flock>>

Phases == {"off", "open", "lock", "compare", "serving",
           "stat", "unlink", "unlock"}
Verdicts == {"locked", "unlocked", "unknown"}

TypeOK ==
    /\ path \in [Files -> Inodes \cup {None}]
    /\ flock \in [Inodes -> All \cup {None}]
    /\ phase \in [All -> Phases]
    /\ file \in [All -> Files]
    /\ fd \in [All -> Inodes \cup {None}]
    /\ kept \in [All -> [Files -> Inodes \cup {None}]]
    /\ tries \in [All -> 0..MaxAttempts]
    /\ verdict \in [Probes -> [Files -> Verdicts]]
    /\ calm \in [Probes -> BOOLEAN]

Init ==
    /\ path = [f \in Files |-> None]
    /\ flock = [n \in Inodes |-> None]
    /\ phase = [p \in All |-> "off"]
    /\ file = [p \in All |-> Legacy]
    /\ fd = [p \in All |-> None]
    /\ kept = [p \in All |-> [f \in Files |-> None]]
    /\ tries = [p \in All |-> 0]
    /\ verdict = [p \in Probes |-> [f \in Files |-> "unknown"]]
    /\ calm = [p \in Probes |-> FALSE]

Serving(p) == phase[p] = "serving"

\* An inode lives as long as a name or an open descriptor refers to it.
InUse(n) ==
    \/ \E f \in Files : path[f] = n
    \/ \E p \in All : fd[p] = n \/ \E f \in Files : kept[p][f] = n

\* Closing a descriptor gives up the lock taken through it.
Unlocked(p) == [flock EXCEPT ![fd[p]] = IF @ = p THEN None ELSE @]

Goto(p, ph, f) ==
    /\ phase' = [phase EXCEPT ![p] = ph]
    /\ file' = [file EXCEPT ![p] = f]

\* The history of the probes under way: nobody serves after this step.
Stay ==
    /\ UNCHANGED verdict
    /\ calm' = [q \in Probes |->
                  \/ calm[q]
                  \/ phase[q] # "off" /\ \A p \in Procs : phase'[p] # "serving"]
-----------------------------------------------------------------------------
(* acquireLock *)

Start(p) ==
    /\ phase[p] = "off"
    /\ Goto(p, "open", Legacy)
    /\ tries' = [tries EXCEPT ![p] = 0]
    /\ UNCHANGED <<fs, fd, kept>> /\ Stay

\* open(O_CREAT | O_RDWR): the inode behind the name, made if need be.
Open(p) ==
    /\ phase[p] = "open"
    /\ \/ /\ path[file[p]] # None
          /\ fd' = [fd EXCEPT ![p] = path[file[p]]]
          /\ UNCHANGED path
       \/ /\ path[file[p]] = None
          /\ \E n \in Inodes :
                /\ ~InUse(n)
                /\ path' = [path EXCEPT ![file[p]] = n]
                /\ fd' = [fd EXCEPT ![p] = n]
    /\ Goto(p, "lock", file[p])
    /\ UNCHANGED <<flock, kept, tries>> /\ Stay

\* What is held is released, latest first; a process that holds nothing ends.
BackOut(p) ==
    IF kept[p][Primary] # None THEN Goto(p, "stat", Primary)
    ELSE IF kept[p][Legacy] # None THEN Goto(p, "stat", Legacy)
    ELSE Goto(p, "off", Legacy)

\* flock(LOCK_EX | LOCK_NB) succeeds.
Lock(p) ==
    /\ phase[p] = "lock"
    /\ flock[fd[p]] = None
    /\ flock' = [flock EXCEPT ![fd[p]] = p]
    /\ Goto(p, "compare", file[p])
    /\ UNCHANGED <<path, fd, kept, tries>> /\ Stay

\* EWOULDBLOCK: already_running.
Busy(p) ==
    /\ phase[p] = "lock"
    /\ flock[fd[p]] # None
    /\ fd' = [fd EXCEPT ![p] = None]
    /\ BackOut(p)
    /\ UNCHANGED <<fs, kept, tries>> /\ Stay

\* Mutants: one round too many; the descriptor is not closed.
ReplacedOnceMore(p) ==
    /\ phase[p] = "compare"
    /\ path[file[p]] # fd[p]
    /\ flock' = Unlocked(p)
    /\ fd' = [fd EXCEPT ![p] = None]
    /\ tries' = [tries EXCEPT ![p] = @ + 1]
    /\ IF tries[p] < MaxAttempts THEN Goto(p, "open", file[p])
                                 ELSE BackOut(p)
    /\ UNCHANGED <<path, kept>> /\ Stay

ReplacedLeaks(p) ==
    /\ phase[p] = "compare"
    /\ path[file[p]] # fd[p]
    /\ fd' = [fd EXCEPT ![p] = None]
    /\ tries' = [tries EXCEPT ![p] = @ + 1]
    /\ IF tries[p] + 1 < MaxAttempts THEN Goto(p, "open", file[p])
                                     ELSE BackOut(p)
    /\ UNCHANGED <<path, flock, kept>> /\ Stay

\* The name was unlinked, or names another inode by now: close and try again.
Replaced(p) ==
    /\ phase[p] = "compare"
    /\ path[file[p]] # fd[p]
    /\ flock' = Unlocked(p)
    /\ fd' = [fd EXCEPT ![p] = None]
    /\ tries' = [tries EXCEPT ![p] = @ + 1]
    /\ IF tries[p] + 1 < MaxAttempts THEN Goto(p, "open", file[p])
                                     ELSE BackOut(p)
    /\ UNCHANGED <<path, kept>> /\ Stay

\* Mutant: the name is not compared with the locked inode.
HoldUnchecked(p) ==
    /\ phase[p] = "compare"
    /\ kept' = [kept EXCEPT ![p][file[p]] = fd[p]]
    /\ fd' = [fd EXCEPT ![p] = None]
    /\ tries' = [tries EXCEPT ![p] = 0]
    /\ IF p \in Services /\ file[p] = Legacy THEN Goto(p, "open", Primary)
                                             ELSE Goto(p, "serving", file[p])
    /\ UNCHANGED fs /\ Stay

\* The name still means the locked inode: the file is held for good.
Hold(p) ==
    /\ phase[p] = "compare"
    /\ path[file[p]] = fd[p]
    /\ kept' = [kept EXCEPT ![p][file[p]] = fd[p]]
    /\ fd' = [fd EXCEPT ![p] = None]
    /\ tries' = [tries EXCEPT ![p] = 0]
    /\ IF p \in Services /\ file[p] = Legacy THEN Goto(p, "open", Primary)
                                             ELSE Goto(p, "serving", file[p])
    /\ UNCHANGED fs /\ Stay
-----------------------------------------------------------------------------
(* release() *)

Quit(p) ==
    /\ Serving(p)
    /\ BackOut(p)
    /\ UNCHANGED <<fs, fd, kept, tries>> /\ Stay

\* Mutant: the lock is given up before the name is removed.
StatAndUnlock(p) ==
    /\ phase[p] = "stat"
    /\ IF path[file[p]] = kept[p][file[p]] THEN Goto(p, "unlink", file[p])
                                           ELSE Goto(p, "unlock", file[p])
    /\ flock' = [flock EXCEPT ![kept[p][file[p]]] = None]
    /\ UNCHANGED <<path, fd, kept, tries>> /\ Stay

\* stat: the name is removed only if it still means the held inode.
StatBeforeUnlink(p) ==
    /\ phase[p] = "stat"
    /\ IF path[file[p]] = kept[p][file[p]] THEN Goto(p, "unlink", file[p])
                                           ELSE Goto(p, "unlock", file[p])
    /\ UNCHANGED <<fs, fd, kept, tries>> /\ Stay

\* unlink removes whatever the name means at that moment.
Unlink(p) ==
    /\ phase[p] = "unlink"
    /\ path' = [path EXCEPT ![file[p]] = None]
    /\ Goto(p, "unlock", file[p])
    /\ UNCHANGED <<flock, fd, kept, tries>> /\ Stay

Unlock(p) ==
    /\ phase[p] = "unlock"
    /\ flock' = [flock EXCEPT ![kept[p][file[p]]] = None]
    /\ kept' = [kept EXCEPT ![p][file[p]] = None]
    /\ IF file[p] = Primary THEN Goto(p, "stat", Legacy)
                            ELSE Goto(p, "off", Legacy)
    /\ UNCHANGED <<path, fd, tries>> /\ Stay

\* The kernel closes every descriptor; names stay behind.
Crash(p) ==
    /\ phase[p] # "off"
    /\ flock' = [n \in Inodes |-> IF flock[n] = p THEN None ELSE flock[n]]
    /\ fd' = [fd EXCEPT ![p] = None]
    /\ kept' = [kept EXCEPT ![p] = [f \in Files |-> None]]
    /\ Goto(p, "off", Legacy)
    /\ UNCHANGED <<path, tries>> /\ Stay
-----------------------------------------------------------------------------
(* inspectStateLock: the primary file, then the compatibility file *)

Probe(q) ==
    /\ phase[q] = "off"
    /\ Goto(q, "open", Primary)
    /\ verdict' = [verdict EXCEPT ![q] = [f \in Files |-> "unknown"]]
    /\ calm' = [calm EXCEPT ![q] = \A p \in Procs : ~Serving(p)]
    /\ UNCHANGED <<fs, fd, kept, tries>>

Found(q, v) ==
    /\ verdict' = [verdict EXCEPT ![q][file[q]] = v]
    /\ IF file[q] = Primary THEN Goto(q, "open", Legacy)
                            ELSE Goto(q, "off", Legacy)
    /\ UNCHANGED <<path, kept, tries, calm>>

ProbeOpen(q) ==
    /\ phase[q] = "open"
    /\ path[file[q]] # None
    /\ fd' = [fd EXCEPT ![q] = path[file[q]]]
    /\ Goto(q, "lock", file[q])
    /\ UNCHANGED <<fs, kept, tries>> /\ Stay

ProbeNoFile(q) ==
    /\ phase[q] = "open"
    /\ path[file[q]] = None
    /\ Found(q, "unlocked")
    /\ UNCHANGED <<flock, fd>>

\* Takes the lock if it can; the flag says which way it went.
ProbeLock(q) ==
    /\ phase[q] = "lock"
    /\ flock' = IF flock[fd[q]] = None THEN [flock EXCEPT ![fd[q]] = q]
                                       ELSE flock
    /\ Goto(q, "compare", file[q])
    /\ UNCHANGED <<path, fd, kept, tries>> /\ Stay

ProbeCompare(q) ==
    /\ phase[q] = "compare"
    /\ LET held == flock[fd[q]] = q
       IN  Found(q, IF path[file[q]] # fd[q] THEN "unknown"
                    ELSE IF held THEN "unlocked" ELSE "locked")
    /\ flock' = Unlocked(q)
    /\ fd' = [fd EXCEPT ![q] = None]

\* Mutant: the compatibility file is not looked at.
VerdictOfPrimary(q) == verdict[q][Primary]

\* inspectStateLock combines the two.
Verdict(q) ==
    LET of == {verdict[q][f] : f \in Files}
    IN IF "locked" \in of THEN "locked" ELSE IF "unknown" \in of THEN "unknown" ELSE "unlocked"
-----------------------------------------------------------------------------
Acquire(p) == Start(p) \/ Open(p) \/ Lock(p) \/ Busy(p) \/ Replaced(p) \/ Hold(p)

GiveUp(p) == Quit(p) \/ StatBeforeUnlink(p) \/ Unlink(p) \/ Unlock(p)

Inspect(q) ==
    \/ Probe(q) \/ ProbeOpen(q) \/ ProbeNoFile(q)
    \/ ProbeLock(q) \/ ProbeCompare(q)

Next ==
    \/ \E p \in Procs : Acquire(p) \/ GiveUp(p) \/ Crash(p)
    \/ \E q \in Probes : Inspect(q)

Spec == Init /\ [][Next]_vars
-----------------------------------------------------------------------------
\* Two instances, old or new, never serve the same state directory: neither
\* the unlink of a release nor a name that is created again splits the lock.
OneService ==
    \A p, r \in Procs : Serving(p) /\ Serving(r) => p = r

Needed(p) == IF p \in Services THEN Files ELSE {Legacy}

\* The names keep meaning the inodes a serving instance has locked: nobody
\* removes or replaces them under it, so whoever comes later meets its lock.
NamesKeptWhileServing ==
    \A p \in Procs : Serving(p) =>
        \A f \in Needed(p) : /\ path[f] # None
                             /\ path[f] = kept[p][f]
                             /\ flock[path[f]] = p

\* Between the stat of a release and its unlink the name cannot come to mean
\* somebody else's inode.
UnlinkOwnName ==
    [][\A p \in Procs : Unlink(p) => path[file[p]] = kept[p][file[p]]]_vars

\* Every lock belongs to a process that is there to give it up: an attempt
\* that failed or a probe that ended leaves nothing locked behind.
NoStrayLock ==
    \A n \in Inodes : flock[n] # None =>
        /\ phase[flock[n]] # "off"
        /\ \/ fd[flock[n]] = n
           \/ \E f \in Files : kept[flock[n]][f] = n

\* A probe that answers "unlocked" did so in a moment without a service.
UnlockedIsTrue ==
    \A q \in Probes :
        phase[q] = "off" /\ Verdict(q) = "unlocked" => calm[q]
=============================================================================
