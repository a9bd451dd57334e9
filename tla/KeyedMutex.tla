----------------------------- MODULE KeyedMutex -----------------------------
(***************************************************************************)
(* The promise chains of src/core/mutex.ts.  Each run() takes the tail of  *)
(* its key's chain as its predecessor, becomes the new tail and waits for  *)
(* the predecessor; on its way out it wakes its successor and drops the    *)
(* map entry if it is still the tail.                                      *)
(*                                                                         *)
(* order is history: who asked for a key and has not left yet.             *)
(***************************************************************************)
EXTENDS Naturals, Sequences

CONSTANTS Keys, Calls, None

MutexAssumption == None \notin Calls

VARIABLES
    tails,   \* tails[k]: the last call of the chain of k, None if no entry
    previous,\* previous[c]: whose tail c awaits
    pc,      \* idle, waiting, running, or released
    key,     \* key[c]: the key of the call
    order    \* order[k]: the calls of k that have not left, oldest first

vars == <<tails, previous, pc, key, order>>

TypeOK ==
    /\ tails \in [Keys -> Calls \cup {None}]
    /\ previous \in [Calls -> Calls \cup {None}]
    /\ pc \in [Calls -> {"idle", "waiting", "running", "released"}]
    /\ key \in [Calls -> Keys]
    /\ order \in [Keys -> Seq(Calls)]

Init ==
    /\ tails = [k \in Keys |-> None]
    /\ previous = [c \in Calls |-> None]
    /\ pc = [c \in Calls |-> "idle"]
    /\ key \in [Calls -> Keys]
    /\ order = [k \in Keys |-> << >>]

\* Mutant: the call looks up the wrong thing as its predecessor.
RunWrongTail(c, k) ==
    /\ pc[c] = "idle"
    /\ previous' = [previous EXCEPT ![c] = k]
    /\ tails' = [tails EXCEPT ![k] = c]
    /\ pc' = [pc EXCEPT ![c] = "waiting"]
    /\ key' = [key EXCEPT ![c] = k]
    /\ order' = [order EXCEPT ![k] = Append(@, c)]

Run(c, k) ==
    /\ pc[c] = "idle"
    /\ previous' = [previous EXCEPT ![c] = tails[k]]
    /\ tails' = [tails EXCEPT ![k] = c]
    /\ pc' = [pc EXCEPT ![c] = "waiting"]
    /\ key' = [key EXCEPT ![c] = k]
    /\ order' = [order EXCEPT ![k] = Append(@, c)]

\* A tail resolves when its call has released and the tail before it has.
Resolved(d) == d # None => pc[d] = "released"

\* Mutant: a call comes in as soon as nobody runs, not after its predecessor.
EnterBarging(c) ==
    /\ pc[c] = "waiting"
    /\ \A d \in Calls : pc[d] = "running" => key[d] # key[c]
    /\ pc' = [pc EXCEPT ![c] = "running"]
    /\ previous' = [previous EXCEPT ![c] = None]
    /\ UNCHANGED <<tails, key, order>>

Enter(c) ==
    /\ pc[c] = "waiting"
    /\ Resolved(previous[c])
    /\ pc' = [pc EXCEPT ![c] = "running"]
    /\ previous' = [previous EXCEPT ![c] = None]
    /\ UNCHANGED <<tails, key, order>>

\* Mutant: the entry always goes.
DropAlways(c) == [tails EXCEPT ![key[c]] = None]

\* The finally block: release(), then the entry goes if c is still the tail.
Drop(c) == IF tails[key[c]] = c THEN [tails EXCEPT ![key[c]] = None] ELSE tails

\* A queue without one of its members.
Without(q, c) ==
    LET n == CHOOSE i \in 1..Len(q) : q[i] = c
    IN  [i \in 1..(Len(q) - 1) |-> IF i < n THEN q[i] ELSE q[i + 1]]

Release(c) ==
    /\ pc[c] = "running"
    /\ tails' = Drop(c)
    /\ pc' = [pc EXCEPT ![c] = "released"]
    /\ order' = [order EXCEPT ![key[c]] = Without(@, c)]
    /\ UNCHANGED <<previous, key>>

\* Nobody holds the promise any more: the call can be reused for a new one.
Forget(c) ==
    /\ pc[c] = "released"
    /\ \A d \in Calls : previous[d] # c
    /\ pc' = [pc EXCEPT ![c] = "idle"]
    /\ UNCHANGED <<tails, previous, key, order>>

Next ==
    \/ \E c \in Calls, k \in Keys : Run(c, k)
    \/ \E c \in Calls : Enter(c)
    \/ \E c \in Calls : Release(c)
    \/ \E c \in Calls : Forget(c)

\* A resolved promise runs its continuation; the guarded operations end.
Fairness == \A c \in Calls : WF_vars(Enter(c)) /\ WF_vars(Release(c))

Spec == Init /\ [][Next]_vars /\ Fairness
-----------------------------------------------------------------------------
\* One operation per key at a time.
OneAtATime ==
    \A c, d \in Calls :
        pc[c] = "running" /\ pc[d] = "running" /\ key[c] = key[d] => c = d

\* Calls of a key run in the order in which they asked for it.
FirstComeFirstServed ==
    [][\A c \in Calls :
          pc[c] = "waiting" /\ pc'[c] = "running"
              => Head(order[key[c]]) = c]_vars

\* Whoever asks for a key gets it.
EveryoneRuns == \A c \in Calls : pc[c] = "waiting" ~> pc[c] = "running"
=============================================================================
