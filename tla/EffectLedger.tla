---------------------------- MODULE EffectLedger ----------------------------
(***************************************************************************)
(* What the receipt store promises about one kind of thing: how often the  *)
(* outside world may be changed in the name of one operation id.           *)
(*                                                                         *)
(* An id starts with one permit.  A permit is spent when a request leaves  *)
(* the process, comes back only when that request is known not to have     *)
(* been executed, and is added only by an explicit decision to retry.      *)
(***************************************************************************)
EXTENDS Naturals

CONSTANT Ids

VARIABLES
    permit,   \* permit[o]: requests that may still be submitted for o
    travel,   \* travel[o]: submitted requests that may yet take effect
    effect    \* effect[o]: times the outside world has been changed for o

ledger == <<permit, travel, effect>>

LedgerInit ==
    /\ permit = [o \in Ids |-> 1]
    /\ travel = [o \in Ids |-> 0]
    /\ effect = [o \in Ids |-> 0]

\* A request leaves the process.
Spend(o) ==
    /\ permit[o] > 0
    /\ permit' = [permit EXCEPT ![o] = @ - 1]
    /\ travel' = [travel EXCEPT ![o] = @ + 1]
    /\ UNCHANGED effect

\* The other side proves that it executed nothing.
Refund(o) ==
    /\ travel[o] > 0
    /\ permit' = [permit EXCEPT ![o] = @ + 1]
    /\ travel' = [travel EXCEPT ![o] = @ - 1]
    /\ UNCHANGED effect

\* The request takes effect, in time or long after its caller gave up.
Apply(o) ==
    /\ travel[o] > 0
    /\ travel' = [travel EXCEPT ![o] = @ - 1]
    /\ effect' = [effect EXCEPT ![o] = @ + 1]
    /\ UNCHANGED permit

\* Someone accepts the risk of a duplicate.
Grant(o) ==
    /\ permit' = [permit EXCEPT ![o] = @ + 1]
    /\ UNCHANGED <<travel, effect>>

LedgerNext == \E o \in Ids : Spend(o) \/ Refund(o) \/ Apply(o) \/ Grant(o)

LedgerSpec == LedgerInit /\ [][LedgerNext]_ledger
=============================================================================
