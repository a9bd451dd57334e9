-------------------------- MODULE TaskClosingProofs --------------------------
(***************************************************************************)
(* What TaskClosing.tla promises of the end of a task, for any set of      *)
(* participants and any number of troubles and messages.  The row, the     *)
(* receipts and the other side are read and written in different steps, so *)
(* the invariant says, for every place where the holder of the mutex can   *)
(* be stopped, what is already certain there and stays so through crashes, *)
(* decisions, late requests and what users do meanwhile.                   *)
(***************************************************************************)
EXTENDS TaskClosing, TLAPS

(* No open pane of p is left that nobody decided about.                     *)
Done(p) == pane[p] # "open" \/ close[p].choice \in {"treat_done", "abandon"}
AllDone == \A p \in Participants : Done(p)

Cleaning == {"observe", "notice", "evidence", "panes", "closing"}
Leaving  == {"barrier", "notify", "recheck", "deleting"}
Ended    == {"deleted", "finish"}

PlaceSound ==
    /\ pc \in {"sync", "patch", "again"} => ~Closing
    /\ pc \in Cleaning \cup Leaving \cup Ended =>
          row.st = "destroying" /\ row.src # "legacy"
    /\ pc \in {"panes", "closing"} => \A p \in Participants \ todo : Done(p)
    /\ pc \in Leaving \cup Ended => AllDone
    /\ pc \in Leaving => ~row.keep
    /\ pc = "recheck" => told.delete = "done"
    /\ pc = "deleted" => chat = "dissolved"
    /\ pc = "finish" => row.keep \/ row.dead

(* A receipt, or the row, that says a pane is done with is right.           *)
PaneSound(p) ==
    /\ close[p].state = "done" => pane[p] # "open"
    /\ part[p] = "removed" => Done(p)

(* A request to delete the chat that may still land has a receipt without   *)
(* an outcome, in a task that is ending and whose chat nobody keeps.        *)
GroupSound ==
    /\ wire.group => /\ Closing /\ row.src # "legacy" /\ ~row.keep
                     /\ Kept(del)
    /\ del.state = "done" \/ del.choice = "treat_done" \/ row.dead => chat = "dissolved"

EndSound == row.st = "destroyed" => (row.keep \/ row.dead) /\ AllDone

IInv == /\ TypeOK /\ PlaceSound /\ GroupSound /\ EndSound
        /\ \A p \in Participants : PaneSound(p)

(***************************************************************************)
(* Rows and receipts under the operators that edit them                    *)
(***************************************************************************)
LEMMA ResolvedRow ==
  ASSUME NEW r \in Rows
  PROVE  /\ Resolved(r) \in Rows /\ Resolved(r).src # "legacy"
         /\ Resolved(r).st = r.st /\ Resolved(r).dead = r.dead /\ Resolved(r).req = r.req
         /\ r.src # "legacy" => Resolved(r) = r
  <1>1. CASE r.src # "legacy"
    BY <1>1 DEF Resolved
  <1>2. CASE r.src = "legacy"
    <2> DEFINE keep == old \in {"keep", "keepAll"}
               src  == IF old = "none" THEN "default" ELSE "explicit"
    <2>1. Resolved(r) = [r EXCEPT !.keep = keep, !.src = src]
      BY <1>2 DEF Resolved
    <2>2. keep \in BOOLEAN /\ src \in {"default", "explicit"}
      OBVIOUS
    <2> HIDE DEF keep, src
    <2> QED
      BY <1>2, <2>1, <2>2 DEF Rows
  <1> QED
    BY <1>1, <1>2

LEMMA WordedRow ==
  ASSUME row \in Rows, NEW a, NEW word \in {"none", "keep", "drop"}
  PROVE  LET r == WithWord(a, word)
         IN  /\ r \in Rows /\ r.st = row.st /\ r.dead = row.dead /\ r.req = row.req
             /\ row.src # "legacy" => r.src # "legacy"
             /\ a \in Ending => r.src # "legacy"
             /\ row.src # "legacy" /\ word # "keep" /\ ~row.keep => ~r.keep
  <1> DEFINE said == IF word = "none" THEN row
                     ELSE [row EXCEPT !.keep = (word = "keep"), !.src = "explicit"]
  <1>1. /\ said \in Rows /\ said.st = row.st /\ said.dead = row.dead /\ said.req = row.req
        /\ row.src # "legacy" => said.src # "legacy"
        /\ word # "keep" /\ ~row.keep => ~said.keep
    BY ZenonT(30) DEF Rows
  <1>2. WithWord(a, word) = IF a \in Ending THEN Resolved(said) ELSE said
    BY DEF WithWord
  <1> HIDE DEF said
  <1> QED
    BY <1>1, <1>2, ResolvedRow

LEMMA RetainedRow ==
  ASSUME row \in Rows
  PROVE  /\ Retained(row) \in Rows
         /\ Retained(row).st = row.st /\ Retained(row).dead = row.dead
         /\ Retained(row).req = row.req
         /\ Closing => Retained(row) = row
  <1>1. Resolved(row) \in Rows /\ Resolved(row).st = row.st /\ Resolved(row).dead = row.dead
        /\ Resolved(row).req = row.req
    BY ResolvedRow
  <1> DEFINE r == Resolved(row)
  <1>2. \/ Retained(row) = row
        \/ Retained(row) = [r EXCEPT !.close = (old # "keepAll")] /\ row.st = "completed"
    BY DEF Retained
  <1> HIDE DEF r
  <1>3. r \in Rows /\ r.st = row.st /\ r.dead = row.dead /\ r.req = row.req
    BY <1>1 DEF r
  <1> QED
    BY <1>2, <1>3 DEF Rows, Closing

LEMMA ReceiptEdits ==
  ASSUME NEW r \in Receipts
  PROVE  /\ \A x \in {"none", "pending", "done", "failed", "uncertain"} :
               \E q \in Receipts : /\ q = [r EXCEPT !.state = x]
                                  /\ q.state = x /\ q.choice = r.choice
         /\ \A c \in {"none", "treat_done", "retry", "abandon"} :
               \E q \in Receipts : /\ q = [r EXCEPT !.choice = c]
                                  /\ q.state = r.state /\ q.choice = c
  <1>1. ASSUME NEW x \in {"none", "pending", "done", "failed", "uncertain"}
        PROVE  LET q == [r EXCEPT !.state = x]
               IN  q \in Receipts /\ q.state = x /\ q.choice = r.choice
    BY DEF Receipts
  <1>2. ASSUME NEW c \in {"none", "treat_done", "retry", "abandon"}
        PROVE  LET q == [r EXCEPT !.choice = c]
               IN  q \in Receipts /\ q.state = r.state /\ q.choice = c
    BY DEF Receipts
  <1> QED
    BY <1>1, <1>2, Zenon

LEMMA WireEdits ==
  ASSUME wire \in [panes : SUBSET Participants, group : BOOLEAN, patch : SUBSET BOOLEAN],
         NEW x
  PROVE  /\ [wire EXCEPT !.patch = x].group = wire.group
         /\ [wire EXCEPT !.panes = x].group = wire.group
         /\ [wire EXCEPT !.group = x].group = x
  OBVIOUS

LEMMA ToldEdits ==
  ASSUME told \in [close : {"none", "lost", "done"},
                  delete : {"none", "refused", "lost", "done"}],
         NEW x
  PROVE  [told EXCEPT !.delete = x].delete = x
  OBVIOUS

(***************************************************************************)
(* Panes: a pane that is done with stays so                                *)
(***************************************************************************)
LEMMA PanesKept ==
  ASSUME [Next]_vars, TypeOK, \A p \in Participants : PaneSound(p)
  PROVE  /\ pane' \in [Participants -> {"none", "open", "closed"}]
         /\ close' \in [Participants -> Receipts]
         /\ part' \in [Participants -> {"live", "gone", "removed"}]
         /\ \A p \in Participants : (Done(p) => Done(p)') /\ PaneSound(p)'
  <1> DEFINE Claim == /\ pane' \in [Participants -> {"none", "open", "closed"}]
                     /\ close' \in [Participants -> Receipts]
                     /\ part' \in [Participants -> {"live", "gone", "removed"}]
                     /\ \A p \in Participants : (Done(p) => Done(p)') /\ PaneSound(p)'
  <1> SUFFICES Claim
    OBVIOUS
  <1>1. /\ pane \in [Participants -> {"none", "open", "closed"}]
        /\ close \in [Participants -> Receipts]
        /\ part \in [Participants -> {"live", "gone", "removed"}]
        /\ cur \in Participants
    BY DEF TypeOK
  <1>2. ASSUME pane' = pane, close' = close, part' = part
        PROVE  Claim
    BY <1>1, <1>2 DEF Done, PaneSound
  <1>3. ASSUME NEW p \in Participants, pane' = [pane EXCEPT ![p] = "closed"],
               close' = close, part' = part
        PROVE  Claim
    BY <1>1, <1>3 DEF Done, PaneSound
  <1>4. ASSUME NEW p \in Participants, NEW q \in Receipts,
               close' = [close EXCEPT ![p] = q], pane' = pane, part' = part,
               \/ q.state # "done" /\ q.choice = close[p].choice
               \/ close[p].choice = "none" /\ q.state = close[p].state
               \/ q.state # "done" /\ ~SettledPane(p)
        PROVE  Claim
    BY <1>1, <1>4 DEF Done, PaneSound, SettledPane
  <1>5. \A p \in Participants :
           /\ \A x \in {"none", "pending", "done", "failed", "uncertain"} :
                 \E q \in Receipts : /\ q = [close[p] EXCEPT !.state = x]
                                    /\ q.state = x /\ q.choice = close[p].choice
           /\ \A c \in {"none", "treat_done", "retry", "abandon"} :
                 \E q \in Receipts : /\ q = [close[p] EXCEPT !.choice = c]
                                    /\ q.state = close[p].state /\ q.choice = c
    <2> TAKE p \in Participants
    <2>1. close[p] \in Receipts
      BY <1>1
    <2> QED
      BY <2>1, ReceiptEdits, Zenon
  <1> HIDE DEF Claim
  <1>6. CASE \/ UNCHANGED vars \/ Act \/ Arrive \/ Settle \/ Stick \/ Crash
    BY <1>2, <1>6 DEF vars, rows, world, Act, End, Request, RetryTask, Mutate, Arrive, Settle,
                      Stick, Crash, Fails
  <1>7. CASE \/ Begin \/ SeesDissolved \/ SeesNoChange \/ SyncSkipped \/ Confirm \/ Write
             \/ WrittenBefore \/ WriteWaits \/ WriteAnswered \/ NotYet \/ RemoteDone \/ RemoteSame
    BY <1>2, <1>7 DEF rows, world, Fails, Begin, SeesDissolved, SeesNoChange, SyncSkipped,
                      Confirm, Confirmed, Write, WrittenBefore, WriteWaits, WriteAnswered,
                      NotYet, RemoteDone, RemoteSame, Move
  <1>8. CASE \/ Close \/ CloseTold \/ CloseTellAgain \/ CloseUnknown \/ ToBarrier \/ NotReady
             \/ Notify \/ DeleteTold \/ Delete \/ DeletedBefore \/ DeleteUnknown
             \/ GroupDeleted \/ MarkDeleted \/ Finish
             \/ \E p \in Participants : UnknownPane(p)
    BY <1>2, <1>8 DEF rows, world, Fails, Close, CloseTold, CloseTellAgain, CloseUnknown,
                      ToBarrier, NotReady, Notify, DeleteTold, Delete, DeletedBefore,
                      DeleteUnknown, GroupDeleted, MarkDeleted, Finish, UnknownPane, Move
  <1>9. CASE \/ ReadFails \/ WriteRefused \/ WriteLost \/ RemoteFails \/ CloseNotTold
             \/ DeleteNotTold \/ GroupRefused \/ GroupLost \/ GroupLands
             \/ \E v \in BOOLEAN : PatchLands(v)
    BY <1>2, <1>9 DEF rows, world, Fails, ReadFails, WriteRefused, WriteLost, RemoteFails,
                      CloseNotTold, DeleteNotTold, GroupRefused, GroupLost, GroupLands, PatchLands
  <1>10. CASE Outside \/ \E p \in Participants : PaneLands(p)
    BY <1>2, <1>3, <1>10 DEF rows, world, Outside, PaneLands
  <1>11. CASE Observe
    <2>1. /\ pane' = pane /\ close' = close
          /\ part' \in [Participants -> {"live", "gone", "removed"}]
          /\ \A p \in Participants : part'[p] = "removed" => part[p] = "removed"
      BY <1>1, <1>11 DEF Observe, world
    <2> QED
      BY <1>1, <2>1 DEF Claim, Done, PaneSound
  <1>12. CASE Evidence
    <2>1. PICK asked \in SUBSET {p \in Participants : Provable(p)} :
             close' = [p \in Participants |->
                         IF p \in asked THEN [close[p] EXCEPT !.choice = "treat_done"]
                         ELSE close[p]]
      BY <1>12, Zenon DEF Evidence
    <2>2. pane' = pane /\ part' = part
      BY <1>12 DEF Evidence, world
    <2>3. ASSUME NEW p \in Participants
          PROVE  /\ close'[p] \in Receipts /\ close'[p].state = close[p].state
                 /\ close'[p].choice \in {close[p].choice, "treat_done"}
                 /\ close'[p].choice # close[p].choice => close[p].choice = "none"
      <3>1. CASE p \in asked
        <4>1. PICK q \in Receipts : /\ q = [close[p] EXCEPT !.choice = "treat_done"]
                                   /\ q.state = close[p].state /\ q.choice = "treat_done"
          BY <1>5
        <4>2. close'[p] = q /\ close[p].choice = "none"
          BY <2>1, <3>1, <4>1 DEF Provable, Unknown
        <4> QED
          BY <4>1, <4>2
      <3>2. CASE p \notin asked
        BY <1>1, <2>1, <3>2
      <3> QED
        BY <3>1, <3>2
    <2>4. close' \in [Participants -> Receipts]
      BY <2>1, <2>3
    <2> QED
      BY <1>1, <2>2, <2>3, <2>4 DEF Claim, Done, PaneSound
  <1>13. ASSUME NEW p \in Participants, SkipPane(p)
         PROVE  Claim
    <2>1. /\ pane' = pane /\ close' = close /\ SettledPane(p)
          /\ part' \in [Participants -> {"live", "gone", "removed"}]
          /\ \A x \in Participants : part'[x] = "removed" =>
                part[x] = "removed" \/ (x = p /\ close[p].choice = "abandon")
      BY <1>1, <1>13 DEF SkipPane, world
    <2> QED
      BY <1>1, <2>1 DEF Claim, Done, PaneSound
  <1>14. ASSUME NEW p \in Participants, ClosePane(p)
         PROVE  Claim
    <2> DEFINE q == [NoReceipt EXCEPT !.state = "pending", !.again = Kept(close[p])]
    <2>1. /\ close' = [close EXCEPT ![p] = q] /\ pane' = pane /\ part' = part
          /\ ~SettledPane(p)
      BY <1>14 DEF ClosePane
    <2>2. q \in Receipts /\ q.state = "pending"
      <3>1. Kept(close[p]) \in BOOLEAN
        BY DEF Kept
      <3> QED
        BY <3>1 DEF NoReceipt, Receipts
    <2> HIDE DEF q
    <2> QED
      BY <1>4, <2>1, <2>2
  <1>15. CASE PaneClosed
    <2>1. /\ close' = [close EXCEPT ![cur].state = "done"] /\ pane' = pane
          /\ part' = [part EXCEPT ![cur] = "gone"] /\ pane[cur] = "closed"
      BY <1>15 DEF PaneClosed
    <2>2. /\ close' \in [Participants -> Receipts]
          /\ \A p \in Participants : close'[p].choice = close[p].choice
          /\ \A p \in Participants \ {cur} : close'[p] = close[p]
      <3>1. PICK q \in Receipts : /\ q = [close[cur] EXCEPT !.state = "done"]
                                 /\ q.choice = close[cur].choice
        BY <1>1, <1>5
      <3> QED
        BY <1>1, <2>1, <3>1
    <2>3. part' \in [Participants -> {"live", "gone", "removed"}]
      BY <1>1, <2>1
    <2> QED
      BY <1>1, <2>1, <2>2, <2>3 DEF Claim, Done, PaneSound
  <1>16. CASE PaneRefused \/ PaneLost
    <2>1. PICK x \in {"failed", "uncertain"} : close' = [close EXCEPT ![cur].state = x]
      BY <1>16 DEF PaneRefused, PaneLost
    <2>2. pane' = pane /\ part' = part
      BY <1>16 DEF PaneRefused, PaneLost, world, rows
    <2>3. PICK q \in Receipts : /\ q = [close[cur] EXCEPT !.state = x]
                               /\ q.state = x /\ q.choice = close[cur].choice
      BY <1>1, <1>5
    <2>4. close' = [close EXCEPT ![cur] = q]
      BY <1>1, <2>1, <2>3
    <2> QED
      BY <1>1, <1>4, <2>1, <2>2, <2>3, <2>4
  <1>17. ASSUME NEW p \in Participants, Decide(p)
         PROVE  Claim
    <2>1. PICK c \in {"treat_done", "retry", "abandon"} :
             close' = [close EXCEPT ![p].choice = c]
      BY <1>17 DEF Decide
    <2>2. pane' = pane /\ part' = part /\ close[p].choice = "none"
      BY <1>17 DEF Decide, Unknown, world
    <2>3. PICK q \in Receipts : /\ q = [close[p] EXCEPT !.choice = c]
                               /\ q.state = close[p].state
      BY <1>1, <1>5
    <2>4. close' = [close EXCEPT ![p] = q]
      BY <1>1, <2>1, <2>3
    <2> QED
      BY <1>1, <1>4, <2>2, <2>3, <2>4
  <1> QED
    BY <1>6, <1>7, <1>8, <1>9, <1>10, <1>11, <1>12, <1>13, <1>14, <1>15, <1>16, <1>17
       DEF Next, Reconcile, Failure, Lands

(***************************************************************************)
(* The places, the request to delete the chat, and the end                 *)
(***************************************************************************)
Certain == PlaceSound /\ GroupSound /\ EndSound /\ row \in Rows /\ del \in Receipts

LEMMA CertainKept ==
  ASSUME [Next]_vars, IInv
  PROVE  Certain'
  <1>1. /\ row \in Rows /\ del \in Receipts /\ todo \subseteq Participants
        /\ PlaceSound /\ GroupSound /\ EndSound
        /\ \A p \in Participants : PaneSound(p)
    BY DEF IInv, TypeOK
  <1>2. \A p \in Participants : Done(p) => Done(p)'
    BY PanesKept DEF IInv
  <1>3. AllDone => AllDone'
    BY <1>2 DEF AllDone
  <1>4. ASSUME row' = row, del' = del, wire'.group => wire.group,
               chat' = chat \/ chat' = "dissolved", PlaceSound'
        PROVE  Certain'
    BY <1>1, <1>3, <1>4 DEF Certain, GroupSound, EndSound, Closing, Kept
  (* What happens aside of the holder of the mutex.                         *)
  <1>5. ASSUME pc' = pc, todo' = todo, row' = row, told' = told,
               chat' = chat \/ chat' = "dissolved"
        PROVE  PlaceSound'
    BY <1>1, <1>2, <1>3, <1>5 DEF PlaceSound, Closing
  (* The holder stops, or reads on where nothing is certain yet.            *)
  <1>6. ASSUME \/ pc' \in {"free", "group", "remote", "close", "rest"}
               \/ pc' \in {"sync", "patch", "again"} /\ ~Closing'
        PROVE  PlaceSound'
    BY <1>6 DEF PlaceSound, Cleaning, Leaving, Ended
  <1>7. CASE UNCHANGED vars
    BY <1>4, <1>5, <1>7 DEF vars, rows, world
  <1>8. CASE \/ Arrive \/ Settle \/ Stick \/ Outside \/ GroupLands
             \/ \E v \in BOOLEAN : PatchLands(v)
             \/ \E p \in Participants : PaneLands(p) \/ Decide(p)
    <2>1. /\ pc' = pc /\ todo' = todo /\ row' = row /\ told' = told /\ del' = del
          /\ chat' = chat \/ chat' = "dissolved"
          /\ \/ wire' = wire \/ \E x : wire' = [wire EXCEPT !.patch = x]
             \/ wire' = [wire EXCEPT !.group = FALSE] \/ \E x : wire' = [wire EXCEPT !.panes = x]
      BY <1>8 DEF Arrive, Settle, Stick, Outside, GroupLands, PatchLands, PaneLands, Decide,
                  rows, world
    <2>2. wire'.group => wire.group
      BY <2>1, WireEdits DEF IInv, TypeOK
    <2> QED
      BY <1>4, <1>5, <2>1, <2>2
  <1>9. CASE \/ Crash \/ ReadFails \/ WriteWaits \/ WriteRefused \/ WriteLost \/ CloseNotTold
             \/ CloseUnknown \/ PaneRefused \/ PaneLost \/ DeleteNotTold \/ DeleteUnknown
             \/ NotReady \/ Begin \/ \E p \in Participants : UnknownPane(p)
    <2>1. /\ pc' \in {"free", "group"} /\ row' = row /\ del' = del /\ chat' = chat
          /\ \/ wire' = wire \/ \E x : wire' = [wire EXCEPT !.patch = x]
             \/ \E x : wire' = [wire EXCEPT !.panes = x]
      BY <1>9 DEF Crash, ReadFails, WriteWaits, WriteRefused, WriteLost, CloseNotTold,
                  CloseUnknown, PaneRefused, PaneLost, DeleteNotTold, DeleteUnknown,
                  NotReady, Begin, UnknownPane, Fails, Throw, Move, rows, world
    <2>2. wire'.group => wire.group
      BY <2>1, WireEdits DEF IInv, TypeOK
    <2> QED
      BY <1>4, <1>6, <2>1, <2>2
  <1>10. CASE \/ SeesNoChange \/ SyncSkipped \/ WrittenBefore \/ NotYet \/ RemoteSame
              \/ Write \/ WriteAnswered
    <2>1. /\ row' = row /\ del' = del /\ chat' = chat
          /\ \/ wire' = wire \/ \E x : wire' = [wire EXCEPT !.patch = x]
      BY <1>10 DEF SeesNoChange, SyncSkipped, WrittenBefore, NotYet, RemoteSame, Write,
                   WriteAnswered, Move, rows, world
    <2>2. wire'.group => wire.group
      BY <2>1, WireEdits DEF IInv, TypeOK
    <2>3. \/ pc' \in {"free", "remote", "close"}
          \/ pc' \in {"sync", "patch", "again"} /\ ~Closing'
      BY <1>1, <1>10, <2>1 DEF SeesNoChange, SyncSkipped, WrittenBefore, NotYet, RemoteSame, Write,
                   WriteAnswered, Move, AfterGroup, AfterSync, SyncDue, PlaceSound, Closing
    <2> QED
      BY <1>4, <1>6, <2>1, <2>2, <2>3
  <1>11. CASE \/ Observe \/ CloseTold \/ CloseTellAgain \/ Evidence \/ ToBarrier \/ Notify
              \/ DeleteTold \/ \E p \in Participants : SkipPane(p)
    <2>1. /\ row' = row /\ del' = del /\ chat' = chat /\ wire' = wire
      BY <1>11 DEF Observe, CloseTold, CloseTellAgain, Evidence, ToBarrier, Notify, DeleteTold,
                   SkipPane, Move, rows, world
    <2>2. \/ Observe /\ pc' \in {"evidence", "notice"}
          \/ (CloseTold \/ CloseTellAgain) /\ pc' = "evidence"
          \/ Evidence /\ pc' = "panes" /\ todo' = Participants
          \/ \E p \in Participants : SkipPane(p) /\ pc' = "panes" /\ todo' = todo \ {p}
          \/ ToBarrier /\ pc' \in {"finish", "barrier"} /\ todo = {}
          \/ Notify /\ pc' = "notify"
          \/ DeleteTold /\ pc' = "recheck" /\ told'.delete = "done"
      <3>1. CASE Observe \/ CloseTold \/ CloseTellAgain \/ Evidence
        BY <3>1 DEF Observe, CloseTold, CloseTellAgain, Evidence, Move
      <3>2. CASE ToBarrier \/ Notify \/ \E p \in Participants : SkipPane(p)
        BY <3>2 DEF ToBarrier, Notify, SkipPane, Move
      <3>3. CASE DeleteTold
        <4>1. pc' = "recheck" /\ told' = [told EXCEPT !.delete = "done"]
          BY <3>3 DEF DeleteTold, Move
        <4> QED
          BY <1>1, <3>3, <4>1, ToldEdits DEF IInv, TypeOK
      <3> QED
        BY <1>11, <3>1, <3>2, <3>3
    <2>3. PlaceSound'
      <3>1. CASE Observe \/ CloseTold \/ CloseTellAgain \/ Evidence
        BY <1>1, <2>1, <2>2, <3>1 DEF PlaceSound, Observe, CloseTold, CloseTellAgain, Evidence,
           Cleaning, Leaving, Ended
      <3>2. ASSUME NEW p \in Participants, SkipPane(p)
            PROVE  PlaceSound'
        <4>1. pc = "panes" /\ pc' = "panes" /\ todo' = todo \ {p} /\ SettledPane(p)
          BY <3>2 DEF SkipPane
        <4>2. Done(p)
          BY <1>1, <4>1 DEF SettledPane, PaneSound, Done
        <4>3. \A x \in Participants \ todo' : Done(x)'
          BY <1>1, <1>2, <4>1, <4>2 DEF PlaceSound
        <4> QED
          BY <1>1, <2>1, <4>1, <4>3 DEF PlaceSound, Cleaning, Leaving, Ended
      <3>3. CASE ToBarrier
        <4>1. pc = "panes" /\ todo = {} /\ pc' = IF row.keep \/ row.dead THEN "finish" ELSE "barrier"
          BY <3>3 DEF ToBarrier, Move
        <4>2. AllDone'
          BY <1>1, <1>2, <4>1 DEF PlaceSound, AllDone
        <4> QED
          BY <1>1, <2>1, <4>1, <4>2 DEF PlaceSound, Cleaning, Leaving, Ended
      <3>4. CASE Notify
        <4>1. pc = "barrier" /\ pc' = "notify"
          BY <3>4 DEF Notify, Move
        <4> QED
          BY <1>1, <1>3, <2>1, <4>1 DEF PlaceSound, Cleaning, Leaving, Ended
      <3>5. CASE DeleteTold
        <4>1. pc = "notify" /\ pc' = "recheck" /\ told'.delete = "done"
          BY <3>5, ToldEdits DEF DeleteTold, IInv, TypeOK
        <4> QED
          BY <1>1, <1>3, <2>1, <4>1 DEF PlaceSound, Cleaning, Leaving, Ended
      <3> QED
        BY <1>11, <3>1, <3>2, <3>3, <3>4, <3>5
    <2> QED
      BY <1>4, <2>1, <2>3
  <1>12. ASSUME NEW p \in Participants, ClosePane(p)
         PROVE  Certain'
    <2>1. /\ pc = "panes" /\ pc' = "closing" /\ todo' = todo /\ row' = row /\ del' = del
          /\ chat' = chat /\ \E x : wire' = [wire EXCEPT !.panes = x]
      BY <1>12 DEF ClosePane
    <2>2. wire'.group => wire.group
      BY <2>1, WireEdits DEF IInv, TypeOK
    <2>3. PlaceSound'
      BY <1>1, <1>2, <2>1 DEF PlaceSound, Cleaning, Leaving, Ended
    <2> QED
      BY <1>4, <2>1, <2>2, <2>3
  <1>13. CASE PaneClosed
    <2>1. /\ pc = "closing" /\ pc' = "panes" /\ todo' = todo \ {cur} /\ row' = row /\ del' = del
          /\ chat' = chat /\ (\E x : wire' = [wire EXCEPT !.panes = x]) /\ pane[cur] = "closed"
      BY <1>13 DEF PaneClosed
    <2>2. wire'.group => wire.group
      BY <2>1, WireEdits DEF IInv, TypeOK
    <2>3. \A x \in Participants \ todo' : Done(x)'
      BY <1>1, <1>2, <2>1 DEF PlaceSound, Done
    <2>4. PlaceSound'
      BY <1>1, <2>1, <2>3 DEF PlaceSound, Cleaning, Leaving, Ended
    <2> QED
      BY <1>4, <2>1, <2>2, <2>4
  (* The row changes, and with it what may still be on its way.             *)
  <1>14. ASSUME row' \in Rows, wire'.group => wire.group, chat' = chat, del' = del,
                wire.group => Closing' /\ row'.src # "legacy" /\ ~row'.keep,
                row'.dead => chat = "dissolved",
                row'.st = "destroyed" => (row'.keep \/ row'.dead) /\ AllDone,
                PlaceSound'
         PROVE  Certain'
    BY <1>1, <1>3, <1>14 DEF Certain, GroupSound, EndSound, Kept
  <1>15. ASSUME NEW r \in Rows, ~Busy, Mutate(r), r.dead = row.dead, r.st # "destroyed",
                wire.group => r.st = "destroying" /\ r.src # "legacy" /\ ~r.keep
         PROVE  Certain'
    <2>1. /\ row' = r /\ wire' = wire /\ chat' = chat /\ del' = del
          /\ pc' = "free" \/ (pc' = "sync" /\ SyncDue(r))
      BY <1>15 DEF Mutate, Busy, world
    <2>2. PlaceSound'
      BY <1>6, <2>1 DEF SyncDue, Closing
    <2> QED
      BY <1>1, <1>14, <1>15, <2>1, <2>2 DEF GroupSound, Closing
  <1>16. ASSUME NEW a \in Ending, NEW word \in {"none", "keep", "drop"}, End(a, word)
         PROVE  Certain'
    <2> DEFINE r == WithWord(a, word)
    <2>1. /\ ~Busy /\ Allows(a, word, FALSE)
          /\ Mutate(IF row.st = "destroying" /\ a # "destroy" THEN r
                    ELSE [r EXCEPT !.st = "destroying", !.req = "none", !.close = FALSE])
      BY <1>16 DEF End
    <2>2. /\ r \in Rows /\ r.st = row.st /\ r.dead = row.dead /\ r.src # "legacy"
          /\ row.src # "legacy" /\ word # "keep" /\ ~row.keep => ~r.keep
      BY <1>1, WordedRow
    <2>3. wire.group => word # "keep"
      BY <1>1, <2>1 DEF Allows, Keepable, GroupSound, Kept
    <2> HIDE DEF r
    <2>4. CASE row.st = "destroying" /\ a # "destroy"
      BY <1>1, <1>15, <2>1, <2>2, <2>3, <2>4 DEF GroupSound
    <2>5. CASE ~(row.st = "destroying" /\ a # "destroy")
      <3> DEFINE q == [r EXCEPT !.st = "destroying", !.req = "none", !.close = FALSE]
      <3>1. q \in Rows /\ q.st = "destroying" /\ q.dead = r.dead /\ q.src = r.src /\ q.keep = r.keep
        BY <2>2 DEF Rows
      <3>2. Mutate(q)
        BY <2>1, <2>5
      <3> HIDE DEF q
      <3> QED
        BY <1>1, <1>15, <2>1, <2>2, <2>3, <3>1, <3>2 DEF GroupSound
    <2> QED
      BY <2>4, <2>5
  <1>17. ASSUME NEW a \in {"complete", "close", "reopen"}, NEW word \in {"none", "keep", "drop"},
                NEW exec \in BOOLEAN, Request(a, word, exec)
         PROVE  Certain'
    <2> DEFINE r == WithWord(a, word)
               req == Goal(a)
               c == a = "close" \/ (a = "complete" /\ ~exec)
               q == [r EXCEPT !.req = req, !.close = c]
    <2>1. ~Busy /\ ~Closing /\ Mutate(q)
      BY <1>17 DEF Request
    <2>2. r \in Rows /\ r.st = row.st /\ r.dead = row.dead
      BY <1>1, WordedRow
    <2>3. req \in {"complete", "reopen"} /\ c \in BOOLEAN
      BY DEF Goal
    <2> HIDE DEF r, req, c
    <2>4. q \in Rows /\ q.st = row.st /\ q.dead = row.dead
      BY <2>2, <2>3 DEF Rows
    <2> HIDE DEF q
    <2> QED
      BY <1>1, <1>15, <2>1, <2>4 DEF GroupSound, Closing
  <1>18. CASE RetryTask
    <2>1. CASE ~SomeKept
      <3> DEFINE q == [row EXCEPT !.st = "active"]
      <3>1. ~Busy /\ Mutate(q) /\ ~wire.group
        BY <1>1, <1>18, <2>1 DEF RetryTask, SomeKept, GroupSound
      <3>2. q \in Rows /\ q.st = "active" /\ q.dead = row.dead
        BY <1>1 DEF Rows
      <3> HIDE DEF q
      <3> QED
        BY <1>15, <3>1, <3>2
    <2>2. CASE SomeKept
      <3>1. /\ pc' = pc /\ todo' = todo /\ row' = row /\ told' = told /\ del' = del
            /\ chat' = chat /\ wire' = wire
        BY <1>18, <2>2 DEF RetryTask, rows, world
      <3> QED
        BY <1>4, <1>5, <3>1
    <2> QED
      BY <2>1, <2>2
  <1>19. CASE SeesDissolved
    <2> DEFINE st == IF row.st = "destroyed" THEN row.st ELSE "destroying"
    <2>1. /\ row' = [row EXCEPT !.dead = TRUE, !.req = "none", !.close = FALSE, !.st = st]
          /\ del' = IF ~row.dead /\ Unknown(del) THEN [del EXCEPT !.choice = "treat_done"] ELSE del
          /\ pc' = AfterGroup(row') /\ chat' = chat /\ wire' = wire
          /\ row.dead \/ chat = "dissolved"
      BY <1>19 DEF SeesDissolved, world
    <2>2. /\ row' \in Rows /\ row'.dead /\ row'.req = "none" /\ row'.src = row.src
          /\ row'.keep = row.keep /\ row'.st = st
      BY <1>1, <2>1 DEF Rows
    <2>3. del' \in Receipts /\ del'.state = del.state
      BY <1>1, <2>1 DEF Receipts
    <2>4. chat = "dissolved"
      BY <1>1, <2>1 DEF GroupSound
    <2>5. PlaceSound'
      BY <1>6, <2>1, <2>2 DEF AfterGroup, SyncDue
    <2>6. row'.st = "destroyed" => row.st = "destroyed"
      BY <2>2
    <2> QED
      BY <1>1, <1>3, <2>1, <2>2, <2>3, <2>4, <2>5, <2>6
         DEF Certain, GroupSound, EndSound, Kept, Closing
  <1>20. CASE Confirm
    <2> DEFINE st == IF Target THEN "completed" ELSE "active"
               acc == Target
    <2>1. /\ pc \in {"sync", "again"} /\ pc' = AfterSync /\ chat' = chat /\ wire' = wire
          /\ del' = del /\ row' = [row EXCEPT !.st = st, !.acc = acc, !.req = "none"]
      BY <1>20 DEF Confirm, Confirmed, world
    <2>2. st \in {"completed", "active"} /\ acc \in BOOLEAN
      BY DEF Target
    <2> HIDE DEF st, acc
    <2>3. row' \in Rows /\ row'.dead = row.dead /\ row'.st = st
      BY <1>1, <2>1, <2>2 DEF Rows
    <2>4. ~wire.group
      BY <1>1, <2>1 DEF PlaceSound, GroupSound
    <2>5. PlaceSound'
      BY <1>6, <2>1 DEF AfterSync
    <2> QED
      BY <1>1, <1>14, <2>1, <2>2, <2>3, <2>4, <2>5 DEF GroupSound
  <1>21. CASE RemoteDone
    <2> DEFINE r == Resolved(row)
    <2>1. /\ row' = [r EXCEPT !.acc = TRUE, !.st = "completed", !.close = TRUE]
          /\ pc' = "close" /\ chat' = chat /\ wire' = wire /\ del' = del /\ ~Closing
      BY <1>21 DEF RemoteDone, ReadsRemote, Closing, world
    <2>2. r \in Rows /\ r.dead = row.dead
      BY <1>1, ResolvedRow
    <2> HIDE DEF r
    <2>3. row' \in Rows /\ row'.dead = row.dead /\ row'.st = "completed"
      BY <2>1, <2>2 DEF Rows
    <2> QED
      BY <1>1, <1>6, <1>14, <2>1, <2>3 DEF GroupSound
  <1>22. CASE RemoteFails
    <2>1. /\ row' = Retained(row) /\ pc' \in {"close", "free"} /\ ~Closing
          /\ chat' = chat /\ wire' = wire /\ del' = del
      BY <1>22 DEF RemoteFails, ReadsRemote, Closing, world
    <2>2. row' \in Rows /\ row'.st = row.st /\ row'.dead = row.dead
      BY <1>1, <2>1, RetainedRow
    <2> QED
      BY <1>1, <1>6, <1>14, <2>1, <2>2 DEF GroupSound, Closing
  <1>23. CASE Close
    <2> DEFINE r == Retained(row)
               flag == r.close \/ (pc = "rest" /\ r.st = "completed" /\ r.req = "none" /\ ~r.keep)
               c == [r EXCEPT !.close = flag]
               d == [c EXCEPT !.st = "destroying"]
    <2>1. /\ chat' = chat /\ wire' = wire /\ del' = del
          /\ \/ row' = Resolved(d) /\ pc' = "observe" /\ Closes(c)
             \/ row' = c /\ pc' \in {"free", "rest"}
      BY <1>23 DEF Close, world
    <2>2. /\ r \in Rows /\ r.st = row.st /\ r.dead = row.dead /\ (Closing => r = row)
      BY <1>1, RetainedRow
    <2>3. flag \in BOOLEAN
      BY <2>2 DEF Rows
    <2> HIDE DEF r, flag
    <2>4. c \in Rows /\ c.st = r.st /\ c.dead = r.dead /\ c.src = r.src /\ c.keep = r.keep
      BY <2>2, <2>3 DEF Rows
    <2> HIDE DEF c
    <2>5. d \in Rows /\ d.st = "destroying" /\ d.dead = c.dead /\ d.src = c.src /\ d.keep = c.keep
      BY <2>4 DEF Rows
    <2> HIDE DEF d
    <2>6. CASE row' = c /\ pc' \in {"free", "rest"}
      BY <1>1, <1>6, <1>14, <2>1, <2>2, <2>4, <2>6 DEF GroupSound, EndSound, Closing
    <2>7. CASE row' = Resolved(d) /\ pc' = "observe"
      <3>1. /\ row' \in Rows /\ row'.st = "destroying" /\ row'.dead = row.dead
            /\ row'.src # "legacy" /\ (d.src # "legacy" => row' = d)
        BY <2>2, <2>4, <2>5, <2>7, ResolvedRow
      <3>2. PlaceSound'
        BY <2>7, <3>1 DEF PlaceSound, Cleaning, Leaving, Ended
      <3>3. wire.group => row' = d /\ d.src = row.src /\ d.keep = row.keep
        BY <1>1, <2>2, <2>4, <2>5, <3>1 DEF GroupSound
      <3> QED
        BY <1>1, <1>14, <2>1, <3>1, <3>2, <3>3 DEF GroupSound, Closing
    <2> QED
      BY <2>1, <2>6, <2>7
  <1>24. CASE DeletedBefore \/ MarkDeleted
    <2>1. /\ row' = [row EXCEPT !.dead = TRUE] /\ pc' = "finish" /\ chat' = chat /\ wire' = wire
          /\ del' = del /\ pc \in {"recheck", "barrier", "deleted"}
          /\ pc = "deleted" \/ del.state = "done" \/ del.choice = "treat_done"
      BY <1>24 DEF DeletedBefore, MarkDeleted, MayDelete, world
    <2>2. row' \in Rows /\ row'.dead /\ row'.st = row.st /\ row'.src = row.src /\ row'.keep = row.keep
      BY <1>1, <2>1 DEF Rows
    <2>3. /\ row.st = "destroying" /\ row.src # "legacy" /\ AllDone /\ chat = "dissolved"
      BY <1>1, <2>1 DEF PlaceSound, GroupSound, Leaving, Ended
    <2>4. PlaceSound'
      BY <1>3, <2>1, <2>2, <2>3 DEF PlaceSound, Cleaning, Leaving, Ended
    <2> QED
      BY <1>1, <1>14, <2>1, <2>2, <2>3, <2>4 DEF GroupSound, Closing
  <1>25. CASE Finish
    <2>1. /\ row' = [row EXCEPT !.st = "destroyed", !.req = "none"] /\ pc = "finish" /\ pc' = "free"
          /\ chat' = chat /\ wire' = wire /\ del' = del
      BY <1>25 DEF Finish, world
    <2>2. /\ row' \in Rows /\ row'.dead = row.dead /\ row'.st = "destroyed"
          /\ row'.src = row.src /\ row'.keep = row.keep
      BY <1>1, <2>1 DEF Rows
    <2>3. (row.keep \/ row.dead) /\ AllDone
      BY <1>1, <2>1 DEF PlaceSound, Ended
    <2> QED
      BY <1>1, <1>6, <1>14, <2>1, <2>2, <2>3 DEF GroupSound, Closing
  (* The request to delete the chat, and its answers.                       *)
  <1>26. CASE Delete
    <2>1. /\ del' = [NoReceipt EXCEPT !.state = "pending"] /\ pc' = "deleting"
          /\ pc \in {"recheck", "barrier"} /\ row' = row /\ chat' = chat
      BY <1>26 DEF Delete, MayDelete
    <2>2. del' \in Receipts /\ del'.state = "pending" /\ del'.choice = "none"
      BY <2>1 DEF NoReceipt, Receipts
    <2>3. row.st = "destroying" /\ row.src # "legacy" /\ ~row.keep /\ AllDone
      BY <1>1, <2>1 DEF PlaceSound, Leaving
    <2>4. PlaceSound'
      BY <1>3, <2>1, <2>3 DEF PlaceSound, Cleaning, Leaving, Ended
    <2> QED
      BY <1>1, <1>3, <2>1, <2>2, <2>3, <2>4 DEF Certain, GroupSound, EndSound, Kept, Closing
  <1>27. CASE GroupDeleted
    <2>1. /\ del' = [del EXCEPT !.state = "done"] /\ wire' = [wire EXCEPT !.group = FALSE]
          /\ pc = "deleting" /\ pc' = "deleted" /\ row' = row /\ chat' = chat
          /\ chat = "dissolved"
      BY <1>27 DEF GroupDeleted
    <2>2. del' \in Receipts /\ ~wire'.group
      BY <1>1, <2>1, WireEdits DEF Receipts, IInv, TypeOK
    <2>3. row.st = "destroying" /\ row.src # "legacy" /\ AllDone
      BY <1>1, <2>1 DEF PlaceSound, Leaving
    <2>4. PlaceSound'
      BY <1>3, <2>1, <2>3 DEF PlaceSound, Cleaning, Leaving, Ended
    <2> QED
      BY <1>1, <1>3, <2>1, <2>2, <2>3, <2>4 DEF Certain, GroupSound, EndSound
  <1>28. CASE GroupRefused
    <2>1. /\ del' = [del EXCEPT !.state = "failed"] /\ wire' = [wire EXCEPT !.group = FALSE]
          /\ pc' = "free" /\ row' = row /\ chat' = chat
      BY <1>28 DEF GroupRefused, Throw
    <2>2. del' \in Receipts /\ ~wire'.group /\ del'.state = "failed" /\ del'.choice = del.choice
      BY <1>1, <2>1, WireEdits DEF Receipts, IInv, TypeOK
    <2> QED
      BY <1>1, <1>3, <1>6, <2>1, <2>2 DEF Certain, GroupSound, EndSound
  <1>29. CASE GroupLost
    <2>1. /\ del' = [del EXCEPT !.state = "uncertain"] /\ wire' = wire
          /\ pc' = "free" /\ row' = row /\ chat' = chat
      BY <1>29 DEF GroupLost, Throw, world
    <2>2. del' \in Receipts /\ del'.state = "uncertain" /\ del'.choice = del.choice
      BY <1>1, <2>1 DEF Receipts
    <2> QED
      BY <1>1, <1>3, <1>6, <2>1, <2>2 DEF Certain, GroupSound, EndSound, Kept, Closing
  <1> QED
    BY <1>7, <1>8, <1>9, <1>10, <1>11, <1>12, <1>13, <1>16, <1>17, <1>18, <1>19, <1>20, <1>21,
       <1>22, <1>23, <1>24, <1>25, <1>26, <1>27, <1>28, <1>29
       DEF Next, Act, Reconcile, Failure, Lands

(***************************************************************************)
(* The invariant and what follows from it                                  *)
(***************************************************************************)
LEMMA Initially ==
  ASSUME Init
  PROVE  IInv
  <1>1. /\ row \in Rows /\ row.st \in {"active", "completed"} /\ ~row.dead
        /\ pane \in [Participants -> {"none", "open", "closed"}]
        /\ part = [p \in Participants |-> IF pane[p] = "closed" THEN "removed" ELSE "live"]
        /\ close = [p \in Participants |->
                      IF pane[p] = "closed" THEN [NoReceipt EXCEPT !.state = "done"]
                      ELSE NoReceipt]
        /\ del = NoReceipt /\ chat = "alive" /\ pc = "free" /\ via = "reconcile" /\ todo = {}
        /\ cur \in Participants /\ answer = "none" /\ past = FALSE
        /\ wire = [panes |-> {}, group |-> FALSE, patch |-> {}]
        /\ sync = [req |-> "none", op |-> NoReceipt]
        /\ told = [close |-> "none", delete |-> "none"]
        /\ talk = [in |-> "clear", out |-> "clear"]
        /\ luck = MaxTroubles /\ room = MaxArrivals
    BY DEF Init
  <1>2. remote \in BOOLEAN /\ old \in {"none", "keep", "drop", "keepAll"}
    BY <1>1 DEF Init, Rows
  <1>3. /\ NoReceipt \in Receipts /\ NoReceipt.state = "none" /\ NoReceipt.choice = "none"
        /\ [NoReceipt EXCEPT !.state = "done"] \in Receipts
        /\ [NoReceipt EXCEPT !.state = "done"].choice = "none"
    BY DEF NoReceipt, Receipts
  <1>4. close \in [Participants -> Receipts] /\ del \in Receipts
    BY <1>1, <1>3
  <1>5. part \in [Participants -> {"live", "gone", "removed"}]
    BY <1>1
  <1>6. luck \in 0..MaxTroubles /\ room \in 0..MaxArrivals
    BY <1>1, ClosingAssumption DEF ClosingAssumption
  <1>7. /\ sync \in [req : {"none", "complete", "reopen"}, op : Receipts]
        /\ told \in [close : {"none", "lost", "done"}, delete : {"none", "refused", "lost", "done"}]
        /\ talk \in [in : {"clear", "open", "stuck"}, out : {"clear", "open", "stuck"}]
        /\ wire \in [panes : SUBSET Participants, group : BOOLEAN, patch : SUBSET BOOLEAN]
    BY <1>1, <1>3
  <1>8. TypeOK
    BY <1>1, <1>2, <1>4, <1>5, <1>6, <1>7 DEF TypeOK, Places
  <1>9. PlaceSound /\ EndSound
    BY <1>1 DEF PlaceSound, EndSound, Cleaning, Leaving, Ended
  <1>10. GroupSound
    BY <1>1, <1>3 DEF GroupSound
  <1>11. \A p \in Participants : PaneSound(p)
    BY <1>1, <1>3 DEF PaneSound, Done
  <1> QED
    BY <1>8, <1>9, <1>10, <1>11 DEF IInv

Syncs == [req : {"none", "complete", "reopen"}, op : Receipts]
Tells == [close : {"none", "lost", "done"}, delete : {"none", "refused", "lost", "done"}]
Talks == [in : {"clear", "open", "stuck"}, out : {"clear", "open", "stuck"}]
Wires == [panes : SUBSET Participants, group : BOOLEAN, patch : SUBSET BOOLEAN]

(* The types of the records that steps edit.                                *)
LEMMA Edits ==
  ASSUME TypeOK
  PROVE  /\ \A x \in {"none", "pending", "done", "failed", "uncertain"} :
               [sync EXCEPT !.op.state = x] \in Syncs
         /\ [sync EXCEPT !.op.choice = "treat_done"] \in Syncs
         /\ [sync EXCEPT !.op = NoReceipt] \in Syncs
         /\ \A g \in {"complete", "reopen"} : [req |-> g, op |-> NoReceipt] \in Syncs
         /\ \A x \in {"lost", "done"} : [told EXCEPT !.close = x] \in Tells
         /\ \A x \in {"refused", "lost", "done"} : [told EXCEPT !.delete = x] \in Tells
         /\ \A x \in {"clear", "open", "stuck"} :
               [talk EXCEPT !.in = x] \in Talks /\ [talk EXCEPT !.out = x] \in Talks
         /\ Settled \in Talks
         /\ \A p \in Participants : [wire EXCEPT !.panes = @ \cup {p}] \in Wires
         /\ \A p \in Participants : [wire EXCEPT !.panes = @ \ {p}] \in Wires
         /\ \A b \in BOOLEAN : [wire EXCEPT !.group = b] \in Wires
         /\ \A v \in BOOLEAN : [wire EXCEPT !.patch = @ \cup {v}] \in Wires
         /\ \A v \in BOOLEAN : [wire EXCEPT !.patch = @ \ {v}] \in Wires
  <1>1. sync \in Syncs /\ told \in Tells /\ talk \in Talks /\ wire \in Wires
    BY DEF TypeOK, Syncs, Tells, Talks, Wires
  <1>2. NoReceipt \in Receipts
    BY DEF NoReceipt, Receipts
  <1>3. sync.op \in Receipts /\ sync.req \in {"none", "complete", "reopen"}
    BY <1>1 DEF Syncs
  <1>4. \A op \in Receipts : [sync EXCEPT !.op = op] \in Syncs
    BY <1>1 DEF Syncs
  <1>5. /\ \A x \in {"none", "pending", "done", "failed", "uncertain"} :
              [sync EXCEPT !.op.state = x] \in Syncs
        /\ [sync EXCEPT !.op.choice = "treat_done"] \in Syncs
    <2>1. ASSUME NEW x \in {"none", "pending", "done", "failed", "uncertain"}
          PROVE  [sync EXCEPT !.op.state = x] \in Syncs
      <3>1. [sync.op EXCEPT !.state = x] \in Receipts
        BY <1>3 DEF Receipts
      <3>2. [sync EXCEPT !.op.state = x] = [sync EXCEPT !.op = [sync.op EXCEPT !.state = x]]
        BY <1>1 DEF Syncs
      <3> QED
        BY <1>4, <3>1, <3>2
    <2>2. [sync EXCEPT !.op.choice = "treat_done"] \in Syncs
      <3>1. [sync.op EXCEPT !.choice = "treat_done"] \in Receipts
        BY <1>3 DEF Receipts
      <3>2. [sync EXCEPT !.op.choice = "treat_done"]
               = [sync EXCEPT !.op = [sync.op EXCEPT !.choice = "treat_done"]]
        BY <1>1 DEF Syncs
      <3> QED
        BY <1>4, <3>1, <3>2
    <2> QED
      BY <2>1, <2>2
  <1>6. \A g \in {"complete", "reopen"} : [req |-> g, op |-> NoReceipt] \in Syncs
    BY <1>2 DEF Syncs
  <1>7. /\ \A x \in {"lost", "done"} : [told EXCEPT !.close = x] \in Tells
        /\ \A x \in {"refused", "lost", "done"} : [told EXCEPT !.delete = x] \in Tells
    BY <1>1 DEF Tells
  <1>8. /\ \A x \in {"clear", "open", "stuck"} :
              [talk EXCEPT !.in = x] \in Talks /\ [talk EXCEPT !.out = x] \in Talks
        /\ Settled \in Talks
    BY <1>1 DEF Talks, Settled
  <1>9. \A x \in SUBSET Participants : [wire EXCEPT !.panes = x] \in Wires
    BY <1>1 DEF Wires
  <1>10. \A x \in SUBSET BOOLEAN : [wire EXCEPT !.patch = x] \in Wires
    BY <1>1 DEF Wires
  <1>11. \A b \in BOOLEAN : [wire EXCEPT !.group = b] \in Wires
    BY <1>1 DEF Wires
  <1>12. wire.panes \subseteq Participants /\ wire.patch \subseteq BOOLEAN
    BY <1>1 DEF Wires
  <1> QED
    BY <1>2, <1>4, <1>5, <1>6, <1>7, <1>8, <1>9, <1>10, <1>11, <1>12

LEMMA OthersTyped ==
  ASSUME [Next]_vars, TypeOK
  PROVE  /\ old' \in {"none", "keep", "drop", "keepAll"}
         /\ sync' \in Syncs /\ past' \in BOOLEAN /\ told' \in Tells /\ talk' \in Talks
         /\ pc' \in Places /\ via' \in {"reconcile", "action"} /\ todo' \subseteq Participants
         /\ cur' \in Participants /\ answer' \in {"none", "unknown"}
         /\ chat' \in {"alive", "dissolved"} /\ remote' \in BOOLEAN /\ wire' \in Wires
         /\ luck' \in 0..MaxTroubles /\ room' \in 0..MaxArrivals
  <1> DEFINE Row == /\ old' \in {"none", "keep", "drop", "keepAll"}
                    /\ sync' \in Syncs /\ past' \in BOOLEAN /\ told' \in Tells
             Hand == /\ pc' \in Places /\ via' \in {"reconcile", "action"}
                     /\ todo' \subseteq Participants /\ cur' \in Participants
                     /\ answer' \in {"none", "unknown"}
             Side == /\ chat' \in {"alive", "dissolved"} /\ remote' \in BOOLEAN
                     /\ wire' \in Wires /\ talk' \in Talks
             Left == luck' \in 0..MaxTroubles /\ room' \in 0..MaxArrivals
             All == Row /\ Hand /\ Side /\ Left
  <1>1. /\ old \in {"none", "keep", "drop", "keepAll"}
        /\ sync \in Syncs /\ past \in BOOLEAN /\ told \in Tells /\ talk \in Talks
        /\ pc \in Places /\ via \in {"reconcile", "action"} /\ todo \subseteq Participants
        /\ cur \in Participants /\ answer \in {"none", "unknown"}
        /\ chat \in {"alive", "dissolved"} /\ remote \in BOOLEAN /\ wire \in Wires
        /\ luck \in 0..MaxTroubles /\ room \in 0..MaxArrivals
    BY DEF TypeOK, Syncs, Tells, Talks, Wires
  <1>2. ASSUME UNCHANGED <<old, sync, past, told>>
        PROVE  Row
    BY <1>1, <1>2
  <1>3. ASSUME UNCHANGED <<talk, chat, remote, wire>>
        PROVE  Side
    BY <1>1, <1>3
  <1>4. ASSUME (Trouble /\ room' = room) \/ UNCHANGED <<luck, room>>
        PROVE  Left
    BY <1>1, <1>4, ClosingAssumption DEF Trouble
  <1>5. ASSUME UNCHANGED <<todo, cur>>, pc' \in Places,
               via' \in {"reconcile", "action"}, answer' = answer
        PROVE  Hand
    BY <1>1, <1>5
  <1>6. ASSUME Throw, UNCHANGED <<cur, answer>>
        PROVE  Hand
    BY <1>1, <1>6 DEF Throw, Places
  <1> SUFFICES All
    OBVIOUS
  <1> HIDE DEF Row, Hand, Side, Left
  (* Nothing is requested, answered or told, and no bound is used up.       *)
  <1>7. ASSUME UNCHANGED <<old, sync, past, told, talk, chat, remote, wire, luck, room>>, Hand
        PROVE  All
    BY <1>2, <1>3, <1>4, <1>7
  <1>8. CASE UNCHANGED vars
    BY <1>1, <1>5, <1>7, <1>8 DEF vars, rows, world
  <1>9. ASSUME NEW r, ~Busy, Mutate(r), sync' \in Syncs, past' \in BOOLEAN
        PROVE  All
    <2>1. /\ UNCHANGED <<old, told, talk, chat, remote, wire, luck, room, todo, cur>>
          /\ answer' = "none" /\ pc' \in {"sync", pc} /\ via' \in {"action", via}
      BY <1>9 DEF Mutate, world
    <2> QED
      BY <1>1, <1>3, <1>4, <1>9, <2>1 DEF Row, Hand, Places
  <1>10. CASE Act
    <2>1. ASSUME NEW a, NEW word, End(a, word)
          PROVE  All
      BY <1>1, <1>9, <2>1 DEF End
    <2>2. ASSUME NEW a \in {"complete", "close", "reopen"}, NEW word, NEW exec,
                 Request(a, word, exec)
          PROVE  All
      <3>1. ~Busy /\ \E r : Mutate(r)
        BY <2>2 DEF Request
      <3>2. sync' \in Syncs /\ past' \in BOOLEAN
        <4>1. /\ \/ sync' = sync \/ sync' = [sync EXCEPT !.op = NoReceipt]
                 \/ sync' = [req |-> Goal(a), op |-> NoReceipt]
              /\ past' = past \/ past' = (past \/ Kept(sync.op))
          BY <2>2 DEF Request
        <4>2. Goal(a) \in {"complete", "reopen"} /\ Kept(sync.op) \in BOOLEAN
          BY DEF Goal, Kept
        <4> QED
          BY <1>1, <4>1, <4>2, Edits
      <3> QED
        BY <1>9, <3>1, <3>2
    <2>3. CASE RetryTask
      <3>1. CASE SomeKept
        BY <1>1, <1>7, <2>3, <3>1 DEF RetryTask, rows, world, Hand
      <3>2. CASE ~SomeKept
        <4>1. /\ ~Busy /\ (\E r : Mutate(r)) /\ past' = past
              /\ sync' = sync \/ sync' = [sync EXCEPT !.op = NoReceipt]
          BY <2>3, <3>2 DEF RetryTask
        <4> QED
          BY <1>1, <1>9, <4>1, Edits
      <3> QED
        BY <3>1, <3>2
    <2> QED
      BY <1>10, <2>1, <2>2, <2>3 DEF Act
  <1>11. CASE \/ Begin \/ SeesDissolved \/ SeesNoChange \/ SyncSkipped \/ WrittenBefore \/ NotYet
              \/ RemoteDone \/ RemoteSame \/ Close \/ Observe \/ Evidence \/ ToBarrier \/ NotReady
              \/ Notify \/ DeletedBefore \/ MarkDeleted \/ Finish
              \/ \E p \in Participants : SkipPane(p)
    <2>1. UNCHANGED <<old, sync, past, told, talk, chat, remote, wire, luck, room>>
      BY <1>11 DEF Begin, SeesDissolved, SeesNoChange, SyncSkipped, WrittenBefore, NotYet,
         RemoteDone, RemoteSame, Close, Observe, Evidence, ToBarrier, NotReady, Notify,
         DeletedBefore, MarkDeleted, Finish, SkipPane, Move, rows, world
    <2>2. Hand
      <3>1. /\ pc' \in Places /\ via' \in {"reconcile", via}
            /\ answer' \in {"none", answer} /\ cur' = cur
            /\ \/ todo' = todo \/ todo' = Participants
               \/ \E p \in Participants : todo' = todo \ {p}
        BY <1>11 DEF Begin, SeesDissolved, SeesNoChange, SyncSkipped, WrittenBefore, NotYet,
           RemoteDone, RemoteSame, Close, Observe, Evidence, ToBarrier, NotReady, Notify,
           DeletedBefore, MarkDeleted, Finish, SkipPane, Move, AfterGroup, AfterSync, Places
      <3> QED
        BY <1>1, <3>1 DEF Hand
    <2> QED
      BY <1>7, <2>1, <2>2
  <1>12. CASE \/ Crash \/ ReadFails \/ WriteWaits \/ CloseUnknown \/ DeleteUnknown \/ PaneLost
              \/ GroupLost \/ \E p \in Participants : UnknownPane(p)
    <2>1. /\ UNCHANGED <<old, sync, past, told, talk, chat, remote, wire, cur, answer>> /\ Throw
          /\ (Trouble /\ room' = room) \/ UNCHANGED <<luck, room>>
      BY <1>12 DEF Crash, ReadFails, WriteWaits, CloseUnknown, DeleteUnknown, PaneLost,
         GroupLost, UnknownPane, Fails, rows, world
    <2> QED
      BY <1>2, <1>3, <1>4, <1>6, <2>1
  <1>13. CASE \/ Confirm \/ WriteAnswered \/ CloseTold \/ CloseTellAgain \/ DeleteTold
    <2>1. /\ UNCHANGED <<old, past, talk, chat, remote, wire, todo, cur, answer, luck, room>>
          /\ pc' \in Places /\ via' \in {"reconcile", via}
          /\ \/ sync' = sync \/ sync' = [sync EXCEPT !.op.state = "done"]
             \/ sync' = [sync EXCEPT !.op.choice = "treat_done"]
          /\ \/ told' = told \/ told' = [told EXCEPT !.close = "done"]
             \/ told' = [told EXCEPT !.delete = "done"]
      BY <1>13 DEF Confirm, Confirmed, WriteAnswered, CloseTold, CloseTellAgain, DeleteTold,
         AfterSync, Places, world
    <2>2. Row
      BY <1>1, <2>1, Edits DEF Row
    <2> QED
      BY <1>1, <1>3, <1>4, <1>5, <2>1, <2>2
  <1>14. CASE \/ WriteLost \/ DeleteNotTold \/ CloseNotTold
    <2>1. /\ UNCHANGED <<old, past, chat, remote, wire, cur, answer, room>> /\ Throw /\ Trouble
          /\ sync' = sync \/ sync' = [sync EXCEPT !.op.state = "uncertain"]
          /\ \/ told' = told \/ told' = [told EXCEPT !.close = "lost"]
             \/ \E x \in {"refused", "lost"} : told' = [told EXCEPT !.delete = x]
          /\ talk' = talk \/ talk' = [talk EXCEPT !.out = "stuck"]
      BY <1>14 DEF WriteLost, DeleteNotTold, CloseNotTold, world
    <2>2. Row
      BY <1>1, <2>1, Edits DEF Row
    <2>3. Side
      BY <1>1, <2>1, Edits DEF Side
    <2> QED
      BY <1>4, <1>6, <2>1, <2>2, <2>3
  <1>15. CASE \/ Write \/ WriteRefused
    <2>1. /\ UNCHANGED <<old, past, told, talk, chat, remote, cur, answer, room>>
          /\ (Throw /\ Trouble) \/ (UNCHANGED <<todo, via, luck>> /\ pc' = "patch")
          /\ \E x \in {"pending", "failed"} : sync' = [sync EXCEPT !.op.state = x]
          /\ \/ wire' = [wire EXCEPT !.patch = @ \cup {Target}]
             \/ wire' = [wire EXCEPT !.patch = @ \ {Target}]
      BY <1>15 DEF Write, WriteRefused
    <2>2. Row
      BY <1>1, <2>1, Edits DEF Row
    <2>3. Side
      <3>1. Target \in BOOLEAN
        BY DEF Target
      <3> QED
        BY <1>1, <2>1, <3>1, Edits DEF Side
    <2>4. Hand
      BY <1>1, <1>5, <1>6, <2>1 DEF Places
    <2> QED
      BY <1>4, <2>1, <2>2, <2>3, <2>4
  <1>16. CASE RemoteFails
    <2>1. /\ UNCHANGED <<old, sync, past, told, talk, chat, remote, wire, todo, cur, answer, room, via>>
          /\ Trouble /\ pc' \in {"close", "free"}
      BY <1>16 DEF RemoteFails, world
    <2> QED
      BY <1>1, <1>2, <1>3, <1>4, <1>5, <2>1 DEF Places
  <1>17. CASE PaneClosed \/ PaneRefused \/ \E p \in Participants : ClosePane(p)
    <2>1. /\ UNCHANGED <<old, sync, past, told, talk, chat, remote, answer, room>>
          /\ Trouble \/ luck' = luck
          /\ pc' \in {"panes", "free", "closing"} /\ via' \in {"reconcile", via}
          /\ cur' \in Participants \cup {cur} /\ todo' \subseteq todo
          /\ \/ wire' = wire
             \/ \E p \in Participants \cup {cur} : \/ wire' = [wire EXCEPT !.panes = @ \cup {p}]
                                                 \/ wire' = [wire EXCEPT !.panes = @ \ {p}]
      <3>1. CASE PaneClosed
        BY <3>1 DEF PaneClosed
      <3>2. CASE PaneRefused
        <4>1. wire' = [wire EXCEPT !.panes = IF close[cur].again THEN @ ELSE @ \ {cur}]
          BY <3>2 DEF PaneRefused
        <4>2. wire' = wire \/ wire' = [wire EXCEPT !.panes = @ \ {cur}]
          BY <1>1, <4>1 DEF Wires
        <4> QED
          BY <3>2, <4>2 DEF PaneRefused, Throw
      <3>3. CASE \E p \in Participants : ClosePane(p)
        BY <3>3 DEF ClosePane
      <3> QED
        BY <1>17, <3>1, <3>2, <3>3
    <2>2. Side
      BY <1>1, <2>1, Edits DEF Side
    <2>3. Hand
      BY <1>1, <2>1 DEF Hand, Places
    <2> QED
      BY <1>2, <1>4, <2>1, <2>2, <2>3
  <1>18. CASE Delete \/ GroupDeleted \/ GroupRefused
    <2>1. /\ UNCHANGED <<old, sync, past, told, talk, chat, remote, cur, answer, room>>
          /\ Trouble \/ luck' = luck
          /\ pc' \in {"deleting", "deleted", "free"} /\ via' \in {"reconcile", via}
          /\ todo' \subseteq todo
          /\ \E b \in BOOLEAN : wire' = [wire EXCEPT !.group = b]
      BY <1>18 DEF Delete, GroupDeleted, GroupRefused, Throw
    <2>2. Side
      BY <1>1, <2>1, Edits DEF Side
    <2>3. Hand
      BY <1>1, <2>1 DEF Hand, Places
    <2> QED
      BY <1>2, <1>4, <2>1, <2>2, <2>3
  <1>19. CASE \/ Arrive \/ Settle \/ Stick \/ Outside \/ GroupLands
              \/ (\E p \in Participants : PaneLands(p)) \/ (\E v \in BOOLEAN : PatchLands(v))
              \/ (\E p \in Participants : Decide(p))
    <2>1. /\ UNCHANGED <<old, sync, past, told, pc, via, todo, cur, answer>>
          /\ \/ Trouble /\ room' = room
             \/ UNCHANGED <<luck, room>>
             \/ room > 0 /\ room' = room - 1 /\ luck' = luck
          /\ \/ talk' = talk \/ talk' = Settled
             \/ \E x \in {"open", "stuck"} : talk' = [talk EXCEPT !.in = x] \/ talk' = [talk EXCEPT !.out = x]
          /\ chat' \in {chat, "dissolved"} /\ (remote' = remote \/ remote' \in BOOLEAN)
          /\ \/ wire' = wire \/ wire' = [wire EXCEPT !.group = FALSE]
             \/ \E p \in Participants : wire' = [wire EXCEPT !.panes = @ \ {p}]
             \/ \E v \in BOOLEAN : wire' = [wire EXCEPT !.patch = @ \ {v}]
      BY <1>19 DEF Arrive, Settle, Stick, Outside, GroupLands, PaneLands, PatchLands, Decide, rows, world
    <2>2. Side
      BY <1>1, <2>1, Edits DEF Side
    <2>3. Hand
      BY <1>1, <2>1 DEF Hand
    <2>4. Left
      BY <1>1, <2>1, ClosingAssumption DEF Left, Trouble
    <2> QED
      BY <1>2, <2>1, <2>2, <2>3, <2>4
  <1> QED
    BY <1>8, <1>10, <1>11, <1>12, <1>13, <1>14, <1>15, <1>16, <1>17, <1>18, <1>19
       DEF Next, Reconcile, Failure, Lands

LEMMA Inductive ==
  ASSUME IInv, [Next]_vars
  PROVE  IInv'
  <1>1. TypeOK'
    BY PanesKept, CertainKept, OthersTyped DEF IInv, TypeOK, Certain, Syncs, Tells, Talks, Wires
  <1> QED
    BY <1>1, PanesKept, CertainKept DEF IInv, Certain

LEMMA Invariance == Spec => []IInv
  <1>1. Init => IInv
    BY Initially
  <1>2. IInv /\ [Next]_vars => IInv'
    BY Inductive
  <1> QED
    BY <1>1, <1>2, PTL DEF Spec

(* Every row, receipt and request keeps its type.                           *)
THEOREM TypeCorrect == Spec => []TypeOK
  BY Invariance, PTL DEF IInv

(* What the rows say of the end of a task is so: a group called deleted is  *)
(* dissolved, a destroyed task has no open pane that nobody decided about,  *)
(* and no chat unless it is kept; a chat called kept is not being deleted.  *)
THEOREM TheEndIsTrue == Spec => []EndIsTrue
  <1>1. IInv => EndIsTrue
    BY DEF IInv, EndIsTrue, KeepIsKept, GroupSound, EndSound, AllDone, Done
  <1> QED
    BY <1>1, Invariance, PTL

LEMMA OnlyDelete ==
  ASSUME [Next]_vars, TypeOK, ~wire.group, wire'.group
  PROVE  Delete
  <1>1. ASSUME \/ wire' = wire \/ (\E x : wire' = [wire EXCEPT !.patch = x])
               \/ wire' = [wire EXCEPT !.group = FALSE]
               \/ (\E x : wire' = [wire EXCEPT !.panes = x])
        PROVE  FALSE
    BY <1>1, WireEdits DEF TypeOK
  <1> DEFINE Same == wire' = wire
             Keeps == \/ wire' = wire \/ (\E x : wire' = [wire EXCEPT !.patch = x])
                      \/ wire' = [wire EXCEPT !.group = FALSE]
                      \/ (\E x : wire' = [wire EXCEPT !.panes = x])
  <1>2. UNCHANGED vars \/ Act \/ Arrive \/ Settle \/ Stick \/ Crash \/ Outside => Same
    BY DEF vars, rows, world, Act, End, Request, RetryTask, Mutate, Arrive, Settle, Stick, Crash,
           Fails, Outside
  <1>3. ASSUME \/ Begin \/ SeesDissolved \/ SeesNoChange \/ SyncSkipped \/ Confirm \/ WrittenBefore
               \/ WriteWaits \/ WriteAnswered \/ NotYet \/ RemoteDone \/ RemoteSame \/ Close \/ Observe
               \/ CloseTold \/ CloseTellAgain \/ CloseUnknown \/ Evidence
        PROVE  Same
    BY <1>3 DEF rows, world, Fails, Move, Begin, SeesDissolved, SeesNoChange, SyncSkipped, Confirm,
           WrittenBefore, WriteWaits, WriteAnswered, NotYet, RemoteDone, RemoteSame, Close,
           Observe, CloseTold, CloseTellAgain, CloseUnknown, Evidence
  <1>4. ASSUME \/ ToBarrier \/ NotReady \/ Notify \/ DeleteTold \/ DeletedBefore \/ DeleteUnknown
               \/ MarkDeleted \/ Finish \/ ReadFails \/ WriteLost \/ RemoteFails \/ CloseNotTold
               \/ PaneLost \/ DeleteNotTold \/ GroupLost
               \/ (\E p \in Participants : SkipPane(p) \/ UnknownPane(p) \/ Decide(p))
        PROVE  Same
    BY <1>4 DEF rows, world, Fails, Move, ToBarrier, NotReady, Notify, DeleteTold, DeletedBefore,
           DeleteUnknown, MarkDeleted, Finish, ReadFails, WriteLost, RemoteFails, CloseNotTold,
           PaneLost, DeleteNotTold, GroupLost, SkipPane, UnknownPane, Decide
  <1>5. ASSUME \/ Write \/ PaneClosed \/ GroupDeleted \/ WriteRefused \/ PaneRefused \/ GroupRefused
               \/ GroupLands \/ (\E p \in Participants : ClosePane(p) \/ PaneLands(p))
               \/ (\E v \in BOOLEAN : PatchLands(v))
        PROVE  Keeps
    BY <1>5 DEF Write, PaneClosed, GroupDeleted, WriteRefused, PaneRefused, GroupRefused, GroupLands,
           ClosePane, PaneLands, PatchLands
  <1> HIDE DEF Same, Keeps
  <1>6. ~Same /\ ~Keeps
    BY <1>1 DEF Same, Keeps
  <1>7. ~Act /\ ~Arrive /\ ~Settle /\ ~Stick /\ ~Crash /\ ~Outside /\ ~(UNCHANGED vars)
    BY <1>2, <1>6
  <1>8. /\ ~Failure /\ ~Lands /\ ~(\E p \in Participants : Decide(p))
    BY <1>4, <1>5, <1>6 DEF Failure, Lands
  <1>9. Reconcile
    BY <1>7, <1>8 DEF Next
  <1> QED
    BY <1>3, <1>4, <1>5, <1>6, <1>9 DEF Reconcile

(* The request to delete the chat leaves last: the task is being cleaned    *)
(* up, nobody wants the chat, every pane is done with, nothing in or out of *)
(* the chat is open and the notice of the deletion was delivered.           *)
THEOREM TheGroupGoesLast == Spec => GroupLast
  <1> DEFINE Step == ~wire.group /\ wire'.group =>
                        /\ row.st = "destroying" /\ ~row.keep
                        /\ talk.in = "clear" /\ talk.out = "clear" /\ told.delete = "done"
                        /\ \A p \in Participants :
                              pane[p] # "open" \/ close[p].choice \in {"treat_done", "abandon"}
  <1>1. IInv /\ [Next]_vars => Step
    <2> SUFFICES ASSUME IInv, [Next]_vars, ~wire.group, wire'.group
                 PROVE  Step
      OBVIOUS
    <2>1. Delete
      BY OnlyDelete DEF IInv
    <2>2. pc = "recheck" \/ (pc = "barrier" /\ told.delete = "done")
      BY <2>1 DEF Delete, MayDelete
    <2>3. Ready
      BY <2>1 DEF Delete
    <2> QED
      BY <2>2, <2>3 DEF IInv, PlaceSound, Leaving, AllDone, Done, Ready
  <1> QED
    BY <1>1, Invariance, PTL DEF Spec, GroupLast
=============================================================================
