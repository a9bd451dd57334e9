------------------------- MODULE OrchestrationProofs -------------------------
(***************************************************************************)
(* What the continuous scheduler of Orchestration.tla keeps, for any       *)
(* participants and any bounds.  An input of an event is on record in four *)
(* places: in the event, in its receipt, in the run that is sending it,    *)
(* and on the other side.  The invariant says how far they may be apart    *)
(* at every step between, and what a crash leaves of them.                 *)
(* The last two parts are about the machines beside it in MCScheduling:    *)
(* the outputs of a discussion (Discussion) and the obligations of a plan  *)
(* (Planning).                                                             *)
(***************************************************************************)
EXTENDS MCScheduling, FiniteSetTheorems, WellFoundedInduction, TLAPS

Words == {"none", "pending", "sent", "failed", "uncertain"}

(* The awaits of a run between the mark in the event and the answer.       *)
Hot == {"sending", "leaving", "echo", "marked"}

(* A run stands at an event that exists, and one that sends has counted an *)
(* attempt.                                                                *)
PlaceSound ==
    /\ pc = "events" => cur \in 1..(Len(ev) + 1)
    /\ pc \notin {"off", "events", "choose"} => cur \in 1..Len(ev)
    /\ pc \in Hot => who \in People
    /\ pc \in Hot \cup {"think"} => ev[cur].tries > 0

(* A revision came with a message that was handled.                        *)
RevisionSound == rev + (IF ingress.open THEN 1 ELSE 0) <= ingress.n

(* An input that left is known to its event and to its receipt.            *)
Out(i) == i \in wire \/ landed[i] > 0
OutSound(i) ==
    Out(i) =>
        /\ i[1] \in 1..Len(ev) /\ ev[i[1]].disp[i[2]] \in {"pending", "sent", "uncertain"}
        /\ op[i].state \in {"pending", "uncertain", "done"}

(* It is under way or there, and once.                                     *)
OnceSound(i) == landed[i] <= 1 /\ (i \in wire => landed[i] = 0)

(* What the run that sends knows of the input in its hands.                *)
HandSound ==
    LET i == <<cur, who>> IN
    /\ pc \in Hot => ev[cur].disp[who] = "pending"
    /\ pc \in {"sending", "leaving"} => ~Out(i)
    /\ pc \in {"leaving", "echo"} => op[i].state = "pending"
    /\ pc = "marked" => op[i].state = "done"

IInv == /\ TypeOK /\ PlaceSound /\ RevisionSound
        /\ \A i \in Inputs : OutSound(i) /\ OnceSound(i)
        /\ HandSound

(***************************************************************************)
(* The first of some events                                                *)
(***************************************************************************)
LEMMA FirstIn ==
  ASSUME NEW T \in SUBSET Nat, T # {}
  PROVE  \E x \in T : \A y \in T : x <= y
  <1> DEFINE R == {ss \in Nat \X Nat : ss[1] < ss[2]}
  <1>1. IsWellFoundedOn(R, Nat)
    BY NatLessThanWellFounded DEF OpToRel
  <1>2. \A x, y \in Nat : <<y, x>> \notin R => x <= y
    OBVIOUS
  <1> HIDE DEF R
  <1>3. \E x \in T : \A y \in T : <<y, x>> \notin R
    BY <1>1, WFMin
  <1> QED
    BY <1>2, <1>3

LEMMA FirstOf ==
  ASSUME NEW T \in SUBSET Nat, T # {}
  PROVE  Least(T) \in T
  BY FirstIn DEF Least

(***************************************************************************)
(* Events: what an edit of one leaves alone                                *)
(***************************************************************************)
Kept(e, f) ==
    f \in EventSet /\ f.disp = e.disp /\ f.tries = e.tries /\ f.outs = e.outs /\ f.rev = e.rev

LEMMA EventEdits ==
  ASSUME NEW e \in EventSet, NEW t \in BOOLEAN, NEW n \in Nat,
         NEW st \in {"pending", "processing", "done", "attention", "superseded"},
         NEW err \in {"none", "delivery", "notice", "other"},
         NEW note \in {"none", "sending", "uncertain", "retryable", "sent"},
         NEW dec \in {"none", "continue", "wait", "deliver"}
  PROVE  /\ Kept(e, [e EXCEPT !.st = st])
         /\ Kept(e, [e EXCEPT !.dec = dec])
         /\ Kept(e, [e EXCEPT !.told = t])
         /\ Kept(e, [e EXCEPT !.st = st, !.err = err])
         /\ Kept(e, [e EXCEPT !.note = note, !.notes = n])
         /\ Kept(e, [e EXCEPT !.note = note, !.st = st, !.err = err])
         /\ Kept(e, [e EXCEPT !.note = note, !.err = err, !.st = st])
         /\ Kept(e, [e EXCEPT !.told = t, !.note = note, !.err = err])
         /\ Kept(e, [e EXCEPT !.st = st, !.err = err, !.dec = dec])
  <1>a. ASSUME NEW f \in EventSet
        PROVE  Kept(f, [f EXCEPT !.note = note])
    BY DEF EventSet, Kept
  <1>b. ASSUME NEW f, Kept(e, f), NEW g, Kept(f, g)
        PROVE  Kept(e, g)
    BY <1>b DEF Kept
  <1>c. ASSUME NEW f \in EventSet
        PROVE  Kept(f, [f EXCEPT !.err = err])
    BY DEF EventSet, Kept
  <1>d. ASSUME NEW f \in EventSet
        PROVE  Kept(f, [f EXCEPT !.dec = dec])
    BY DEF EventSet, Kept
  <1>1. Kept(e, [e EXCEPT !.st = st])
    BY DEF EventSet, Kept
  <1>2. Kept(e, [e EXCEPT !.dec = dec])
    BY DEF EventSet, Kept
  <1>3. Kept(e, [e EXCEPT !.told = t])
    BY DEF EventSet, Kept
  <1>4. Kept(e, [e EXCEPT !.st = st, !.err = err])
    BY DEF EventSet, Kept
  <1>5. Kept(e, [e EXCEPT !.note = note, !.notes = n])
    BY DEF EventSet, Kept
  <1>6. Kept(e, [e EXCEPT !.note = note, !.st = st, !.err = err])
    <2> DEFINE f == [e EXCEPT !.st = st, !.err = err]
    <2>1. Kept(e, f)
      BY <1>4
    <2>2. [e EXCEPT !.note = note, !.st = st, !.err = err] = [f EXCEPT !.note = note]
      BY DEF EventSet
    <2> HIDE DEF f
    <2> QED
      BY <1>a, <1>b, <2>1, <2>2 DEF Kept
  <1>7. Kept(e, [e EXCEPT !.note = note, !.err = err, !.st = st])
    <2> DEFINE f == [e EXCEPT !.st = st, !.err = err]
    <2>1. Kept(e, f)
      BY <1>4
    <2>2. [e EXCEPT !.note = note, !.err = err, !.st = st] = [f EXCEPT !.note = note]
      BY DEF EventSet
    <2> HIDE DEF f
    <2> QED
      BY <1>a, <1>b, <2>1, <2>2 DEF Kept
  <1>8. Kept(e, [e EXCEPT !.told = t, !.note = note, !.err = err])
    <2> DEFINE f == [e EXCEPT !.told = t]
               g == [f EXCEPT !.note = note]
    <2>1. Kept(e, f)
      BY <1>3
    <2>2. [e EXCEPT !.told = t, !.note = note, !.err = err] = [g EXCEPT !.err = err]
      BY DEF EventSet
    <2> HIDE DEF f
    <2>3. Kept(f, g)
      BY <1>a, <2>1 DEF Kept
    <2> HIDE DEF g
    <2>4. Kept(g, [g EXCEPT !.err = err])
      BY <1>c, <2>3 DEF Kept
    <2> QED
      BY <1>b, <2>1, <2>2, <2>3, <2>4
  <1>9. Kept(e, [e EXCEPT !.st = st, !.err = err, !.dec = dec])
    <2> DEFINE f == [e EXCEPT !.st = st, !.err = err]
    <2>1. Kept(e, f)
      BY <1>4
    <2>2. [e EXCEPT !.st = st, !.err = err, !.dec = dec] = [f EXCEPT !.dec = dec]
      BY DEF EventSet
    <2> HIDE DEF f
    <2> QED
      BY <1>b, <1>d, <2>1, <2>2 DEF Kept
  <1> QED
    BY <1>1, <1>2, <1>3, <1>4, <1>5, <1>6, <1>7, <1>8, <1>9

LEMMA NoticeEdit ==
  ASSUME NEW e \in EventSet,
         NEW st \in {"pending", "processing", "done", "attention", "superseded"},
         NEW note \in {"retryable", "uncertain"}
  PROVE  Kept(e, [e EXCEPT !.note = note, !.err = "notice", !.st = st])
  <1> DEFINE f == [e EXCEPT !.note = note]
             g == [f EXCEPT !.err = "notice"]
  <1>1. f \in EventSet /\ Kept(e, f)
    BY DEF EventSet, Kept
  <1>2. [e EXCEPT !.note = note, !.err = "notice", !.st = st] = [g EXCEPT !.st = st]
    BY DEF EventSet
  <1> HIDE DEF f
  <1>3. g \in EventSet /\ Kept(f, g)
    BY <1>1 DEF EventSet, Kept
  <1> HIDE DEF g
  <1>4. Kept(g, [g EXCEPT !.st = st])
    BY <1>3 DEF EventSet, Kept
  <1> QED
    BY <1>1, <1>2, <1>3, <1>4 DEF Kept

States == {"pending", "processing", "done", "attention", "superseded"}
Faults == {"none", "delivery", "notice", "other"}
Notes  == {"none", "sending", "uncertain", "retryable", "sent"}

LEMMA RecoveredEdit ==
  ASSUME NEW e \in EventSet, NEW t \in BOOLEAN,
         NEW st \in States,
         NEW err \in Faults,
         NEW note \in Notes
  PROVE  Kept(e, [e EXCEPT !.told = t, !.note = note, !.st = st, !.err = err])
  <1> DEFINE f == [e EXCEPT !.st = st, !.err = err]
             g == [f EXCEPT !.note = note]
             h == [g EXCEPT !.told = t]
  <1>1. Kept(e, f)
    BY DEF EventSet, Kept, States, Faults, Notes
  <1>2. f \in EventSet => Kept(f, g)
    BY DEF EventSet, Kept, States, Faults, Notes
  <1>3. g \in EventSet => Kept(g, h)
    BY DEF EventSet, Kept, States, Faults, Notes
  <1>4. [e EXCEPT !.told = t, !.note = note, !.st = st, !.err = err] = h
    BY DEF EventSet
  <1> HIDE DEF f, g, h
  <1> QED
    BY <1>1, <1>2, <1>3, <1>4 DEF Kept

LEMMA RecoveredKept ==
  ASSUME NEW k, ev[k] \in EventSet
  PROVE  Kept(ev[k], Recovered(k))
  <1>1. Kept(ev[k], ev[k])
    BY DEF Kept
  <1> DEFINE sent == Confirmed(k)
             st   == IF ev[k].st = "superseded" THEN ev[k].st ELSE "done"
             err  == IF ev[k].err = "notice" THEN "none" ELSE ev[k].err
             note == IF Confirmed(k) THEN "sent" ELSE "retryable"
             f    == [ev[k] EXCEPT !.told = sent, !.note = note, !.st = st, !.err = err]
  <1>2. sent \in BOOLEAN /\ st \in States /\ err \in Faults /\ note \in Notes
    BY DEF EventSet, Confirmed, States, Faults, Notes
  <1>3. Recovered(k) = IF ~Recovers(k) THEN ev[k] ELSE f
    BY DEF Recovered
  <1> HIDE DEF sent, st, err, note
  <1>4. Kept(ev[k], f)
    BY <1>2, RecoveredEdit
  <1> QED
    BY <1>1, <1>3, <1>4

LEMMA DispatchEdits ==
  ASSUME NEW e \in EventSet, NEW d \in [People -> Words]
  PROVE  LET f == [e EXCEPT !.disp = d]
         IN  /\ f \in EventSet /\ f.disp = d /\ f.tries = e.tries /\ f.st = e.st
             /\ f.outs = e.outs /\ f.rev = e.rev
  BY DEF EventSet, Words

LEMMA WordEdits ==
  ASSUME NEW e \in EventSet, NEW p \in People, NEW w \in Words
  PROVE  LET f == [e EXCEPT !.disp[p] = w]
         IN  /\ f \in EventSet /\ f.tries = e.tries /\ f.disp[p] = w /\ f.st = e.st
             /\ f.outs = e.outs /\ f.rev = e.rev
             /\ \A q \in People : q # p => f.disp[q] = e.disp[q]
  BY DEF EventSet, Words

LEMMA TriesEdits ==
  ASSUME NEW e \in EventSet, NEW n \in Nat,
         NEW st \in {"pending", "processing", "done", "attention", "superseded"}
  PROVE  LET f == [e EXCEPT !.st = st, !.tries = n]
         IN  /\ f \in EventSet /\ f.tries = n /\ f.disp = e.disp /\ f.st = st
             /\ f.outs = e.outs /\ f.rev = e.rev
  BY DEF EventSet

(***************************************************************************)
(* The rows of events, and one of them saved                               *)
(***************************************************************************)
LEMMA Rows ==
  ASSUME TypeOK
  PROVE  /\ Len(ev) \in Nat /\ Len(ev) <= MaxEvents /\ DOMAIN ev = 1..Len(ev)
         /\ MaxEvents \in Nat /\ MaxMessages \in Nat /\ MaxOutputs \in Nat /\ MaxTroubles \in Nat
         /\ \A k \in 1..Len(ev) : ev[k] \in EventSet /\ k \in Events
  BY OrchestrationAssumption DEF TypeOK, Events

LEMMA Saves ==
  ASSUME TypeOK, cur \in 1..Len(ev), NEW e \in EventSet, Save(e)
  PROVE  /\ ev' \in Seq(EventSet) /\ Len(ev') = Len(ev) /\ ev'[cur] = e
         /\ \A k \in 1..Len(ev) : k # cur => ev'[k] = ev[k]
  BY DEF TypeOK, Save

LEMMA DispatchedWord ==
  ASSUME NEW r \in Receipts, NEW d \in Words
  PROVE  /\ Dispatched(r, d) \in Words
         /\ d \in {"pending", "sent", "uncertain"} /\ r.state \in {"pending", "uncertain", "done"}
              => Dispatched(r, d) \in {"pending", "sent", "uncertain"}
  BY DEF Dispatched, Words, Receipts

(* What the receipts say goes into the event, and nothing else but its     *)
(* place in the work.                                                      *)
LEMMA Reconciles ==
  ASSUME TypeOK, NEW k \in 1..Len(ev)
  PROVE  LET f == Reconciled(k)
         IN  /\ f \in EventSet /\ f.tries = ev[k].tries
             /\ f.outs = ev[k].outs /\ f.rev = ev[k].rev
             /\ \A p \in People : f.disp[p] = Dispatched(op[<<k, p>>], ev[k].disp[p])
  <1> DEFINE d == [p \in People |-> Dispatched(op[<<k, p>>], ev[k].disp[p])]
             e == [ev[k] EXCEPT !.disp = d]
  <1>1. ev[k] \in EventSet /\ k \in Events
    BY Rows
  <1>2. \A p \in People : op[<<k, p>>] \in Receipts /\ ev[k].disp[p] \in Words
    BY <1>1 DEF TypeOK, Inputs, EventSet, Words
  <1>3. d \in [People -> Words]
    BY <1>2, DispatchedWord
  <1>4. /\ e \in EventSet /\ e.disp = d /\ e.tries = ev[k].tries
        /\ e.outs = ev[k].outs /\ e.rev = ev[k].rev
    BY <1>1, <1>3, DispatchEdits
  <1>5. Reconciled(k) =
          IF \E p \in People : e.disp[p] = "uncertain" THEN [e EXCEPT !.st = "attention", !.err = "delivery"]
          ELSE IF Sent(e) THEN [e EXCEPT !.st = "done", !.err = "none",
                                         !.dec = IF e.dec = "none" THEN "continue" ELSE e.dec]
          ELSE IF e.dec # "none" THEN [e EXCEPT !.st = "done"]
          ELSE CASE e.st = "processing" -> [e EXCEPT !.st = "pending"]
                 [] e.st = "attention" /\ e.err = "delivery" -> [e EXCEPT !.st = "pending", !.err = "none"]
                 [] OTHER -> e
    BY DEF Reconciled
  <1> HIDE DEF e
  <1>6. e.dec \in {"none", "continue", "wait", "deliver"}
    BY <1>4 DEF EventSet
  <1>7. Kept(e, Reconciled(k))
    <2> DEFINE c == IF e.dec = "none" THEN "continue" ELSE e.dec
    <2>1. /\ Kept(e, [e EXCEPT !.st = "attention", !.err = "delivery"])
          /\ Kept(e, [e EXCEPT !.st = "pending", !.err = "none"])
      BY <1>4, EventEdits
    <2>3. /\ Kept(e, [e EXCEPT !.st = "done"])
          /\ Kept(e, [e EXCEPT !.st = "pending"])
      BY <1>4, EventEdits
    <2>4. c \in {"none", "continue", "wait", "deliver"}
      BY <1>6
    <2>5. Kept(e, [e EXCEPT !.st = "done", !.err = "none", !.dec = c])
      <3> HIDE DEF c
      <3> QED
        BY <1>4, <2>4, EventEdits
    <2>2. Kept(e, e)
      BY <1>4 DEF Kept
    <2> QED
      BY <1>5, <2>1, <2>2, <2>3, <2>5
  <1> QED
    BY <1>4, <1>7 DEF Kept

(***************************************************************************)
(* Steps that leave the inputs alone                                       *)
(***************************************************************************)
InputsSound == (\A i \in Inputs : OutSound(i) /\ OnceSound(i)) /\ HandSound

BookOK ==
    /\ task \in [st : {"open", "attention"}, paused : BOOLEAN, err : {"none", "delivery", "notice", "other"}]
    /\ part \in [People -> [busy : BOOLEAN, awaits : BOOLEAN, sent : BOOLEAN]]
    /\ outs \in Seq(People) /\ Len(outs) <= MaxOutputs
    /\ rev \in 0..MaxMessages /\ ingress \in [n : 0..MaxMessages, open : BOOLEAN]
    /\ RevisionSound
RunOK ==
    /\ pc \in {"off", "events", "choose", "think", "sending", "leaving", "echo", "marked",
               "notify", "reply", "posted", "replied", "alert"}
    /\ cur \in 0..(MaxEvents + 1) /\ who \in People \cup {Nobody}
    /\ mark \in 0..MaxMessages /\ back \in {"off", "events"}
    /\ PlaceSound
PostOK ==
    /\ box \in [Events -> {"none", "sending", "uncertain", "retryable", "delivered"}]
    /\ shown \in [Events -> Nat] /\ luck \in 0..MaxTroubles
InputOK ==
    /\ ev \in Seq(EventSet) /\ Len(ev) <= MaxEvents
    /\ op \in [Inputs -> Receipts]
    /\ wire \subseteq Inputs /\ landed \in [Inputs -> Nat]
    /\ InputsSound

LEMMA Parts == IInv <=> BookOK /\ RunOK /\ PostOK /\ InputOK
  BY DEF IInv, TypeOK, BookOK, RunOK, PostOK, InputOK, InputsSound

LEMMA NextParts == BookOK' /\ RunOK' /\ PostOK' /\ InputOK' => IInv'
  BY DEF IInv, TypeOK, BookOK, RunOK, PostOK, InputOK, InputsSound

(* An event may learn what its receipts say while no request is in the     *)
(* hands of the run.                                                       *)
LEMMA Learns ==
  ASSUME IInv, op' = op, wire' = wire, landed' = landed, pc' \notin Hot,
         ev' \in Seq(EventSet), Len(ev) <= Len(ev'), Len(ev') <= MaxEvents,
         \A k \in 1..Len(ev), p \in People :
            ev'[k].disp[p] \in {ev[k].disp[p], Dispatched(op[<<k, p>>], ev[k].disp[p])}
  PROVE  InputOK'
  <1>1. /\ Len(ev) \in Nat /\ Len(ev') \in Nat
        /\ \A k \in 1..Len(ev) : ev[k] \in EventSet /\ k \in Events
    BY Rows DEF IInv
  <1>2. ASSUME NEW i \in Inputs
        PROVE  OutSound(i)' /\ OnceSound(i)'
    <2>1. OutSound(i) /\ OnceSound(i)
      BY DEF IInv
    <2>2. PICK k \in Events, p \in People : i = <<k, p>>
      BY DEF Inputs
    <2>3. CASE Out(i)
      <3>1. k \in 1..Len(ev) /\ k \in 1..Len(ev')
        BY <1>1, <2>1, <2>2, <2>3 DEF OutSound
      <3>2. op[i] \in Receipts /\ ev[k].disp[p] \in Words
        <4>1. op[i] \in Receipts
          BY DEF IInv, TypeOK
        <4>2. ev[k] \in EventSet
          BY <1>1, <3>1
        <4> QED
          BY <2>2, <4>1, <4>2 DEF EventSet, Words
      <3>3. ev'[k].disp[p] \in {"pending", "sent", "uncertain"}
        BY <2>1, <2>2, <2>3, <3>1, <3>2, DispatchedWord DEF OutSound
      <3> QED
        BY <2>1, <2>2, <2>3, <3>1, <3>3 DEF OutSound, OnceSound, Out
    <2>4. CASE ~Out(i)
      BY <2>1, <2>4 DEF OutSound, OnceSound, Out
    <2> QED
      BY <2>3, <2>4
  <1>3. HandSound'
    BY DEF HandSound, Hot
  <1> QED
    BY <1>2, <1>3 DEF InputOK, InputsSound, IInv, TypeOK

LEMMA Beside ==
  ASSUME IInv, run' = run, ev' = ev, op' = op, wire' = wire, landed' = landed
  PROVE  RunOK' /\ InputOK'
  <1>1. RunOK /\ InputOK
    BY Parts
  <1> QED
    BY <1>1 DEF RunOK, InputOK, InputsSound, PlaceSound, OutSound, OnceSound, HandSound, Out, run

(***************************************************************************)
(* Where a run goes                                                        *)
(***************************************************************************)
Told == {"notify", "reply", "posted", "replied", "alert"}

LEMMA GoesOff ==
  ASSUME IInv, Off
  PROVE  RunOK' /\ pc' \notin Hot
  BY Rows DEF IInv, Off, RunOK, PlaceSound, Hot

LEMMA GoesOn ==
  ASSUME IInv, cur \in 1..Len(ev), Len(ev') = Len(ev), NEW place \in Told, Go(place)
  PROVE  RunOK' /\ pc' \notin Hot
  BY Rows DEF IInv, TypeOK, Go, RunOK, PlaceSound, Hot, Told

LEMMA GoesBack ==
  ASSUME IInv, cur \in 1..Len(ev), Len(ev') = Len(ev), Return
  PROVE  RunOK' /\ pc' \notin Hot
  <1>1. CASE back = "events"
    BY <1>1, Rows DEF IInv, TypeOK, Return, RunOK, PlaceSound, Hot
  <1>2. CASE back # "events"
    BY <1>2, GoesOff DEF Return
  <1> QED
    BY <1>1, <1>2

(***************************************************************************)
(* Steps that leave the inputs alone, put together                         *)
(***************************************************************************)
LEMMA QuietStep ==
  ASSUME IInv, BookOK', RunOK', PostOK', pc' \notin Hot,
         UNCHANGED <<ev, op, wire, landed>>
  PROVE  IInv'
  <1>1. /\ Len(ev') = Len(ev) /\ Len(ev) \in Nat /\ Len(ev) <= MaxEvents
        /\ ev' \in Seq(EventSet) /\ \A k \in 1..Len(ev) : ev'[k] = ev[k]
    BY Rows DEF IInv, TypeOK
  <1>2. InputOK'
    BY <1>1, Learns
  <1> QED
    BY <1>2, NextParts

LEMMA EditStep ==
  ASSUME IInv, BookOK', PostOK', UNCHANGED <<op, wire, landed>>, cur \in 1..Len(ev),
         NEW e \in EventSet, Save(e),
         e.disp = E.disp \/ \A p \in People : e.disp[p] = Dispatched(op[<<cur, p>>], E.disp[p]),
         Len(ev') = Len(ev) /\ ev'[cur] = e => RunOK' /\ pc' \notin Hot
  PROVE  IInv'
  <1>1. /\ ev' \in Seq(EventSet) /\ Len(ev') = Len(ev) /\ ev'[cur] = e
        /\ \A k \in 1..Len(ev) : k # cur => ev'[k] = ev[k]
    BY Saves DEF IInv
  <1>2. Len(ev) \in Nat /\ Len(ev) <= MaxEvents
    BY Rows DEF IInv
  <1>3. InputOK'
    BY <1>1, <1>2, Learns DEF E
  <1> QED
    BY <1>1, <1>3, NextParts

LEMMA BookKept ==
  ASSUME IInv, UNCHANGED <<part, outs, rev, ingress>>,
         task' \in [st : {"open", "attention"}, paused : BOOLEAN,
                    err : {"none", "delivery", "notice", "other"}]
  PROVE  BookOK'
  <1>1. BookOK
    BY Parts
  <1> QED
    BY <1>1 DEF BookOK, RevisionSound

LEMMA LuckKept ==
  ASSUME IInv, Smooth \/ Trouble
  PROVE  luck' \in 0..MaxTroubles
  <1>1. luck \in 0..MaxTroubles /\ MaxTroubles \in Nat
    BY Rows DEF IInv, TypeOK
  <1> QED
    BY <1>1 DEF Smooth, Trouble

LEMMA PostKept ==
  ASSUME IInv, UNCHANGED <<box, shown>>, Smooth \/ Trouble
  PROVE  PostOK'
  BY LuckKept DEF IInv, TypeOK, PostOK

LEMMA Passes ==
  ASSUME IInv,
         \/ Tick \/ ToAlert \/ NoWork \/ ToChoose \/ Reply \/ Known2 \/ Posted \/ Crash
  PROVE  IInv'
  <1>1. /\ TypeOK /\ PlaceSound /\ Len(ev) \in Nat /\ Len(ev) <= MaxEvents
        /\ DOMAIN ev = 1..Len(ev) /\ MaxEvents \in Nat
    BY Rows DEF IInv
  <1>2. /\ UNCHANGED <<ev, op, wire, landed, part, outs, rev, ingress, task>>
    BY DEF Tick, ToAlert, NoWork, ToChoose, Reply, Known2, Posted, Crash, book, store, world
  <1>3. BookOK'
    BY <1>1, <1>2, BookKept DEF TypeOK
  <1>4. PostOK'
    <2>1. CASE Reply \/ Posted
      <3>1. cur \in Events
        BY <1>1, <2>1, Rows DEF PlaceSound, Reply, Posted
      <3>2. shown[cur] + 1 \in Nat
        BY <1>1, <3>1 DEF TypeOK
      <3>3. shown' \in [Events -> Nat]
        BY <1>1, <2>1, <3>2 DEF TypeOK, Reply, Posted, world
      <3>4. box' \in [Events -> {"none", "sending", "uncertain", "retryable", "delivered"}]
        BY <1>1, <2>1 DEF TypeOK, Reply, Posted
      <3> QED
        BY <1>1, <2>1, <3>3, <3>4 DEF TypeOK, PostOK, Reply, Posted, Smooth
    <2>2. CASE ~(Reply \/ Posted)
      BY <2>2, PostKept DEF Tick, ToAlert, NoWork, ToChoose, Known2, Crash, store, world
    <2> QED
      BY <2>1, <2>2
  <1>5. RunOK' /\ pc' \notin Hot
    <2>1. CASE Tick
      BY <1>1, <1>2, <2>1 DEF Tick, TypeOK, RunOK, PlaceSound, Hot
    <2>2. CASE ToAlert
      <3>1. Blocked \in SUBSET Nat /\ Blocked # {} /\ Blocked \subseteq 1..Len(ev)
        BY <1>1, <2>2 DEF ToAlert, Blocked
      <3>2. Least(Blocked) \in 1..Len(ev)
        BY <3>1, FirstOf
      <3> QED
        BY <1>1, <1>2, <2>2, <3>2 DEF ToAlert, TypeOK, RunOK, PlaceSound, Hot
    <2>3. CASE NoWork \/ Crash
      BY <2>3, GoesOff DEF NoWork, Crash
    <2>4. CASE ToChoose
      BY <1>1, <1>2, <2>4 DEF ToChoose, Go, TypeOK, RunOK, PlaceSound, Hot
    <2>5. CASE Reply \/ Known2 \/ Posted
      <3>1. cur \in 1..Len(ev)
        BY <1>1, <2>5 DEF PlaceSound, Reply, Known2, Posted
      <3>2. \E place \in Told : Go(place)
        BY <2>5 DEF Reply, Known2, Posted, Told
      <3> QED
        BY <1>2, <3>1, <3>2, GoesOn
    <2> QED
      BY <2>1, <2>2, <2>3, <2>4, <2>5
  <1> QED
    BY <1>2, <1>3, <1>4, <1>5, QuietStep

LEMMA Reviews ==
  ASSUME IInv, Review
  PROVE  IInv'
  <1> DEFINE r == Recovered(cur)
             c == IF Reconcilable(r) THEN Reconciled(cur) ELSE r
             d == IF c.rev # rev /\ ~Open(c) /\ c.st # "done" THEN [c EXCEPT !.st = "superseded"] ELSE c
  <1>1. /\ TypeOK /\ PlaceSound /\ Len(ev) \in Nat /\ Len(ev) <= MaxEvents
        /\ cur \in 1..Len(ev) /\ ev[cur] \in EventSet /\ MaxEvents \in Nat
    BY Rows DEF IInv, Review, PlaceSound
  <1>2. Kept(E, r)
    BY <1>1, RecoveredKept DEF E
  <1> HIDE DEF r
  <1>3. /\ c \in EventSet
        /\ c.disp = E.disp \/ \A p \in People : c.disp[p] = Dispatched(op[<<cur, p>>], E.disp[p])
    BY <1>1, <1>2, Reconciles DEF Kept, E
  <1> HIDE DEF c
  <1>4. Kept(c, d)
    BY <1>3, EventEdits DEF Kept
  <1>5. /\ Save(d) /\ UNCHANGED <<part, outs, rev, ingress, op, box, wire, landed, shown>> /\ Smooth
        /\ task' \in {task, [task EXCEPT !.st = "open", !.err = "none"]}
        /\ \/ pc' = "notify" /\ back' = "events" /\ UNCHANGED <<cur, who, mark>>
           \/ pc' = "events" /\ cur' = cur + 1 /\ UNCHANGED <<who, mark, back>>
    BY DEF Review, c, r, world
  <1> HIDE DEF d
  <1>6. BookOK'
    BY <1>1, <1>5, BookKept DEF TypeOK
  <1>7. PostOK'
    BY <1>5, PostKept
  <1>8. Len(ev') = Len(ev) => RunOK' /\ pc' \notin Hot
    BY <1>1, <1>5 DEF TypeOK, RunOK, PlaceSound, Hot
  <1> QED
    BY <1>1, <1>3, <1>4, <1>5, <1>6, <1>7, <1>8, EditStep DEF Kept

LEMMA Chooses ==
  ASSUME IInv, Choose
  PROVE  IInv'
  <1> DEFINE k     == IF Pending = {} THEN 0 ELSE Least(Pending)
             stale == k # 0 /\ ev[k].rev # rev
             kept  == IF stale THEN [ev EXCEPT ![k].st = "superseded"] ELSE ev
             make  == (k = 0 \/ stale) /\ (Fresh # {} \/ Ready \/ Revised) /\ ~Known /\ Len(ev) < MaxEvents
             next  == IF make THEN Len(ev) + 1 ELSE IF k # 0 /\ ~stale THEN k ELSE 0
             rows  == IF make THEN Append(kept, NewEvent) ELSE kept
  <1>1. /\ TypeOK /\ PlaceSound /\ Len(ev) \in Nat /\ Len(ev) <= MaxEvents /\ MaxEvents \in Nat
        /\ DOMAIN ev = 1..Len(ev) /\ ev \in Seq(EventSet)
        /\ \A n \in 1..Len(ev) : ev[n] \in EventSet
    BY Rows DEF IInv, TypeOK
  <1>2. k = 0 \/ k \in 1..Len(ev)
    <2>1. Pending \in SUBSET Nat /\ Pending \subseteq 1..Len(ev)
      BY <1>1 DEF Pending
    <2> QED
      BY <2>1, FirstOf
  <1> HIDE DEF k
  <1>3. /\ kept \in Seq(EventSet) /\ Len(kept) = Len(ev)
        /\ \A n \in 1..Len(ev) : kept[n].disp = ev[n].disp
    <2>1. CASE stale
      <3>1. k \in 1..Len(ev) /\ Kept(ev[k], [ev[k] EXCEPT !.st = "superseded"])
        BY <1>1, <1>2, <2>1, EventEdits
      <3> QED
        BY <1>1, <2>1, <3>1 DEF Kept
    <2> QED
      BY <1>1, <2>1
  <1>4. NewEvent \in EventSet
    <2>1. /\ Fresh \in SUBSET (1..MaxOutputs) /\ rev \in 0..MaxMessages
      BY <1>1, Rows DEF Fresh, TypeOK
    <2> QED
      BY <2>1 DEF NewEvent, EventSet
  <1> HIDE DEF kept
  <1>5. /\ rows \in Seq(EventSet) /\ Len(ev) <= Len(rows) /\ Len(rows) <= MaxEvents
        /\ Len(rows) \in Nat /\ (next = 0 \/ next \in 1..Len(rows))
        /\ \A n \in 1..Len(ev) : rows[n].disp = ev[n].disp
    BY <1>1, <1>2, <1>3, <1>4
  <1>6. /\ UNCHANGED <<task, part, outs, rev, ingress, op, box, wire, landed, shown>> /\ Smooth
        /\ \/ /\ next # 0
              /\ ev' = [rows EXCEPT ![next].st = "processing", ![next].tries = @ + 1]
              /\ pc' = "think" /\ cur' = next /\ back' = "off" /\ UNCHANGED <<who, mark>>
           \/ ev' = rows /\ Off
    BY DEF Choose, book, world, k, kept
  <1> HIDE DEF rows, next, make, stale
  <1>7. BookOK' /\ PostOK'
    BY <1>1, <1>6, BookKept, PostKept DEF TypeOK
  <1>8. CASE ev' = rows /\ Off
    <2>1. InputOK'
      BY <1>5, <1>6, <1>8, Learns DEF Off, Hot
    <2> QED
      BY <1>7, <1>8, <2>1, GoesOff, NextParts
  <1>9. CASE /\ next # 0
             /\ ev' = [rows EXCEPT ![next].st = "processing", ![next].tries = @ + 1]
             /\ pc' = "think" /\ cur' = next /\ back' = "off" /\ UNCHANGED <<who, mark>>
    <2> DEFINE f == [rows[next] EXCEPT !.st = "processing", !.tries = rows[next].tries + 1]
    <2>1. rows[next] \in EventSet /\ rows[next].tries \in Nat /\ next \in 1..Len(rows)
      <3>1. next \in 1..Len(rows) /\ rows[next] \in EventSet
        BY <1>5, <1>9
      <3> QED
        BY <3>1 DEF EventSet
    <2>2. f \in EventSet /\ f.tries = rows[next].tries + 1 /\ f.disp = rows[next].disp
      <3>1. rows[next].tries + 1 \in Nat
        BY <2>1
      <3>2. \A n \in Nat : LET g == [rows[next] EXCEPT !.st = "processing", !.tries = n]
                           IN  g \in EventSet /\ g.tries = n /\ g.disp = rows[next].disp
        BY <2>1, TriesEdits
      <3> QED
        BY <3>1, <3>2
    <2>3. ev' = [rows EXCEPT ![next] = f]
      BY <1>9
    <2> HIDE DEF f
    <2>4. /\ ev' \in Seq(EventSet) /\ Len(ev') = Len(rows) /\ ev'[next] = f
          /\ \A n \in 1..Len(rows) : n # next => ev'[n] = rows[n]
      BY <1>5, <2>1, <2>2, <2>3
    <2>5. \A n \in 1..Len(ev) : ev'[n].disp = ev[n].disp
      BY <1>1, <1>5, <2>2, <2>4
    <2>6. InputOK'
      BY <1>5, <1>6, <1>9, <2>4, <2>5, Learns DEF Hot
    <2>7. RunOK'
      BY <1>1, <1>5, <1>9, <2>1, <2>2, <2>4 DEF TypeOK, RunOK, PlaceSound, Hot
    <2> QED
      BY <1>7, <2>6, <2>7, NextParts
  <1> QED
    BY <1>6, <1>8, <1>9

(* A run that thinks or tells the user edits its own event.                *)
LEMMA Speaks ==
  ASSUME IInv,
         \/ \E d \in {"continue", "wait", "deliver"} : Decide(d)
         \/ Finish \/ (\E cause \in Causes : RunFails(cause)) \/ Alert \/ Notify \/ Replied
         \/ \E state \in {"retryable", "uncertain"} : ReplyFails(state)
  PROVE  IInv'
  <1>1. /\ TypeOK /\ PlaceSound /\ Len(ev) \in Nat /\ Len(ev) <= MaxEvents /\ MaxEvents \in Nat
        /\ cur \in 1..Len(ev) /\ cur \in Events /\ E \in EventSet
    BY Rows DEF IInv, Decide, Finish, RunFails, Alert, Notify, Replied, ReplyFails, PlaceSound, E
  <1>2. /\ UNCHANGED <<op, wire, landed, part, outs, rev, ingress>>
        /\ Smooth \/ Trouble
        /\ shown' = shown
    BY DEF Decide, Finish, RunFails, Alert, Notify, Replied, ReplyFails, book, store, world
  <1>3. /\ task' \in [st : {"open", "attention"}, paused : BOOLEAN,
                      err : {"none", "delivery", "notice", "other"}]
        /\ box' \in [Events -> {"none", "sending", "uncertain", "retryable", "delivered"}]
    <2>1. CASE Alert
      <3>1. E.err \in {"none", "delivery", "notice", "other"}
        BY <1>1 DEF EventSet
      <3> QED
        BY <1>1, <2>1, <3>1 DEF Alert, TypeOK
    <2>2. CASE \E state \in {"retryable", "uncertain"} : ReplyFails(state)
      BY <1>1, <2>2 DEF ReplyFails, TypeOK, book
    <2> QED
      BY <1>1, <2>1, <2>2 DEF Decide, Finish, RunFails, Notify, Replied, TypeOK, book
  <1>4. BookOK' /\ PostOK'
    <2>1. luck' \in 0..MaxTroubles
      BY <1>2, LuckKept
    <2>2. PostOK'
      BY <1>1, <1>2, <1>3, <2>1 DEF PostOK, TypeOK
    <2> QED
      BY <1>2, <1>3, <2>2, BookKept
  <1>5. ASSUME NEW e, Kept(E, e), Save(e),
               Len(ev') = Len(ev) /\ ev'[cur] = e => RunOK' /\ pc' \notin Hot
        PROVE  IInv'
    BY <1>1, <1>2, <1>4, <1>5, EditStep DEF Kept
  <1>6. ASSUME UNCHANGED ev, Len(ev') = Len(ev) => RunOK' /\ pc' \notin Hot
        PROVE  IInv'
    BY <1>2, <1>4, <1>6, QuietStep
  <1>7. CASE \E d \in {"continue", "wait", "deliver"} : Decide(d)
    <2>1. PICK d \in {"continue", "wait", "deliver"} : Decide(d)
      BY <1>7
    <2>2. Kept(E, [E EXCEPT !.dec = d])
      BY <1>1, EventEdits
    <2>3. /\ Save([E EXCEPT !.dec = d]) /\ UNCHANGED <<pc, cur, who, mark, back>> /\ pc = "think"
      BY <2>1 DEF Decide, run
    <2>4. E.tries > 0
      BY <1>1, <2>3 DEF PlaceSound, E
    <2>5. ASSUME Len(ev') = Len(ev), ev'[cur] = [E EXCEPT !.dec = d]
          PROVE  RunOK' /\ pc' \notin Hot
      BY <1>1, <2>2, <2>3, <2>4, <2>5 DEF TypeOK, RunOK, PlaceSound, Hot, Kept
    <2> QED
      BY <1>5, <2>2, <2>3, <2>5
  <1>8. ASSUME NEW e, e \in EventSet, Save(e),
               \A p \in People : e.disp[p] = Dispatched(op[<<cur, p>>], E.disp[p]),
               Len(ev') = Len(ev) => RunOK' /\ pc' \notin Hot
        PROVE  IInv'
    BY <1>1, <1>2, <1>4, <1>8, EditStep
  <1> DEFINE q == Reconciled(cur)
  <1>9. q \in EventSet /\ \A p \in People : q.disp[p] = Dispatched(op[<<cur, p>>], E.disp[p])
    BY <1>1, Reconciles DEF E
  <1>10. CASE Finish
    <2> DEFINE e == [q EXCEPT !.st = IF q.st = "attention" THEN q.st ELSE "done"]
    <2>1. /\ Save(e) /\ Go(IF e.st = "attention" THEN "alert" ELSE "notify")
      BY <1>10 DEF Finish
    <2>2. Kept(q, e)
      BY <1>9, EventEdits
    <2> HIDE DEF e, q
    <2>3. ASSUME Len(ev') = Len(ev)
          PROVE  RunOK' /\ pc' \notin Hot
      BY <1>1, <2>1, <2>3, GoesOn DEF Told
    <2> QED
      BY <1>8, <1>9, <2>1, <2>2, <2>3 DEF Kept
  <1>11. CASE \E cause \in Causes : RunFails(cause)
    <2>0. PICK cause \in Causes : RunFails(cause)
      BY <1>11
    <2> DEFINE e == Failed(q, cause)
    <2>1. pc = "think" /\ Save(e) /\ IF e.st = "attention" THEN Go("alert") ELSE Off
      BY <2>0 DEF RunFails
    <2>2. e \in EventSet /\ e.disp = q.disp
      <3> HIDE DEF q
      <3>1. q.tries = E.tries /\ E.tries > 0 /\ q.tries - 1 \in Nat
        <4>1. q.tries = E.tries
          BY <1>1, Reconciles DEF q, E
        <4>2. E.tries > 0 /\ E.tries \in Nat
          BY <1>1, <2>1 DEF PlaceSound, E, EventSet
        <4> QED
          BY <4>1, <4>2
      <3>2. \A n \in Nat : LET g == [q EXCEPT !.st = "pending", !.tries = n]
                           IN  g \in EventSet /\ g.disp = q.disp
        BY <1>9, TriesEdits
      <3>3. LET g == [q EXCEPT !.st = "pending", !.tries = q.tries - 1]
            IN  g \in EventSet /\ g.disp = q.disp
        BY <3>1, <3>2
      <3>4. /\ Kept(q, [q EXCEPT !.st = "superseded"])
            /\ Kept(q, [q EXCEPT !.st = "pending"])
            /\ Kept(q, [q EXCEPT !.st = "attention", !.err = "other"])
        BY <1>9, EventEdits
      <3>5. \/ e = q \/ e = [q EXCEPT !.st = "superseded"] \/ e = [q EXCEPT !.st = "pending"]
            \/ e = [q EXCEPT !.st = "attention", !.err = "other"]
            \/ e = [q EXCEPT !.st = "pending", !.tries = q.tries - 1]
        BY DEF Failed
      <3> HIDE DEF e
      <3> QED
        BY <1>9, <3>3, <3>4, <3>5 DEF Kept
    <2> HIDE DEF e, q
    <2>3. ASSUME Len(ev') = Len(ev)
          PROVE  RunOK' /\ pc' \notin Hot
      BY <1>1, <2>1, <2>3, GoesOn, GoesOff DEF Told
    <2> QED
      BY <1>8, <1>9, <2>1, <2>2, <2>3
  <1> HIDE DEF q
  <1>12. CASE Alert
    <2> DEFINE t == E.told \/ ~(task.paused \/ E.err = "none" \/ E.note = "uncertain" \/ E.notes >= MaxAttempts)
    <2>1. /\ Save([E EXCEPT !.told = t]) \/ UNCHANGED ev
          /\ IF back = "events" THEN Return ELSE Off
      BY <1>12 DEF Alert
    <2>2. Kept(E, [E EXCEPT !.told = t])
      <3>1. t \in BOOLEAN
        BY <1>1 DEF EventSet, TypeOK
      <3> HIDE DEF t
      <3> QED
        BY <1>1, <3>1, EventEdits
    <2> HIDE DEF t
    <2>3. ASSUME Len(ev') = Len(ev)
          PROVE  RunOK' /\ pc' \notin Hot
      BY <1>1, <2>1, <2>3, GoesBack, GoesOff
    <2> QED
      BY <1>5, <1>6, <2>1, <2>2, <2>3
  <1>13. CASE Notify
    <2>1. \/ UNCHANGED ev /\ (Return \/ Off)
          \/ /\ Save([E EXCEPT !.note = "uncertain", !.st = "attention", !.err = "notice"])
             /\ Go("alert")
          \/ Save([E EXCEPT !.note = "sending", !.notes = E.notes + 1]) /\ Go("reply")
      BY <1>13 DEF Notify
    <2>2. E.notes + 1 \in Nat
      BY <1>1 DEF EventSet
    <2>3. /\ Kept(E, [E EXCEPT !.note = "uncertain", !.st = "attention", !.err = "notice"])
          /\ \A n \in Nat : Kept(E, [E EXCEPT !.note = "sending", !.notes = n])
      BY <1>1, EventEdits
    <2>4. Kept(E, [E EXCEPT !.note = "sending", !.notes = E.notes + 1])
      BY <2>2, <2>3
    <2>5. CASE UNCHANGED ev /\ (Return \/ Off)
      BY <1>1, <1>6, <2>5, GoesBack, GoesOff
    <2>6. ASSUME NEW e, Kept(E, e), Save(e), Go("alert") \/ Go("reply")
          PROVE  IInv'
      <3>1. ASSUME Len(ev') = Len(ev)
            PROVE  RunOK' /\ pc' \notin Hot
        BY <1>1, <2>6, <3>1, GoesOn DEF Told
      <3> QED
        BY <1>5, <2>6, <3>1
    <2> QED
      BY <2>1, <2>3, <2>4, <2>5, <2>6
  <1>14. CASE Replied
    <2>1. Save([E EXCEPT !.told = TRUE, !.note = "sent", !.err = "none"]) /\ Return
      BY <1>14 DEF Replied
    <2>2. Kept(E, [E EXCEPT !.told = TRUE, !.note = "sent", !.err = "none"])
      BY <1>1, EventEdits
    <2>3. ASSUME Len(ev') = Len(ev)
          PROVE  RunOK' /\ pc' \notin Hot
      BY <1>1, <2>1, <2>3, GoesBack
    <2> QED
      BY <1>5, <2>1, <2>2, <2>3
  <1>15. CASE \E state \in {"retryable", "uncertain"} : ReplyFails(state)
    <2>1. PICK state \in {"retryable", "uncertain"} : ReplyFails(state)
      BY <1>15
    <2> DEFINE unknown == state = "uncertain"
               x == IF unknown \/ E.notes >= MaxAttempts THEN "attention" ELSE E.st
               e == [E EXCEPT !.note = state, !.err = "notice", !.st = x]
    <2>2. Save(e) /\ IF e.st = "attention" THEN Go("alert") ELSE Return
      BY <2>1 DEF ReplyFails
    <2>3. Kept(E, e)
      <3>1. x \in {"pending", "processing", "done", "attention", "superseded"}
        BY <1>1 DEF EventSet
      <3> HIDE DEF x
      <3> QED
        BY <1>1, <3>1, NoticeEdit
    <2> HIDE DEF e
    <2>4. ASSUME Len(ev') = Len(ev)
          PROVE  RunOK' /\ pc' \notin Hot
      BY <1>1, <2>2, <2>4, GoesBack, GoesOn DEF Told
    <2> QED
      BY <1>5, <2>2, <2>3, <2>4
  <1> QED
    BY <1>7, <1>10, <1>11, <1>12, <1>13, <1>14, <1>15

(* The user, the participants, and what they do beside the run.            *)
LEMMA Others ==
  ASSUME IInv,
         \/ \E p \in People : Answer(p)
         \/ Message \/ \E paused, revised \in BOOLEAN : Handle(paused, revised)
         \/ UNCHANGED vars
  PROVE  IInv'
  <1>1. /\ TypeOK /\ RevisionSound /\ MaxMessages \in Nat
    BY Rows DEF IInv
  <1>2. UNCHANGED <<store, run, world, luck>>
    BY DEF Answer, Message, Handle, vars, Smooth
  <1>3. RunOK' /\ InputOK'
    BY <1>2, Beside DEF store, world
  <1>4. PostOK'
    BY <1>1, <1>2 DEF TypeOK, PostOK, store, world
  <1>5. BookOK'
    <2>1. CASE \E p \in People : Answer(p)
      <3>1. PICK p \in People : Answer(p)
        BY <2>1
      <3>2. UNCHANGED <<task, rev, ingress>>
        BY <3>1 DEF Answer
      <3>3. part' \in [People -> [busy : BOOLEAN, awaits : BOOLEAN, sent : BOOLEAN]]
        <4> DEFINE q == [part[p] EXCEPT !.busy = FALSE, !.awaits = FALSE]
        <4>1. part[p] \in [busy : BOOLEAN, awaits : BOOLEAN, sent : BOOLEAN]
          BY <1>1 DEF TypeOK
        <4>2. q \in [busy : BOOLEAN, awaits : BOOLEAN, sent : BOOLEAN]
          BY <4>1
        <4>3. part' = [part EXCEPT ![p] = q]
          BY <3>1 DEF Answer
        <4> QED
          BY <1>1, <4>2, <4>3 DEF TypeOK
      <3>4. outs' \in Seq(People) /\ Len(outs') <= MaxOutputs
        BY <1>1, <3>1, Rows DEF Answer, TypeOK
      <3> QED
        BY <1>1, <3>2, <3>3, <3>4 DEF BookOK, TypeOK, RevisionSound
    <2>2. CASE Message
      <3>1. UNCHANGED <<task, part, outs, rev>> /\ ingress.n < MaxMessages /\ ~ingress.open
            /\ ingress' = [n |-> ingress.n + 1, open |-> TRUE]
        BY <2>2 DEF Message
      <3>2. ingress'.n = ingress.n + 1 /\ ingress'.open
            /\ ingress' \in [n : 0..MaxMessages, open : BOOLEAN]
        BY <1>1, <3>1 DEF TypeOK
      <3> QED
        BY <1>1, <3>1, <3>2 DEF BookOK, TypeOK, RevisionSound
    <2>3. CASE \E paused, revised \in BOOLEAN : Handle(paused, revised)
      <3>1. PICK paused, revised \in BOOLEAN : Handle(paused, revised)
        BY <2>3
      <3>2. /\ UNCHANGED <<part, outs>> /\ rev' \in {rev, rev + 1} /\ ingress.open
            /\ ingress' = [ingress EXCEPT !.open = FALSE] /\ task' = [task EXCEPT !.paused = paused]
        BY <3>1 DEF Handle
      <3>3. ingress' \in [n : 0..MaxMessages, open : BOOLEAN] /\ ingress'.n = ingress.n /\ ~ingress'.open
        BY <1>1, <3>2 DEF TypeOK
      <3>4. task' \in [st : {"open", "attention"}, paused : BOOLEAN,
                       err : {"none", "delivery", "notice", "other"}]
        BY <1>1, <3>1, <3>2 DEF TypeOK
      <3>5. rev' \in 0..MaxMessages /\ rev' <= ingress.n
        BY <1>1, <3>2 DEF TypeOK, RevisionSound
      <3> QED
        BY <1>1, <3>2, <3>3, <3>4, <3>5 DEF BookOK, TypeOK, RevisionSound
    <2>4. CASE UNCHANGED vars
      <3>1. BookOK
        BY Parts
      <3> QED
        BY <2>4, <3>1 DEF vars, book, BookOK, RevisionSound
    <2> QED
      BY <2>1, <2>2, <2>3, <2>4
  <1> QED
    BY <1>3, <1>4, <1>5, NextParts

(***************************************************************************)
(* The steps of one input                                                  *)
(***************************************************************************)
(* Inputs other than one keep what is known of them, if its event keeps    *)
(* what it says of them.                                                   *)
LEMMA OtherInputs ==
  ASSUME IInv, NEW k \in 1..Len(ev), NEW p \in People, ev' \in Seq(EventSet), Len(ev') = Len(ev),
         \A j \in 1..Len(ev), r \in People : <<j, r>> # <<k, p>> => ev'[j].disp[r] = ev[j].disp[r],
         \A i \in Inputs : i # <<k, p>> =>
            op'[i] = op[i] /\ landed'[i] = landed[i] /\ (i \in wire' <=> i \in wire)
  PROVE  \A i \in Inputs : i # <<k, p>> => OutSound(i)' /\ OnceSound(i)'
  <1> TAKE i \in Inputs
  <1> HAVE i # <<k, p>>
  <1>1. OutSound(i) /\ OnceSound(i)
    BY DEF IInv
  <1>2. PICK j \in Events, r \in People : i = <<j, r>>
    BY DEF Inputs
  <1>3. j \in 1..Len(ev) => ev'[j].disp[r] = ev[j].disp[r]
    BY <1>2
  <1> QED
    BY <1>1, <1>2, <1>3 DEF OutSound, OnceSound, Out

LEMMA HandTyped ==
  ASSUME IInv, pc \in Hot
  PROVE  /\ TypeOK /\ HandSound /\ cur \in 1..Len(ev) /\ who \in People
         /\ <<cur, who>> \in Inputs /\ E \in EventSet /\ E.tries > 0
         /\ Len(ev) \in Nat /\ Len(ev) <= MaxEvents /\ MaxEvents \in Nat
         /\ OutSound(<<cur, who>>) /\ OnceSound(<<cur, who>>)
  <1>1. /\ TypeOK /\ HandSound /\ cur \in 1..Len(ev) /\ who \in People /\ E.tries > 0
        /\ cur \in Events /\ E \in EventSet
        /\ Len(ev) \in Nat /\ Len(ev) <= MaxEvents /\ MaxEvents \in Nat
    BY Rows DEF IInv, PlaceSound, Hot, E
  <1>2. <<cur, who>> \in Inputs
    BY <1>1 DEF Inputs
  <1> QED
    BY <1>1, <1>2 DEF IInv

LEMMA DispatchStep ==
  ASSUME IInv, NEW p \in People, Dispatch(p)
  PROVE  IInv'
  <1> DEFINE e == [E EXCEPT !.disp[p] = "pending"]
             i == <<cur, p>>
  <1>1. /\ TypeOK /\ PlaceSound /\ Len(ev) \in Nat /\ Len(ev) <= MaxEvents /\ MaxEvents \in Nat
        /\ cur \in 1..Len(ev) /\ cur \in Events /\ E \in EventSet /\ E.tries > 0
    BY Rows DEF IInv, Dispatch, PlaceSound, E
  <1>2. /\ E.disp[p] \in {"none", "failed"} /\ Save(e) /\ pc' = "sending" /\ who' = p
        /\ UNCHANGED <<cur, mark, back, task, part, outs, rev, ingress, op, box, wire, landed, shown>>
        /\ Smooth
    BY DEF Dispatch, book, world
  <1>3. e \in EventSet /\ e.tries = E.tries /\ e.disp[p] = "pending"
        /\ \A q \in People : q # p => e.disp[q] = E.disp[q]
    <2>1. "pending" \in Words
      BY DEF Words
    <2> QED
      BY <1>1, <2>1, WordEdits
  <1> HIDE DEF e
  <1>4. /\ ev' \in Seq(EventSet) /\ Len(ev') = Len(ev) /\ ev'[cur] = e
        /\ \A k \in 1..Len(ev) : k # cur => ev'[k] = ev[k]
    BY <1>1, <1>2, <1>3, Saves
  <1>5. BookOK' /\ PostOK'
    BY <1>1, <1>2, BookKept, PostKept DEF TypeOK
  <1>6. RunOK'
    BY <1>1, <1>2, <1>3, <1>4 DEF TypeOK, RunOK, PlaceSound, Hot
  <1>7. i \in Inputs /\ ~Out(i)
    <2>1. i \in Inputs
      BY <1>1 DEF Inputs
    <2>2. OutSound(i)
      BY <2>1 DEF IInv
    <2> QED
      BY <1>2, <2>1, <2>2 DEF OutSound, E
  <1>8. \A j \in Inputs : j # i => OutSound(j)' /\ OnceSound(j)'
    BY <1>1, <1>2, <1>3, <1>4, OtherInputs DEF E
  <1>9. OutSound(i)' /\ OnceSound(i)' /\ HandSound'
    <2>1. OnceSound(i) /\ ~Out(i)
      BY <1>7 DEF IInv
    <2> QED
      BY <1>2, <1>3, <1>4, <2>1 DEF OutSound, OnceSound, Out, HandSound, Hot
  <1>10. InputOK'
    BY <1>1, <1>2, <1>4, <1>8, <1>9 DEF InputOK, InputsSound, TypeOK
  <1> QED
    BY <1>5, <1>6, <1>10, NextParts

LEMMA ReceiptEdits ==
  ASSUME NEW r \in Receipts, NEW x \in {"none", "pending", "done", "failed", "uncertain"},
         NEW c \in {"none", "treat_done", "retry", "abandon"}
  PROVE  /\ [r EXCEPT !.state = x] \in Receipts /\ [r EXCEPT !.state = x].state = x
         /\ [r EXCEPT !.choice = c] \in Receipts /\ [r EXCEPT !.choice = c].state = r.state
         /\ [state |-> x, choice |-> c] \in Receipts
  BY DEF Receipts

(* Of one event only what it says of one participant changes.              *)
OtherWords(k, p) ==
    /\ \A j \in 1..Len(ev) : j # k => ev'[j] = ev[j]
    /\ \A r \in People : r # p => ev'[k].disp[r] = ev[k].disp[r]

(* The run writes the receipt of the input in its hands, or what it        *)
(* learned of it, and puts it on the wire.                                 *)
LEMMA HandStep ==
  ASSUME IInv, pc \in Hot, NEW k, k = cur, NEW p, p = who, NEW i, i = <<k, p>>,
         NEW q \in Receipts, op' = [op EXCEPT ![i] = q],
         wire' \in {wire, wire \cup {i}}, landed' = landed,
         Out(i)' => q.state \in {"pending", "uncertain", "done"},
         i \in wire' => landed[i] = 0,
         ev' \in Seq(EventSet), Len(ev') = Len(ev),
         OtherWords(k, p),
         Out(i)' => ev'[k].disp[p] \in {"pending", "sent", "uncertain"},
         HandSound'
  PROVE  InputOK'
  <1>1. /\ TypeOK /\ k \in 1..Len(ev) /\ p \in People /\ i \in Inputs
        /\ Len(ev) \in Nat /\ Len(ev) <= MaxEvents /\ OnceSound(i)
    BY HandTyped
  <1>2. /\ op' \in [Inputs -> Receipts] /\ op'[i] = q
        /\ \A j \in Inputs : j # i => op'[j] = op[j]
    BY <1>1 DEF TypeOK
  <1>3. wire' \subseteq Inputs /\ landed' \in [Inputs -> Nat]
    BY <1>1 DEF TypeOK
  <1>4. \A j \in Inputs : j # i => OutSound(j)' /\ OnceSound(j)'
    <2>1. \A j \in 1..Len(ev), r \in People : <<j, r>> # <<k, p>> => ev'[j].disp[r] = ev[j].disp[r]
      BY DEF OtherWords
    <2>2. \A j \in Inputs : j # <<k, p>> =>
             op'[j] = op[j] /\ landed'[j] = landed[j] /\ (j \in wire' <=> j \in wire)
      BY <1>2
    <2> QED
      BY <1>1, <2>1, <2>2, OtherInputs
  <1>5. OutSound(i)' /\ OnceSound(i)'
    BY <1>1, <1>2 DEF OutSound, OnceSound, Out
  <1>6. \A j \in Inputs : OutSound(j)' /\ OnceSound(j)'
    BY <1>4, <1>5
  <1>7. InputsSound'
    BY <1>6 DEF InputsSound
  <1> QED
    BY <1>1, <1>2, <1>3, <1>7 DEF InputOK

LEMMA SameEvents ==
  ASSUME IInv, ev' = ev
  PROVE  ev' \in Seq(EventSet) /\ Len(ev') = Len(ev) /\ \A j \in 1..Len(ev) : ev'[j] = ev[j]
  BY DEF IInv, TypeOK

(* The receipt is written, and the request leaves.                         *)
LEMMA SendStep ==
  ASSUME IInv, Receipt \/ Leaves
  PROVE  IInv'
  <1> DEFINE q == [state |-> "pending", choice |-> "none"]
  <1>1. pc \in Hot /\ pc' \in {"leaving", "echo"} /\ UNCHANGED <<cur, who, mark, back>>
        /\ UNCHANGED <<task, part, outs, rev, ingress, ev, box, landed, shown>> /\ Smooth
    BY DEF Receipt, Leaves, Hot, Go, book, store, world
  <1>2. PICK k, p, i : k = cur /\ p = who /\ i = <<k, p>>
    OBVIOUS
  <1>3. /\ TypeOK /\ HandSound /\ i \in Inputs /\ k \in 1..Len(ev) /\ p \in People
        /\ Len(ev) \in Nat /\ Len(ev) <= MaxEvents /\ MaxEvents \in Nat
        /\ ev[k].disp[p] = "pending" /\ OnceSound(i) /\ ~Out(i)
    BY <1>1, <1>2, HandTyped DEF HandSound, Receipt, Leaves
  <1>4. BookOK' /\ PostOK'
    BY <1>1, <1>3, BookKept, PostKept DEF TypeOK
  <1>5. RunOK'
    <2>1. RunOK
      BY Parts
    <2> QED
      BY <1>1, <2>1 DEF RunOK, PlaceSound, Hot
  <1>6. ev' \in Seq(EventSet) /\ Len(ev') = Len(ev) /\ \A j \in 1..Len(ev) : ev'[j] = ev[j]
    BY <1>1, SameEvents
  <1>7. landed[i] = 0
    BY <1>3 DEF Out, TypeOK
  <1>8. CASE Receipt
    <2>1. op' = [op EXCEPT ![i] = q] /\ wire' = wire /\ pc' = "leaving"
      BY <1>2, <1>8 DEF Receipt, Go, world
    <2>2. q \in Receipts /\ op'[i].state = "pending" /\ ~Out(i)'
      BY <1>1, <1>3, <2>1 DEF Receipts, TypeOK, Out
    <2>3. HandSound'
      BY <1>1, <1>2, <1>3, <2>1, <2>2 DEF HandSound, Hot
    <2>4. InputOK'
      BY <1>1, <1>2, <1>3, <1>6, <1>7, <2>1, <2>2, <2>3, HandStep DEF OtherWords
    <2> QED
      BY <1>4, <1>5, <2>4, NextParts
  <1>9. CASE Leaves
    <2>1. op' = op /\ wire' = wire \cup {i} /\ pc' = "echo" /\ op[i].state = "pending"
      BY <1>2, <1>3, <1>9 DEF Leaves, Go, store, HandSound
    <2>2. PICK r \in Receipts : r.state = "pending" /\ op' = [op EXCEPT ![i] = r]
      BY <1>3, <2>1 DEF TypeOK
    <2>3. HandSound'
      BY <1>1, <1>2, <1>3, <2>1 DEF HandSound, Hot
    <2>4. ev'[k].disp[p] = "pending" /\ \A x \in People : ev'[k].disp[x] = ev[k].disp[x]
      BY <1>1, <1>3
    <2>5. InputOK'
      <3>1. /\ pc \in Hot /\ k = cur /\ p = who /\ i = <<k, p>> /\ landed' = landed
            /\ wire' \in {wire, wire \cup {i}} /\ op' = [op EXCEPT ![i] = r] /\ r \in Receipts
        BY <1>1, <1>2, <2>1, <2>2
      <3>2. /\ Out(i)' => r.state \in {"pending", "uncertain", "done"}
            /\ Out(i)' => ev'[k].disp[p] \in {"pending", "sent", "uncertain"}
            /\ i \in wire' => landed[i] = 0
            /\ OtherWords(k, p)
        BY <1>6, <1>7, <2>2, <2>4 DEF OtherWords
      <3> QED
        BY <1>6, <2>3, <3>1, <3>2, HandStep
    <2> QED
      BY <1>4, <1>5, <2>5, NextParts
  <1> QED
    BY <1>8, <1>9

(* The sending fails for sure before the request has left, or nobody knows *)
(* after that; or the answer comes, and the event is marked.               *)
LEMMA ReturnStep ==
  ASSUME IInv, Vetoed \/ Refused \/ Lost \/ Echoed \/ Marked
  PROVE  IInv'
  <1>1. /\ pc \in Hot /\ UNCHANGED <<cur, mark, back>>
        /\ UNCHANGED <<task, outs, rev, ingress, box, wire, landed, shown>> /\ (Smooth \/ Trouble)
    BY DEF Vetoed, Refused, Lost, Echoed, Marked, SendFails, Go, Hot, book, store, world
  <1>2. PICK k, p, i : k = cur /\ p = who /\ i = <<k, p>>
    OBVIOUS
  <1>3. /\ TypeOK /\ HandSound /\ i \in Inputs /\ k \in 1..Len(ev) /\ p \in People
        /\ Len(ev) \in Nat /\ Len(ev) <= MaxEvents /\ MaxEvents \in Nat
        /\ ev[k] = E /\ E \in EventSet /\ E.tries > 0
        /\ ev[k].disp[p] = "pending" /\ OnceSound(i) /\ OutSound(i)
        /\ op[i] \in Receipts /\ op \in [Inputs -> Receipts]
    BY <1>1, <1>2, HandTyped DEF HandSound, E, TypeOK
  <1>4. PostOK'
    BY <1>1, PostKept
  <1>5. CASE Vetoed \/ Refused \/ Lost \/ Marked
    <2>1. PICK w \in {"failed", "uncertain", "sent"} :
             /\ Save([E EXCEPT !.disp[p] = w]) /\ pc' = "think" /\ who' = Nobody /\ part' = part
             /\ w = "failed" => pc = "leaving" /\ op' = [op EXCEPT ![i].state = "failed"]
             /\ w = "uncertain" => op' = [op EXCEPT ![i].state = "uncertain"]
             /\ w = "sent" => pc = "marked" /\ op' = op
      BY <1>2, <1>5 DEF Vetoed, Refused, Lost, Marked, SendFails, book
    <2> DEFINE e == [E EXCEPT !.disp[p] = w]
               q == IF w = "sent" THEN op[i] ELSE [op[i] EXCEPT !.state = w]
    <2>2. e \in EventSet /\ e.tries = E.tries /\ e.disp[p] = w
          /\ \A r \in People : r # p => e.disp[r] = E.disp[r]
      <3>1. w \in Words
        BY DEF Words
      <3> QED
        BY <1>3, <3>1, WordEdits
    <2>3. q \in Receipts /\ (w # "sent" => q.state = w) /\ op' = [op EXCEPT ![i] = q]
      <3>1. CASE w = "sent"
        BY <1>3, <2>1, <3>1
      <3>2. CASE w \in {"failed", "uncertain"}
        <4>1. [op[i] EXCEPT !.state = w] \in Receipts /\ [op[i] EXCEPT !.state = w].state = w
          BY <1>3, <3>2 DEF Receipts
        <4>2. op' = [op EXCEPT ![i].state = w]
          BY <2>1, <3>2
        <4> QED
          BY <3>2, <4>1, <4>2
      <3> QED
        BY <3>1, <3>2
    <2> HIDE DEF e, q
    <2>4. /\ ev' \in Seq(EventSet) /\ Len(ev') = Len(ev) /\ ev'[k] = e
          /\ \A j \in 1..Len(ev) : j # k => ev'[j] = ev[j]
      BY <1>2, <1>3, <2>1, <2>2, Saves DEF e
    <2>5. w = "failed" => ~Out(i)' /\ ~Out(i)
      BY <1>1, <1>2, <1>3, <2>1 DEF HandSound, Out
    <2>6. w = "sent" => q.state = "done"
      BY <1>2, <1>3, <2>1 DEF HandSound, q
    <2>7. HandSound'
      BY <2>1 DEF HandSound, Hot
    <2>8. InputOK'
      <3>1. Out(i)' => q.state \in {"pending", "uncertain", "done"}
        BY <2>3, <2>5, <2>6
      <3>2. Out(i)' => ev'[k].disp[p] \in {"pending", "sent", "uncertain"}
        BY <2>2, <2>4, <2>5
      <3>3. OtherWords(k, p)
        BY <1>3, <2>2, <2>4 DEF OtherWords
      <3>4. i \in wire' => landed[i] = 0
        BY <1>1, <1>3 DEF OnceSound
      <3> QED
        <4>1. /\ pc \in Hot /\ k = cur /\ p = who /\ i = <<k, p>> /\ landed' = landed
              /\ wire' \in {wire, wire \cup {i}}
          BY <1>1, <1>2
        <4> QED
          BY <2>3, <2>4, <2>7, <3>1, <3>2, <3>3, <3>4, <4>1, HandStep
    <2>9. BookOK'
      BY <1>1, <1>3, <2>1, BookKept DEF TypeOK
    <2>10. RunOK'
      BY <1>1, <1>2, <1>3, <2>1, <2>2, <2>4 DEF TypeOK, RunOK, PlaceSound, Hot
    <2> QED
      BY <1>4, <2>8, <2>9, <2>10, NextParts
  <1>6. CASE Echoed
    <2> DEFINE q == [op[i] EXCEPT !.state = "done"]
    <2>1. /\ op' = [op EXCEPT ![i] = q] /\ pc' = "marked" /\ who' = who /\ ev' = ev /\ Working(p)
      BY <1>2, <1>6 DEF Echoed, Go
    <2>2. q \in Receipts /\ q.state = "done"
      BY <1>3, ReceiptEdits
    <2> HIDE DEF q
    <2>3. ev' \in Seq(EventSet) /\ Len(ev') = Len(ev) /\ \A j \in 1..Len(ev) : ev'[j] = ev[j]
      BY <2>1, SameEvents
    <2>4. op'[i] = q
      BY <1>3, <2>1
    <2>5. HandSound'
      BY <1>1, <1>2, <1>3, <2>1, <2>2, <2>3, <2>4 DEF HandSound, Hot
    <2>6. InputOK'
      <3>1. i \in wire' => landed[i] = 0
        BY <1>1, <1>3 DEF OnceSound
      <3> QED
        BY <1>1, <1>2, <1>3, <2>1, <2>2, <2>3, <2>5, <3>1, HandStep DEF OtherWords
    <2>7. part' \in [People -> [busy : BOOLEAN, awaits : BOOLEAN, sent : BOOLEAN]]
      BY <1>3, <2>1 DEF Working, TypeOK
    <2>8. BookOK'
      <3>1. BookOK
        BY Parts
      <3> QED
        BY <1>1, <2>7, <3>1 DEF BookOK, RevisionSound
    <2>9. RunOK'
      <3>1. RunOK
        BY Parts
      <3> QED
        BY <1>1, <2>1, <2>3, <3>1 DEF RunOK, PlaceSound, Hot
    <2> QED
      BY <1>4, <2>6, <2>8, <2>9, NextParts
  <1> QED
    BY <1>5, <1>6

(* An input arrives, or somebody decides about one of unknown fate.        *)
LEMMA FateStep ==
  ASSUME IInv, NEW i \in Inputs,
         Land(i) \/ \E c \in {"treat_done", "retry", "abandon"} : Settle(i, c)
  PROVE  IInv'
  <1>1. /\ TypeOK /\ UNCHANGED <<task, outs, rev, ingress, ev, box, shown>> /\ run' = run /\ Smooth
    <2>1. CASE Land(i)
      BY <2>1 DEF Land, IInv, store
    <2>2. CASE \E c \in {"treat_done", "retry", "abandon"} : Settle(i, c)
      BY <2>2 DEF Settle, IInv, world
    <2> QED
      BY <2>1, <2>2
  <1>2. PICK k \in Events, p \in People : i = <<k, p>>
    BY DEF Inputs
  <1>3. part' \in [People -> [busy : BOOLEAN, awaits : BOOLEAN, sent : BOOLEAN]]
    <2>1. part \in [People -> [busy : BOOLEAN, awaits : BOOLEAN, sent : BOOLEAN]]
      BY <1>1 DEF TypeOK
    <2>2. CASE Land(i)
      <3> DEFINE q == [part[p] EXCEPT !.busy = TRUE]
      <3>1. part' = [part EXCEPT ![p] = q]
        BY <1>2, <2>2 DEF Land
      <3>2. q \in [busy : BOOLEAN, awaits : BOOLEAN, sent : BOOLEAN]
        BY <2>1
      <3> QED
        BY <2>1, <3>1, <3>2
    <2>3. CASE \E c \in {"treat_done", "retry", "abandon"} : Settle(i, c)
      <3>1. part' = part \/ Working(p)
        BY <1>2, <2>3 DEF Settle
      <3>2. Working(p) => part' \in [People -> [busy : BOOLEAN, awaits : BOOLEAN, sent : BOOLEAN]]
        BY <2>1 DEF Working
      <3> QED
        BY <2>1, <3>1, <3>2
    <2> QED
      BY <2>2, <2>3
  <1>4. BookOK'
    <2>1. BookOK
      BY Parts
    <2> QED
      BY <1>1, <1>3, <2>1 DEF BookOK, RevisionSound
  <1>5. PostOK'
    BY <1>1, PostKept
  <1>6. RunOK'
    <2>1. RunOK
      BY Parts
    <2> QED
      BY <1>1, <2>1 DEF RunOK, PlaceSound, run
  <1>7. /\ \A j \in Inputs : OutSound(j) /\ OnceSound(j)
        /\ HandSound
    BY DEF IInv
  <1>8. CASE Land(i)
    <2>1. /\ i \in wire /\ wire' = wire \ {i} /\ landed' = [landed EXCEPT ![i] = landed[i] + 1]
          /\ op' = op
      BY <1>8 DEF Land, store
    <2>2. landed[i] = 0 /\ Out(i)
      BY <1>7, <2>1 DEF OnceSound, Out
    <2>3. /\ landed' \in [Inputs -> Nat] /\ landed'[i] = 1
          /\ \A j \in Inputs : j # i => landed'[j] = landed[j]
      BY <1>1, <2>1, <2>2 DEF TypeOK
    <2>4. \A j \in Inputs : OutSound(j)' /\ OnceSound(j)' /\ (Out(j)' <=> Out(j))
      BY <1>1, <1>7, <2>1, <2>2, <2>3 DEF OutSound, OnceSound, Out
    <2>5. HandSound'
      <3>1. pc \in Hot => <<cur, who>> \in Inputs
        BY HandTyped
      <3>2. UNCHANGED <<pc, cur, who>>
        BY <1>1 DEF run
      <3>3. pc \in Hot => (Out(<<cur, who>>)' <=> Out(<<cur, who>>))
        BY <2>4, <3>1, <3>2 DEF Out
      <3> QED
        BY <1>1, <1>7, <2>1, <3>2, <3>3 DEF HandSound, Hot
    <2> QED
      BY <1>1, <1>4, <1>5, <1>6, <2>1, <2>3, <2>4, <2>5, NextParts DEF InputOK, InputsSound, TypeOK
  <1>9. CASE \E c \in {"treat_done", "retry", "abandon"} : Settle(i, c)
    <2>1. PICK c \in {"treat_done", "retry", "abandon"} : Settle(i, c)
      BY <1>9
    <2>2. op' = [op EXCEPT ![i].choice = c] /\ UNCHANGED <<wire, landed>>
      BY <2>1 DEF Settle, world
    <2>3. /\ op' \in [Inputs -> Receipts]
          /\ \A j \in Inputs : op'[j].state = op[j].state
      <3> DEFINE q == [op[i] EXCEPT !.choice = c]
      <3>1. op \in [Inputs -> Receipts] /\ op[i] \in Receipts
        BY <1>1 DEF TypeOK
      <3>2. q \in Receipts /\ q.state = op[i].state
        BY <3>1 DEF Receipts
      <3>3. op' = [op EXCEPT ![i] = q]
        BY <2>2
      <3> HIDE DEF q
      <3> QED
        BY <3>1, <3>2, <3>3
    <2>4. \A j \in Inputs : OutSound(j)' /\ OnceSound(j)'
      BY <1>1, <1>7, <2>2, <2>3 DEF OutSound, OnceSound, Out
    <2>5. HandSound'
      <3>1. pc \in Hot => <<cur, who>> \in Inputs
        BY HandTyped
      <3> QED
        BY <1>1, <1>7, <2>2, <2>3, <3>1 DEF HandSound, Hot, Out, run
    <2> QED
      BY <1>1, <1>4, <1>5, <1>6, <2>2, <2>3, <2>4, <2>5, NextParts DEF InputOK, InputsSound, TypeOK
  <1> QED
    BY <1>8, <1>9

(***************************************************************************)
(* Every step keeps the invariant                                          *)
(***************************************************************************)
LEMMA Initially == Init => IInv
  <1> SUFFICES ASSUME Init
               PROVE  IInv
    OBVIOUS
  <1>1. TypeOK
    BY OrchestrationAssumption DEF Init, TypeOK, Inputs, Receipts, Events
  <1>2. PlaceSound /\ RevisionSound /\ HandSound
    BY DEF Init, PlaceSound, RevisionSound, HandSound, Hot
  <1>3. \A i \in Inputs : OutSound(i) /\ OnceSound(i)
    BY DEF Init, OutSound, OnceSound, Out
  <1> QED
    BY <1>1, <1>2, <1>3 DEF IInv

LEMMA Inductive ==
  ASSUME IInv, [Next]_vars
  PROVE  IInv'
  <1>1. CASE \/ Tick \/ ToAlert \/ NoWork \/ ToChoose \/ Reply \/ Known2 \/ Posted \/ Crash
    BY <1>1, Passes
  <1>2. CASE Review \/ Choose
    BY <1>2, Reviews, Chooses
  <1>3. CASE \/ \E d \in {"continue", "wait", "deliver"} : Decide(d)
             \/ Finish \/ (\E cause \in Causes : RunFails(cause)) \/ Alert \/ Notify \/ Replied
             \/ \E state \in {"retryable", "uncertain"} : ReplyFails(state)
    BY <1>3, Speaks
  <1>4. CASE \/ \E p \in People : Answer(p)
             \/ Message \/ \E paused, revised \in BOOLEAN : Handle(paused, revised)
             \/ UNCHANGED vars
    BY <1>4, Others
  <1>5. CASE \E p \in People : Dispatch(p)
    BY <1>5, DispatchStep
  <1>6. CASE Receipt \/ Leaves
    BY <1>6, SendStep
  <1>7. CASE Vetoed \/ Refused \/ Lost \/ Echoed \/ Marked
    BY <1>7, ReturnStep
  <1>8. CASE \E i \in Inputs : \/ Land(i) \/ Prove(i)
                               \/ \E c \in {"treat_done", "retry", "abandon"} : Settle(i, c)
    BY <1>8, FateStep DEF Prove
  <1> QED
    BY <1>1, <1>2, <1>3, <1>4, <1>5, <1>6, <1>7, <1>8
       DEF Next, Run, Troubles, Users, Handling, Native, Arrive

LEMMA Invariance == Spec => []IInv
  BY Initially, Inductive, PTL DEF Spec

(***************************************************************************)
(* What follows                                                            *)
(***************************************************************************)
(* Every variable keeps its type.                                          *)
THEOREM TypeCorrect == Spec => []TypeOK
  <1>1. IInv => TypeOK
    BY DEF IInv
  <1> QED
    BY <1>1, Invariance, PTL

(* A participant is given the work of one event at most once (send.ts and  *)
(* task-orchestrator.ts: the mark in the event, the receipt, the wire),    *)
(* through lost answers, retried runs, crashes at every await and          *)
(* decisions about unknown inputs, for any number of each.                 *)
THEOREM AnInputArrivesOnce == Spec => []InputOnce
  <1>1. IInv => InputOnce
    BY DEF IInv, OnceSound, InputOnce
  <1> QED
    BY <1>1, Invariance, PTL

(***************************************************************************)
(* What the user is told of an event                                       *)
(***************************************************************************)
(* An event that was decided to wait or to deliver has sent nothing, and   *)
(* while an input is in the hands of a run nothing was decided.            *)
Silent(e) == e.dec \in {"wait", "deliver"} => \A p \in People : e.disp[p] \in {"none", "failed"}
DecSound ==
    /\ \A k \in 1..Len(ev) : Silent(ev[k])
    /\ pc \in Hot => ev[cur].dec = "none"

SameSay(e, f) == f.dec = e.dec /\ f.disp = e.disp

LEMMA SaySafe ==
  ASSUME NEW e, NEW f, SameSay(e, f), Silent(e)
  PROVE  Silent(f)
  BY DEF SameSay, Silent

LEMMA SayEdits ==
  ASSUME NEW e \in EventSet
  PROVE  /\ \A st : SameSay(e, [e EXCEPT !.st = st])
         /\ \A st, err : SameSay(e, [e EXCEPT !.st = st, !.err = err])
         /\ \A st, n : SameSay(e, [e EXCEPT !.st = st, !.tries = n])
         /\ \A t : SameSay(e, [e EXCEPT !.told = t])
         /\ \A note, n : SameSay(e, [e EXCEPT !.note = note, !.notes = n])
         /\ \A note, err, st : SameSay(e, [e EXCEPT !.note = note, !.err = err, !.st = st])
         /\ \A note, err, st : SameSay(e, [e EXCEPT !.note = note, !.st = st, !.err = err])
         /\ \A t, note, err : SameSay(e, [e EXCEPT !.told = t, !.note = note, !.err = err])
         /\ \A t, note, err, st : SameSay(e, [e EXCEPT !.told = t, !.note = note, !.st = st, !.err = err])
  BY DEF EventSet, SameSay

(* What the receipts say turns no input that never left into one that did. *)
LEMMA ReconciledSilent ==
  ASSUME TypeOK, NEW k \in 1..Len(ev), Silent(ev[k])
  PROVE  Silent(Reconciled(k))
  <1> DEFINE d == [p \in People |-> Dispatched(op[<<k, p>>], ev[k].disp[p])]
             e == [ev[k] EXCEPT !.disp = d]
             c == IF e.dec = "none" THEN "continue" ELSE e.dec
  <1>1. ev[k] \in EventSet /\ k \in Events
    BY Rows
  <1>2. \A p \in People : op[<<k, p>>] \in Receipts /\ ev[k].disp[p] \in Words
    BY <1>1 DEF TypeOK, Inputs, EventSet, Words
  <1>3. d \in [People -> Words]
    BY <1>2, DispatchedWord
  <1>4. /\ e \in EventSet /\ e.disp = d
    BY <1>1, <1>3, DispatchEdits
  <1>5. e.dec = ev[k].dec
    BY <1>1 DEF EventSet
  <1>6. Silent(e)
    <2>1. \A p \in People : ev[k].disp[p] \in {"none", "failed"} => d[p] = ev[k].disp[p]
      BY DEF Dispatched
    <2> QED
      BY <1>4, <1>5, <2>1 DEF Silent
  <1>7. Reconciled(k) =
          IF \E p \in People : e.disp[p] = "uncertain" THEN [e EXCEPT !.st = "attention", !.err = "delivery"]
          ELSE IF Sent(e) THEN [e EXCEPT !.st = "done", !.err = "none", !.dec = c]
          ELSE IF e.dec # "none" THEN [e EXCEPT !.st = "done"]
          ELSE CASE e.st = "processing" -> [e EXCEPT !.st = "pending"]
                 [] e.st = "attention" /\ e.err = "delivery" -> [e EXCEPT !.st = "pending", !.err = "none"]
                 [] OTHER -> e
    BY DEF Reconciled
  <1> HIDE DEF d, e
  <1>8. CASE Sent(e)
    <2> DEFINE f == [e EXCEPT !.st = "done", !.err = "none", !.dec = c]
    <2>1. f.dec = c /\ f.disp = e.disp
      BY <1>4 DEF EventSet
    <2>2. c \notin {"wait", "deliver"}
      BY <1>6, <1>8 DEF Sent, Silent
    <2>3. Silent(f)
      BY <2>1, <2>2 DEF Silent
    <2> HIDE DEF f
    <2>4. Silent([e EXCEPT !.st = "attention", !.err = "delivery"])
      BY <1>4, <1>6, SayEdits, SaySafe
    <2> QED
      BY <1>7, <1>8, <2>3, <2>4 DEF f
  <1>9. CASE ~Sent(e)
    <2>1. /\ Silent([e EXCEPT !.st = "attention", !.err = "delivery"])
          /\ Silent([e EXCEPT !.st = "done"]) /\ Silent([e EXCEPT !.st = "pending"])
          /\ Silent([e EXCEPT !.st = "pending", !.err = "none"])
      BY <1>4, <1>6, SayEdits, SaySafe
    <2> QED
      BY <1>6, <1>7, <1>9, <2>1
  <1> QED
    BY <1>8, <1>9

(* One event is saved, while no input is in hand afterwards.               *)
LEMMA SavedAs ==
  ASSUME TypeOK, DecSound, cur \in 1..Len(ev), NEW e, Save(e), Silent(e), pc' \notin Hot
  PROVE  DecSound'
  <1>1. Len(ev') = Len(ev) /\ \A k \in 1..Len(ev) : ev'[k] = IF k = cur THEN e ELSE ev[k]
    BY DEF TypeOK, Save
  <1> QED
    BY <1>1 DEF DecSound

LEMMA SpokenSilent ==
  ASSUME IInv, DecSound,
         \/ \E d \in {"continue", "wait", "deliver"} : Decide(d)
         \/ Finish \/ (\E cause \in Causes : RunFails(cause)) \/ Alert \/ Notify \/ Replied
         \/ \E state \in {"retryable", "uncertain"} : ReplyFails(state)
  PROVE  DecSound'
  <1>1. /\ TypeOK /\ PlaceSound /\ cur \in 1..Len(ev) /\ E \in EventSet /\ Silent(E)
    BY Rows DEF IInv, Decide, Finish, RunFails, Alert, Notify, Replied, ReplyFails, PlaceSound, E, DecSound
  <1>2. pc' \notin Hot
    BY DEF Decide, Finish, RunFails, Alert, Notify, Replied, ReplyFails, Go, Off, Return, run, Hot
  <1>3. ASSUME UNCHANGED ev
        PROVE  DecSound'
    BY <1>2, <1>3 DEF DecSound
  <1>4. ASSUME NEW e, SameSay(E, e), Save(e)
        PROVE  DecSound'
    BY <1>1, <1>2, <1>4, SaySafe, SavedAs DEF DecSound
  <1> DEFINE q == Reconciled(cur)
  <1>5. q \in EventSet /\ Silent(q)
    BY <1>1, Reconciles, ReconciledSilent DEF E
  <1>6. ASSUME NEW e, SameSay(q, e), Save(e)
        PROVE  DecSound'
    BY <1>1, <1>2, <1>5, <1>6, SaySafe, SavedAs DEF DecSound
  <1>7. CASE \E d \in {"continue", "wait", "deliver"} : Decide(d)
    <2>1. PICK d \in {"continue", "wait", "deliver"} : Decide(d)
      BY <1>7
    <2> DEFINE e == [E EXCEPT !.dec = d]
    <2>2. e.dec = d /\ e.disp = E.disp
      BY <1>1 DEF EventSet
    <2>3. Save(e) /\ ~Open(E) /\ ((d = "continue") <=> Sent(E))
      BY <2>1 DEF Decide
    <2>4. \A p \in People : E.disp[p] \in {"none", "pending", "sent", "failed", "uncertain"}
      BY <1>1 DEF EventSet
    <2>5. Silent(e)
      BY <2>2, <2>3, <2>4 DEF Silent, Open, Sent
    <2> HIDE DEF e
    <2> QED
      BY <1>1, <1>2, <2>3, <2>5, SavedAs DEF DecSound
  <1>8. CASE Finish
    <2>1. PICK st : Save([q EXCEPT !.st = st])
      BY <1>8 DEF Finish
    <2> HIDE DEF q
    <2> QED
      BY <1>5, <1>6, <2>1, SayEdits
  <1>9. CASE \E cause \in Causes : RunFails(cause)
    <2>1. PICK cause \in Causes : Save(Failed(q, cause))
      BY <1>9 DEF RunFails
    <2> HIDE DEF q
    <2>2. \/ Failed(q, cause) = q
          \/ Failed(q, cause) = [q EXCEPT !.st = "superseded"]
          \/ Failed(q, cause) = [q EXCEPT !.st = "pending"]
          \/ Failed(q, cause) = [q EXCEPT !.st = "attention", !.err = "other"]
          \/ Failed(q, cause) = [q EXCEPT !.st = "pending", !.tries = q.tries - 1]
      BY DEF Failed
    <2>3. SameSay(q, Failed(q, cause))
      <3>1. SameSay(q, q)
        BY DEF SameSay
      <3>2. /\ SameSay(q, [q EXCEPT !.st = "superseded"])
            /\ SameSay(q, [q EXCEPT !.st = "pending"])
            /\ SameSay(q, [q EXCEPT !.st = "attention", !.err = "other"])
        BY <1>5, SayEdits
      <3> DEFINE n == q.tries - 1
      <3>3. SameSay(q, [q EXCEPT !.st = "pending", !.tries = n])
        <4> HIDE DEF n
        <4> QED
          BY <1>5, SayEdits
      <3> QED
        BY <2>2, <3>1, <3>2, <3>3
    <2> QED
      BY <1>6, <2>1, <2>3
  <1>10. CASE Alert
    <2>1. UNCHANGED ev \/ \E t : Save([E EXCEPT !.told = t])
      BY <1>10 DEF Alert
    <2> QED
      BY <1>1, <1>3, <1>4, <2>1, SayEdits
  <1>11. CASE Notify
    <2>1. \/ UNCHANGED ev
          \/ Save([E EXCEPT !.note = "uncertain", !.st = "attention", !.err = "notice"])
          \/ Save([E EXCEPT !.note = "sending", !.notes = E.notes + 1])
      BY <1>11 DEF Notify
    <2> QED
      BY <1>1, <1>3, <1>4, <2>1, SayEdits
  <1>12. CASE Replied
    <2>1. Save([E EXCEPT !.told = TRUE, !.note = "sent", !.err = "none"])
      BY <1>12 DEF Replied
    <2> QED
      BY <1>1, <1>4, <2>1, SayEdits
  <1>13. CASE \E state \in {"retryable", "uncertain"} : ReplyFails(state)
    <2>1. \E note, err, st : Save([E EXCEPT !.note = note, !.err = err, !.st = st])
      BY <1>13 DEF ReplyFails
    <2> QED
      BY <1>1, <1>4, <2>1, SayEdits
  <1> QED
    BY <1>7, <1>8, <1>9, <1>10, <1>11, <1>12, <1>13

LEMMA ReviewedSilent ==
  ASSUME IInv, DecSound, Review
  PROVE  DecSound'
  <1> DEFINE r == Recovered(cur)
             c == IF Reconcilable(r) THEN Reconciled(cur) ELSE r
             d == IF c.rev # rev /\ ~Open(c) /\ c.st # "done" THEN [c EXCEPT !.st = "superseded"] ELSE c
  <1>1. /\ TypeOK /\ PlaceSound /\ cur \in 1..Len(ev) /\ ev[cur] \in EventSet /\ Silent(ev[cur])
    BY Rows DEF IInv, Review, PlaceSound, DecSound
  <1>2. Save(d) /\ pc' \notin Hot
    BY DEF Review, Hot
  <1>3. Kept(E, r)
    BY <1>1, RecoveredKept DEF E
  <1>4. Silent(r)
    <2>1. SameSay(ev[cur], ev[cur])
      BY DEF SameSay
    <2> DEFINE sent == Confirmed(cur)
               st   == IF ev[cur].st = "superseded" THEN ev[cur].st ELSE "done"
               err  == IF ev[cur].err = "notice" THEN "none" ELSE ev[cur].err
               note == IF Confirmed(cur) THEN "sent" ELSE "retryable"
               f    == [ev[cur] EXCEPT !.told = sent, !.note = note, !.st = st, !.err = err]
    <2>2. r = IF ~Recovers(cur) THEN ev[cur] ELSE f
      BY DEF Recovered
    <2> HIDE DEF sent, st, err, note
    <2>4. SameSay(ev[cur], f)
      BY <1>1, SayEdits
    <2> HIDE DEF r, f
    <2>3. SameSay(ev[cur], r)
      BY <2>1, <2>2, <2>4
    <2> QED
      BY <1>1, <2>3, SaySafe
  <1> HIDE DEF r
  <1>5. c \in EventSet /\ Silent(c)
    BY <1>1, <1>3, <1>4, Reconciles, ReconciledSilent DEF Kept
  <1> HIDE DEF c
  <1>6. Silent(d)
    BY <1>5, SayEdits, SaySafe
  <1> HIDE DEF d
  <1> QED
    BY <1>1, <1>2, <1>6, SavedAs DEF DecSound

LEMMA ChosenSilent ==
  ASSUME IInv, DecSound, Choose
  PROVE  DecSound'
  <1> DEFINE k     == IF Pending = {} THEN 0 ELSE Least(Pending)
             stale == k # 0 /\ ev[k].rev # rev
             kept  == IF stale THEN [ev EXCEPT ![k].st = "superseded"] ELSE ev
             make  == (k = 0 \/ stale) /\ (Fresh # {} \/ Ready \/ Revised) /\ ~Known /\ Len(ev) < MaxEvents
             next  == IF make THEN Len(ev) + 1 ELSE IF k # 0 /\ ~stale THEN k ELSE 0
             rows  == IF make THEN Append(kept, NewEvent) ELSE kept
  <1>1. /\ TypeOK /\ Len(ev) \in Nat /\ DOMAIN ev = 1..Len(ev) /\ ev \in Seq(EventSet)
        /\ \A n \in 1..Len(ev) : ev[n] \in EventSet /\ Silent(ev[n])
    BY Rows DEF IInv, TypeOK, DecSound
  <1>2. k = 0 \/ k \in 1..Len(ev)
    <2>1. Pending \in SUBSET Nat /\ Pending \subseteq 1..Len(ev)
      BY <1>1 DEF Pending
    <2> QED
      BY <2>1, FirstOf
  <1> HIDE DEF k
  <1>3. /\ kept \in Seq(EventSet) /\ Len(kept) = Len(ev)
        /\ \A n \in 1..Len(ev) : Silent(kept[n])
    <2>1. CASE stale
      <3> DEFINE f == [ev[k] EXCEPT !.st = "superseded"]
      <3>1. k \in 1..Len(ev) /\ Kept(ev[k], f) /\ SameSay(ev[k], f)
        BY <1>1, <1>2, <2>1, EventEdits, SayEdits
      <3>2. f \in EventSet /\ Silent(f)
        BY <1>1, <3>1, SaySafe DEF Kept
      <3>3. kept = [ev EXCEPT ![k] = f]
        BY <2>1
      <3> HIDE DEF f, kept
      <3> QED
        BY <1>1, <3>1, <3>2, <3>3
    <2> QED
      BY <1>1, <2>1
  <1>4. NewEvent \in EventSet /\ Silent(NewEvent)
    <2>1. /\ Fresh \in SUBSET (1..MaxOutputs) /\ rev \in 0..MaxMessages
      BY <1>1, Rows DEF Fresh, TypeOK
    <2> QED
      BY <2>1 DEF NewEvent, EventSet, Silent
  <1>5. /\ \/ ev' = [rows EXCEPT ![next].st = "processing", ![next].tries = @ + 1] /\ next # 0
           \/ ev' = rows
        /\ pc' \notin Hot
    BY DEF Choose, Off, Hot, k, kept
  <1> HIDE DEF kept
  <1>6. /\ rows \in Seq(EventSet) /\ Len(rows) \in Nat /\ (next = 0 \/ next \in 1..Len(rows))
        /\ \A n \in 1..Len(rows) : Silent(rows[n])
    BY <1>1, <1>2, <1>3, <1>4
  <1> HIDE DEF rows, next, make, stale
  <1>7. CASE ev' = rows
    BY <1>5, <1>6, <1>7 DEF DecSound
  <1>8. CASE ev' = [rows EXCEPT ![next].st = "processing", ![next].tries = @ + 1] /\ next # 0
    <2> DEFINE f == [rows[next] EXCEPT !.st = "processing", !.tries = rows[next].tries + 1]
    <2>1. rows[next] \in EventSet /\ next \in 1..Len(rows) /\ Silent(rows[next])
      BY <1>6, <1>8
    <2>2. Silent(f)
      <3>1. \A st, n : SameSay(rows[next], [rows[next] EXCEPT !.st = st, !.tries = n])
        BY <2>1, SayEdits
      <3>2. SameSay(rows[next], f)
        BY <3>1
      <3> HIDE DEF f
      <3> QED
        BY <2>1, <3>2, SaySafe
    <2>3. ev' = [rows EXCEPT ![next] = f]
      BY <1>8
    <2> HIDE DEF f
    <2>4. Len(ev') = Len(rows) /\ \A n \in 1..Len(rows) : ev'[n] = IF n = next THEN f ELSE rows[n]
      BY <1>6, <2>1, <2>3
    <2> QED
      BY <1>5, <1>6, <2>2, <2>4 DEF DecSound
  <1> QED
    BY <1>5, <1>7, <1>8

(* While an input is in hand its event is open, and only its own mark      *)
(* changes.                                                                *)
LEMMA HandsSilent ==
  ASSUME IInv, DecSound,
         \/ \E p \in People : Dispatch(p)
         \/ Receipt \/ Leaves \/ Vetoed \/ Refused \/ Lost \/ Echoed \/ Marked
  PROVE  DecSound'
  <1>1. TypeOK /\ cur \in 1..Len(ev) /\ E \in EventSet /\ E.dec = "none"
    BY Rows DEF IInv, DecSound, PlaceSound, Hot, E, Dispatch, Receipt, Leaves, Vetoed, Refused, Lost, Echoed, Marked
  <1>2. CASE Receipt \/ Leaves \/ Echoed
    BY <1>1, <1>2 DEF DecSound, Receipt, Leaves, Echoed, Go, Hot, store, E
  <1>3. CASE (\E p \in People : Dispatch(p)) \/ Vetoed \/ Refused \/ Lost \/ Marked
    <2>1. PICK p \in People, w \in Words : Save([E EXCEPT !.disp[p] = w])
      <3>1. pc \in Hot => who \in People
        BY DEF IInv, PlaceSound
      <3> QED
        BY <1>3, <3>1 DEF Dispatch, Vetoed, Refused, Lost, Marked, SendFails, Words, Hot
    <2> DEFINE e == [E EXCEPT !.disp[p] = w]
    <2>2. e.dec = "none"
      BY <1>1 DEF EventSet
    <2> HIDE DEF e
    <2>3. \A k \in 1..Len(ev) : ev'[k] = IF k = cur THEN e ELSE ev[k]
      BY <1>1, <2>1 DEF Save, e, TypeOK
    <2>4. Len(ev') = Len(ev) /\ cur' = cur
      <3>1. Len(ev') = Len(ev)
        BY <1>1, <2>1 DEF Save, TypeOK
      <3>2. cur' = cur
        BY <1>3 DEF Dispatch, Vetoed, Refused, Lost, Marked, SendFails
      <3> QED
        BY <3>1, <3>2
    <2> QED
      BY <1>1, <2>2, <2>3, <2>4 DEF DecSound, Silent
  <1> QED
    BY <1>2, <1>3

LEMMA DecInductive ==
  ASSUME IInv, DecSound, [Next]_vars
  PROVE  DecSound'
  <1>1. CASE \/ Tick \/ ToAlert \/ NoWork \/ ToChoose \/ Reply \/ Known2 \/ Posted \/ Crash
             \/ (\E p \in People : Answer(p))
             \/ Message \/ (\E paused, revised \in BOOLEAN : Handle(paused, revised))
             \/ UNCHANGED vars
             \/ \E i \in Inputs : \/ Land(i) \/ Prove(i)
                                  \/ \E c \in {"treat_done", "retry", "abandon"} : Settle(i, c)
    <2>1. UNCHANGED ev
      BY <1>1 DEF Tick, ToAlert, NoWork, ToChoose, Reply, Known2, Posted, Crash, Answer, Message,
                  Handle, Land, Prove, Settle, store, vars
    <2>2. pc' \notin Hot \/ UNCHANGED <<pc, cur>>
      BY <1>1 DEF Tick, ToAlert, NoWork, ToChoose, Reply, Known2, Posted, Crash, Answer, Message,
                  Handle, Land, Prove, Settle, run, vars, Go, Off, Hot
    <2> QED
      BY <2>1, <2>2 DEF DecSound
  <1>2. CASE Review \/ Choose
    BY <1>2, ReviewedSilent, ChosenSilent
  <1>3. CASE \/ \E d \in {"continue", "wait", "deliver"} : Decide(d)
             \/ Finish \/ (\E cause \in Causes : RunFails(cause)) \/ Alert \/ Notify \/ Replied
             \/ \E state \in {"retryable", "uncertain"} : ReplyFails(state)
    BY <1>3, SpokenSilent
  <1>4. CASE \/ \E p \in People : Dispatch(p)
             \/ Receipt \/ Leaves \/ Vetoed \/ Refused \/ Lost \/ Echoed \/ Marked
    BY <1>4, HandsSilent
  <1> QED
    BY <1>1, <1>2, <1>3, <1>4
       DEF Next, Run, Troubles, Users, Handling, Native, Arrive

(* Where the user is told that the scheduler waits or delivers, no         *)
(* participant was given work by that event, and no request that was lost  *)
(* still can give it (task-orchestrator.ts: the decision tool, the         *)
(* dispatches and what is made of their receipts).                         *)
THEOREM DecisionsAreTrue == Spec => []DecisionIsTrue
  <1>1. Init => DecSound
    BY DEF Init, DecSound, Hot
  <1>2. IInv /\ DecSound /\ [Next]_vars => DecSound'
    BY DecInductive
  <1>3. IInv /\ DecSound => DecisionIsTrue
    <2> SUFFICES ASSUME IInv, DecSound, NEW k \in DOMAIN ev, ev[k].dec \in {"wait", "deliver"},
                        NEW p \in People
                 PROVE  <<k, p>> \notin wire /\ landed[<<k, p>>] = 0
      BY DEF DecisionIsTrue
    <2>1. k \in 1..Len(ev) /\ k \in Events
      BY Rows DEF IInv
    <2>2. ev[k].disp[p] \in {"none", "failed"}
      BY <2>1 DEF DecSound, Silent
    <2>3. <<k, p>> \in Inputs /\ OutSound(<<k, p>>) /\ landed[<<k, p>>] \in Nat
      BY <2>1 DEF IInv, Inputs, TypeOK
    <2> QED
      BY <2>2, <2>3 DEF OutSound, Out
  <1> QED
    BY <1>1, <1>2, <1>3, Invariance, PTL DEF Spec

(***************************************************************************)
(* What is shown of a discussion (Discussion).                             *)
(*                                                                         *)
(* Where an output stands is on record in two tables that are written one  *)
(* after the other: the pending output and the row of the outbox.  The     *)
(* invariant says how far they may be apart: an output nobody has tried to *)
(* show has no row, a refused one has a refused row, and whatever is       *)
(* between the two writes of a delivery is marked `sending` in the first.  *)
(***************************************************************************)
OnScreen == {"tell", "telling", "posted", "shown"}

OutputSound(o) ==
    /\ d_shown[o] <= 1
    /\ d_shown[o] > 0 => d_box[o] \in {"sending", "delivered", "uncertain"}
    /\ d_note[o] = "new" => d_box[o] = "none"
    /\ d_note[o] = "retryable" => d_box[o] = "retryable"
    /\ d_box[o] # "none" => \E i \in DOMAIN d_book : d_book[i] = o

ScreenSound ==
    /\ d_pc \in OnScreen => d_at \in DOMAIN d_book /\ d_note[d_book[d_at]] = "sending"
    /\ d_pc = "tell" => d_box[d_book[d_at]] \notin {"sending", "uncertain"}
    /\ d_pc = "telling" => d_box[d_book[d_at]] = "sending" /\ d_shown[d_book[d_at]] = 0
    /\ d_pc = "posted" => d_box[d_book[d_at]] = "sending"
    /\ d_pc = "shown" => d_box[d_book[d_at]] = "delivered"

TalkTypes ==
    /\ d_book \in Seq(D!Outputs) /\ d_said \in Seq(D!Members) /\ Len(d_said) <= MaxSayings
    /\ d_note \in [D!Outputs -> {"none", "new", "sending", "retryable", "uncertain"}]
    /\ d_box \in [D!Outputs -> {"none", "sending", "delivered", "retryable", "uncertain"}]
    /\ d_shown \in [D!Outputs -> Nat]

TalkInv == TalkTypes /\ (\A o \in D!Outputs : OutputSound(o)) /\ ScreenSound

LEMMA TalkConstants ==
  /\ Speakers \in Nat \ {0, 1} /\ MaxSayings \in Nat
  BY TalkOk DEF D!DiscussionAssumption

(***************************************************************************)
(* The last of some numbers                                                *)
(***************************************************************************)
LEMMA LastIn ==
  ASSUME NEW n \in Nat, NEW T \in SUBSET (1..n), T # {}
  PROVE  \E x \in T : \A y \in T : x >= y
  <1> DEFINE R == {n - y : y \in T}
  <1>1. R \in SUBSET Nat /\ R # {}
    <2>1. PICK z \in T : TRUE
      OBVIOUS
    <2>2. n - z \in R
      BY <2>1
    <2>3. \A y \in T : n - y \in Nat
      OBVIOUS
    <2> QED
      BY <2>2, <2>3
  <1>2. PICK r \in R : \A s \in R : r <= s
    BY <1>1, FirstIn
  <1>3. PICK x \in T : r = n - x
    OBVIOUS
  <1>4. ASSUME NEW y \in T
        PROVE  x >= y
    <2>1. n - y \in R
      OBVIOUS
    <2>2. n - x <= n - y
      BY <2>1, <1>2, <1>3
    <2> QED
      BY <2>2
  <1> QED
    BY <1>4

LEMMA LatestSaid ==
  ASSUME TalkTypes, NEW p, D!Latest(p) # 0
  PROVE  D!Latest(p) \in D!Outputs
  <1>1. D!Visible(p) \in SUBSET (1..Len(d_said)) /\ Len(d_said) \in Nat
    BY DEF D!Visible, TalkTypes
  <1>2. D!Visible(p) # {}
    BY DEF D!Latest
  <1>3. PICK x \in D!Visible(p) : \A y \in D!Visible(p) : x >= y
    BY <1>1, <1>2, LastIn
  <1>4. D!Latest(p) \in D!Visible(p)
    BY <1>2, <1>3 DEF D!Latest, D!Max
  <1> QED
    BY <1>1, <1>4, TalkConstants DEF TalkTypes, D!Outputs

(***************************************************************************)
(* Steps that leave the two tables alone                                   *)
(***************************************************************************)
TalkKept == UNCHANGED <<d_book, d_note, d_box, d_shown>>

LEMMA TalkQuiet ==
  ASSUME TalkInv, TalkKept, d_said' = d_said,
         d_pc' \notin OnScreen \/ (d_pc' = d_pc /\ d_at' = d_at)
  PROVE  TalkInv'
  <1> USE DEF TalkKept
  <1>1. TalkTypes'
    BY DEF TalkInv, TalkTypes
  <1>2. \A o \in D!Outputs : OutputSound(o)'
    BY DEF TalkInv, OutputSound
  <1>3. CASE d_pc' \notin OnScreen
    <2>1. ScreenSound'
      BY <1>3 DEF ScreenSound, OnScreen
    <2> QED
      BY <1>1, <1>2, <2>1 DEF TalkInv
  <1>4. CASE d_pc' = d_pc /\ d_at' = d_at
    <2>1. ScreenSound'
      BY <1>4 DEF ScreenSound, TalkInv
    <2> QED
      BY <1>1, <1>2, <2>1 DEF TalkInv
  <1> QED
    BY <1>3, <1>4

LEMMA TalkSays ==
  ASSUME TalkInv, NEW p \in D!Members, D!Say(p)
  PROVE  TalkInv'
  <1>1. TalkKept /\ d_pc' = d_pc /\ d_at' = d_at
    BY DEF D!Say, D!rows, D!told, D!holder, TalkKept
  <1>2. TalkTypes'
    <2>1. d_said' = Append(d_said, p) /\ Len(d_said) < MaxSayings
      BY DEF D!Say
    <2> QED
      BY <1>1, <2>1, TalkConstants DEF TalkInv, TalkTypes, TalkKept
  <1>3. \A o \in D!Outputs : OutputSound(o)'
    BY <1>1 DEF TalkInv, OutputSound, TalkKept
  <1>4. ScreenSound'
    BY <1>1 DEF ScreenSound, TalkInv, TalkKept
  <1> QED
    BY <1>2, <1>3, <1>4 DEF TalkInv

LEMMA TalkStill ==
  ASSUME TalkInv, TalkKept, UNCHANGED <<d_said, d_pc, d_at>>
  PROVE  TalkInv'
  BY TalkQuiet

(***************************************************************************)
(* A record is captured                                                    *)
(***************************************************************************)
LEMMA TalkRecords ==
  ASSUME TalkInv, NEW o \in D!Outputs, D!Record(o), UNCHANGED <<d_box, d_shown, d_said>>,
         d_pc' \notin OnScreen
  PROVE  TalkInv'
  <1>1. CASE o \in D!ToSet(d_book)
    <2>1. TalkKept
      BY <1>1 DEF D!Record, D!captured, TalkKept
    <2> QED
      BY <2>1, TalkQuiet
  <1>2. CASE o \notin D!ToSet(d_book)
    <2>1. d_book' = Append(d_book, o) /\ d_note' = [d_note EXCEPT ![o] = "new"]
      BY <1>2 DEF D!Record
    <2>2. \A i \in DOMAIN d_book : d_book[i] # o
      BY <1>2 DEF D!ToSet
    <2>3. /\ d_book' \in Seq(D!Outputs) /\ DOMAIN d_book \subseteq DOMAIN d_book'
          /\ \A i \in DOMAIN d_book : d_book'[i] = d_book[i]
      BY <2>1 DEF TalkInv, TalkTypes
    <2>4. TalkTypes'
      BY <2>1, <2>3 DEF TalkInv, TalkTypes
    <2>5. ASSUME NEW u \in D!Outputs
          PROVE  OutputSound(u)'
      <3>1. d_box[u] # "none" => \E i \in DOMAIN d_book' : d_book'[i] = u
        BY <2>3 DEF TalkInv, OutputSound
      <3>2. d_note'[u] = IF u = o THEN "new" ELSE d_note[u]
        BY <2>1 DEF TalkInv, TalkTypes
      <3>3. u = o => d_box[u] = "none"
        BY <2>2 DEF TalkInv, OutputSound
      <3> QED
        BY <3>1, <3>2, <3>3 DEF TalkInv, OutputSound
    <2>6. ScreenSound'
      BY DEF ScreenSound, OnScreen
    <2> QED
      BY <2>4, <2>5, <2>6 DEF TalkInv
  <1> QED
    BY <1>1, <1>2

LEMMA TalkLast ==
  ASSUME TalkInv, D!LastReply, UNCHANGED <<d_box, d_shown, d_said>>, d_pc' \notin OnScreen
  PROVE  TalkInv'
  <1>1. CASE D!Latest(d_cur) \in {0, d_base[d_cur]}
    <2>1. TalkKept
      BY <1>1 DEF D!LastReply, D!captured, TalkKept
    <2> QED
      BY <2>1, TalkQuiet
  <1>2. CASE D!Latest(d_cur) \notin {0, d_base[d_cur]}
    <2>1. D!Record(D!Latest(d_cur))
      BY <1>2 DEF D!LastReply
    <2>2. D!Latest(d_cur) \in D!Outputs
      BY <1>2, LatestSaid DEF TalkInv
    <2> QED
      BY <2>1, <2>2, TalkRecords
  <1> QED
    BY <1>1, <1>2

(***************************************************************************)
(* The delivery of one output                                              *)
(***************************************************************************)
LEMMA FirstWaiting ==
  ASSUME TalkInv, D!Waiting # {}
  PROVE  D!Min(D!Waiting) \in DOMAIN d_book /\ D!Here \in D!Outputs
  <1>1. D!Waiting \in SUBSET Nat /\ D!Waiting \subseteq DOMAIN d_book
    BY DEF D!Waiting, TalkInv, TalkTypes
  <1>2. PICK x \in D!Waiting : \A y \in D!Waiting : x <= y
    BY <1>1, FirstIn
  <1>3. D!Min(D!Waiting) \in D!Waiting
    BY <1>2 DEF D!Min
  <1>4. D!Min(D!Waiting) \in DOMAIN d_book
    BY <1>1, <1>3
  <1> QED
    BY <1>4 DEF D!Here, TalkInv, TalkTypes

(* One output gets a new mark, a new row and a new number of messages.     *)
WritesDown(i, h, n, b, k) ==
    /\ UNCHANGED <<d_book, d_said>> /\ i \in DOMAIN d_book /\ h = d_book[i]
    /\ n \in {"none", "new", "sending", "retryable", "uncertain"}
    /\ b \in {"none", "sending", "delivered", "retryable", "uncertain"}
    /\ k \in 0..1 /\ (k = 1 => b \in {"sending", "delivered", "uncertain"})
    /\ (n = "new" => b = "none") /\ (n = "retryable" => b = "retryable")
    /\ d_note' = [d_note EXCEPT ![h] = n] /\ d_box' = [d_box EXCEPT ![h] = b]
    /\ d_shown' = [d_shown EXCEPT ![h] = k]

LEMMA TalkMoves ==
  ASSUME TalkInv, NEW i, NEW h, NEW n, NEW b, NEW k, WritesDown(i, h, n, b, k)
  PROVE  /\ TalkTypes' /\ \A o \in D!Outputs : OutputSound(o)'
         /\ h \in D!Outputs /\ d_note'[h] = n /\ d_box'[h] = b /\ d_shown'[h] = k
  <1>1. h \in D!Outputs
    BY DEF WritesDown, TalkInv, TalkTypes
  <1>2. TalkTypes'
    BY DEF WritesDown, TalkInv, TalkTypes
  <1>3. ASSUME NEW o \in D!Outputs
        PROVE  OutputSound(o)'
    <2>1. CASE o = h
      <3>1. d_note'[o] = n /\ d_box'[o] = b /\ d_shown'[o] = k
        BY <1>1, <2>1 DEF WritesDown, TalkInv, TalkTypes
      <3>2. \E j \in DOMAIN d_book' : d_book'[j] = o
        BY <2>1 DEF WritesDown
      <3> QED
        BY <3>1, <3>2 DEF OutputSound, WritesDown
    <2>2. CASE o # h
      <3>1. d_note'[o] = d_note[o] /\ d_box'[o] = d_box[o] /\ d_shown'[o] = d_shown[o]
        BY <2>2 DEF WritesDown, TalkInv, TalkTypes
      <3> QED
        BY <3>1 DEF OutputSound, TalkInv, WritesDown
    <2> QED
      BY <2>1, <2>2
  <1>4. d_note'[h] = n /\ d_box'[h] = b /\ d_shown'[h] = k
    BY <1>1 DEF WritesDown, TalkInv, TalkTypes
  <1> QED
    BY <1>1, <1>2, <1>3, <1>4

(* What is known of the output at a place in the book.                     *)
LEMMA TalkFacts ==
  ASSUME TalkInv, NEW i \in DOMAIN d_book, NEW h, h = d_book[i]
  PROVE  /\ h \in D!Outputs /\ d_shown[h] \in 0..1
         /\ d_shown[h] > 0 => d_box[h] \in {"sending", "delivered", "uncertain"}
         /\ d_note[h] = "new" => d_box[h] = "none"
         /\ d_note[h] = "retryable" => d_box[h] = "retryable"
         /\ d_box[h] \in {"none", "sending", "delivered", "retryable", "uncertain"}
         /\ d_note[h] \in {"none", "new", "sending", "retryable", "uncertain"}
         /\ d_note = [d_note EXCEPT ![h] = d_note[h]]
         /\ d_box = [d_box EXCEPT ![h] = d_box[h]]
         /\ d_shown = [d_shown EXCEPT ![h] = d_shown[h]]
  <1>1. h \in D!Outputs
    BY DEF TalkInv, TalkTypes
  <1> QED
    BY <1>1 DEF TalkInv, TalkTypes, OutputSound

LEMMA TalkDelivers ==
  ASSUME TalkInv, D!Deliver
  PROVE  TalkInv'
  <1>1. PICK i \in DOMAIN d_book : i = D!Min(D!Waiting)
    BY FirstWaiting DEF D!Deliver
  <1>2. PICK h : h = D!Here
    OBVIOUS
  <1>3. h = d_book[i]
    BY <1>1, <1>2 DEF D!Here
  <1>4. /\ UNCHANGED <<d_book, d_said, d_box, d_shown>> /\ d_pc' = "tell" /\ d_at' = i
        /\ d_note' = [d_note EXCEPT ![h] = "sending"]
    BY <1>1, <1>2 DEF D!Deliver, D!OnlyNote, D!rows, D!native
  <1>5. D!Tellable(h)
    BY <1>2 DEF D!Deliver
  <1>6. d_box[h] \notin {"sending", "uncertain"}
    BY <1>3, <1>5, TalkFacts DEF D!Tellable, D!Confirmed, D!Resumable
  <1>7. TalkTypes' /\ (\A o \in D!Outputs : OutputSound(o)') /\ d_note'[h] = "sending"
    <2>1. PICK b, k : b = d_box[h] /\ k = d_shown[h]
      OBVIOUS
    <2>2. /\ b \in {"none", "sending", "delivered", "retryable", "uncertain"} /\ k \in 0..1
          /\ k = 1 => b \in {"sending", "delivered", "uncertain"}
          /\ d_box' = [d_box EXCEPT ![h] = b] /\ d_shown' = [d_shown EXCEPT ![h] = k]
      BY <1>3, <1>4, <2>1, TalkFacts
    <2>3. WritesDown(i, h, "sending", b, k)
      BY <1>3, <1>4, <2>2 DEF WritesDown
    <2> QED
      BY <2>3, TalkMoves
  <1>8. ScreenSound'
    BY <1>3, <1>4, <1>6, <1>7 DEF ScreenSound
  <1> QED
    BY <1>7, <1>8 DEF TalkInv

LEMMA TalkInDoubt ==
  ASSUME TalkInv, D!DeliverUnknown
  PROVE  TalkInv'
  <1>1. PICK i \in DOMAIN d_book : i = D!Min(D!Waiting)
    BY FirstWaiting DEF D!DeliverUnknown
  <1>2. PICK h : h = D!Here
    OBVIOUS
  <1>3. h = d_book[i]
    BY <1>1, <1>2 DEF D!Here
  <1>4. /\ UNCHANGED <<d_book, d_said, d_box, d_shown>> /\ d_pc' = "deliver"
        /\ d_note' = [d_note EXCEPT ![h] = "uncertain"]
    BY <1>1, <1>2 DEF D!DeliverUnknown, D!OnlyNote, D!rows, D!native
  <1>5. TalkTypes' /\ (\A o \in D!Outputs : OutputSound(o)')
    <2>1. PICK b, k : b = d_box[h] /\ k = d_shown[h]
      OBVIOUS
    <2>2. /\ b \in {"none", "sending", "delivered", "retryable", "uncertain"} /\ k \in 0..1
          /\ k = 1 => b \in {"sending", "delivered", "uncertain"}
          /\ d_box' = [d_box EXCEPT ![h] = b] /\ d_shown' = [d_shown EXCEPT ![h] = k]
      BY <1>3, <1>4, <2>1, TalkFacts
    <2>3. WritesDown(i, h, "uncertain", b, k)
      BY <1>3, <1>4, <2>2 DEF WritesDown
    <2> QED
      BY <2>3, TalkMoves
  <1>6. ScreenSound'
    BY <1>4 DEF ScreenSound, OnScreen
  <1> QED
    BY <1>5, <1>6 DEF TalkInv

LEMMA TalkTells ==
  ASSUME TalkInv, D!Tell
  PROVE  TalkInv'
  <1>1. /\ d_pc = "tell" /\ d_at \in DOMAIN d_book /\ d_note[d_book[d_at]] = "sending"
        /\ d_at' = d_at /\ UNCHANGED <<d_book, d_said, d_note, d_shown>>
    BY DEF D!Tell, D!Go, D!rows, D!native, TalkInv, ScreenSound, OnScreen
  <1>2. PICK i \in DOMAIN d_book : i = d_at
    BY <1>1
  <1>3. PICK h : h = d_book[i]
    OBVIOUS
  <1>4. CASE d_box[h] = "delivered"
    <2>1. d_box' = d_box /\ d_pc' = "shown"
      BY <1>2, <1>3, <1>4 DEF D!Tell, D!Go
    <2>2. TalkTypes' /\ (\A o \in D!Outputs : OutputSound(o)')
      BY <1>1, <2>1 DEF TalkInv, TalkTypes, OutputSound
    <2>3. ScreenSound'
      BY <1>1, <1>2, <1>3, <1>4, <2>1 DEF ScreenSound
    <2> QED
      BY <2>2, <2>3 DEF TalkInv
  <1>5. CASE d_box[h] # "delivered"
    <2>1. d_box' = [d_box EXCEPT ![h] = "sending"] /\ d_pc' = "telling"
      BY <1>2, <1>3, <1>5 DEF D!Tell, D!Go
    <2>2. d_box[h] \notin {"sending", "uncertain"}
      BY <1>2, <1>3 DEF D!Tell
    <2>3. d_shown[h] = 0
      BY <1>3, <1>5, <2>2, TalkFacts
    <2>4. d_shown' = [d_shown EXCEPT ![h] = 0] /\ d_note' = [d_note EXCEPT ![h] = "sending"]
      BY <1>1, <1>2, <1>3, <2>3, TalkFacts
    <2>5. /\ TalkTypes' /\ (\A o \in D!Outputs : OutputSound(o)')
          /\ d_note'[h] = "sending" /\ d_box'[h] = "sending" /\ d_shown'[h] = 0
      <3>1. UNCHANGED <<d_book, d_said>> /\ 0 \in 0..1
        BY <1>1
      <3>2. WritesDown(i, h, "sending", "sending", 0)
        BY <1>3, <2>1, <2>4, <3>1 DEF WritesDown
      <3> QED
        BY <3>2, TalkMoves
    <2>6. ScreenSound'
      BY <1>1, <1>2, <1>3, <2>1, <2>5 DEF ScreenSound
    <2> QED
      BY <2>5, <2>6 DEF TalkInv
  <1> QED
    BY <1>4, <1>5

LEMMA TalkPosts ==
  ASSUME TalkInv, D!Post
  PROVE  TalkInv'
  <1>1. /\ d_pc = "telling" /\ d_pc' = "posted" /\ d_at \in DOMAIN d_book
        /\ d_note[d_book[d_at]] = "sending" /\ d_box[d_book[d_at]] = "sending"
        /\ d_shown[d_book[d_at]] = 0
        /\ d_at' = d_at /\ UNCHANGED <<d_book, d_said, d_note, d_box>>
    BY DEF D!Post, D!Go, D!rows, D!native, TalkInv, ScreenSound, OnScreen
  <1>2. PICK i \in DOMAIN d_book : i = d_at
    BY <1>1
  <1>3. PICK h : h = d_book[i]
    OBVIOUS
  <1>4. d_shown' = [d_shown EXCEPT ![h] = 1]
    BY <1>1, <1>2, <1>3 DEF D!Post
  <1>5. d_note' = [d_note EXCEPT ![h] = "sending"] /\ d_box' = [d_box EXCEPT ![h] = "sending"]
    BY <1>1, <1>2, <1>3, TalkFacts
  <1>6. /\ TalkTypes' /\ (\A o \in D!Outputs : OutputSound(o)')
        /\ d_note'[h] = "sending" /\ d_box'[h] = "sending"
    <2>1. UNCHANGED <<d_book, d_said>> /\ 1 \in 0..1
      BY <1>1
    <2>2. WritesDown(i, h, "sending", "sending", 1)
      BY <1>3, <1>4, <1>5, <2>1 DEF WritesDown
    <2> QED
      BY <2>2, TalkMoves
  <1>7. ScreenSound'
    BY <1>1, <1>2, <1>3, <1>6 DEF ScreenSound
  <1> QED
    BY <1>6, <1>7 DEF TalkInv

LEMMA TalkPosted ==
  ASSUME TalkInv, D!Posted
  PROVE  TalkInv'
  <1>1. /\ d_pc = "posted" /\ d_pc' = "shown" /\ d_at \in DOMAIN d_book
        /\ d_note[d_book[d_at]] = "sending"
        /\ d_at' = d_at /\ UNCHANGED <<d_book, d_said, d_note, d_shown>>
    BY DEF D!Posted, D!Go, D!rows, D!native, TalkInv, ScreenSound, OnScreen
  <1>2. PICK i \in DOMAIN d_book : i = d_at
    BY <1>1
  <1>3. PICK h, k : h = d_book[i] /\ k = d_shown[h]
    OBVIOUS
  <1>4. d_box' = [d_box EXCEPT ![h] = "delivered"]
    BY <1>2, <1>3 DEF D!Posted
  <1>5. /\ k \in 0..1 /\ d_note' = [d_note EXCEPT ![h] = "sending"]
        /\ d_shown' = [d_shown EXCEPT ![h] = k]
    BY <1>1, <1>2, <1>3, TalkFacts
  <1>6. /\ TalkTypes' /\ (\A o \in D!Outputs : OutputSound(o)')
        /\ d_note'[h] = "sending" /\ d_box'[h] = "delivered"
    <2>1. WritesDown(i, h, "sending", "delivered", k)
      BY <1>1, <1>3, <1>4, <1>5 DEF WritesDown
    <2> QED
      BY <2>1, TalkMoves
  <1>7. ScreenSound'
    BY <1>1, <1>2, <1>3, <1>6 DEF ScreenSound
  <1> QED
    BY <1>6, <1>7 DEF TalkInv

LEMMA TalkTold ==
  ASSUME TalkInv, D!Told
  PROVE  TalkInv'
  <1>1. /\ d_pc = "shown" /\ d_pc' = "deliver" /\ d_at \in DOMAIN d_book
        /\ UNCHANGED <<d_book, d_said, d_box, d_shown>>
    BY DEF D!Told, D!OnlyNote, D!GoOn, D!rows, D!native, TalkInv, ScreenSound, OnScreen
  <1>2. PICK i \in DOMAIN d_book : i = d_at
    BY <1>1
  <1>3. PICK h, b, k : h = d_book[i] /\ b = d_box[h] /\ k = d_shown[h]
    OBVIOUS
  <1>4. d_note' = [d_note EXCEPT ![h] = "none"]
    BY <1>2, <1>3 DEF D!Told, D!OnlyNote
  <1>5. /\ b \in {"none", "sending", "delivered", "retryable", "uncertain"} /\ k \in 0..1
        /\ k = 1 => b \in {"sending", "delivered", "uncertain"}
        /\ d_box' = [d_box EXCEPT ![h] = b] /\ d_shown' = [d_shown EXCEPT ![h] = k]
    BY <1>1, <1>3, TalkFacts
  <1>6. TalkTypes' /\ (\A o \in D!Outputs : OutputSound(o)')
    <2>1. WritesDown(i, h, "none", b, k)
      BY <1>1, <1>3, <1>4, <1>5 DEF WritesDown
    <2> QED
      BY <2>1, TalkMoves
  <1>7. ScreenSound'
    BY <1>1 DEF ScreenSound, OnScreen
  <1> QED
    BY <1>6, <1>7 DEF TalkInv

LEMMA TalkFails ==
  ASSUME TalkInv, NEW state \in {"retryable", "uncertain"}, D!TellFails(state)
  PROVE  TalkInv'
  <1>1. /\ d_pc \in {"telling", "posted"} /\ d_pc' = "deliver" /\ d_at \in DOMAIN d_book
        /\ UNCHANGED <<d_book, d_said, d_shown>>
    BY DEF D!TellFails, D!GoOn, D!rows, D!native, TalkInv, ScreenSound, OnScreen
  <1>2. PICK i \in DOMAIN d_book : i = d_at
    BY <1>1
  <1>3. PICK h, k : h = d_book[i] /\ k = d_shown[h]
    OBVIOUS
  <1>4. d_note' = [d_note EXCEPT ![h] = state] /\ d_box' = [d_box EXCEPT ![h] = state]
    BY <1>2, <1>3 DEF D!TellFails
  <1>5. /\ k \in 0..1 /\ d_shown' = [d_shown EXCEPT ![h] = k]
    BY <1>1, <1>3, TalkFacts
  <1>6. k = 1 => state = "uncertain"
    BY <1>1, <1>2, <1>3 DEF D!TellFails, TalkInv, ScreenSound
  <1>7. TalkTypes' /\ (\A o \in D!Outputs : OutputSound(o)')
    <2>1. WritesDown(i, h, state, state, k)
      BY <1>1, <1>3, <1>4, <1>5, <1>6 DEF WritesDown
    <2> QED
      BY <2>1, TalkMoves
  <1>8. ScreenSound'
    BY <1>1 DEF ScreenSound, OnScreen
  <1> QED
    BY <1>7, <1>8 DEF TalkInv

(***************************************************************************)
(* The steps that observe                                                  *)
(***************************************************************************)
LEMMA NextPlace ==
  ASSUME D!NextPerson
  PROVE  d_pc' \notin OnScreen
  BY DEF D!NextPerson, OnScreen

LEMMA TalkObserves ==
  ASSUME TalkInv, D!Gone \/ D!Entry \/ D!Sample
  PROVE  TalkInv'
  <1>1. CASE D!Gone
    <2>1. UNCHANGED <<d_box, d_shown, d_said>> /\ d_pc' \notin OnScreen
      BY <1>1, NextPlace DEF D!Gone, D!native
    <2>2. CASE d_sent[d_cur]
      BY <1>1, <2>1, <2>2, TalkLast DEF D!Gone
    <2>3. CASE ~d_sent[d_cur]
      BY <1>1, <2>1, <2>3, TalkQuiet DEF D!Gone, D!captured, TalkKept
    <2> QED
      BY <2>2, <2>3
  <1>2. CASE D!Entry
    <2>1. UNCHANGED <<d_box, d_shown, d_said>> /\ d_pc' \notin OnScreen
      BY <1>2 DEF D!Entry, D!native, D!holder, OnScreen
    <2>2. PICK o \in D!Fresh : D!Record(o)
      BY <1>2 DEF D!Entry
    <2>3. o \in D!Outputs
      BY TalkConstants DEF D!Fresh, D!Visible, D!Outputs, TalkInv, TalkTypes
    <2> QED
      BY <2>1, <2>2, <2>3, TalkRecords
  <1>3. CASE D!Sample
    <2>1. UNCHANGED <<d_box, d_shown, d_said>> /\ d_pc' \notin OnScreen
      BY <1>3, NextPlace DEF D!Sample, D!native
    <2> QED
      BY <1>3, <2>1, TalkLast DEF D!Sample
  <1> QED
    BY <1>1, <1>2, <1>3

(* The others neither capture nor show; they end, or stand elsewhere.      *)
LEMMA TalkTicks ==
  ASSUME TalkInv,
         \/ D!Tick \/ D!Proofs \/ D!Look \/ D!Skip \/ D!Page \/ D!AllTold
         \/ D!LookFails \/ D!SendRefused \/ D!NotEchoed \/ D!Crash
  PROVE  TalkInv'
  <1>1. CASE D!Tick \/ D!Proofs \/ D!AllTold
    BY <1>1, TalkQuiet
    DEF D!Tick, D!Proofs, D!AllTold, D!Go, D!rows, D!told, D!native, TalkKept, OnScreen
  <1>2. CASE D!Look \/ D!Skip
    BY <1>2, NextPlace, TalkQuiet
    DEF D!Look, D!Skip, D!rows, D!told, D!native, TalkKept, OnScreen
  <1>3. CASE D!Page
    BY <1>3, NextPlace, TalkQuiet DEF D!Page, D!Go, D!told, D!native, TalkKept, OnScreen
  <1>4. CASE D!LookFails \/ D!Crash
    BY <1>4, TalkQuiet
    DEF D!LookFails, D!Crash, D!Leave, D!rows, D!told, D!native, TalkKept, OnScreen
  <1>5. CASE D!SendRefused \/ D!NotEchoed
    BY <1>5, TalkQuiet
    DEF D!SendRefused, D!NotEchoed, D!Failed, D!Leave, D!told, D!native, TalkKept, OnScreen
  <1> QED
    BY <1>1, <1>2, <1>3, <1>4, <1>5

LEMMA TalkRelays ==
  ASSUME TalkInv, \/ D!RelayOlder \/ D!RelayWaits \/ D!Relay \/ D!AllRelayed
                  \/ D!NextBusy \/ D!NextReady \/ D!NextUnknown \/ D!Baseline \/ D!Write
                  \/ D!Echoed \/ D!Unheard \/ D!Apply \/ D!Handed
  PROVE  TalkInv'
  <1>1. CASE D!RelayOlder \/ D!RelayWaits \/ D!AllRelayed
    BY <1>1, TalkQuiet
    DEF D!RelayOlder, D!RelayWaits, D!AllRelayed, D!Past, D!Leave, D!rows, D!told, D!native,
        TalkKept, OnScreen
  <1>2. CASE D!Relay
    <2>1. d_pc' \in {"next", "relay"}
      BY <1>2 DEF D!Relay, D!Past
    <2> QED
      BY <1>2, <2>1, TalkQuiet DEF D!Relay, D!told, D!native, TalkKept, OnScreen
  <1>3. CASE D!NextBusy \/ D!Handed
    <2>1. d_pc' \in {"relay", "free"}
      BY <1>3 DEF D!NextBusy, D!Handed, D!GiveUp, D!Leave
    <2> QED
      BY <1>3, <2>1, TalkQuiet DEF D!NextBusy, D!Handed, D!told, D!native, TalkKept, OnScreen
  <1>4. CASE D!NextReady
    <2>1. d_pc' \in {"baseline", "settled"}
      BY <1>4 DEF D!NextReady, D!Go
    <2> QED
      BY <1>4, <2>1, TalkQuiet DEF D!NextReady, D!told, D!native, TalkKept, OnScreen
  <1>5. CASE D!NextUnknown \/ D!Unheard
    BY <1>5, TalkQuiet
    DEF D!NextUnknown, D!Unheard, D!Failed, D!Leave, D!told, D!native, TalkKept, OnScreen
  <1>6. CASE D!Baseline \/ D!Write \/ D!Echoed
    BY <1>6, TalkQuiet
    DEF D!Baseline, D!Write, D!Echoed, D!Go, D!rows, D!told, D!native, TalkKept, OnScreen
  <1>7. CASE D!Apply
    <2>1. d_pc' \in {"handed", "free"}
      BY <1>7 DEF D!Apply, D!Go, D!Leave
    <2> QED
      BY <1>7, <2>1, TalkQuiet DEF D!Apply, D!told, D!native, TalkKept, OnScreen
  <1> QED
    BY <1>1, <1>2, <1>3, <1>4, <1>5, <1>6, <1>7

LEMMA TalkOthers ==
  ASSUME TalkInv,
         \/ (\E r \in D!Relays : D!Prove(r) \/ D!Land(r)) \/ D!Pause \/ D!Resume
         \/ (\E p \in D!Members : D!Rest(p) \/ D!Clear(p) \/ D!Lose(p))
  PROVE  TalkInv'
  <1>1. CASE \E r \in D!Relays : D!Prove(r)
    BY <1>1, TalkStill DEF D!Prove, D!told, D!holder, D!native, TalkKept
  <1>2. CASE \E r \in D!Relays : D!Land(r)
    BY <1>2, TalkStill DEF D!Land, D!rows, D!told, D!holder, TalkKept
  <1>3. CASE D!Pause
    BY <1>3, TalkStill DEF D!Pause, D!told, D!holder, D!native, TalkKept
  <1>4. CASE D!Resume
    <2>1. d_pc' = "next" \/ UNCHANGED <<d_pc, d_at>>
      BY <1>4 DEF D!Resume, D!holder
    <2> QED
      BY <1>4, <2>1, TalkQuiet DEF D!Resume, D!told, D!native, TalkKept, OnScreen
  <1>5. CASE \E p \in D!Members : D!Rest(p) \/ D!Clear(p) \/ D!Lose(p)
    BY <1>5, TalkStill DEF D!Rest, D!Clear, D!Lose, D!rows, D!told, D!holder, TalkKept
  <1> QED
    BY <1>1, <1>2, <1>3, <1>4, <1>5

-----------------------------------------------------------------------------
(***************************************************************************)
(* The results about what is shown                                         *)
(***************************************************************************)
LEMMA TalkInit == D!Init => TalkInv
  <1> SUFFICES ASSUME D!Init
               PROVE  TalkInv
    OBVIOUS
  <1> USE DEF D!Init
  <1>1. TalkTypes
    BY TalkConstants DEF TalkTypes
  <1>2. \A o \in D!Outputs : OutputSound(o)
    BY DEF OutputSound
  <1>3. ScreenSound
    BY DEF ScreenSound, OnScreen
  <1> QED
    BY <1>1, <1>2, <1>3 DEF TalkInv

LEMMA TalkNext == TalkInv /\ [D!Next]_(D!vars) => TalkInv'
  <1> SUFFICES ASSUME TalkInv, [D!Next]_(D!vars)
               PROVE  TalkInv'
    OBVIOUS
  <1>1. CASE D!Holder
    <2>1. CASE \/ D!Tick \/ (\E r \in D!Relays : D!Prove(r)) \/ D!Proofs \/ D!Look
               \/ D!Gone \/ D!Skip \/ D!Entry \/ D!Page \/ D!Sample
      BY <2>1, TalkTicks, TalkObserves, TalkOthers
    <2>2. CASE D!Deliver \/ D!DeliverUnknown \/ D!Tell \/ D!Post \/ D!Posted \/ D!Told \/ D!AllTold
      BY <2>2, TalkTicks, TalkDelivers, TalkInDoubt, TalkTells, TalkPosts, TalkPosted, TalkTold
    <2>3. CASE \/ D!RelayOlder \/ D!RelayWaits \/ D!Relay \/ D!AllRelayed
               \/ D!NextBusy \/ D!NextReady \/ D!NextUnknown \/ D!Baseline \/ D!Write
               \/ D!Echoed \/ D!Unheard \/ D!Apply \/ D!Handed
      BY <2>3, TalkRelays
    <2> QED
      BY <1>1, <2>1, <2>2, <2>3 DEF D!Holder
  <1>2. CASE D!Troubles
    BY <1>2, TalkTicks, TalkFails, TalkOthers DEF D!Troubles
  <1>3. CASE D!Native \/ D!Arrive
    BY <1>3, TalkSays, TalkOthers DEF D!Native, D!Arrive
  <1>4. CASE D!Pause \/ D!Resume
    BY <1>4, TalkOthers
  <1>5. CASE UNCHANGED D!vars
    BY <1>5, TalkStill
    DEF D!vars, D!rows, D!told, D!holder, D!native, TalkKept
  <1> QED
    BY <1>1, <1>2, <1>3, <1>4, <1>5 DEF D!Next

(* The pending outputs and the rows of the outbox stay together as TalkInv *)
(* says.                                                                   *)
THEOREM TalkInvariant == D!Spec => []TalkInv
  BY TalkInit, TalkNext, PTL DEF D!Spec

(* What a participant says is shown to the user at most once, whatever is  *)
(* refused, lost or interrupted between the two tables, for any number of  *)
(* participants and outputs (tasks/observe.ts, app/application.ts).        *)
THEOREM SaidIsShownOnce == D!Spec => []ShownOnce
  <1>1. TalkInv => ShownOnce
    BY DEF TalkInv, OutputSound, ShownOnce, D!ShownOnce
  <1> QED
    BY <1>1, TalkInvariant, PTL

(* A delivery never meets a row of the outbox that has no outcome: what is *)
(* in doubt is set aside before the outbox is asked (deliverOutput of      *)
(* tasks/observe.ts).                                                      *)
NoDoubtfulRow ==
    d_pc = "tell" => d_box[d_book[d_at]] \notin {"sending", "uncertain"}
THEOREM DoubtIsSetAside == D!Spec => []NoDoubtfulRow
  <1>1. TalkInv => NoDoubtfulRow
    BY DEF TalkInv, ScreenSound, NoDoubtfulRow
  <1> QED
    BY <1>1, TalkInvariant, PTL

(***************************************************************************)
(* What a plan may give up (Planning).                                     *)
(*                                                                         *)
(* A draft is weighed against the plan in force and the messages of that   *)
(* moment; it is accepted several awaits, or a restart, later.  Weighed    *)
(* says what the weighing found in terms of the revision of the version,   *)
(* which no message that comes meanwhile can change.                       *)
(***************************************************************************)
CitesLast(src) ==
    /\ src \in p_flow.revision /\ p_inputs[src] = "input"
    /\ \A i \in p_flow.revision : i > src => p_inputs[i] = "resume"

Weighed(q) ==
    /\ q.docs # {} => p_flow.plan.docs \subseteq q.docs
    /\ P!Lost(q) => P!Listed(q) /\ CitesLast(q.change.src)
Proven(q) == P!Lost(q) => q.change.proved

Vetted == {"document", "check", "measure", "recheck", "accept"}

PlanTypes ==
    /\ p_inputs \in Seq({"queued", "input", "resume", "passive"}) /\ Len(p_inputs) <= MaxAsks
    /\ p_flow = [plan |-> p_flow.plan, version |-> p_flow.version, revision |-> p_flow.revision,
                 planning |-> p_flow.planning, source |-> p_flow.source, waits |-> p_flow.waits]
    /\ p_flow.plan \in P!Plans /\ p_flow.version \in Nat \ {0}
    /\ p_run = [at |-> p_run.at, plan |-> p_run.plan, seen |-> p_run.seen, base |-> p_run.base]
    /\ p_draft \in P!Plans \cup {NoPlan} /\ p_passed \in [P!Versions -> P!Plans \cup {NoPlan}]
    /\ p_run.at \in {"told", "vet"} \cup Vetted => p_run.plan \in P!Plans

(* A revision is of messages that were sorted, and came with a new one.    *)
RevisionOfSorted ==
    /\ \A i \in p_flow.revision : i \in 1..Len(p_inputs) /\ p_inputs[i] \in {"input", "resume"}
    /\ p_flow.version <= 1 + Cardinality(p_flow.revision)

RunWeighed ==
    /\ p_run.at # "idle" => p_flow.planning = "needed"
    /\ p_run.at \in {"vet"} \cup Vetted => Weighed(p_run.plan)
    /\ p_run.at \in Vetted => Proven(p_run.plan)
    /\ p_run.at = "vet" => P!Lost(p_run.plan)

PassedWeighed ==
    /\ \A v \in P!Versions : v > p_flow.version => p_passed[v] = NoPlan
    /\ LET q == p_passed[p_flow.version]
       IN  p_flow.planning = "needed" /\ q # NoPlan => Weighed(q) /\ Proven(q)

PlanInv == PlanTypes /\ RevisionOfSorted /\ RunWeighed /\ PassedWeighed

(***************************************************************************)
(* The baseline of the source tree.  A measured tree is of the past, and   *)
(* versions only grow: what lies between two looks that agree is the same. *)
(***************************************************************************)
Files == Documents \cup {TheCode}
Measured(base) == \A f \in Files \ base.docs : base.tree[f] \in Nat /\ base.tree[f] <= p_files[f]
TreeGrows(old, base) == \A f \in Files \ (old.docs \cup base.docs) : old.tree[f] <= base.tree[f]
TreeKept(old, base) == \A f \in Files \ (old.docs \cup base.docs) : old.tree[f] = base.tree[f]

SourceInv ==
    /\ p_files \in [Files -> Nat]
    /\ p_flow.source # NoSource => Measured(p_flow.source)
    /\ p_run.at \in {"recheck", "accept"} => Measured(p_run.base)
    /\ p_flow.source # NoSource /\ p_run.at = "recheck" => TreeGrows(p_flow.source, p_run.base)
    /\ p_flow.source # NoSource /\ p_run.at = "accept" => TreeKept(p_flow.source, p_run.base)

LEMMA PlanConstants ==
  /\ MaxAsks \in Nat /\ Document \in Documents /\ TheCode \notin Documents
  /\ NoChange \notin P!Changes
  BY PlanOk DEF P!PlanningAssumption

LEMMA RevisionSize ==
  ASSUME NEW n \in Nat, NEW R \in SUBSET (1..n)
  PROVE  IsFiniteSet(R) /\ Cardinality(R) \in Nat /\ Cardinality(R) <= n
  <1>1. 1 \in Int /\ n \in Int
    OBVIOUS
  <1>2. IsFiniteSet(1..n) /\ Cardinality(1..n) = IF 1 > n THEN 0 ELSE n - 1 + 1
    BY <1>1, FS_Interval
  <1>3. IsFiniteSet(R) /\ Cardinality(R) <= Cardinality(1..n)
    BY <1>2, FS_Subset
  <1>4. Cardinality(R) \in Nat
    BY <1>3, FS_CardinalityType
  <1> QED
    BY <1>2, <1>3, <1>4

LEMMA VersionExists ==
  ASSUME PlanTypes, RevisionOfSorted
  PROVE  p_flow.version \in P!Versions
  <1>1. PICK n \in Nat : n = Len(p_inputs)
    BY DEF PlanTypes
  <1>2. p_flow.revision \in SUBSET (1..n)
    BY <1>1 DEF RevisionOfSorted
  <1>3. Cardinality(p_flow.revision) \in Nat /\ Cardinality(p_flow.revision) <= n
    BY <1>2, RevisionSize
  <1> QED
    BY <1>1, <1>3, PlanConstants DEF PlanTypes, RevisionOfSorted, P!Versions

(***************************************************************************)
(* What stays as it was weighed                                            *)
(***************************************************************************)
FlowKept ==
    /\ p_flow'.plan = p_flow.plan /\ p_flow'.revision = p_flow.revision
    /\ p_flow'.version = p_flow.version /\ p_flow'.planning = p_flow.planning
    /\ p_flow' = [plan |-> p_flow.plan, version |-> p_flow.version, revision |-> p_flow.revision,
                  planning |-> p_flow.planning, source |-> p_flow'.source, waits |-> p_flow'.waits]

SortedKept ==
    /\ p_inputs' \in Seq({"queued", "input", "resume", "passive"}) /\ Len(p_inputs') <= MaxAsks
    /\ \A i \in 1..Len(p_inputs) : p_inputs[i] # "queued" =>
          i \in 1..Len(p_inputs') /\ p_inputs'[i] = p_inputs[i]

LEMMA SameFlow ==
  ASSUME PlanTypes, p_flow' = p_flow
  PROVE  FlowKept
  BY DEF PlanTypes, FlowKept

LEMMA SameInputs ==
  ASSUME PlanTypes, p_inputs' = p_inputs
  PROVE  SortedKept
  BY DEF PlanTypes, SortedKept

LEMMA WeighedStays ==
  ASSUME PlanTypes, RevisionOfSorted, FlowKept, SortedKept, NEW q, Weighed(q)
  PROVE  Weighed(q)'
  <1>1. P!Lost(q)' <=> P!Lost(q)
    BY DEF FlowKept, P!Lost
  <1>2. P!Listed(q)' <=> P!Listed(q)
    BY DEF FlowKept, P!Listed
  <1>3. ASSUME NEW c, CitesLast(c)
        PROVE  CitesLast(c)'
    <2>1. \A i \in p_flow.revision : p_inputs'[i] = p_inputs[i]
      BY DEF RevisionOfSorted, SortedKept
    <2> QED
      BY <1>3, <2>1 DEF FlowKept, CitesLast
  <1>4. q.docs # {} => p_flow'.plan.docs \subseteq q.docs
    BY DEF FlowKept, Weighed
  <1> QED
    BY <1>1, <1>2, <1>3, <1>4 DEF Weighed

LEMMA ProvenStays ==
  ASSUME FlowKept, NEW q, Proven(q)
  PROVE  Proven(q)'
  BY DEF FlowKept, Proven, P!Lost

LEMMA RevisionStays ==
  ASSUME PlanTypes, RevisionOfSorted, FlowKept, SortedKept
  PROVE  RevisionOfSorted'
  <1>1. ASSUME NEW i \in p_flow'.revision
        PROVE  i \in 1..Len(p_inputs') /\ p_inputs'[i] \in {"input", "resume"}
    BY DEF FlowKept, RevisionOfSorted, SortedKept
  <1>2. p_flow'.version <= 1 + Cardinality(p_flow'.revision)
    BY DEF FlowKept, RevisionOfSorted
  <1> QED
    BY <1>1, <1>2 DEF RevisionOfSorted

LEMMA PassedStays ==
  ASSUME PlanTypes, RevisionOfSorted, PassedWeighed, FlowKept, SortedKept, p_passed' = p_passed
  PROVE  PassedWeighed'
  <1>1. PICK v, q : v = p_flow.version /\ q = p_passed[v]
    OBVIOUS
  <1>2. p_flow'.version = v /\ p_passed'[v] = q /\ p_flow'.planning = p_flow.planning
    BY <1>1 DEF FlowKept
  <1>3. ASSUME p_flow.planning = "needed", q # NoPlan
        PROVE  Weighed(q)' /\ Proven(q)'
    <2>1. Weighed(q) /\ Proven(q)
      BY <1>1, <1>3 DEF PassedWeighed
    <2> QED
      BY <2>1, WeighedStays, ProvenStays
  <1>4. \A w \in P!Versions : w > v => p_passed'[w] = NoPlan
    BY <1>1 DEF PassedWeighed
  <1> QED
    BY <1>2, <1>3, <1>4 DEF PassedWeighed

(***************************************************************************)
(* The run goes to another place with a plan                               *)
(***************************************************************************)
PlanGoes(a, q) ==
    /\ p_draft' \in P!Plans \cup {NoPlan}
    /\ p_run' = [at |-> a, plan |-> q, seen |-> p_run'.seen, base |-> p_run'.base]
    /\ a # "idle" => p_flow.planning = "needed"
    /\ a \in {"told", "vet"} \cup Vetted => q \in P!Plans
    /\ a \in {"vet"} \cup Vetted => Weighed(q)
    /\ a \in Vetted => Proven(q)
    /\ a = "vet" => P!Lost(q)

LEMMA PlanMoves ==
  ASSUME PlanInv, FlowKept, SortedKept, p_passed' = p_passed, NEW a, NEW q, PlanGoes(a, q)
  PROVE  PlanInv'
  <1>1. PlanTypes'
    BY DEF PlanInv, PlanTypes, PlanGoes, FlowKept, SortedKept
  <1>2. RevisionOfSorted' /\ PassedWeighed'
    BY RevisionStays, PassedStays DEF PlanInv
  <1>3. p_run'.at = a /\ p_run'.plan = q
    BY DEF PlanGoes
  <1>4. /\ a # "idle" => p_flow'.planning = "needed"
        /\ a \in {"vet"} \cup Vetted => Weighed(q)'
        /\ a \in Vetted => Proven(q)'
        /\ a = "vet" => P!Lost(q)'
    <2>1. a # "idle" => p_flow'.planning = "needed"
      BY DEF PlanGoes, FlowKept
    <2>2. a \in {"vet"} \cup Vetted => Weighed(q)'
      BY WeighedStays DEF PlanGoes, PlanInv
    <2>3. a \in Vetted => Proven(q)'
      BY ProvenStays DEF PlanGoes
    <2>4. a = "vet" => P!Lost(q)'
      BY DEF PlanGoes, FlowKept, P!Lost
    <2> QED
      BY <2>1, <2>2, <2>3, <2>4
  <1>5. RunWeighed'
    BY <1>3, <1>4 DEF RunWeighed
  <1> QED
    BY <1>1, <1>2, <1>5 DEF PlanInv

LEMMA PlanEnds ==
  ASSUME PlanInv, FlowKept, SortedKept, p_passed' = p_passed,
         p_draft' \in P!Plans \cup {NoPlan}, p_run' = P!Away
  PROVE  PlanInv'
  <1>1. PlanGoes("idle", NoPlan)
    BY DEF PlanGoes, P!Away, Vetted
  <1> QED
    BY <1>1, PlanMoves

LEMMA PlanWaits ==
  ASSUME PlanInv, FlowKept, SortedKept, UNCHANGED <<p_passed, p_draft, p_run>>
  PROVE  PlanInv'
  <1>1. PICK a, q : a = p_run.at /\ q = p_run.plan
    OBVIOUS
  <1>2. PlanGoes(a, q)
    BY <1>1 DEF PlanGoes, PlanInv, PlanTypes, RunWeighed
  <1> QED
    BY <1>2, PlanMoves

(***************************************************************************)
(* The weighing                                                            *)
(***************************************************************************)
LEMMA NewestIsLast ==
  ASSUME PlanTypes, p_flow.revision = P!Revision, NEW c, P!Latest(c)
  PROVE  CitesLast(c)
  <1>1. P!Used \in SUBSET (1..Len(p_inputs)) /\ Len(p_inputs) \in Nat /\ P!Used # {}
    BY DEF P!Used, PlanTypes, P!Latest
  <1>2. PICK x \in P!Used : \A y \in P!Used : x >= y
    BY <1>1, LastIn
  <1>3. c \in P!Used /\ \A y \in P!Used : c >= y
    BY <1>2 DEF P!Latest, P!Max
  <1>4. c \in P!Revision /\ p_inputs[c] = "input"
    BY <1>3 DEF P!Used, P!Revision
  <1>5. PICK U \in SUBSET Nat : U = P!Used
    BY <1>1
  <1>6. ASSUME NEW i \in P!Revision, i > c
        PROVE  p_inputs[i] = "resume"
    <2>1. c \in U /\ \A y \in U : c >= y
      BY <1>3, <1>5
    <2>2. i \notin U
      <3>1. SUFFICES ASSUME i \in U
                     PROVE  FALSE
        OBVIOUS
      <3>2. U \subseteq Nat
        BY <1>5
      <3>3. i \in Nat /\ c \in Nat /\ c >= i
        BY <2>1, <3>1, <3>2
      <3> QED
        BY <1>6, <3>3
    <2> QED
      BY <1>5, <2>2 DEF P!Revision, P!Used
  <1> QED
    BY <1>4, <1>6 DEF CitesLast

LEMMA Weighs ==
  ASSUME PlanInv, ~P!Revised, NEW q \in P!Plans, P!Weigh(q), p_run.at # "idle",
         UNCHANGED <<p_inputs, p_flow, p_passed>>, p_draft' \in P!Plans \cup {NoPlan}
  PROVE  PlanInv'
  <1>1. FlowKept /\ SortedKept
    BY SameFlow, SameInputs DEF PlanInv
  <1>2. CASE \/ q.docs # {} /\ ~(p_flow.plan.docs \subseteq q.docs)
             \/ P!Lost(q) /\ ~(P!Listed(q) /\ P!Latest(q.change.src))
    <2>1. p_run' = P!Away
      BY <1>2 DEF P!Weigh, P!Fails
    <2> QED
      BY <1>1, <2>1, PlanEnds
  <1>3. CASE ~(\/ q.docs # {} /\ ~(p_flow.plan.docs \subseteq q.docs)
               \/ P!Lost(q) /\ ~(P!Listed(q) /\ P!Latest(q.change.src)))
    <2>1. PICK a : a = IF P!Lost(q) THEN "vet" ELSE "document"
      OBVIOUS
    <2>2. p_run' = [p_run EXCEPT !.at = a, !.plan = q]
      BY <1>3, <2>1 DEF P!Weigh, P!With
    <2>3. P!Lost(q) => P!Listed(q) /\ CitesLast(q.change.src)
      BY <1>3, NewestIsLast DEF PlanInv, P!Revised
    <2>4. Weighed(q)
      BY <1>3, <2>3 DEF Weighed
    <2>5. a = "document" => Proven(q)
      BY <2>1 DEF Proven
    <2>6. p_run' = [at |-> a, plan |-> q, seen |-> p_run'.seen, base |-> p_run'.base]
      BY <2>2 DEF PlanInv, PlanTypes
    <2>7. p_flow.planning = "needed"
      BY DEF PlanInv, RunWeighed
    <2>8. PlanGoes(a, q)
      BY <2>1, <2>4, <2>5, <2>6, <2>7 DEF PlanGoes, Vetted
    <2> QED
      BY <1>1, <2>8, PlanMoves
  <1> QED
    BY <1>2, <1>3

LEMMA TemplateIsPlan ==
  ASSUME PlanTypes, NEW way
  PROVE  P!Template(way) \in P!Plans
  BY PlanConstants DEF PlanTypes, P!Template, P!Plans

(***************************************************************************)
(* The actions                                                             *)
(***************************************************************************)
LEMMA PlanUser ==
  ASSUME PlanInv, P!Admit \/ (\E i \in 1..Len(p_inputs) : P!Sort(i))
  PROVE  PlanInv'
  <1>1. CASE P!Admit
    <2>1. p_inputs' = Append(p_inputs, "queued") /\ Len(p_inputs) < MaxAsks
      BY <1>1 DEF P!Admit
    <2>2. SortedKept
      BY <2>1, PlanConstants DEF SortedKept, PlanInv, PlanTypes
    <2>3. FlowKept /\ UNCHANGED <<p_passed, p_draft, p_run>>
      BY <1>1, SameFlow DEF P!Admit, P!rows, PlanInv
    <2> QED
      BY <2>2, <2>3, PlanWaits
  <1>2. ASSUME NEW i \in 1..Len(p_inputs), P!Sort(i)
        PROVE  PlanInv'
    <2>1. PICK use \in {"input", "resume", "passive"} : p_inputs' = [p_inputs EXCEPT ![i] = use]
      BY <1>2 DEF P!Sort
    <2>2. p_inputs[i] = "queued"
      BY <1>2 DEF P!Sort
    <2>3. SortedKept
      BY <2>1, <2>2 DEF SortedKept, PlanInv, PlanTypes
    <2>4. FlowKept /\ UNCHANGED <<p_passed, p_draft, p_run>>
      BY <1>2, SameFlow DEF P!Sort, P!rows, PlanInv
    <2> QED
      BY <2>3, <2>4, PlanWaits
  <1> QED
    BY <1>1, <1>2

LEMMA PlanAside ==
  ASSUME PlanInv, (\E f \in DOMAIN p_files : P!Edit(f)) \/ P!Evidence \/ P!Defer \/ P!Crash
  PROVE  PlanInv'
  <1>1. SortedKept /\ UNCHANGED <<p_passed, p_draft>> /\ p_draft \in P!Plans \cup {NoPlan}
    BY SameInputs DEF PlanInv, PlanTypes, P!Edit, P!Evidence, P!Defer, P!Crash, P!rows
  <1>2. CASE \E f \in DOMAIN p_files : P!Edit(f)
    BY <1>1, <1>2, SameFlow, PlanWaits DEF P!Edit, PlanInv
  <1>3. CASE P!Evidence
    <2>1. FlowKept
      BY <1>3 DEF P!Evidence, FlowKept, PlanInv, PlanTypes
    <2> QED
      BY <1>1, <1>3, <2>1, PlanWaits DEF P!Evidence
  <1>4. CASE P!Defer
    <2>1. FlowKept
      BY <1>4 DEF P!Defer, FlowKept, PlanInv, PlanTypes
    <2> QED
      BY <1>1, <1>4, <2>1, PlanEnds DEF P!Defer
  <1>5. CASE P!Crash
    BY <1>1, <1>5, SameFlow, PlanEnds DEF P!Crash, PlanInv
  <1> QED
    BY <1>2, <1>3, <1>4, <1>5

LEMMA PlanGivesUp ==
  ASSUME PlanInv, P!Stopped \/ P!NoDraft \/ P!Refuse
  PROVE  PlanInv'
  <1>1. UNCHANGED <<p_inputs, p_flow, p_passed, p_draft>> /\ p_run' = P!Away
    BY DEF P!Stopped, P!NoDraft, P!Refuse, P!Failed, P!Fails, P!rows
  <1>2. FlowKept /\ SortedKept /\ p_draft' \in P!Plans \cup {NoPlan}
    BY <1>1, SameFlow, SameInputs DEF PlanInv, PlanTypes
  <1> QED
    BY <1>1, <1>2, PlanEnds

LEMMA RunKept ==
  ASSUME PlanInv, NEW a, p_run' = [p_run EXCEPT !.at = a]
  PROVE  /\ p_run' = [at |-> a, plan |-> p_run.plan, seen |-> p_run.seen, base |-> p_run.base]
         /\ p_run'.plan = p_run.plan
  BY DEF PlanInv, PlanTypes

LEMMA PlanStarts ==
  ASSUME PlanInv, P!Start
  PROVE  PlanInv'
  <1>1. /\ FlowKept /\ SortedKept /\ p_passed' = p_passed
        /\ p_draft' \in P!Plans \cup {NoPlan}
    BY SameFlow, SameInputs DEF P!Start, P!rows, PlanInv, PlanTypes
  <1>2. PICK v, q : v = p_flow.version /\ q = p_passed[v]
    OBVIOUS
  <1>3. PICK a : a = IF q = NoPlan THEN "choose" ELSE "check"
    OBVIOUS
  <1>4. p_run' = [at |-> a, plan |-> q, seen |-> Len(p_inputs), base |-> NoSource]
    BY <1>2, <1>3 DEF P!Start, P!Passed
  <1>5. p_flow.planning = "needed"
    BY DEF P!Start
  <1>6. q \in P!Plans \cup {NoPlan}
    BY <1>2, VersionExists DEF PlanInv, PlanTypes
  <1>7. q # NoPlan => Weighed(q) /\ Proven(q)
    BY <1>2, <1>5 DEF PlanInv, PassedWeighed
  <1>8. p_run' = [at |-> a, plan |-> q, seen |-> p_run'.seen, base |-> p_run'.base]
    BY <1>4
  <1>9. PlanGoes(a, q)
    BY <1>1, <1>3, <1>5, <1>6, <1>7, <1>8 DEF PlanGoes, Vetted
  <1> QED
    BY <1>1, <1>9, PlanMoves

LEMMA PlanChooses ==
  ASSUME PlanInv, P!Choose
  PROVE  PlanInv'
  <1>1. /\ UNCHANGED <<p_inputs, p_flow, p_passed, p_draft>> /\ p_run.at = "choose" /\ ~P!Revised
        /\ p_draft' \in P!Plans \cup {NoPlan}
    BY DEF P!Choose, P!rows, P!Current, PlanInv, PlanTypes
  <1>2. PICK way \in P!Ways : IF way = "request_pi" THEN P!Go("ask") /\ UNCHANGED p_ev
                              ELSE P!Weigh(P!Template(way))
    BY DEF P!Choose
  <1>3. CASE way = "request_pi"
    <2>1. PICK q : q = p_run.plan
      OBVIOUS
    <2>2. p_run' = [p_run EXCEPT !.at = "ask"]
      BY <1>2, <1>3 DEF P!Go
    <2>3. p_run' = [at |-> "ask", plan |-> q, seen |-> p_run'.seen, base |-> p_run'.base]
      BY <2>1, <2>2, RunKept
    <2>4. PlanGoes("ask", q)
      BY <1>1, <2>3 DEF PlanGoes, Vetted, PlanInv, RunWeighed
    <2> QED
      BY <1>1, <2>4, SameFlow, SameInputs, PlanMoves DEF PlanInv
  <1>4. CASE way # "request_pi"
    <2>1. P!Template(way) \in P!Plans /\ P!Weigh(P!Template(way))
      BY <1>2, <1>4, TemplateIsPlan DEF PlanInv
    <2>2. PICK q \in P!Plans : P!Weigh(q)
      BY <2>1
    <2> QED
      BY <1>1, <2>2, Weighs
  <1> QED
    BY <1>3, <1>4

LEMMA PlanDrafts ==
  ASSUME PlanInv, P!Recall \/ P!Draft \/ P!Record
  PROVE  PlanInv'
  <1>1. UNCHANGED <<p_inputs, p_flow, p_passed>> /\ p_run.at # "idle"
    BY DEF P!Recall, P!Draft, P!Record, P!rows
  <1>2. FlowKept /\ SortedKept
    BY <1>1, SameFlow, SameInputs DEF PlanInv
  <1>3. CASE P!Recall
    <2>1. p_draft \in P!Plans /\ p_draft' = p_draft /\ P!Weigh(p_draft) /\ ~P!Revised
      BY <1>3 DEF P!Recall, P!Current, P!rows, PlanInv, PlanTypes
    <2>2. PICK q \in P!Plans : P!Weigh(q)
      BY <2>1
    <2> QED
      BY <1>1, <2>1, <2>2, Weighs
  <1>4. CASE P!Draft
    <2>1. PICK q \in P!Drafts(p_flow.plan) : P!With("told", q)
      BY <1>4 DEF P!Draft
    <2>2. q \in P!Plans /\ p_run' = [p_run EXCEPT !.at = "told", !.plan = q]
      BY <2>1 DEF P!Drafts, P!With
    <2>3. p_run' = [at |-> "told", plan |-> q, seen |-> p_run'.seen, base |-> p_run'.base]
      BY <2>2 DEF PlanInv, PlanTypes
    <2>4. p_draft' \in P!Plans \cup {NoPlan}
      BY <1>4 DEF P!Draft, PlanInv, PlanTypes
    <2>5. PlanGoes("told", q)
      BY <1>1, <2>2, <2>3, <2>4 DEF PlanGoes, Vetted, PlanInv, RunWeighed
    <2> QED
      BY <1>1, <1>2, <2>5, PlanMoves
  <1>5. CASE P!Record
    <2>1. PICK q : q = p_run.plan
      OBVIOUS
    <2>2. q \in P!Plans /\ p_draft' = q
      BY <1>5, <2>1 DEF P!Record, PlanInv, PlanTypes
    <2>3. CASE P!Current
      <3>1. P!Weigh(q) /\ ~P!Revised
        BY <1>5, <2>1, <2>3 DEF P!Record, P!Current
      <3> QED
        BY <1>1, <2>2, <3>1, Weighs
    <2>4. CASE ~P!Current
      <3>1. p_run' = P!Away
        BY <1>5, <2>4 DEF P!Record, P!Fails
      <3> QED
        BY <1>1, <1>2, <2>2, <3>1, PlanEnds
    <2> QED
      BY <2>3, <2>4
  <1> QED
    BY <1>3, <1>4, <1>5

LEMMA PlanVetted ==
  ASSUME PlanInv, P!Vet
  PROVE  PlanInv'
  <1>1. /\ FlowKept /\ SortedKept /\ p_passed' = p_passed /\ p_run.at = "vet"
        /\ p_draft' \in P!Plans \cup {NoPlan}
    BY SameFlow, SameInputs DEF P!Vet, P!rows, PlanInv, PlanTypes
  <1>2. PICK p : p = p_run.plan
    OBVIOUS
  <1>3. p \in P!Plans /\ Weighed(p) /\ P!Lost(p) /\ p_flow.planning = "needed"
    BY <1>1, <1>2 DEF PlanInv, PlanTypes, RunWeighed
  <1>4. p.change \in P!Changes /\ P!Listed(p) /\ CitesLast(p.change.src)
    BY <1>3 DEF Weighed, P!Listed, P!Plans
  <1>5. PICK c : c = [p.change EXCEPT !.proved = TRUE]
    OBVIOUS
  <1>6. /\ c \in P!Changes /\ c # NoChange /\ c.proved = TRUE
        /\ c.src = p.change.src /\ c.docs = p.change.docs /\ c.agree = p.change.agree
    BY <1>4, <1>5, PlanConstants DEF P!Changes
  <1>7. PICK q : q = [p EXCEPT !.change = c]
    OBVIOUS
  <1>8. q \in P!Plans /\ q.docs = p.docs /\ q.agree = p.agree /\ q.change = c
    BY <1>3, <1>6, <1>7 DEF P!Plans
  <1>9. q = [p EXCEPT !.change.proved = TRUE]
    BY <1>3, <1>4, <1>5, <1>7 DEF P!Plans
  <1>10. p_run' = [at |-> "document", plan |-> q, seen |-> p_run'.seen, base |-> p_run'.base]
    BY <1>2, <1>9 DEF P!Vet, P!With, PlanInv, PlanTypes
  <1>11. P!Listed(q)
    BY <1>4, <1>6, <1>8 DEF P!Listed
  <1>12. Weighed(q) /\ Proven(q)
    BY <1>3, <1>4, <1>6, <1>8, <1>11 DEF Weighed, Proven
  <1>13. PlanGoes("document", q)
    BY <1>1, <1>3, <1>8, <1>10, <1>12 DEF PlanGoes, Vetted
  <1> QED
    BY <1>1, <1>13, PlanMoves

LEMMA PlanMeasures ==
  ASSUME PlanInv, P!Check \/ P!Measure \/ P!Recheck
  PROVE  PlanInv'
  <1>1. /\ FlowKept /\ SortedKept /\ p_passed' = p_passed
        /\ p_draft' \in P!Plans \cup {NoPlan} /\ p_run.at \in {"check", "measure", "recheck"}
    BY SameFlow, SameInputs
    DEF P!Check, P!Measure, P!Recheck, P!Failed, P!rows, PlanInv, PlanTypes
  <1>2. PICK q : q = p_run.plan
    OBVIOUS
  <1>3. q \in P!Plans /\ Weighed(q) /\ Proven(q) /\ p_flow.planning = "needed"
    BY <1>1, <1>2 DEF PlanInv, PlanTypes, RunWeighed, Vetted
  <1>4. CASE p_run' = P!Away
    BY <1>1, <1>4, PlanEnds
  <1>5. ASSUME NEW a \in Vetted, p_run' = [p_run EXCEPT !.at = a]
        PROVE  PlanInv'
    <2>1. p_run' = [at |-> a, plan |-> q, seen |-> p_run'.seen, base |-> p_run'.base]
      BY <1>2, <1>5, RunKept
    <2>2. PlanGoes(a, q)
      BY <1>1, <1>3, <2>1 DEF PlanGoes, Vetted
    <2> QED
      BY <1>1, <2>2, PlanMoves
  <1>6. CASE P!Check
    <2>1. p_run' = P!Away \/ p_run' = [p_run EXCEPT !.at = "measure"]
      BY <1>6 DEF P!Check, P!Go, P!Failed, P!Fails
    <2> QED
      BY <1>4, <1>5, <2>1 DEF Vetted
  <1>7. CASE P!Measure
    <2>1. PICK base : p_run' = [p_run EXCEPT !.at = "recheck", !.base = base]
      BY <1>7 DEF P!Measure
    <2>2. p_run' = [at |-> "recheck", plan |-> q, seen |-> p_run'.seen, base |-> p_run'.base]
      BY <1>2, <2>1 DEF PlanInv, PlanTypes
    <2>3. PlanGoes("recheck", q)
      BY <1>1, <1>3, <2>2 DEF PlanGoes, Vetted
    <2> QED
      BY <1>1, <2>3, PlanMoves
  <1>8. CASE P!Recheck
    <2>1. p_run' = P!Away \/ p_run' = [p_run EXCEPT !.at = "accept"]
      BY <1>8 DEF P!Recheck, P!Go, P!Failed, P!Fails
    <2> QED
      BY <1>4, <1>5, <2>1 DEF Vetted
  <1> QED
    BY <1>6, <1>7, <1>8

LEMMA PlanAuthorized ==
  ASSUME PlanInv, P!Authorize
  PROVE  PlanInv'
  <1>1. /\ FlowKept /\ SortedKept /\ p_draft' = p_draft /\ p_run.at = "document"
        /\ p_run' = [p_run EXCEPT !.at = "check"]
    BY SameFlow, SameInputs DEF P!Authorize, P!Go, PlanInv
  <1>2. PICK q, v : q = p_run.plan /\ v = p_flow.version
    OBVIOUS
  <1>3. /\ q \in P!Plans /\ Weighed(q) /\ Proven(q) /\ p_flow.planning = "needed"
        /\ v \in P!Versions
    BY <1>1, <1>2, VersionExists DEF PlanInv, PlanTypes, RunWeighed, Vetted
  <1>4. p_passed' = [p_passed EXCEPT ![v] = q]
    BY <1>2 DEF P!Authorize
  <1>5. p_run' = [at |-> "check", plan |-> q, seen |-> p_run.seen, base |-> p_run.base]
    BY <1>1, <1>2, RunKept
  <1>6. PlanTypes'
    <2>1. p_passed' \in [P!Versions -> P!Plans \cup {NoPlan}]
      BY <1>3, <1>4 DEF PlanInv, PlanTypes
    <2>2. /\ p_run'.at = "check" /\ p_run'.plan = q
          /\ p_run'.seen = p_run.seen /\ p_run'.base = p_run.base
      BY <1>5
    <2>3. /\ p_flow'.plan \in P!Plans /\ p_flow'.version \in Nat \ {0}
          /\ p_draft' \in P!Plans \cup {NoPlan}
      BY <1>1 DEF PlanInv, PlanTypes, FlowKept
    <2> QED
      BY <1>1, <1>3, <1>5, <2>1, <2>2, <2>3 DEF PlanTypes, FlowKept, SortedKept
  <1>7. RevisionOfSorted'
    BY <1>1, RevisionStays DEF PlanInv
  <1>8. Weighed(q)' /\ Proven(q)'
    BY <1>1, <1>3, WeighedStays, ProvenStays DEF PlanInv
  <1>9. RunWeighed'
    BY <1>1, <1>3, <1>5, <1>8 DEF RunWeighed, FlowKept
  <1>10. PassedWeighed'
    <2>1. p_passed'[v] = q /\ p_flow'.version = v
      BY <1>1, <1>2, <1>3, <1>4 DEF PlanInv, PlanTypes, FlowKept
    <2>2. \A w \in P!Versions : w > v => p_passed'[w] = NoPlan
      BY <1>2, <1>3, <1>4 DEF PlanInv, PlanTypes, PassedWeighed, P!Versions
    <2> QED
      BY <1>8, <2>1, <2>2 DEF PassedWeighed
  <1> QED
    BY <1>6, <1>7, <1>9, <1>10 DEF PlanInv

LEMMA PlanAccepted ==
  ASSUME PlanInv, P!Accept
  PROVE  PlanInv'
  <1>1. /\ UNCHANGED <<p_inputs, p_passed, p_draft>> /\ p_run' = P!Away
        /\ p_run.at = "accept"
        /\ p_flow' = [p_flow EXCEPT !.plan = p_run.plan, !.planning = "ready",
                                    !.source = p_run.base]
    BY DEF P!Accept, P!rows
  <1>2. p_run.plan \in P!Plans
    BY <1>1 DEF PlanInv, PlanTypes, Vetted
  <1>3. PICK q, b : q = p_run.plan /\ b = p_run.base
    OBVIOUS
  <1>4. p_flow' = [plan |-> q, version |-> p_flow.version, revision |-> p_flow.revision,
                   planning |-> "ready", source |-> b, waits |-> p_flow.waits]
    BY <1>1, <1>3 DEF PlanInv, PlanTypes
  <1>5. PlanTypes'
    BY <1>1, <1>2, <1>3, <1>4 DEF PlanInv, PlanTypes, P!Away, Vetted
  <1>6. RevisionOfSorted'
    BY <1>1, <1>4 DEF PlanInv, RevisionOfSorted
  <1>7. RunWeighed'
    BY <1>1 DEF RunWeighed, P!Away, Vetted
  <1>8. PassedWeighed'
    BY <1>1, <1>4 DEF PlanInv, PassedWeighed
  <1> QED
    BY <1>5, <1>6, <1>7, <1>8 DEF PlanInv

LEMMA PlanRevised ==
  ASSUME PlanInv, P!Revise
  PROVE  PlanInv'
  <1>1. /\ UNCHANGED <<p_inputs, p_passed, p_run>> /\ p_draft' = NoPlan /\ p_run.at = "idle"
        /\ p_flow.revision # P!Revision
    BY DEF P!Revise
  <1>2. PICK v, R, S, n : v = p_flow.version /\ R = p_flow.revision /\ S = P!Revision
                          /\ n = Len(p_inputs)
    OBVIOUS
  <1>3. p_flow' = [plan |-> p_flow.plan, version |-> v + 1, revision |-> S,
                   planning |-> "needed", source |-> p_flow.source, waits |-> FALSE]
    BY <1>2 DEF P!Revise, PlanInv, PlanTypes
  <1>4. v \in Nat \ {0} /\ n \in Nat /\ S \in SUBSET (1..n) /\ R \in SUBSET S /\ R # S
    BY <1>1, <1>2 DEF PlanInv, PlanTypes, RevisionOfSorted, P!Revision
  <1>5. PlanTypes'
    <2>1. /\ p_flow'.plan = p_flow.plan /\ p_flow'.version = v + 1 /\ p_flow'.revision = S
          /\ p_flow'.planning = "needed" /\ p_flow'.source = p_flow.source /\ p_flow'.waits = FALSE
      BY <1>3
    <2> QED
      BY <1>1, <1>3, <1>4, <2>1 DEF PlanInv, PlanTypes, Vetted
  <1>6. IsFiniteSet(S) /\ Cardinality(S) \in Nat /\ Cardinality(S) <= n
    BY <1>4, RevisionSize
  <1>7. Cardinality(R) <= Cardinality(S) /\ Cardinality(R) # Cardinality(S)
    BY <1>4, <1>6, FS_Subset
  <1>8. Cardinality(R) \in Nat
    <2>1. R \in SUBSET (1..n)
      BY <1>4
    <2> QED
      BY <1>4, <2>1, RevisionSize
  <1>9. v + 1 <= 1 + Cardinality(S)
    <2>1. v <= 1 + Cardinality(R)
      BY <1>2 DEF PlanInv, RevisionOfSorted
    <2> QED
      BY <1>4, <1>6, <1>7, <1>8, <2>1
  <1>10. RevisionOfSorted'
    <2>1. \A i \in S : i \in 1..Len(p_inputs) /\ p_inputs[i] \in {"input", "resume"}
      BY <1>2 DEF P!Revision
    <2>2. \A i \in p_flow'.revision :
            i \in 1..Len(p_inputs') /\ p_inputs'[i] \in {"input", "resume"}
      BY <1>1, <1>3, <2>1
    <2>3. p_flow'.version <= 1 + Cardinality(p_flow'.revision)
      BY <1>3, <1>9
    <2> QED
      BY <2>2, <2>3 DEF RevisionOfSorted
  <1>11. RunWeighed'
    BY <1>1 DEF RunWeighed, Vetted
  <1>12. PassedWeighed'
    <2>1. v + 1 \in P!Versions
      BY <1>2, <1>4, <1>6, <1>9, PlanConstants DEF PlanInv, PlanTypes, P!Versions
    <2>2. \A w \in P!Versions : w > v => p_passed[w] = NoPlan
      BY <1>2 DEF PlanInv, PassedWeighed
    <2>3. p_passed[v + 1] = NoPlan /\ \A w \in P!Versions : w > v + 1 => p_passed[w] = NoPlan
      BY <1>4, <2>1, <2>2 DEF P!Versions
    <2>4. p_flow'.version = v + 1 /\ p_passed' = p_passed
      BY <1>1, <1>3
    <2> QED
      BY <2>3, <2>4 DEF PassedWeighed
  <1> QED
    BY <1>5, <1>10, <1>11, <1>12 DEF PlanInv

LEMMA PlanInit == P!Init => PlanInv
  <1> SUFFICES ASSUME P!Init
               PROVE  PlanInv
    OBVIOUS
  <1> USE DEF P!Init
  <1>1. P!Bare \in P!Plans
    BY DEF P!Bare, P!Plans
  <1>2. PlanTypes
    BY <1>1, PlanConstants DEF PlanTypes, P!Away, Vetted
  <1>3. RevisionOfSorted
    <2>1. Cardinality({}) = 0
      BY FS_EmptySet
    <2> QED
      BY <2>1 DEF RevisionOfSorted
  <1>4. RunWeighed
    BY DEF RunWeighed, P!Away, Vetted
  <1>5. PassedWeighed
    BY PlanConstants DEF PassedWeighed, P!Versions
  <1> QED
    BY <1>2, <1>3, <1>4, <1>5 DEF PlanInv

LEMMA PlanNext == PlanInv /\ [P!Next]_(P!vars) => PlanInv'
  <1> SUFFICES ASSUME PlanInv, [P!Next]_(P!vars)
               PROVE  PlanInv'
    OBVIOUS
  <1>1. CASE P!Step
    BY <1>1, PlanStarts, PlanChooses, PlanDrafts, PlanVetted, PlanMeasures, PlanAuthorized,
       PlanAccepted, PlanRevised, PlanGivesUp DEF P!Step
  <1>2. CASE P!NoDraft
    BY <1>2, PlanGivesUp
  <1>3. CASE P!Admit \/ \E i \in 1..Len(p_inputs) : P!Sort(i)
    BY <1>3, PlanUser
  <1>4. CASE (\E f \in DOMAIN p_files : P!Edit(f)) \/ P!Evidence \/ P!Defer \/ P!Crash
    BY <1>4, PlanAside
  <1>5. CASE UNCHANGED P!vars
    BY <1>5, PlanWaits, SameFlow, SameInputs DEF P!vars, P!rows, PlanInv
  <1> QED
    BY <1>1, <1>2, <1>3, <1>4, <1>5 DEF P!Next

(* A plan is taken over by an acceptance only.                             *)
LEMMA PlanSame ==
  ASSUME PlanInv, [P!Next]_(P!vars), ~P!Accept
  PROVE  p_flow'.plan = p_flow.plan
  <1>1. CASE UNCHANGED p_flow
    BY <1>1
  <1>2. CASE P!Revise \/ P!Evidence \/ P!Defer
    BY <1>2 DEF P!Revise, P!Evidence, P!Defer, PlanInv, PlanTypes
  <1>3. CASE P!Step
    BY <1>1, <1>2, <1>3
    DEF P!Step, P!Start, P!Choose, P!Recall, P!Draft, P!Record, P!Vet, P!Refuse, P!Authorize,
        P!Check, P!Measure, P!Recheck, P!Stopped, P!Failed
  <1>4. CASE P!NoDraft \/ P!Admit \/ (\E i \in 1..Len(p_inputs) : P!Sort(i))
             \/ (\E f \in DOMAIN p_files : P!Edit(f)) \/ P!Crash \/ UNCHANGED P!vars
    BY <1>1, <1>4 DEF P!NoDraft, P!Admit, P!Sort, P!Edit, P!Crash, P!vars
  <1> QED
    BY <1>2, <1>3, <1>4 DEF P!Next

GivesUp(p, q) == ~(p.docs \subseteq q.docs) \/ (p.agree /\ ~q.agree)

LEMMA AcceptKeeps ==
  ASSUME PlanInv, P!Accept, NEW p, p = p_flow.plan, NEW q, q = p_flow'.plan, GivesUp(p, q)
  PROVE  /\ q.change # NoChange /\ q.change.proved
         /\ ~(p.docs \subseteq q.docs) => q.change.docs
         /\ (p.agree /\ ~q.agree) => q.change.agree
         /\ p_inputs[q.change.src] = "input"
         /\ \A i \in (q.change.src + 1)..Len(p_inputs) : p_inputs[i] \in {"passive", "resume"}
  <1>1. q = p_run.plan /\ p_run.at = "accept"
    BY DEF P!Accept, PlanInv, PlanTypes
  <1>2. q \in P!Plans /\ p \in P!Plans /\ Weighed(q) /\ Proven(q)
    BY <1>1 DEF PlanInv, PlanTypes, RunWeighed, Vetted
  <1>3. ~(p.docs \subseteq q.docs) => p.docs # {} /\ q.docs = {}
    BY <1>2 DEF Weighed, P!Plans
  <1>4. P!Lost(q)
    BY <1>3 DEF GivesUp, P!Lost
  <1>5. P!Listed(q) /\ CitesLast(q.change.src) /\ q.change.proved
    BY <1>2, <1>4 DEF Weighed, Proven
  <1>6. /\ q.change # NoChange
        /\ q.change.agree = (p.agree /\ ~q.agree)
        /\ q.change.docs = (p.docs # {} /\ q.docs = {})
    BY <1>5 DEF P!Listed
  <1>7. ~P!Queued /\ p_flow.revision = P!Revision
    BY DEF P!Accept, P!Current, P!Settled, P!Revised
  <1>8. PICK c : c = q.change.src
    OBVIOUS
  <1>9. c \in 1..Len(p_inputs) /\ p_inputs[c] = "input" /\ Len(p_inputs) \in Nat
    BY <1>5, <1>8 DEF CitesLast, PlanInv, RevisionOfSorted, PlanTypes
  <1>10. ASSUME NEW i \in (c + 1)..Len(p_inputs)
         PROVE  p_inputs[i] \in {"passive", "resume"}
    <2>1. i \in 1..Len(p_inputs) /\ i > c
      BY <1>9
    <2>2. p_inputs[i] \in {"queued", "input", "resume", "passive"} /\ p_inputs[i] # "queued"
      BY <1>7, <2>1 DEF PlanInv, PlanTypes, P!Queued
    <2>3. p_inputs[i] = "input" => i \in p_flow.revision
      BY <1>7, <2>1 DEF P!Revision
    <2> QED
      BY <1>5, <1>8, <2>1, <2>2, <2>3 DEF CitesLast
  <1> QED
    BY <1>3, <1>5, <1>6, <1>8, <1>9, <1>10

(* What is weighed stays weighed until it is accepted.                     *)
THEOREM PlanInvariant == P!Spec => []PlanInv
  BY PlanInit, PlanNext, PTL DEF P!Spec

(* A task gives up an obligation it accepted, a document or the agreement  *)
(* of its participants, only by a plan whose change names it, was          *)
(* authorized and cites the newest input, whatever the user says and       *)
(* whenever the program dies while the plan is drafted, vetted and         *)
(* measured (contract-change.ts, plan-selection.ts).                       *)
THEOREM ObligationsStay == P!Spec => ObligationsKept
  <1> DEFINE Named ==
        LET p == p_flow.plan  q == p_flow'.plan IN
         ~(p.docs \subseteq q.docs) \/ (p.agree /\ ~q.agree) =>
            /\ q.change # NoChange /\ q.change.proved
            /\ ~(p.docs \subseteq q.docs) => q.change.docs
            /\ (p.agree /\ ~q.agree) => q.change.agree
            /\ p_inputs[q.change.src] = "input"
            /\ \A i \in (q.change.src + 1)..Len(p_inputs) : p_inputs[i] \in {"passive", "resume"}
  <1>1. ASSUME PlanInv, [P!Next]_(P!vars)
        PROVE  Named
    <2>1. CASE P!Accept
      <3>1. PICK p, q : p = p_flow.plan /\ q = p_flow'.plan
        OBVIOUS
      <3>2. GivesUp(p, q) =>
              /\ q.change # NoChange /\ q.change.proved
              /\ ~(p.docs \subseteq q.docs) => q.change.docs
              /\ (p.agree /\ ~q.agree) => q.change.agree
              /\ p_inputs[q.change.src] = "input"
              /\ \A i \in (q.change.src + 1)..Len(p_inputs) : p_inputs[i] \in {"passive", "resume"}
        BY <1>1, <2>1, <3>1, AcceptKeeps
      <3> QED
        BY <3>1, <3>2, Zenon DEF GivesUp
    <2>2. CASE ~P!Accept
      BY <1>1, <2>2, PlanSame
    <2> QED
      BY <2>1, <2>2
  <1>2. PlanInv /\ [P!Next]_(P!vars) => [Named]_p_flow
    BY <1>1
  <1>3. P!Spec => [][Named]_p_flow
    BY <1>2, PlanInvariant, PTL DEF P!Spec
  <1> QED
    BY <1>3 DEF ObligationsKept, P!ObligationsKept

(***************************************************************************)
(* The baseline                                                            *)
(***************************************************************************)
LEMMA SourceQuiet ==
  ASSUME SourceInv, p_files' = p_files, p_flow'.source = p_flow.source,
         p_run'.at \notin {"recheck", "accept"} \/ p_run' = p_run
  PROVE  SourceInv'
  <1>1. \A base : Measured(base)' <=> Measured(base)
    BY DEF Measured
  <1>2. CASE p_run'.at \notin {"recheck", "accept"}
    BY <1>1, <1>2 DEF SourceInv, Measured
  <1>3. CASE p_run' = p_run
    BY <1>1, <1>3 DEF SourceInv, Measured, TreeGrows, TreeKept
  <1> QED
    BY <1>2, <1>3

LEMMA SourceEdits ==
  ASSUME SourceInv, NEW f \in DOMAIN p_files, P!Edit(f)
  PROVE  SourceInv'
  <1>1. UNCHANGED <<p_flow, p_run>> /\ f \in Files /\ p_files' = [p_files EXCEPT ![f] = @ + 1]
    BY DEF P!Edit, P!rows, SourceInv
  <1>2. /\ p_files' \in [Files -> Nat]
        /\ \A g \in Files : p_files'[g] \in Nat /\ p_files[g] <= p_files'[g]
    BY <1>1 DEF SourceInv
  <1>3. ASSUME NEW base, Measured(base)
        PROVE  Measured(base)'
    <2>1. ASSUME NEW g \in Files \ base.docs
          PROVE  base.tree[g] \in Nat /\ base.tree[g] <= p_files'[g]
      <3>1. base.tree[g] \in Nat /\ base.tree[g] <= p_files[g]
        BY <1>3 DEF Measured
      <3>2. p_files[g] \in Nat /\ p_files'[g] \in Nat /\ p_files[g] <= p_files'[g]
        BY <1>2 DEF SourceInv
      <3> QED
        BY <3>1, <3>2
    <2> QED
      BY <2>1 DEF Measured
  <1>4. PICK s, b : s = p_flow.source /\ b = p_run.base
    OBVIOUS
  <1>5. /\ s # NoSource => Measured(s)'
        /\ p_run.at \in {"recheck", "accept"} => Measured(b)'
    BY <1>3, <1>4 DEF SourceInv
  <1>6. p_flow'.source = s /\ p_run'.base = b /\ p_run'.at = p_run.at
    BY <1>1, <1>4
  <1>7. /\ s # NoSource /\ p_run.at = "recheck" => TreeGrows(s, b)
        /\ s # NoSource /\ p_run.at = "accept" => TreeKept(s, b)
    BY <1>4 DEF SourceInv
  <1> QED
    BY <1>2, <1>5, <1>6, <1>7 DEF SourceInv, TreeGrows, TreeKept, Measured

(* What was measured is what the files were, or what the task had.         *)
LEMMA SourceMeasures ==
  ASSUME PlanInv, SourceInv, P!Measure
  PROVE  SourceInv'
  <1>1. UNCHANGED <<p_flow, p_files>>
    BY DEF P!Measure
  <1>2. PICK old, docs : old = p_flow.source /\ docs = p_run.plan.docs
    OBVIOUS
  <1>3. PICK base : /\ p_run' = [p_run EXCEPT !.at = "recheck", !.base = base]
                    /\ \/ old # NoSource /\ base = old
                       \/ \E kept : base = [docs |-> docs, tree |-> P!Outside(docs), kept |-> kept]
    BY <1>2 DEF P!Measure
  <1>4. p_run'.at = "recheck" /\ p_run'.base = base
    BY <1>3 DEF PlanInv, PlanTypes
  <1>5. old # NoSource => Measured(old)
    BY <1>2 DEF SourceInv
  <1>6. Measured(base) /\ (old # NoSource => TreeGrows(old, base))
    <2>1. CASE old # NoSource /\ base = old
      <3>1. \A f \in Files \ old.docs : old.tree[f] \in Nat
        BY <1>5, <2>1 DEF Measured
      <3>2. \A f \in Files \ old.docs : old.tree[f] <= old.tree[f]
        BY <3>1
      <3> QED
        BY <1>5, <2>1, <3>2 DEF TreeGrows
    <2>2. ASSUME NEW kept, base = [docs |-> docs, tree |-> P!Outside(docs), kept |-> kept]
          PROVE  Measured(base) /\ (old # NoSource => TreeGrows(old, base))
      <3>1. /\ base.docs = docs
            /\ \A f \in Files \ docs : base.tree[f] = p_files[f] /\ p_files[f] \in Nat
        BY <2>2 DEF P!Outside, SourceInv
      <3>2. Measured(base)
        <4>1. \A f \in Files \ docs : base.tree[f] \in Nat /\ base.tree[f] <= p_files[f]
          BY <3>1
        <4> QED
          BY <3>1, <4>1 DEF Measured
      <3>3. ASSUME old # NoSource
            PROVE  TreeGrows(old, base)
        BY <1>5, <3>1, <3>3 DEF Measured, TreeGrows
      <3> QED
        BY <3>2, <3>3
    <2> QED
      BY <1>3, <2>1, <2>2
  <1>7. \A b : Measured(b)' <=> Measured(b)
    BY <1>1 DEF Measured
  <1>8. p_flow'.source = old
    BY <1>1, <1>2
  <1> QED
    BY <1>1, <1>4, <1>5, <1>6, <1>7, <1>8 DEF SourceInv, TreeGrows, TreeKept, Measured

(* Two looks at the files that agree: between them nothing was changed.    *)
LEMMA SourceRechecks ==
  ASSUME PlanInv, SourceInv, P!Recheck
  PROVE  SourceInv'
  <1>1. UNCHANGED <<p_flow, p_files>> /\ p_run.at = "recheck"
    BY DEF P!Recheck, P!Failed, P!rows
  <1>2. CASE p_run' = P!Away
    BY <1>1, <1>2, SourceQuiet DEF P!Away
  <1>3. CASE p_run' # P!Away
    <2>1. PICK old, base : old = p_flow.source /\ base = p_run.base
      OBVIOUS
    <2>2. /\ p_run' = [p_run EXCEPT !.at = "accept"]
          /\ old = NoSource \/ P!Holds(old, p_run.plan)
      BY <1>3, <2>1 DEF P!Recheck, P!HoldsAgain, P!Go, P!Failed, P!Fails
    <2>3. p_run'.at = "accept" /\ p_run'.base = base
      BY <2>1, <2>2, RunKept DEF PlanInv, PlanTypes
    <2>4. Measured(base) /\ (old # NoSource => Measured(old) /\ TreeGrows(old, base))
      BY <1>1, <2>1 DEF SourceInv
    <2>5. ASSUME old # NoSource
          PROVE  TreeKept(old, base)
      <3>1. P!Outside(old.docs) = old.tree
        BY <2>2, <2>5 DEF P!Holds
      <3>2. ASSUME NEW f \in Files \ (old.docs \cup base.docs)
            PROVE  old.tree[f] = base.tree[f]
        <4>1. old.tree[f] = p_files[f] /\ p_files[f] \in Nat
          BY <3>1 DEF P!Outside, SourceInv
        <4>2. base.tree[f] \in Nat /\ base.tree[f] <= p_files[f] /\ old.tree[f] <= base.tree[f]
          BY <2>4, <2>5 DEF Measured, TreeGrows
        <4> QED
          BY <4>1, <4>2
      <3> QED
        BY <3>2 DEF TreeKept
    <2>6. \A b : Measured(b)' <=> Measured(b)
      BY <1>1 DEF Measured
    <2>7. p_flow'.source = old
      BY <1>1, <2>1
    <2> QED
      BY <1>1, <2>3, <2>4, <2>5, <2>6, <2>7 DEF SourceInv, TreeGrows, TreeKept, Measured
  <1> QED
    BY <1>2, <1>3

LEMMA SourceAccepted ==
  ASSUME PlanInv, SourceInv, P!Accept
  PROVE  /\ SourceInv' /\ p_flow'.source = p_run.base
         /\ p_flow.source # NoSource => TreeKept(p_flow.source, p_run.base)
  <1>1. /\ p_files' = p_files /\ p_run' = P!Away /\ p_run.at = "accept"
        /\ p_flow'.source = p_run.base
    BY DEF P!Accept, P!rows, PlanInv, PlanTypes
  <1>2. PICK base : base = p_run.base
    OBVIOUS
  <1>3. Measured(base) /\ (p_flow.source # NoSource => TreeKept(p_flow.source, base))
    BY <1>1, <1>2 DEF SourceInv
  <1>4. Measured(base)'
    BY <1>1, <1>3 DEF Measured
  <1>5. p_run'.at = "idle"
    BY <1>1 DEF P!Away
  <1>6. p_files' \in [Files -> Nat]
    BY <1>1 DEF SourceInv
  <1>7. p_flow'.source = base
    BY <1>1, <1>2
  <1>8. SourceInv'
    BY <1>4, <1>5, <1>6, <1>7 DEF SourceInv
  <1> QED
    BY <1>1, <1>2, <1>3, <1>8

LEMMA SourceWeighs ==
  ASSUME PlanInv, NEW q, P!Weigh(q)
  PROVE  p_run'.at \notin {"recheck", "accept"}
  <1>1. PICK a : a = IF P!Lost(q) THEN "vet" ELSE "document"
    OBVIOUS
  <1>2. p_run' = P!Away \/ p_run' = [p_run EXCEPT !.at = a, !.plan = q]
    BY <1>1 DEF P!Weigh, P!Fails, P!With
  <1>3. CASE p_run' = P!Away
    BY <1>3 DEF P!Away
  <1>4. CASE p_run' = [p_run EXCEPT !.at = a, !.plan = q]
    <2>1. p_run'.at = a
      BY <1>4 DEF PlanInv, PlanTypes
    <2> QED
      BY <1>1, <2>1
  <1> QED
    BY <1>2, <1>3, <1>4

LEMMA SourceOthers ==
  ASSUME PlanInv, SourceInv,
         \/ P!Revise \/ P!Start \/ P!Choose \/ P!Recall \/ P!Draft \/ P!Record \/ P!Vet \/ P!Refuse
         \/ P!Authorize \/ P!Check \/ P!Stopped \/ P!NoDraft \/ P!Evidence \/ P!Defer \/ P!Crash
  PROVE  SourceInv'
  <1>1. CASE P!Revise \/ P!Evidence
    BY <1>1, SourceQuiet DEF P!Revise, P!Evidence, PlanInv, PlanTypes
  <1>2. CASE P!Start
    <2>1. p_run'.at \in {"choose", "check"}
      BY <1>2 DEF P!Start
    <2> QED
      BY <1>2, <2>1, SourceQuiet DEF P!Start
  <1>3. CASE P!Choose
    <2>1. p_run'.at \notin {"recheck", "accept"}
      BY <1>3, SourceWeighs DEF P!Choose, P!Go, PlanInv, PlanTypes
    <2> QED
      BY <1>3, <2>1, SourceQuiet DEF P!Choose
  <1>4. CASE P!Recall \/ P!Record
    <2>1. p_run'.at \notin {"recheck", "accept"}
      BY <1>4, SourceWeighs DEF P!Recall, P!Record, P!Fails, P!Away
    <2> QED
      BY <1>4, <2>1, SourceQuiet DEF P!Recall, P!Record
  <1>5. CASE P!Draft \/ P!Vet \/ P!Authorize
    <2>1. p_run'.at \in {"told", "document", "check"}
      BY <1>5 DEF P!Draft, P!Vet, P!Authorize, P!With, P!Go, PlanInv, PlanTypes
    <2> QED
      BY <1>5, <2>1, SourceQuiet DEF P!Draft, P!Vet, P!Authorize
  <1>6. CASE P!Check
    <2>1. p_run'.at \in {"measure", "idle"}
      BY <1>6 DEF P!Check, P!Go, P!Failed, P!Fails, P!Away, PlanInv, PlanTypes
    <2> QED
      BY <1>6, <2>1, SourceQuiet DEF P!Check, P!Failed
  <1>7. CASE P!Refuse \/ P!Stopped \/ P!NoDraft \/ P!Crash
    <2>1. p_run'.at = "idle"
      BY <1>7 DEF P!Refuse, P!Stopped, P!NoDraft, P!Crash, P!Failed, P!Fails, P!Away
    <2> QED
      BY <1>7, <2>1, SourceQuiet DEF P!Refuse, P!Stopped, P!NoDraft, P!Crash, P!Failed
  <1>8. CASE P!Defer
    <2>1. p_run'.at = "idle" /\ p_flow'.source = p_flow.source
      BY <1>8 DEF P!Defer, P!Away, PlanInv, PlanTypes
    <2> QED
      BY <1>8, <2>1, SourceQuiet DEF P!Defer
  <1> QED
    BY <1>1, <1>2, <1>3, <1>4, <1>5, <1>6, <1>7, <1>8

LEMMA SourceInit == P!Init => SourceInv
  BY DEF P!Init, SourceInv, P!Away, Files

LEMMA SourceNext == PlanInv /\ SourceInv /\ [P!Next]_(P!vars) => SourceInv'
  <1> SUFFICES ASSUME PlanInv, SourceInv, [P!Next]_(P!vars)
               PROVE  SourceInv'
    OBVIOUS
  <1>1. CASE P!Measure \/ P!Recheck \/ P!Accept
    BY <1>1, SourceMeasures, SourceRechecks, SourceAccepted
  <1>2. CASE \/ P!Revise \/ P!Start \/ P!Choose \/ P!Recall \/ P!Draft \/ P!Record \/ P!Vet
             \/ P!Refuse \/ P!Authorize \/ P!Check \/ P!Stopped \/ P!NoDraft \/ P!Evidence
             \/ P!Defer \/ P!Crash
    BY <1>2, SourceOthers
  <1>3. CASE P!Admit \/ \E i \in 1..Len(p_inputs) : P!Sort(i)
    BY <1>3, SourceQuiet DEF P!Admit, P!Sort
  <1>4. CASE \E f \in DOMAIN p_files : P!Edit(f)
    BY <1>4, SourceEdits
  <1>5. CASE UNCHANGED P!vars
    BY <1>5, SourceQuiet DEF P!vars
  <1> QED
    BY <1>1, <1>2, <1>3, <1>4, <1>5 DEF P!Next, P!Step

LEMMA SourceSame ==
  ASSUME PlanInv, [P!Next]_(P!vars), ~P!Accept
  PROVE  p_flow'.source = p_flow.source
  <1>1. CASE UNCHANGED p_flow
    BY <1>1
  <1>2. CASE P!Revise \/ P!Evidence \/ P!Defer
    BY <1>2 DEF P!Revise, P!Evidence, P!Defer, PlanInv, PlanTypes
  <1>3. CASE P!Step
    BY <1>1, <1>2, <1>3
    DEF P!Step, P!Start, P!Choose, P!Recall, P!Draft, P!Record, P!Vet, P!Refuse, P!Authorize,
        P!Check, P!Measure, P!Recheck, P!Stopped, P!Failed
  <1>4. CASE P!NoDraft \/ P!Admit \/ (\E i \in 1..Len(p_inputs) : P!Sort(i))
             \/ (\E f \in DOMAIN p_files : P!Edit(f)) \/ P!Crash \/ UNCHANGED P!vars
    BY <1>1, <1>4 DEF P!NoDraft, P!Admit, P!Sort, P!Edit, P!Crash, P!vars
  <1> QED
    BY <1>2, <1>3, <1>4 DEF P!Next

(* No plan takes an unauthorized change of the source tree into its        *)
(* baseline: a file that neither the old plan nor the new one may write is *)
(* the same in both, however its writing races the two measurements        *)
(* (document-source.ts prepareDocumentSource).                             *)
THEOREM BaselineIsKept == P!Spec => P!SourceKept
  <1> DEFINE Stays ==
        p_flow.source # NoSource =>
          \A f \in DOMAIN p_files \ (p_flow.source.docs \cup p_flow'.source.docs) :
            p_flow'.source.tree[f] = p_flow.source.tree[f]
  <1>1. ASSUME PlanInv, SourceInv, [P!Next]_(P!vars)
        PROVE  Stays
    <2>1. CASE P!Accept
      <3>1. PICK old, base : old = p_flow.source /\ base = p_run.base
        OBVIOUS
      <3>2. p_flow'.source = base /\ (old # NoSource => TreeKept(old, base))
        BY <1>1, <2>1, <3>1, SourceAccepted
      <3>3. DOMAIN p_files = Files
        BY <1>1 DEF SourceInv
      <3> QED
        BY <3>1, <3>2, <3>3 DEF TreeKept
    <2>2. CASE ~P!Accept
      BY <1>1, <2>2, SourceSame
    <2> QED
      BY <2>1, <2>2
  <1>2. PlanInv /\ SourceInv /\ [P!Next]_(P!vars) => [Stays]_p_flow
    BY <1>1
  <1>3. P!Spec => []SourceInv
    BY SourceInit, SourceNext, PlanInvariant, PTL DEF P!Spec
  <1>4. P!Spec => [][Stays]_p_flow
    BY <1>2, <1>3, PlanInvariant, PTL DEF P!Spec
  <1> QED
    BY <1>4 DEF P!SourceKept
=============================================================================
