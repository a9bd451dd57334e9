-------------------------------- MODULE Pages --------------------------------
(* Results too large for a message (tool-results.ts, result-projection-pages.ts). *)
(* A tool's result is shown whole when the message holds it; otherwise its text   *)
(* is stored in pages under a reference derived from its scope, tool, error flag  *)
(* and content, and the reference is shown; when it cannot be stored, a marker    *)
(* is.  The model reads a reference page by page, following the cursor of each    *)
(* answer.  A page stored by an earlier release may be larger than what one read  *)
(* can carry: it is read in slices.  A scope is one generation of a session (or   *)
(* one activation).  A text is the sequence of what its characters cost once      *)
(* escaped.                                                                       *)
EXTENDS Integers, Sequences, FiniteSets, SequencesExt, FiniteSetsExt

CONSTANTS
  Texts,       \* texts a tool may return, as sequences of costs
  Outcomes,    \* what a tool may say of its result
  Room,        \* escaped bytes of text a page-read message holds: the size of a page
  OlderRoom,   \* the size of the pages an earlier release stored
  Holds,       \* escaped bytes of text an ordinary message holds
  MaxPages,    \* pages one result may have
  LastScope,   \* generations 0..LastScope
  MaxKept,     \* bound: results stored
  MaxOlder,    \* bound: results an earlier release left
  MaxLuck      \* bound: storage failures

PagesAssumption ==
  /\ \A t \in Texts : t \in Seq(Nat \ {0})
  /\ Outcomes \subseteq {"successful", "unknown", "not_executed"}
  /\ {Room, OlderRoom, Holds, MaxPages, LastScope, MaxKept, MaxOlder, MaxLuck} \subseteq Nat

VARIABLES
  scope,    \* the session's generation
  kept,     \* the store: reference -> manifest and pages
  face,     \* what the model was last shown of a result
  truth,    \* the result itself
  reader,   \* the read of a reference: where it is and what it got
  luck
vars == <<scope, kept, face, truth, reader, luck>>

Cost(text) ==
  LET cost[n \in 0..Len(text)] == IF n = 0 THEN 0 ELSE cost[n - 1] + text[n]
  IN  cost[Len(text)]
Results == [text : Texts, says : Outcomes, error : BOOLEAN]

(* What the engine and the store say of a result: the error flag keeps an       *)
(* unclassified error from reading as a success.                                *)
Outcome(r) == IF r.error /\ r.says = "successful" THEN "unknown" ELSE r.says

\* Mutant: an error and a success with the same body share a reference.
ReferenceOfBody(s, r) == [scope |-> s, text |-> r.text, says |-> r.says, error |-> FALSE]
Reference(s, r) == [scope |-> s, text |-> r.text, says |-> r.says, error |-> r.error]

-----------------------------------------------------------------------------
(* Pages: each takes the characters that fit a size and leaves the rest to the  *)
(* next.                                                                        *)
Fitting(text, from, size) ==
  LET Fits(n) == Cost(SubSeq(text, from, from + n - 1)) <= size
      lengths == {n \in 0..(Len(text) - from + 1) : Fits(n)}
  IN  Max(lengths)

(* Where page i starts: nowhere new once a character fits no page.              *)
PageStarts(text, size) ==
  LET start[i \in 1..(MaxPages + 1)] ==
        IF i = 1 THEN 1
        ELSE start[i - 1] + Fitting(text, start[i - 1], size)
  IN  start

(* The pages, or nothing when no lossless split within the cap exists.          *)
Pages(text, size) ==
  LET start == PageStarts(text, size)
      ends == {n \in 1..MaxPages : start[n + 1] > Len(text)}
  IN  IF ends = {} THEN <<>>
      ELSE [i \in 1..Min(ends) |->
              SubSeq(text, start[i], start[i] + Fitting(text, start[i], size) - 1)]

-----------------------------------------------------------------------------
NoReader == [ref |-> <<>>, page |-> 0, offset |-> 0, got |-> <<>>, at |-> "none"]
NoFace == [shape |-> "none", outcome |-> "", ref |-> <<>>]

(* What an earlier release stored of a result: pages of its own size.           *)
Manifest(r, pages) == [outcome |-> Outcome(r), pages |-> pages]
Older(S) ==
  [ref \in {Reference(0, r) : r \in S} |->
     Manifest(CHOOSE r \in S : Reference(0, r) = ref, Pages(ref.text, OlderRoom))]
Storable(r) == Cost(r.text) > Holds /\ Pages(r.text, OlderRoom) # <<>>

Init ==
  /\ \E S \in SUBSET {r \in Results : Storable(r)} :
       Cardinality(S) <= MaxOlder /\ kept = Older(S)
  /\ scope = 0 /\ face = NoFace /\ truth = <<>> /\ reader = NoReader
  /\ luck = MaxLuck

Trouble == luck > 0 /\ luck' = luck - 1
Whole(r) == [shape |-> "whole", outcome |-> Outcome(r), ref |-> <<>>]
Marker(r, ref) == [shape |-> "marker", outcome |-> Outcome(r), ref |-> ref]
(* The reference shows what the stored manifest says. *)
Referenced(ref) == [shape |-> "reference", outcome |-> kept'[ref].outcome, ref |-> <<ref>>]

(* Manifest and pages are written together. *)
Archive(ref, r, pages) ==
  kept' = [k \in DOMAIN kept \cup {ref} |->
             IF k = ref THEN Manifest(r, pages) ELSE kept[k]]

(* A tool returns: whole if the message holds it; else stored, unless it is     *)
(* already; a marker when it cannot be.                                         *)
Project(r) ==
  LET ref == Reference(scope, r)
      pages == Pages(r.text, Room)
  IN  \/ /\ Cost(r.text) <= Holds
         /\ face' = Whole(r) /\ UNCHANGED <<kept, luck>>
      \/ /\ Cost(r.text) > Holds /\ ref \in DOMAIN kept
         /\ \/ UNCHANGED <<kept, luck>> /\ face' = Referenced(ref)
            \/ Trouble /\ UNCHANGED kept /\ face' = Marker(r, <<ref>>)
      \/ /\ Cost(r.text) > Holds /\ ref \notin DOMAIN kept
         /\ \/ /\ pages # <<>> /\ Cardinality(DOMAIN kept) < MaxKept /\ UNCHANGED luck
               /\ Archive(ref, r, pages) /\ face' = Referenced(ref)
            \/ pages = <<>> /\ UNCHANGED <<kept, luck>> /\ face' = Marker(r, <<>>)
            \/ Trouble /\ UNCHANGED kept /\ face' = Marker(r, <<>>)

Give ==
  \E r \in Results :
    /\ r \notin {truth[i] : i \in 1..Len(truth)}
    /\ Project(r) /\ truth' = <<r>> /\ reader' = NoReader /\ UNCHANGED scope

(* The model opens the reference it was shown. *)
Open ==
  /\ face.ref # <<>> /\ reader.at = "none"
  /\ reader' = [NoReader EXCEPT !.ref = face.ref, !.at = "reading"]
  /\ UNCHANGED <<scope, kept, face, truth, luck>>

(* Only the scope it was stored in may read it. *)
\* Mutant: any scope of the session may.
ReadableAnywhere(ref) == ref \in DOMAIN kept
ReadableHere(ref) == ref \in DOMAIN kept /\ ref.scope = scope

(* One page read: what fits of the page from the offset ... *)
Slice(body, offset) == SubSeq(body, offset + 1, offset + Fitting(body, offset + 1, Room))
(* ... and where the next one starts. *)
\* Mutant: a page that was read in part counts as read.
CursorByPage(text, body, end, last) ==
  [ref |-> reader.ref, got |-> reader.got \o text, offset |-> 0,
   page |-> IF last THEN reader.page ELSE reader.page + 1,
   at |-> IF last THEN "complete" ELSE "reading"]
Cursor(text, body, end, last) ==
  [ref |-> reader.ref, got |-> reader.got \o text,
   page |-> IF end < Len(body) \/ last THEN reader.page ELSE reader.page + 1,
   offset |-> IF end < Len(body) THEN end ELSE 0,
   at |-> IF end >= Len(body) /\ last THEN "complete" ELSE "reading"]

ReadPage ==
  /\ reader.at = "reading"
  /\ LET ref == reader.ref[1]
         pages == kept[ref].pages
         body == pages[reader.page + 1]
         text == Slice(body, reader.offset)
     IN  reader' = IF ~ReadableHere(ref) THEN [reader EXCEPT !.at = "refused"]
                   ELSE Cursor(text, body, reader.offset + Len(text),
                               reader.page >= Len(pages) - 1)
  /\ UNCHANGED <<scope, kept, face, truth, luck>>

(* The session is cleared: its results stay stored, under the old scope. *)
Clear ==
  /\ scope < LastScope /\ scope' = scope + 1
  /\ UNCHANGED <<kept, face, truth, reader, luck>>

Next == Give \/ Open \/ ReadPage \/ Clear
Spec == Init /\ [][Next]_vars

-----------------------------------------------------------------------------
(* A reader that follows the cursor to the end has the text of the result it    *)
(* was shown, every character once and in order.                                *)
ReadsBackWhole == reader.at = "complete" => reader.got = truth[1].text

(* However a result is shown, it is shown with its own outcome: storing and     *)
(* reusing never turn a failure into a success.                                 *)
FaceIsTrue == truth # <<>> => face.outcome = Outcome(truth[1])

(* No page of an earlier generation is read once the session is cleared.        *)
StaysInScope ==
  [][reader.at = "reading" /\ Len(reader'.got) > Len(reader.got) => reader.ref[1].scope = scope]_vars
=============================================================================
