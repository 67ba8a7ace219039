----------------------------- MODULE ArchiveImport -----------------------------
(***************************************************************************)
(* The "Add mods" page of app.js and the archive reviews that desktop.rs   *)
(* keeps for it.                                                           *)
(*                                                                         *)
(* A handler of the page runs until an await; other handlers run between.  *)
(* The back end executes one command at a time, on the main thread.  The   *)
(* page's busy overlay is not modelled: it covers the mouse only, and any  *)
(* other command that ends removes it.  A review is named by the batch     *)
(* that asked for it and by the path of its archive.                       *)
(***************************************************************************)
EXTENDS Naturals, Sequences, SequencesExt, FiniteSets

CONSTANTS
  Paths,        \* archives the user may select
  Batches,      \* bound: times that files are selected
  Selected,     \* bound: what may be selected each time, sets of archives
  Leaves,       \* bound: departures from the page under way at once
  Executable,   \* archives with executable or native payload
  BatchLimit,   \* KN: archives accepted in one selection
  PendingLimit, \* MAX_PENDING_IMPORT_REVIEWS
  None

Tokens == [batch : Batches, path : Paths]

ASSUME ImportConstants ==
  /\ IsFiniteSet(Paths)
  /\ Selected \in [Batches -> SUBSET (SUBSET Paths \ {{}})]
  /\ Executable \subseteq Paths
  /\ BatchLimit \in Nat \ {0}
  /\ PendingLimit \in Nat \ {0}
  /\ None \notin Tokens

VARIABLES
  page,       \* the page on display
  items,      \* the list of archives under review, by path
  publishing, \* an import is under way: the page must not be left
  loops,      \* the review handler of each batch
  leaves,     \* navigate handlers that wait for discards
  importer,   \* the import handler
  pending,    \* pending_import_reviews of the back end, oldest first
  committed,  \* history: reviews imported into the library
  shownAck,   \* history: reviews acknowledged while they were on display
  abandoned   \* history: a handler replaced or captured a list that was still
              \* under review

ui   == <<page, items, publishing, loops, leaves, importer>>
vars == <<ui, pending, committed, shownAck, abandoned>>

\* "blocked": reviewed, with a conflict that rules the import out.
Item == [status : {"preflight", "reviewed", "blocked", "failed", "imported"},
         token : Tokens \cup {None}, ack : BOOLEAN]

NoItems == [p \in {} |-> None]

IsList(list) == DOMAIN list \subseteq Paths /\ \A p \in DOMAIN list : list[p] \in Item

LoopSteps == {"unused", "clearing", "preflight", "review", "token", "ended"}

Running(b) == loops[b].step \notin {"unused", "ended"}

-----------------------------------------------------------------------------
(* The list of archives. *)

\* Mistake: reviews that rule the import out are forgotten.
DiscardableImports == {items[p].token : p \in {q \in DOMAIN items :
                         items[q].token # None /\ items[q].status = "reviewed"}}

\* Reviews that discarding the list gives back.
Discardable == {items[p].token : p \in {q \in DOMAIN items :
                  items[q].token # None /\ items[q].status # "imported"}}

\* Mistake: the check box is not asked for.
ImportablesUnconfirmed(list) ==
  {p \in DOMAIN list : list[p].status = "reviewed" /\ list[p].token # None}

\* Archives of a list that the import button will import.
Importables(list) == {p \in DOMAIN list :
                        /\ list[p].status = "reviewed"
                        /\ list[p].token # None
                        /\ p \in Executable => list[p].ack}

Ready == Importables(items)

Abandon == abandoned' = (abandoned \/ \E b \in Batches : Running(b))

-----------------------------------------------------------------------------
(* The back end: one command each. *)

IsPending(t) == \E i \in DOMAIN pending : pending[i] = t

Drop(t) ==
  pending' = IF IsPending(t)
             THEN RemoveAt(pending, CHOOSE i \in DOMAIN pending : pending[i] = t)
             ELSE pending

Init ==
  /\ page = "archive"
  /\ items = NoItems
  /\ publishing = FALSE
  /\ loops = [b \in Batches |-> [step |-> "unused", todo |-> {}, at |-> None, wait |-> {}]]
  /\ leaves = [l \in Leaves |-> [kind |-> "none", wait |-> {}]]
  /\ importer = [step |-> "idle", todo |-> {}, shown |-> NoItems, done |-> {}]
  /\ pending = <<>>
  /\ committed = {}
  /\ shownAck = {}
  /\ abandoned = FALSE

\* Mistake: room is made one review too early.
ReviewEvictsEarly(b) ==
  LET room == IF Len(pending) + 1 < PendingLimit THEN pending
              ELSE SubSeq(pending, Len(pending) - PendingLimit + 3, Len(pending))
  IN /\ loops[b].step = "review"
     /\ loops' = [loops EXCEPT ![b].step = "token"]
     /\ pending' = Append(room, [batch |-> b, path |-> loops[b].at])
     /\ UNCHANGED <<page, items, publishing, leaves, importer,
                    committed, shownAck, abandoned>>

\* review_archive: extracts the archive and keeps the review; the oldest ones make room.
Review(b) ==
  LET room == IF Len(pending) < PendingLimit THEN pending
              ELSE SubSeq(pending, Len(pending) - PendingLimit + 2, Len(pending))
  IN /\ loops[b].step = "review"
     /\ loops' = [loops EXCEPT ![b].step = "token"]
     /\ pending' = Append(room, [batch |-> b, path |-> loops[b].at])
     /\ UNCHANGED <<page, items, publishing, leaves, importer,
                    committed, shownAck, abandoned>>

\* discard_archive_review, for a handler that waits for it.  It answers whether or not
\* there was such a review.
DiscardForBatch(b, t) ==
  /\ loops' = [loops EXCEPT ![b].wait = @ \ {t}]
  /\ Drop(t)
  /\ UNCHANGED <<page, items, publishing, leaves, importer, committed, shownAck, abandoned>>

DiscardForLeave(l, t) ==
  /\ leaves' = [leaves EXCEPT ![l].wait = @ \ {t}]
  /\ Drop(t)
  /\ UNCHANGED <<page, items, publishing, loops, importer, committed, shownAck, abandoned>>

\* The review is still there, and payloads were acknowledged.
Accepts(p) ==
  LET item == importer.shown[p]
  IN /\ IsPending(item.token)
     /\ p \in Executable => item.ack

ImportCommits(p) ==
  LET token == importer.shown[p].token
  IN /\ importer.step = "import"
     /\ p \in importer.todo
     /\ Accepts(p)
     /\ importer' = [importer EXCEPT !.todo = @ \ {p}, !.done = @ \cup {p}]
     /\ Drop(token)
     /\ committed' = committed \cup {token}
     /\ UNCHANGED <<page, items, publishing, loops, leaves, shownAck, abandoned>>

\* It is refused, as when the evidence of the review no longer holds, or fails; a
\* failure after staging was consumed ends the review.
ImportFails(p) ==
  /\ importer.step = "import"
  /\ p \in importer.todo
  /\ importer' = [importer EXCEPT !.todo = @ \ {p}]
  /\ \/ UNCHANGED pending
     \/ Accepts(p) /\ Drop(importer.shown[p].token)
  /\ UNCHANGED <<page, items, publishing, loops, leaves, committed, shownAck, abandoned>>

-----------------------------------------------------------------------------
(* The page's handlers, from one await to the next. *)

\* "Browse files", when the dialog closes: the list is discarded before the new one
\* is shown.  The page may be left by then, if a departure was under way; that no
\* import has begun is because the dialog is modal.
ChooseFiles(b) ==
  /\ ~publishing
  /\ loops[b].step = "unused"
  /\ \E S \in Selected[b] :
       loops' = [loops EXCEPT ![b].step = "clearing", ![b].todo = S, ![b].wait = Discardable]
  /\ items' = NoItems
  /\ Abandon
  /\ UNCHANGED <<page, publishing, leaves, importer, pending, committed, shownAck>>

\* Too many archives: only an error is listed, as no archive.  Otherwise the
\* review starts.
StartReview(b) ==
  LET S == loops[b].todo
  IN /\ loops[b].step = "clearing"
     /\ loops[b].wait = {}
     /\ IF Cardinality(S) > BatchLimit
        THEN /\ items' = NoItems
             /\ loops' = [loops EXCEPT ![b].step = "ended", ![b].todo = {}]
        ELSE /\ items' = [p \in S |-> [status |-> "preflight", token |-> None, ack |-> FALSE]]
             /\ loops' = [loops EXCEPT ![b].step = "preflight"]
     /\ abandoned' = (abandoned \/ \E c \in Batches \ {b} : Running(c))
     /\ UNCHANGED <<page, publishing, leaves, importer, pending, committed, shownAck>>

\* The loop goes on with the next archive.
Advance(b, p) ==
  LET left == loops[b].todo \ {p}
  IN loops' = [loops EXCEPT ![b].todo = left, ![b].at = None,
                            ![b].step = IF left = {} THEN "ended" ELSE "preflight"]

\* An answer is entered in the list by path, whatever list is there by now.
\* What was acknowledged stays acknowledged.
Enter(p, status, token) ==
  items' = IF p \in DOMAIN items
           THEN [items EXCEPT ![p].status = status, ![p].token = token] ELSE items

\* preflight_archive answers: the archive is accepted, refused, or cannot be inspected.
TakePreflight(b, p) ==
  /\ loops[b].step = "preflight"
  /\ p \in loops[b].todo
  /\ \/ /\ Enter(p, "preflight", items[p].token)
        /\ loops' = [loops EXCEPT ![b].step = "review", ![b].at = p]
     \/ Enter(p, "preflight", items[p].token) /\ Advance(b, p)
     \/ Enter(p, "failed", items[p].token) /\ Advance(b, p)
  /\ UNCHANGED <<page, publishing, leaves, importer, pending, committed, shownAck, abandoned>>

TakeReview(b) ==
  LET p == loops[b].at
  IN /\ loops[b].step = "token"
     /\ \E status \in {"reviewed", "blocked"} : Enter(p, status, [batch |-> b, path |-> p])
     /\ Advance(b, p)
     /\ UNCHANGED <<page, publishing, leaves, importer, pending, committed, shownAck, abandoned>>

\* Mistake: an archive whose review failed is tried again.
TakeErrorAgain(b) ==
  /\ loops[b].step = "review"
  /\ Enter(loops[b].at, "failed", items[loops[b].at].token)
  /\ loops' = [loops EXCEPT ![b].step = "preflight", ![b].at = None]
  /\ UNCHANGED <<page, publishing, leaves, importer, pending, committed, shownAck, abandoned>>

\* review_archive fails, and keeps nothing.
TakeError(b) ==
  LET p == loops[b].at
  IN /\ loops[b].step = "review"
     /\ Enter(p, "failed", items[p].token)
     /\ Advance(b, p)
     /\ UNCHANGED <<page, publishing, leaves, importer, pending, committed, shownAck, abandoned>>

\* The check box of an archive with executable payload.
ToggleAck(p) ==
  /\ page = "archive"
  /\ p \in DOMAIN items \cap Executable
  /\ items[p].status \in {"reviewed", "blocked"}
  /\ items' = [items EXCEPT ![p].ack = ~@]
  /\ shownAck' = IF items[p].ack THEN shownAck ELSE shownAck \cup {items[p].token}
  /\ UNCHANGED <<page, publishing, loops, leaves, importer, pending, committed, abandoned>>

\* "Add to my mods": the handler keeps the list it was clicked on.
StartImport ==
  /\ page = "archive"
  /\ ~publishing
  /\ Ready # {}
  /\ publishing' = TRUE
  /\ importer' = [step |-> "import", todo |-> Ready, shown |-> items, done |-> {}]
  /\ Abandon
  /\ UNCHANGED <<page, items, loops, leaves, pending, committed, shownAck>>

\* Mistake: what was asked for counts as done.
ResultsAsAsked ==
  LET shown == importer.shown
  IN [p \in DOMAIN shown |->
        IF p \in Importables(shown) THEN [shown[p] EXCEPT !.status = "imported"] ELSE shown[p]]

\* The list becomes the one that was clicked on, with the results.
Results ==
  LET shown == importer.shown
      asked == Importables(shown)
  IN [p \in DOMAIN shown |->
        IF p \in importer.done THEN [shown[p] EXCEPT !.status = "imported"]
        ELSE IF p \in asked THEN [shown[p] EXCEPT !.status = "failed"]
        ELSE shown[p]]

ShowResults ==
  /\ importer.step = "import"
  /\ importer.todo = {}
  /\ items' = Results
  /\ importer' = [importer EXCEPT !.step = "refresh", !.shown = Results]
  /\ UNCHANGED <<page, publishing, loops, leaves, pending, committed, shownAck, abandoned>>

\* Mistake: the results of the import are kept.
EndImportKeepsDone ==
  /\ importer.step = "refresh"
  /\ publishing' = FALSE
  /\ importer' = [importer EXCEPT !.step = "idle", !.shown = NoItems]
  /\ UNCHANGED <<page, items, abandoned, loops, leaves, pending, committed, shownAck>>

\* Mistake: an import that failed in part still counts as under way.
EndImportInPart ==
  /\ importer.step = "refresh"
  /\ IF \A p \in DOMAIN importer.shown : importer.shown[p].status = "imported"
     THEN publishing' = FALSE /\ items' = NoItems /\ page' = "library" /\ Abandon
     ELSE UNCHANGED <<publishing, items, page, abandoned>>
  /\ importer' = [step |-> "idle", todo |-> {}, shown |-> NoItems, done |-> {}]
  /\ UNCHANGED <<loops, leaves, pending, committed, shownAck>>

\* The snapshot was refreshed.  When all archives are in, the page is left.
EndImport ==
  /\ importer.step = "refresh"
  /\ publishing' = FALSE
  /\ IF \A p \in DOMAIN importer.shown : importer.shown[p].status = "imported"
     THEN items' = NoItems /\ page' = "library" /\ Abandon
     ELSE UNCHANGED <<items, page, abandoned>>
  /\ importer' = [step |-> "idle", todo |-> {}, shown |-> NoItems, done |-> {}]
  /\ UNCHANGED <<loops, leaves, pending, committed, shownAck>>

\* Mistake: the page may be left during an import.
LeaveAnyTime(l, kind) ==
  /\ page = "archive"
  /\ leaves[l].kind = "none"
  /\ leaves' = [leaves EXCEPT ![l] = [kind |-> kind, wait |-> Discardable]]
  /\ items' = NoItems
  /\ Abandon
  /\ UNCHANGED <<page, publishing, loops, importer, pending, committed, shownAck>>

\* "Cancel" discards the list, and then navigates.  Navigating from this page
\* discards the list first.
Leave(l, kind) ==
  /\ page = "archive"
  /\ ~publishing
  /\ leaves[l].kind = "none"
  /\ leaves' = [leaves EXCEPT ![l] = [kind |-> kind, wait |-> Discardable]]
  /\ items' = NoItems
  /\ Abandon
  /\ UNCHANGED <<page, publishing, loops, importer, pending, committed, shownAck>>

\* What is listed by now is discarded too; an import under way keeps the page.
Cancelled(l) ==
  /\ leaves[l].kind = "cancel"
  /\ leaves[l].wait = {}
  /\ IF publishing
     THEN /\ leaves' = [leaves EXCEPT ![l].kind = "none"]
          /\ UNCHANGED <<items, abandoned>>
     ELSE /\ leaves' = [leaves EXCEPT ![l] = [kind |-> "navigate", wait |-> Discardable]]
          /\ items' = NoItems
          /\ Abandon
  /\ UNCHANGED <<page, publishing, loops, importer, pending, committed, shownAck>>

\* Mistake: an import that began meanwhile keeps the page, and nobody navigates later.
LeftUnlessImporting(l) ==
  /\ leaves[l].kind = "navigate"
  /\ leaves[l].wait = {}
  /\ leaves' = [leaves EXCEPT ![l].kind = "none"]
  /\ page' = IF publishing THEN page ELSE "library"
  /\ UNCHANGED <<items, publishing, loops, importer, pending, committed, shownAck, abandoned>>

\* The page changes.
Left(l) ==
  /\ leaves[l].kind = "navigate"
  /\ leaves[l].wait = {}
  /\ leaves' = [leaves EXCEPT ![l].kind = "none"]
  /\ page' = "library"
  /\ UNCHANGED <<items, publishing, loops, importer, pending, committed, shownAck, abandoned>>

\* navigate, to this page.
Return ==
  /\ page = "library"
  /\ ~publishing
  /\ page' = "archive"
  /\ UNCHANGED <<items, publishing, loops, leaves, importer, pending,
                 committed, shownAck, abandoned>>

-----------------------------------------------------------------------------

\* Answers of the back end.
Answer ==
  \/ \E b \in Batches : Review(b)
  \/ \E b \in Batches : \E t \in loops[b].wait : DiscardForBatch(b, t)
  \/ \E l \in Leaves : \E t \in leaves[l].wait : DiscardForLeave(l, t)
  \/ \E p \in Paths : ImportCommits(p) \/ ImportFails(p)

\* Handlers that go on after an await.
Continue ==
  \/ \E b \in Batches : StartReview(b) \/ TakeReview(b) \/ TakeError(b)
  \/ \E b \in Batches, p \in Paths : TakePreflight(b, p)
  \/ \E l \in Leaves : Cancelled(l) \/ Left(l)
  \/ ShowResults
  \/ EndImport

User ==
  \/ \E b \in Batches : ChooseFiles(b)
  \/ \E p \in Paths : ToggleAck(p)
  \/ \E l \in Leaves, kind \in {"cancel", "navigate"} : Leave(l, kind)
  \/ StartImport
  \/ Return

Next == Answer \/ Continue \/ User

Spec == Init /\ [][Next]_vars

\* Every command is answered (the workers it runs have time-outs), and the
\* event loop gets to every handler whose answer is there.
LoopStep(b) ==
  \/ Review(b) \/ StartReview(b) \/ TakeReview(b) \/ TakeError(b)
  \/ \E p \in Paths : TakePreflight(b, p)
  \/ \E t \in loops[b].wait : DiscardForBatch(b, t)

LeaveStep(l) == Cancelled(l) \/ Left(l) \/ \E t \in leaves[l].wait : DiscardForLeave(l, t)

ImportStep ==
  \/ \E p \in Paths : ImportCommits(p) \/ ImportFails(p)
  \/ ShowResults
  \/ EndImport

FairSpec ==
  /\ Spec
  /\ \A b \in Batches : WF_vars(LoopStep(b))
  /\ \A l \in Leaves : WF_vars(LeaveStep(l))
  /\ WF_vars(ImportStep)

-----------------------------------------------------------------------------
(* Properties. *)

TypeOK ==
  /\ page \in {"archive", "library"}
  /\ IsList(items)
  /\ publishing \in BOOLEAN
  /\ loops \in [Batches -> [step : LoopSteps, todo : SUBSET Paths,
                            at : Paths \cup {None}, wait : SUBSET Tokens]]
  /\ leaves \in [Leaves -> [kind : {"none", "cancel", "navigate"}, wait : SUBSET Tokens]]
  /\ IsList(importer.shown)
  /\ importer.step \in {"idle", "import", "refresh"}
  /\ importer.todo \cup importer.done \subseteq DOMAIN importer.shown
  /\ pending \in Seq(Tokens)
  /\ committed \subseteq Tokens
  /\ shownAck \subseteq Tokens
  /\ abandoned \in BOOLEAN

\* An archive listed as imported is in the library, under the review that the
\* list shows: however results, late answers and the replaced list interleave
\* (app.js 52838-52866).
NoFalseSuccess ==
  \A p \in DOMAIN items : items[p].status = "imported" => items[p].token \in committed

\* A review that is being imported is not being discarded: leaving the page or
\* choosing other files cannot take it away (app.js 54118-54124).
ImportNotDiscarded ==
  importer.step = "import" =>
    \A p \in importer.todo :
      /\ \A b \in Batches : importer.shown[p].token \notin loops[b].wait
      /\ \A l \in Leaves : importer.shown[p].token \notin leaves[l].wait

\* Reviews the back end holds in private staging and nobody will ever discard.
Orphans ==
  {t \in ToSet(pending) :
     /\ \A p \in DOMAIN items : items[p].token # t
     /\ \A p \in DOMAIN importer.shown : importer.shown[p].token # t
     /\ \A b \in Batches :
          /\ t \notin loops[b].wait
          /\ ~(loops[b].step = "token" /\ t = [batch |-> b, path |-> loops[b].at])
     /\ \A l \in Leaves : t \notin leaves[l].wait}

\* Extracted archives are given back when the page is left or other files are
\* chosen, unless that happens while archives are still being reviewed.
NothingLeaks == ~abandoned => Orphans = {}

\* An archive listed as ready can be imported: its review has not been evicted.
\* (A list longer than PendingLimit evicts its own; a list replaced during its
\* review leaves reviews behind, which take up room.)
ReadyIsKept ==
  ~publishing /\ ~abandoned /\ Cardinality(DOMAIN items) <= PendingLimit =>
    \A p \in Ready : IsPending(items[p].token)

\* What is confirmed for an archive with executable payload is a review the
\* user acknowledged, not an earlier review of the same path.
AckIsForShown ==
  importer.step = "import" =>
    \A p \in importer.todo \cap Executable :
      ~abandoned => importer.shown[p].token \in shownAck

\* An import ends, and the page can be left again.
PublishingEnds == publishing ~> ~publishing

\* Once the user leaves, the page changes, even with discards outstanding.
LeavingEnds == \A l \in Leaves : leaves[l].kind = "navigate" ~> page = "library"

\* Every selection is reviewed to its end.
ReviewEnds == \A b \in Batches : loops[b].step = "clearing" ~> loops[b].step = "ended"
================================================================================
