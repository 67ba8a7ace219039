------------------------- MODULE ArchiveReviewProofs -------------------------
(***************************************************************************)
(* For every set of archives and selections, and every limit: as long as   *)
(* no list was replaced or captured while it was under review, no review   *)
(* is left behind in staging, no archive that is listed as ready has lost  *)
(* its review, and only payloads that the user saw are confirmed.          *)
(***************************************************************************)
EXTENDS ArchiveImportProofs

(* The inductive invariant, besides ImportInv. *)

\* What is ticked was ticked while this review was on display.
Acknowledged(list) == \A p \in DOMAIN list : list[p].ack => list[p].token \in shownAck

\* One handler at a time has the list to itself.
ListOwned ==
  /\ \A b, c \in Batches : Running(b) /\ Running(c) => b = c
  /\ \A b \in Batches : loops[b].step = "clearing" => DOMAIN items = {}
  /\ \A b \in Batches : loops[b].step \in {"preflight", "review", "token"} =>
       \A p \in loops[b].todo : p \in DOMAIN items /\ items[p] = Fresh
  /\ publishing =>
       /\ \A b \in Batches : ~Running(b)
       /\ DOMAIN items = DOMAIN importer.shown
       /\ \A p \in DOMAIN items : /\ items[p].status = importer.shown[p].status
                                  /\ items[p].token = importer.shown[p].token

\* Every review that is held is on its way, listed, or being discarded; those being
\* discarded are the oldest.
HeldInv ==
  /\ \A t \in Tokens : IsPending(t) =>
       \/ OnItsWay(t)
       \/ Discarded(t)
       \/ \E p \in DOMAIN items : items[p].token = t
  /\ \A s, t \in Tokens : Older(s, t) /\ Discarded(t) => Discarded(s)

\* A review on its way is held, and so are the reviews of a list that is not longer
\* than what is kept, but for those an import may have used.
KeptInv ==
  /\ \A b \in Batches : loops[b].step = "token" =>
       IsPending([batch |-> b, path |-> loops[b].at])
  /\ Cardinality(DOMAIN items) <= PendingLimit =>
       \A p \in DOMAIN items :
         \/ items[p].status # "reviewed"
         \/ importer.step = "import" /\ p \in Importables(importer.shown)
         \/ IsPending(items[p].token)

TicksInv == Acknowledged(items) /\ Acknowledged(importer.shown)

CleanInv == ListOwned /\ TicksInv /\ HeldInv /\ KeptInv

ReviewIInv == ImportInv /\ (~abandoned => CleanInv)

-----------------------------------------------------------------------------
(* A list that is not abandoned has one owner. *)

\* Handlers that replace or capture the list find no loop that works on it.
LEMMA NobodyElse ==
  ASSUME ImportInv, [Next]_vars, ~abandoned'
  PROVE  /\ ~abandoned
         /\ \A b \in Batches :
              /\ ChooseFiles(b) => \A c \in Batches : ~Running(c)
              /\ StartReview(b) => \A c \in Batches \ {b} : ~Running(c)
         /\ \A l \in Leaves, kind \in {"cancel", "navigate"} :
              Leave(l, kind) => \A c \in Batches : ~Running(c)
         /\ StartImport => \A c \in Batches : ~Running(c)
         /\ \A l \in Leaves : Cancelled(l) =>
              \/ UNCHANGED items
              \/ ~publishing /\ items' = NoItems /\ \A c \in Batches : ~Running(c)
<1>1. abandoned' = abandoned => ~abandoned
  OBVIOUS
<1>2. Abandon => ~abandoned /\ \A c \in Batches : ~Running(c)
  BY DEF Abandon
<1>3. \A b \in Batches : StartReview(b) => ~abandoned /\ \A c \in Batches \ {b} : ~Running(c)
  BY DEF StartReview
<1>4. UNCHANGED vars => ~abandoned
  BY DEF vars
<1>5. Answer => ~abandoned
  BY DEF Answer, Review, DiscardForBatch, DiscardForLeave, ImportCommits, ImportFails
<1>6. \A l \in Leaves : Cancelled(l) =>
        /\ ~abandoned
        /\ \/ UNCHANGED items
           \/ ~publishing /\ items' = NoItems /\ \A c \in Batches : ~Running(c)
  BY <1>2 DEF Cancelled
<1>7. Continue => ~abandoned
  BY <1>2, <1>3, <1>6 DEF Continue, TakePreflight, TakeReview, TakeError, Left, ShowResults,
                          EndImport
<1>8. /\ \A b \in Batches : ChooseFiles(b) => Abandon
      /\ \A l \in Leaves, kind \in {"cancel", "navigate"} : Leave(l, kind) => Abandon
      /\ StartImport => Abandon
  BY DEF ChooseFiles, Leave, StartImport
<1>9. User => ~abandoned
  BY <1>2, <1>8 DEF User, ToggleAck, Return
<1> QED
  BY <1>2, <1>3, <1>4, <1>5, <1>6, <1>7, <1>8, <1>9 DEF Next

\* The loop that is under way, and the archive it answers for, which is listed as new.
LEMMA TheLoop ==
  ASSUME ImportInv, ListOwned, NEW b \in Batches,
         loops[b].step \in {"preflight", "review", "token"}
  PROVE  /\ Running(b) /\ ~publishing
         /\ \A c \in Batches \ {b} : ~Running(c)
         /\ \A p \in loops[b].todo : p \in DOMAIN items /\ items[p] = Fresh
         /\ loops[b].step # "preflight" => loops[b].at \in loops[b].todo
BY DEF ImportInv, HandlersInv, ListOwned, Running

\* An answer for a new entry changes that entry.
LEMMA AnswerFresh ==
  ASSUME ImportInv, NEW p \in DOMAIN items, items[p] = Fresh,
         NEW status \in {"preflight", "reviewed", "blocked", "failed"},
         NEW token \in Tokens \cup {None}, Enter(p, status, token)
  PROVE  /\ DOMAIN items' = DOMAIN items
         /\ \A q \in DOMAIN items : q # p => items'[q] = items[q]
         /\ items'[p] = [status |-> status, token |-> token, ack |-> FALSE]
<1>1. items \in Lists
  BY DEF ImportInv, Typed
<1>2. /\ DOMAIN items' = DOMAIN items
      /\ \A q \in DOMAIN items : q # p => items'[q] = items[q]
      /\ items'[p] = [status |-> status, token |-> token, ack |-> items[p].ack]
  BY <1>1, EnterEffect
<1> QED
  BY <1>2 DEF Fresh

\* The loop has an answer for an archive: the entry, which was new, stays so, or it is
\* not left to do.
AnswersFor(b, p) ==
  /\ loops[b].step \in {"preflight", "review", "token"}
  /\ \A c \in Batches : c # b => loops'[c] = loops[c]
  /\ loops'[b].wait = loops[b].wait
  /\ DOMAIN items' = DOMAIN items /\ p \in DOMAIN items /\ items[p] = Fresh
  /\ \A q \in DOMAIN items : q # p => items'[q] = items[q]
  /\ items'[p].ack = FALSE
  /\ \/ /\ items'[p] = Fresh
        /\ loops'[b].step = "review" /\ loops'[b].todo = loops[b].todo
     \/ /\ loops'[b].step \in {"preflight", "ended"}
        /\ loops'[b].todo = loops[b].todo \ {p}
  /\ \/ /\ p = loops[b].at /\ loops[b].step = "token"
        /\ items'[p].status \in {"reviewed", "blocked"}
        /\ items'[p].token = [batch |-> b, path |-> p]
     \/ /\ loops[b].step \in {"preflight", "review"}
        /\ items'[p].token = None /\ items'[p].status \in {"preflight", "failed"}

\* The loop works on one archive at a time.
LEMMA LoopAnswers ==
  ASSUME ImportInv, ListOwned, NEW b \in Batches,
         TakeReview(b) \/ TakeError(b) \/ \E p \in Paths : TakePreflight(b, p)
  PROVE  \E p \in loops[b].todo : AnswersFor(b, p)
<1>1. loops \in [Batches -> LoopRecords]
  BY DEF ImportInv, Typed
<1>2. CASE TakeReview(b)
  <2> DEFINE p == loops[b].at
             new == [batch |-> b, path |-> p]
  <2>1. loops[b].step = "token" /\ Advance(b, p)
    BY <1>2 DEF TakeReview
  <2>2. p \in loops[b].todo /\ p \in DOMAIN items /\ items[p] = Fresh
    BY <2>1, TheLoop
  <2>3. new \in Tokens
    BY <1>1, <2>2 DEF Tokens, LoopRecords
  <2>4. PICK status \in {"reviewed", "blocked"} : Enter(p, status, new)
    BY <1>2 DEF TakeReview
  <2> HIDE DEF p, new
  <2>5. /\ DOMAIN items' = DOMAIN items
        /\ \A q \in DOMAIN items : q # p => items'[q] = items[q]
        /\ items'[p] = [status |-> status, token |-> new, ack |-> FALSE]
    BY <2>2, <2>3, <2>4, AnswerFresh
  <2>6. AnswersFor(b, p)
    BY <1>1, <2>1, <2>2, <2>5, AdvanceEffect DEF AnswersFor, p, new
  <2> QED
    BY <2>2, <2>6
<1>3. ASSUME NEW p \in loops[b].todo, loops[b].step \in {"preflight", "review"},
             NEW status \in {"preflight", "failed"}, Enter(p, status, items[p].token)
      PROVE  /\ DOMAIN items' = DOMAIN items /\ p \in DOMAIN items /\ items[p] = Fresh
             /\ \A q \in DOMAIN items : q # p => items'[q] = items[q]
             /\ items'[p] = [status |-> status, token |-> None, ack |-> FALSE]
  <2>1. p \in DOMAIN items /\ items[p] = Fresh
    BY <1>3, TheLoop
  <2>2. Enter(p, status, None)
    BY <1>3, <2>1 DEF Fresh
  <2> QED
    BY <2>1, <2>2, AnswerFresh
<1>4. CASE TakeError(b)
  <2> DEFINE p == loops[b].at
  <2>1. loops[b].step = "review" /\ Advance(b, p) /\ Enter(p, "failed", items[p].token)
    BY <1>4 DEF TakeError
  <2>2. p \in loops[b].todo
    BY <2>1, TheLoop
  <2> HIDE DEF p
  <2>3. AnswersFor(b, p)
    BY <1>1, <1>3, <2>1, <2>2, AdvanceEffect DEF AnswersFor
  <2> QED
    BY <2>2, <2>3
<1>5. ASSUME NEW p \in Paths, TakePreflight(b, p)
      PROVE  p \in loops[b].todo /\ AnswersFor(b, p)
  <2>1. loops[b].step = "preflight" /\ p \in loops[b].todo
    BY <1>5 DEF TakePreflight
  <2>2. CASE Enter(p, "preflight", items[p].token)
             /\ loops' = [loops EXCEPT ![b].step = "review", ![b].at = p]
    <3>1. /\ \A c \in Batches : c # b => loops'[c] = loops[c]
          /\ loops'[b].step = "review" /\ loops'[b].todo = loops[b].todo
          /\ loops'[b].wait = loops[b].wait
      BY <1>1, <2>2 DEF LoopRecords
    <3>2. /\ DOMAIN items' = DOMAIN items /\ p \in DOMAIN items /\ items[p] = Fresh
          /\ \A q \in DOMAIN items : q # p => items'[q] = items[q]
          /\ items'[p] = Fresh
      BY <1>3, <2>1, <2>2 DEF Fresh
    <3>3. Fresh.ack = FALSE /\ Fresh.token = None /\ Fresh.status = "preflight"
      BY DEF Fresh
    <3> QED
      BY <2>1, <3>1, <3>2, <3>3 DEF AnswersFor
  <2>3. ASSUME NEW status \in {"preflight", "failed"}, Enter(p, status, items[p].token),
               Advance(b, p)
        PROVE  AnswersFor(b, p)
    BY <1>1, <1>3, <2>1, <2>3, AdvanceEffect DEF AnswersFor
  <2> QED
    BY <1>5, <2>1, <2>2, <2>3 DEF TakePreflight
<1> QED
  BY <1>2, <1>4, <1>5

\* The list keeps its owner.
LEMMA OwnedStep ==
  ASSUME ImportInv, ListOwned, [Next]_vars, ~abandoned'
  PROVE  ListOwned'
<1>0. /\ loops \in [Batches -> LoopRecords] /\ items \in [DOMAIN items -> Item]
      /\ \A b \in Batches : Running(b) => ~publishing
  BY ListsAre DEF ImportInv, Typed, ListOwned
<1>1. ASSUME UNCHANGED <<items, publishing>>,
             importer'.shown = importer.shown,
             \A b \in Batches : /\ loops'[b].todo = loops[b].todo
                               /\ loops'[b].step = loops[b].step
      PROVE  ListOwned'
  BY <1>1 DEF ListOwned, Running
<1>2. ASSUME \A b \in Batches : ~Running(b)', items' = NoItems, ~publishing'
      PROVE  ListOwned'
  BY <1>2, ListsAre DEF ListOwned, Running
<1>3. UNCHANGED vars => ListOwned'
  BY <1>1 DEF vars, ui
<1>4. ASSUME NEW b \in Batches, Review(b) PROVE ListOwned'
  <2>1. /\ loops[b].step = "review" /\ loops'[b].step = "token"
        /\ loops'[b].todo = loops[b].todo
        /\ \A c \in Batches : c # b => loops'[c] = loops[c]
        /\ UNCHANGED <<items, publishing, importer>>
    BY <1>0, <1>4 DEF Review, LoopRecords
  <2> QED
    BY <2>1 DEF ListOwned, Running
<1>5. ASSUME NEW b \in Batches, NEW t, DiscardForBatch(b, t) PROVE ListOwned'
  BY <1>1, <1>5, DiscardForBatchEffect DEF ImportInv, DiscardForBatch
<1>6. ASSUME NEW l \in Leaves, NEW t, DiscardForLeave(l, t) PROVE ListOwned'
  BY <1>1, <1>6 DEF DiscardForLeave
<1>7. ASSUME NEW p \in Paths, ImportCommits(p) \/ ImportFails(p) PROVE ListOwned'
  BY <1>1, <1>7, ImportEffect DEF ImportInv, ImportCommits, ImportFails
<1>8. ASSUME NEW b \in Batches, StartReview(b) PROVE ListOwned'
  <2>1. /\ \A c \in Batches \ {b} : ~Running(c) /\ loops'[c] = loops[c]
        /\ \/ loops'[b].step = "ended" /\ loops'[b].todo = {} /\ items' = NoItems
           \/ /\ loops'[b].step = "preflight" /\ loops'[b].todo = loops[b].todo
              /\ items' = [p \in loops[b].todo |-> Fresh]
    BY <1>8, NobodyElse, StartEffect DEF ImportInv
  <2>2. ~publishing'
    BY <1>0, <1>8 DEF StartReview, Running
  <2> QED
    BY <2>1, <2>2, ListsAre DEF ListOwned, Running
<1>9. ASSUME NEW b \in Batches,
             TakeReview(b) \/ TakeError(b) \/ \E p \in Paths : TakePreflight(b, p)
      PROVE  ListOwned'
  <2>1. PICK p \in loops[b].todo : AnswersFor(b, p)
    BY <1>9, LoopAnswers
  <2>2. ~publishing' /\ UNCHANGED importer
    BY <1>9, TheLoop, <2>1 DEF TakeReview, TakeError, TakePreflight, AnswersFor
  <2>3. /\ \A c \in Batches \ {b} : ~Running(c)
        /\ \A q \in loops[b].todo : q \in DOMAIN items /\ items[q] = Fresh
    BY <2>1, TheLoop DEF AnswersFor
  <2> QED
    BY <2>1, <2>2, <2>3 DEF ListOwned, Running, AnswersFor
<1>10. ASSUME NEW l \in Leaves, Cancelled(l) PROVE ListOwned'
  <2>1. UNCHANGED <<loops, publishing, importer>>
    BY <1>10 DEF Cancelled
  <2> QED
    BY <1>1, <1>2, <1>10, <2>1, NobodyElse DEF Running
<1>11. ASSUME NEW l \in Leaves, Left(l) PROVE ListOwned'
  BY <1>1, <1>11 DEF Left
<1>12. CASE ShowResults
  <2>1. publishing
    BY <1>12 DEF ShowResults, ImportInv, HandlersInv
  <2>2. items' = Results /\ importer'.shown = Results /\ UNCHANGED loops
    BY <1>12 DEF ShowResults, ImportInv, Typed, ImporterRecords
  <2> QED
    BY <2>1, <2>2 DEF ListOwned, Running
<1>13. CASE EndImport
  <2>1. publishing /\ ~publishing' /\ UNCHANGED loops /\ (items' = NoItems \/ UNCHANGED items)
    BY <1>13 DEF EndImport, ImportInv, HandlersInv
  <2> QED
    BY <2>1, ListsAre DEF ListOwned, Running
<1>14. ASSUME NEW b \in Batches, ChooseFiles(b) PROVE ListOwned'
  <2>1. items' = NoItems /\ ~publishing' /\ \A c \in Batches : ~Running(c)
    BY <1>14, NobodyElse DEF ChooseFiles
  <2>2. /\ \A c \in Batches : c # b => loops'[c] = loops[c]
        /\ loops'[b].step = "clearing"
    BY <1>14, ChooseEffect DEF ImportInv
  <2> QED
    BY <2>1, <2>2, ListsAre DEF ListOwned, Running
<1>15. ASSUME NEW p \in Paths, ToggleAck(p) PROVE ListOwned'
  <2>1. /\ p \in DOMAIN items /\ items[p] # Fresh /\ DOMAIN items' = DOMAIN items
        /\ \A q \in DOMAIN items : q # p => items'[q] = items[q]
        /\ items'[p].status = items[p].status /\ items'[p].token = items[p].token
        /\ UNCHANGED <<loops, publishing, importer>>
    BY <1>0, <1>15 DEF ToggleAck, Item, Fresh
  <2> QED
    BY <2>1 DEF ListOwned, Running
<1>16. ASSUME NEW l \in Leaves, NEW kind \in {"cancel", "navigate"}, Leave(l, kind)
       PROVE  ListOwned'
  <2>1. items' = NoItems /\ ~publishing' /\ UNCHANGED loops /\ \A c \in Batches : ~Running(c)
    BY <1>16, NobodyElse DEF Leave
  <2> QED
    BY <1>2, <2>1 DEF Running
<1>17. CASE StartImport
  <2>1. importer'.shown = items /\ UNCHANGED <<items, loops>> /\ \A c \in Batches : ~Running(c)
    BY <1>17, NobodyElse DEF StartImport
  <2> QED
    BY <2>1 DEF ListOwned, Running
<1>18. CASE Return
  BY <1>1, <1>18 DEF Return
<1>19. Answer => ListOwned'
  BY <1>4, <1>5, <1>6, <1>7 DEF Answer
<1>20. Continue => ListOwned'
  BY <1>8, <1>9, <1>10, <1>11, <1>12, <1>13 DEF Continue
<1>21. User => ListOwned'
  BY <1>14, <1>15, <1>16, <1>17, <1>18 DEF User
<1> QED
  BY <1>3, <1>19, <1>20, <1>21 DEF Next

\* How the list changes.
LEMMA ItemsMove ==
  ASSUME ImportInv, ListOwned, [Next]_vars, ~abandoned'
  PROVE  \/ UNCHANGED items
         \/ items' = NoItems
         \/ \E b \in Batches : StartReview(b) /\ items' = [p \in loops[b].todo |-> Fresh]
         \/ \E b \in Batches : \E p \in loops[b].todo :
              AnswersFor(b, p) /\ UNCHANGED <<publishing, leaves, importer, pending, committed, shownAck>>
         \/ ShowResults
         \/ \E p \in Paths : ToggleAck(p)
<1> DEFINE Moves ==
         \/ UNCHANGED items
         \/ items' = NoItems
         \/ \E b \in Batches : StartReview(b) /\ items' = [p \in loops[b].todo |-> Fresh]
         \/ \E b \in Batches : \E p \in loops[b].todo :
              AnswersFor(b, p) /\ UNCHANGED <<publishing, leaves, importer, pending, committed, shownAck>>
         \/ ShowResults
         \/ \E p \in Paths : ToggleAck(p)
<1>1. \A b \in Batches : StartReview(b) => Moves
  BY StartEffect DEF ImportInv
<1>2. ASSUME NEW b \in Batches,
             TakeReview(b) \/ TakeError(b) \/ \E p \in Paths : TakePreflight(b, p)
      PROVE  Moves
  <2>1. \E p \in loops[b].todo : AnswersFor(b, p)
    BY <1>2, LoopAnswers
  <2>2. UNCHANGED <<publishing, leaves, importer, pending, committed, shownAck>>
    BY <1>2 DEF TakeReview, TakeError, TakePreflight
  <2> QED
    BY <2>1, <2>2
<1>3. UNCHANGED vars => Moves
  BY DEF vars, ui
<1>4. Answer => Moves
  BY DEF Answer, Review, DiscardForBatch, DiscardForLeave, ImportCommits, ImportFails
<1>5. \A l \in Leaves : Cancelled(l) \/ Left(l) => Moves
  BY DEF Cancelled, Left
<1>6. EndImport => Moves
  BY DEF EndImport
<1>7. Continue => Moves
  BY <1>1, <1>2, <1>5, <1>6 DEF Continue
<1>8. User => Moves
  BY DEF User, ChooseFiles, Leave, StartImport, Return
<1> QED
  BY <1>3, <1>4, <1>7, <1>8 DEF Next

-----------------------------------------------------------------------------
(* Ticks. *)

\* What is ticked stays what the user saw.
LEMMA TicksStep ==
  ASSUME ImportInv, ListOwned, TicksInv, [Next]_vars, ~abandoned'
  PROVE  TicksInv'
<1>1. shownAck \subseteq shownAck'
  <2>1. UNCHANGED vars => UNCHANGED shownAck
    BY DEF vars
  <2>2. Answer => UNCHANGED shownAck
    BY DEF Answer, Review, DiscardForBatch, DiscardForLeave, ImportCommits, ImportFails
  <2>3. Continue => UNCHANGED shownAck
    BY DEF Continue, StartReview, TakePreflight, TakeReview, TakeError, Cancelled, Left,
           ShowResults, EndImport
  <2>4. User => shownAck \subseteq shownAck'
    BY DEF User, ChooseFiles, ToggleAck, Leave, StartImport, Return
  <2> QED
    BY <2>1, <2>2, <2>3, <2>4 DEF Next
<1>2. /\ DOMAIN Results = DOMAIN importer.shown
      /\ \A p \in DOMAIN importer.shown : /\ Results[p].token = importer.shown[p].token
                                          /\ Results[p].ack = importer.shown[p].ack
  BY ResultsEffect DEF ImportInv
<1>3. Acknowledged(items)'
  <2>1. UNCHANGED items => Acknowledged(items)'
    BY <1>1 DEF TicksInv, Acknowledged
  <2>2. items' = NoItems => Acknowledged(items)'
    BY ListsAre DEF Acknowledged
  <2>3. \A b \in Batches : items' = [p \in loops[b].todo |-> Fresh] => Acknowledged(items)'
    BY DEF Acknowledged, Fresh
  <2>4. ASSUME NEW b \in Batches, NEW p \in loops[b].todo, AnswersFor(b, p)
        PROVE  Acknowledged(items)'
    BY <1>1, <2>4 DEF AnswersFor, TicksInv, Acknowledged
  <2>5. ShowResults => Acknowledged(items)'
    BY <1>1, <1>2 DEF ShowResults, TicksInv, Acknowledged
  <2>6. ASSUME NEW p \in Paths, ToggleAck(p) PROVE Acknowledged(items)'
    <3>1. items \in [DOMAIN items -> Item]
      BY ListsAre DEF ImportInv, Typed
    <3>2. /\ p \in DOMAIN items /\ DOMAIN items' = DOMAIN items
          /\ \A q \in DOMAIN items : q # p => items'[q] = items[q]
          /\ items'[p].token = items[p].token /\ items'[p].ack = ~items[p].ack
          /\ shownAck' = IF items[p].ack THEN shownAck ELSE shownAck \cup {items[p].token}
      BY <2>6, <3>1 DEF ToggleAck, Item
    <3>3. items'[p].ack => items'[p].token \in shownAck'
      BY <3>2
    <3> QED
      BY <1>1, <3>2, <3>3 DEF TicksInv, Acknowledged
  <2> QED
    BY <2>1, <2>2, <2>3, <2>4, <2>5, <2>6, ItemsMove
<1>4. Acknowledged(importer.shown)'
  <2>1. importer'.shown = importer.shown => Acknowledged(importer.shown)'
    BY <1>1 DEF TicksInv, Acknowledged
  <2>2. ShowResults => Acknowledged(importer.shown)'
    BY <1>1, <1>2 DEF ShowResults, ImportInv, Typed, ImporterRecords, TicksInv, Acknowledged
  <2>3. EndImport => Acknowledged(importer.shown)'
    BY ListsAre DEF EndImport, Acknowledged
  <2>4. StartImport => Acknowledged(importer.shown)'
    BY <1>1 DEF StartImport, TicksInv, Acknowledged
  <2>5. UNCHANGED vars => Acknowledged(importer.shown)'
    BY <2>1 DEF vars, ui
  <2>6. \A p \in Paths : ImportCommits(p) \/ ImportFails(p) => importer'.shown = importer.shown
    BY ImportEffect DEF ImportInv
  <2>7. Answer => Acknowledged(importer.shown)'
    BY <2>1, <2>6 DEF Answer, Review, DiscardForBatch, DiscardForLeave
  <2>8. Continue => Acknowledged(importer.shown)'
    BY <2>1, <2>2, <2>3 DEF Continue, StartReview, TakePreflight, TakeReview, TakeError,
                            Cancelled, Left
  <2>9. User => Acknowledged(importer.shown)'
    BY <2>1, <2>4 DEF User, ChooseFiles, ToggleAck, Leave, Return
  <2> QED
    BY <2>5, <2>7, <2>8, <2>9 DEF Next
<1> QED
  BY <1>3, <1>4 DEF TicksInv

-----------------------------------------------------------------------------
(* Reviews that are held. *)

\* A handler's answer does not touch what is being discarded.
LEMMA AnswersDiscardNothing ==
  ASSUME ImportInv, NEW b \in Batches, NEW p, AnswersFor(b, p), UNCHANGED leaves, NEW t \in Tokens
  PROVE  Discarded(t)' <=> Discarded(t)
BY DEF AnswersFor, Discarded

\* A list that nobody works on goes to be discarded with all the reviews it names.
LEMMA AllDiscarded ==
  ASSUME ImportInv, HeldInv, \A b \in Batches : ~Running(b),
         NEW t \in Tokens, IsPending(t)
  PROVE  Discarded(t) \/ t \in Discardable
<1>1. ~OnItsWay(t)
  BY DEF OnItsWay, Running, Tokens
<1>2. t \notin committed
  BY DEF ImportInv, TokensInv
<1>3. ASSUME NEW p \in DOMAIN items, items[p].token = t PROVE t \in Discardable
  <2>1. items[p].token # None
    BY <1>3, ImportConstants
  <2>2. items[p].status # "imported"
    BY <1>2, <1>3 DEF ImportInv, TokensInv, ListInv, EntryInv
  <2> QED
    BY <1>3, <2>1, <2>2 DEF Discardable
<1> QED
  BY <1>1, <1>3 DEF HeldInv

\* What is held after a step that discards the list.
LEMMA HeldWhenDiscarded ==
  ASSUME ImportInv, HeldInv, \A b \in Batches : ~Running(b), UNCHANGED pending,
         \A t \in Tokens : Discarded(t) \/ t \in Discardable => Discarded(t)'
  PROVE  HeldInv'
<1>1. \A t \in Tokens : IsPending(t)' => IsPending(t)
  BY DEF IsPending
<1>2. \A s, t \in Tokens : Older(s, t)' => IsPending(s)
  BY DEF IsPending, Older
<1>3. \A t \in Tokens : IsPending(t) => Discarded(t)'
  BY AllDiscarded
<1> QED
  BY <1>1, <1>2, <1>3 DEF HeldInv

\* What is held when one review was discarded.
LEMMA HeldButOne ==
  ASSUME ImportInv, HeldInv, NEW d \in Tokens, Drop(d), UNCHANGED items,
         \A t \in Tokens : t # d => (Discarded(t)' <=> Discarded(t)),
         \A t \in Tokens : OnItsWay(t)' <=> OnItsWay(t)
  PROVE  HeldInv'
<1>1. \A t \in Tokens : ~Older(t, t)
  BY DEF ImportInv, TokensInv, Older, IsPending
<1>2. /\ \A t \in Tokens : IsPending(t)' <=> IsPending(t) /\ t # d
      /\ \A s, t \in Tokens : Older(s, t)' => Older(s, t)
  BY <1>1, DropEffect DEF ImportInv, Typed
<1>3. \A s, t \in Tokens : Older(s, t)' => IsPending(s)' /\ IsPending(t)'
  BY DEF IsPending, Older
<1> QED
  BY <1>2, <1>3 DEF HeldInv

\* A new review is on its way, and the youngest.
LEMMA HeldReview ==
  ASSUME ImportInv, ListOwned, HeldInv, NEW b \in Batches, Review(b)
  PROVE  HeldInv'
<1> DEFINE new == [batch |-> b, path |-> loops[b].at]
<1>1. /\ loops[b].step = "review" /\ loops'[b].step = "token" /\ loops'[b].at = loops[b].at
      /\ \A c \in Batches : c # b => loops'[c] = loops[c]
      /\ \A c \in Batches : loops'[c].wait = loops[c].wait
      /\ UNCHANGED <<items, leaves>>
  BY DEF ImportInv, Typed, LoopRecords, Review
<1>2. loops[b].at \in loops[b].todo /\ loops[b].at \in Paths
  BY <1>1 DEF ImportInv, HandlersInv, Typed, LoopRecords
<1>3. new \in Tokens /\ new.batch = b /\ new.path = loops[b].at
  BY <1>2 DEF Tokens
<1>4. ~Discarded(new)
  BY <1>2, <1>3 DEF ImportInv, TokensInv, Issued
<1>5. \A t \in Tokens : Discarded(t)' <=> Discarded(t)
  BY <1>1 DEF Discarded
<1>6. \A t \in Tokens : OnItsWay(t) \/ t = new => OnItsWay(t)'
  BY <1>1, <1>3 DEF OnItsWay, Tokens
<1>7. /\ \A t \in Tokens : IsPending(t)' => IsPending(t) \/ t = new
      /\ \A s, t \in Tokens : Older(s, t)' => Older(s, t) \/ (t = new /\ IsPending(s))
  BY <1>2, ReviewEffect DEF ImportInv
<1> HIDE DEF new
<1> QED
  BY <1>1, <1>4, <1>5, <1>6, <1>7 DEF HeldInv

\* Every step keeps hold of the reviews.
LEMMA HeldStep ==
  ASSUME ImportInv, ListOwned, HeldInv, [Next]_vars, ~abandoned'
  PROVE  HeldInv'
<1>0. /\ loops \in [Batches -> LoopRecords] /\ leaves \in [Leaves -> LeaveRecords]
      /\ items \in [DOMAIN items -> Item]
  BY ListsAre DEF ImportInv, Typed
<1>1. ASSUME UNCHANGED <<items, loops, pending>>,
             \A l \in Leaves : leaves'[l].wait = leaves[l].wait
      PROVE  HeldInv'
  <2>1. /\ \A t \in Tokens : Discarded(t)' <=> Discarded(t)
        /\ \A t \in Tokens : IsPending(t)' <=> IsPending(t)
        /\ \A s, t \in Tokens : Older(s, t)' <=> Older(s, t)
        /\ \A t \in Tokens : OnItsWay(t)' <=> OnItsWay(t)
    BY <1>1 DEF Discarded, IsPending, Older, OnItsWay
  <2> QED
    BY <1>1, <2>1 DEF HeldInv
<1>2. UNCHANGED vars => HeldInv'
  BY <1>1 DEF vars, ui
<1>3. ASSUME NEW b \in Batches, NEW d \in loops[b].wait, DiscardForBatch(b, d) PROVE HeldInv'
  <2>1. d \in Tokens
    BY <1>0 DEF LoopRecords
  <2>2. UNCHANGED <<items, leaves>> /\ Drop(d)
    BY <1>3 DEF DiscardForBatch
  <2>3. \A t \in Tokens : t # d => (Discarded(t)' <=> Discarded(t))
    BY <1>3, <2>2, DiscardForBatchEffect DEF ImportInv, Discarded
  <2>4. \A t \in Tokens : OnItsWay(t)' <=> OnItsWay(t)
    BY <1>3, DiscardForBatchEffect DEF ImportInv, OnItsWay, Tokens
  <2> QED
    BY <2>1, <2>2, <2>3, <2>4, HeldButOne
<1>4. ASSUME NEW l \in Leaves, NEW d \in leaves[l].wait, DiscardForLeave(l, d) PROVE HeldInv'
  <2>1. d \in Tokens
    BY <1>0 DEF LeaveRecords
  <2>2. UNCHANGED <<items, loops>> /\ Drop(d)
    BY <1>4 DEF DiscardForLeave
  <2>3. \A t \in Tokens : t # d => (Discarded(t)' <=> Discarded(t))
    BY <1>4, <2>2, DiscardForLeaveEffect DEF ImportInv, Discarded
  <2>4. \A t \in Tokens : OnItsWay(t)' <=> OnItsWay(t)
    BY <2>2 DEF OnItsWay
  <2> QED
    BY <2>1, <2>2, <2>3, <2>4, HeldButOne
<1>5. ASSUME NEW p \in Paths, ImportCommits(p) \/ ImportFails(p) PROVE HeldInv'
  <2>1. UNCHANGED <<items, loops, leaves>>
    BY <1>5 DEF ImportCommits, ImportFails
  <2>2. ASSUME NEW b \in Batches, Review(b) PROVE FALSE
    <3>1. loops[b].step = "review" /\ loops'[b].step = "token"
      BY <1>0, <2>2 DEF Review, LoopRecords
    <3> QED
      BY <2>1, <3>1
  <2>3. /\ \A t \in Tokens : IsPending(t)' => IsPending(t)
        /\ \A s, t \in Tokens : Older(s, t)' => Older(s, t)
    BY <2>2, PendingStep DEF ImportInv
  <2>4. \A t \in Tokens : Discarded(t)' <=> Discarded(t)
    BY <2>1 DEF Discarded
  <2>5. \A t \in Tokens : OnItsWay(t)' <=> OnItsWay(t)
    BY <2>1 DEF OnItsWay
  <2> QED
    BY <2>1, <2>3, <2>4, <2>5 DEF HeldInv
<1>6. ASSUME NEW b \in Batches, StartReview(b) PROVE HeldInv'
  <2>1. loops[b].step = "clearing" /\ loops[b].wait = {} /\ UNCHANGED <<leaves, pending>>
    BY <1>6 DEF StartReview
  <2>2. DOMAIN items = {} /\ \A c \in Batches \ {b} : ~Running(c)
    BY <1>6, <2>1, NobodyElse DEF ListOwned
  <2>3. \A c \in Batches : loops'[c].wait = loops[c].wait
    BY <1>6, <2>1, StartEffect DEF ImportInv
  <2>4. \A t \in Tokens : ~OnItsWay(t)
    BY <2>1, <2>2 DEF OnItsWay, Running, Tokens
  <2>5. /\ \A t \in Tokens : Discarded(t)' <=> Discarded(t)
        /\ \A t \in Tokens : IsPending(t)' <=> IsPending(t)
        /\ \A s, t \in Tokens : Older(s, t)' <=> Older(s, t)
    BY <2>1, <2>3 DEF Discarded, IsPending, Older
  <2> QED
    BY <2>2, <2>4, <2>5 DEF HeldInv
<1>7. ASSUME NEW b \in Batches,
             TakeReview(b) \/ TakeError(b) \/ \E p \in Paths : TakePreflight(b, p)
      PROVE  HeldInv'
  <2>1. PICK p \in loops[b].todo : AnswersFor(b, p)
    BY <1>7, LoopAnswers
  <2>2. UNCHANGED <<leaves, pending>>
    BY <1>7 DEF TakeReview, TakeError, TakePreflight
  <2>3. /\ \A t \in Tokens : Discarded(t)' <=> Discarded(t)
        /\ \A t \in Tokens : IsPending(t)' <=> IsPending(t)
        /\ \A s, t \in Tokens : Older(s, t)' <=> Older(s, t)
    BY <2>1, <2>2, AnswersDiscardNothing DEF IsPending, Older
  <2>4. ASSUME NEW t \in Tokens, OnItsWay(t) PROVE p \in DOMAIN items' /\ items'[p].token = t
    <3>1. t.batch = b /\ t = [batch |-> t.batch, path |-> t.path]
      BY <2>1, <2>4, TheLoop DEF AnswersFor, OnItsWay, Running, Tokens
    <3>2. loops[b].step = "token" /\ loops[b].at = t.path
      BY <2>4, <3>1 DEF OnItsWay
    <3> QED
      BY <2>1, <3>1, <3>2 DEF AnswersFor
  <2>5. ASSUME NEW t \in Tokens, NEW q \in DOMAIN items, items[q].token = t
        PROVE  q \in DOMAIN items' /\ items'[q].token = t
    <3>1. q # p
      BY <2>1, <2>5, ImportConstants DEF AnswersFor, Fresh
    <3> QED
      BY <2>1, <2>5, <3>1 DEF AnswersFor
  <2> QED
    BY <2>3, <2>4, <2>5 DEF HeldInv
<1>8. ASSUME NEW l \in Leaves, Cancelled(l) PROVE HeldInv'
  <2>1. UNCHANGED <<loops, pending>> /\ leaves[l].wait = {}
    BY <1>8 DEF Cancelled
  <2>2. CASE publishing
    <3>1. UNCHANGED items /\ leaves' = [leaves EXCEPT ![l].kind = "none"]
      BY <1>8, <2>2 DEF Cancelled
    <3>2. \A m \in Leaves : leaves'[m].wait = leaves[m].wait
      BY <1>0, <3>1 DEF LeaveRecords
    <3> QED
      BY <1>1, <2>1, <3>1, <3>2
  <2>3. CASE ~publishing
    <3>1. /\ \A m \in Leaves : m # l => leaves'[m] = leaves[m]
          /\ leaves'[l].wait = Discardable /\ Abandon
      BY <1>0, <1>8, <2>3 DEF Cancelled
    <3>2. \A t \in Tokens : Discarded(t) \/ t \in Discardable => Discarded(t)'
      BY <2>1, <3>1 DEF Discarded
    <3>3. \A b \in Batches : ~Running(b)
      BY <3>1 DEF Abandon
    <3> QED
      BY <2>1, <3>2, <3>3, HeldWhenDiscarded
  <2> QED
    BY <2>2, <2>3
<1>9. ASSUME NEW l \in Leaves, Left(l) PROVE HeldInv'
  <2>1. \A m \in Leaves : leaves'[m].wait = leaves[m].wait
    BY <1>0, <1>9 DEF LeaveRecords, Left
  <2> QED
    BY <1>1, <1>9, <2>1 DEF Left
<1>10. CASE ShowResults
  <2>1. items' = Results /\ UNCHANGED <<loops, leaves, pending>> /\ publishing
    BY <1>10 DEF ShowResults, ImportInv, HandlersInv
  <2>2. \A p \in DOMAIN items : p \in DOMAIN items' /\ items'[p].token = items[p].token
    BY <2>1, ResultsEffect DEF ImportInv, ListOwned
  <2>3. /\ \A t \in Tokens : Discarded(t)' <=> Discarded(t)
        /\ \A t \in Tokens : IsPending(t)' <=> IsPending(t)
        /\ \A s, t \in Tokens : Older(s, t)' <=> Older(s, t)
        /\ \A t \in Tokens : OnItsWay(t)' <=> OnItsWay(t)
    BY <2>1 DEF Discarded, IsPending, Older, OnItsWay
  <2> QED
    BY <2>2, <2>3 DEF HeldInv
<1>11. CASE EndImport
  <2>1. UNCHANGED <<loops, leaves, pending>> /\ publishing
    BY <1>11 DEF EndImport, ImportInv, HandlersInv
  <2>2. CASE ~ \A p \in DOMAIN importer.shown : importer.shown[p].status = "imported"
    BY <1>1, <1>11, <2>1, <2>2 DEF EndImport
  <2>3. CASE \A p \in DOMAIN importer.shown : importer.shown[p].status = "imported"
    <3>1. Discardable = {}
      BY <2>1, <2>3 DEF ListOwned, Discardable
    <3>2. \A t \in Tokens : Discarded(t)' <=> Discarded(t)
      BY <2>1 DEF Discarded
    <3> QED
      BY <2>1, <3>1, <3>2, HeldWhenDiscarded DEF ListOwned
  <2> QED
    BY <2>2, <2>3
<1>12. ASSUME NEW b \in Batches, ChooseFiles(b) PROVE HeldInv'
  <2>1. /\ UNCHANGED <<leaves, pending>> /\ loops[b].step = "unused"
        /\ \A c \in Batches : ~Running(c)
    BY <1>12, NobodyElse DEF ChooseFiles
  <2>2. loops[b].wait = {}
    BY <2>1 DEF ImportInv, HandlersInv
  <2>3. /\ \A c \in Batches : c # b => loops'[c] = loops[c]
        /\ loops'[b].wait = Discardable
    BY <1>12, ChooseEffect DEF ImportInv
  <2>4. \A t \in Tokens : Discarded(t) \/ t \in Discardable => Discarded(t)'
    BY <2>1, <2>2, <2>3 DEF Discarded
  <2> QED
    BY <2>1, <2>4, HeldWhenDiscarded
<1>13. ASSUME NEW p \in Paths, ToggleAck(p) PROVE HeldInv'
  <2>1. UNCHANGED <<loops, leaves, pending>>
    BY <1>13 DEF ToggleAck
  <2>2. \A q \in DOMAIN items : q \in DOMAIN items' /\ items'[q].token = items[q].token
    BY <1>0, <1>13 DEF ToggleAck, Item
  <2>3. /\ \A t \in Tokens : Discarded(t)' <=> Discarded(t)
        /\ \A t \in Tokens : IsPending(t)' <=> IsPending(t)
        /\ \A s, t \in Tokens : Older(s, t)' <=> Older(s, t)
        /\ \A t \in Tokens : OnItsWay(t)' <=> OnItsWay(t)
    BY <2>1 DEF Discarded, IsPending, Older, OnItsWay
  <2> QED
    BY <2>2, <2>3 DEF HeldInv
<1>14. ASSUME NEW l \in Leaves, NEW kind \in {"cancel", "navigate"}, Leave(l, kind)
       PROVE  HeldInv'
  <2>1. /\ UNCHANGED <<loops, pending>> /\ leaves[l].kind = "none"
        /\ \A c \in Batches : ~Running(c)
    BY <1>14, NobodyElse DEF Leave
  <2>2. leaves[l].wait = {}
    BY <2>1 DEF ImportInv, HandlersInv
  <2>3. /\ \A m \in Leaves : m # l => leaves'[m] = leaves[m]
        /\ leaves'[l].wait = Discardable
    BY <1>0, <1>14 DEF Leave
  <2>4. \A t \in Tokens : Discarded(t) \/ t \in Discardable => Discarded(t)'
    BY <2>1, <2>2, <2>3 DEF Discarded
  <2> QED
    BY <2>1, <2>4, HeldWhenDiscarded
<1>15. CASE StartImport \/ Return
  BY <1>1, <1>15 DEF StartImport, Return
<1>16. Answer => HeldInv'
  BY <1>3, <1>4, <1>5, HeldReview DEF Answer
<1>17. Continue => HeldInv'
  BY <1>6, <1>7, <1>8, <1>9, <1>10, <1>11 DEF Continue
<1>18. User => HeldInv'
  BY <1>12, <1>13, <1>14, <1>15 DEF User
<1> QED
  BY <1>2, <1>16, <1>17, <1>18 DEF Next

-----------------------------------------------------------------------------
(* Reviews that are kept. *)

\* What is evicted is none of a list that there is room for.
LEMMA RoomEnough ==
  ASSUME ImportInv, ListOwned, HeldInv, NEW b \in Batches, Review(b),
         Cardinality(DOMAIN items) <= PendingLimit,
         NEW q \in DOMAIN items, NEW t \in Tokens, items[q].token = t, IsPending(t)
  PROVE  IsPending(t)'
<1>1. /\ loops[b].step = "review" /\ loops[b].at \in loops[b].todo /\ loops[b].at \in Paths
      /\ pending \in Seq(Tokens) /\ Len(pending) \in Nat /\ DOMAIN pending = 1..Len(pending)
  BY LenProperties DEF Review, ImportInv, HandlersInv, Typed, LoopRecords
<1>2. /\ \A c \in Batches \ {b} : ~Running(c)
      /\ loops[b].at \in DOMAIN items /\ items[loops[b].at] = Fresh
  BY <1>1, TheLoop
<1>3. IsFiniteSet(DOMAIN items) /\ Cardinality(DOMAIN items) \in Nat
  BY ListsAre, ImportConstants, FS_Subset, FS_CardinalityType DEF ImportInv, Typed, IsList
<1>4. PICK i \in DOMAIN pending : pending[i] = t
  BY DEF IsPending
<1> DEFINE from == i..Len(pending)
           to == DOMAIN items \ {loops[b].at}
           f == [j \in from |-> pending[j].path]
<1>5. ASSUME NEW j \in from
      PROVE  /\ pending[j] \in Tokens /\ pending[j].path \in to
             /\ items[pending[j].path].token = pending[j]
  <2>1. pending[j] \in Tokens /\ j \in DOMAIN pending
    BY <1>1, <1>4, <1>5, ElementOfSeq
  <2>2. IsPending(pending[j])
    BY <2>1 DEF IsPending
  <2>3. ~Discarded(t)
    BY ImportConstants DEF ImportInv, TokensInv, ListInv, EntryInv
  <2>4. j = i \/ Older(t, pending[j])
    BY <1>1, <1>4, <1>5, <2>1 DEF Older
  <2>5. ~Discarded(pending[j])
    BY <1>4, <2>1, <2>3, <2>4 DEF HeldInv
  <2>6. ~OnItsWay(pending[j])
    BY <1>1, <1>2, <2>1 DEF OnItsWay, Running, Tokens
  <2>7. PICK p \in DOMAIN items : items[p].token = pending[j]
    BY <2>1, <2>2, <2>5, <2>6 DEF HeldInv
  <2>8. pending[j].path = p
    BY <2>1, <2>7, ImportConstants DEF ImportInv, TokensInv, ListInv, EntryInv
  <2>9. p # loops[b].at
    BY <1>2, <2>1, <2>7, ImportConstants DEF Fresh
  <2> QED
    BY <2>1, <2>7, <2>8, <2>9
<1>6. f \in [from -> to]
  BY <1>5
<1>7. ASSUME NEW j \in from, NEW k \in from, f[j] = f[k] PROVE j = k
  <2>1. pending[j] = pending[k] /\ pending[j] \in Tokens
    BY <1>5, <1>7
  <2>2. j \in DOMAIN pending /\ k \in DOMAIN pending
    BY <1>1, <1>4, <1>7
  <2>3. IsPending(pending[j]) /\ (j < k \/ k < j => Older(pending[j], pending[j]))
    BY <2>1, <2>2 DEF IsPending, Older
  <2>4. ~Older(pending[j], pending[j])
    BY <2>1, <2>3 DEF ImportInv, TokensInv
  <2> QED
    BY <1>1, <1>4, <1>7, <2>3, <2>4
<1>8. IsFiniteSet(to) /\ Cardinality(to) = Cardinality(DOMAIN items) - 1
  BY <1>2, <1>3, FS_RemoveElement
<1>9. IsFiniteSet(from) /\ Cardinality(from) = Len(pending) - i + 1
  BY <1>1, <1>4, FS_Interval
<1> HIDE DEF from, to, f
<1>10. ~(Cardinality(to) < Cardinality(from))
  BY <1>6, <1>7, <1>8, <1>9, FS_PigeonHole
<1>11. i > Len(pending) - PendingLimit + 1
  BY <1>1, <1>3, <1>4, <1>8, <1>9, <1>10, ImportConstants
<1> QED
  BY <1>1, <1>4, <1>11, ReviewEffect DEF ImportInv

\* A review on its way is not dropped.
LEMMA AnswersKept ==
  ASSUME ImportInv, ListOwned, KeptInv, [Next]_vars, ~abandoned',
         NEW b \in Batches, loops'[b].step = "token",
         NEW t, t = [batch |-> b, path |-> loops'[b].at]
  PROVE  IsPending(t)'
<1>1. loops \in [Batches -> LoopRecords]
  BY DEF ImportInv, Typed
<1>2. ASSUME UNCHANGED <<loops, pending>> PROVE IsPending(t)'
  BY <1>2 DEF KeptInv, IsPending
<1>3. UNCHANGED vars => IsPending(t)'
  BY <1>2 DEF vars, ui
<1>4. ASSUME NEW d, Drop(d), Discarded(d), loops[b].step = "token", loops[b].at = loops'[b].at
      PROVE  IsPending(t)'
  <2>1. loops[b].at \in loops[b].todo /\ loops[b].at \in Paths
    BY <1>1, <1>4 DEF ImportInv, HandlersInv, LoopRecords
  <2>2. t \in Tokens /\ t.batch = b /\ t.path = loops[b].at /\ IsPending(t)
    BY <1>4, <2>1 DEF KeptInv, Tokens
  <2>3. \A s \in Tokens : ~Older(s, s)
    BY DEF ImportInv, TokensInv, Older, IsPending
  <2>4. ~Discarded(t)
    BY <2>1, <2>2 DEF ImportInv, TokensInv, Issued
  <2> QED
    BY <1>4, <2>2, <2>3, <2>4, DropEffect DEF ImportInv, Typed
<1>5. ASSUME NEW c \in Batches, Review(c) PROVE IsPending(t)'
  <2>1. /\ loops[c].step = "review" /\ \A a \in Batches : a # c => loops'[a] = loops[a]
        /\ loops'[c].at = loops[c].at
    BY <1>1, <1>5 DEF Review, LoopRecords
  <2>2. c = b
    BY <2>1, TheLoop DEF Running
  <2>3. loops[b].at \in Paths
    BY <1>1, <2>1, <2>2 DEF ImportInv, HandlersInv, LoopRecords
  <2>4. t \in Tokens /\ t = [batch |-> b, path |-> loops[b].at]
    BY <2>1, <2>2, <2>3 DEF Tokens
  <2> QED
    BY <1>5, <2>2, <2>3, <2>4, ReviewEffect DEF ImportInv
<1>6. ASSUME NEW c \in Batches, NEW d \in loops[c].wait, DiscardForBatch(c, d)
      PROVE  IsPending(t)'
  BY <1>4, <1>6, DiscardForBatchEffect DEF ImportInv, DiscardForBatch, Discarded
<1>7. ASSUME NEW l \in Leaves, NEW d \in leaves[l].wait, DiscardForLeave(l, d)
      PROVE  IsPending(t)'
  BY <1>4, <1>7 DEF DiscardForLeave, Discarded
<1>8. ASSUME NEW p \in Paths, ImportCommits(p) \/ ImportFails(p) PROVE FALSE
  BY <1>8 DEF ImportCommits, ImportFails, ImportInv, HandlersInv, ListOwned, Running
<1>9. ASSUME NEW c \in Batches, StartReview(c) PROVE FALSE
  BY <1>9, NobodyElse, StartEffect DEF ImportInv, Running
<1>10. ASSUME NEW c \in Batches,
              TakeReview(c) \/ TakeError(c) \/ \E p \in Paths : TakePreflight(c, p)
       PROVE  FALSE
  <2>1. PICK p \in loops[c].todo : AnswersFor(c, p)
    BY <1>10, LoopAnswers
  <2> QED
    BY <2>1, TheLoop DEF AnswersFor, Running
<1>11. ASSUME NEW c \in Batches, ChooseFiles(c) PROVE FALSE
  BY <1>11, NobodyElse, ChooseEffect DEF ImportInv, Running
<1>12. Answer => IsPending(t)'
  BY <1>5, <1>6, <1>7, <1>8 DEF Answer
<1>13. Continue => IsPending(t)'
  BY <1>2, <1>9, <1>10 DEF Continue, Cancelled, Left, ShowResults, EndImport
<1>14. User => IsPending(t)'
  BY <1>2, <1>11 DEF User, ToggleAck, Leave, StartImport, Return
<1> QED
  BY <1>3, <1>12, <1>13, <1>14 DEF Next

\* A review that is listed is dropped only by an import that was asked for it.
LEMMA ListedKept ==
  ASSUME ImportInv, ListOwned, HeldInv, [Next]_vars,
         NEW p \in DOMAIN items, items[p].token # None,
         ~(importer.step = "import" /\ p \in Importables(importer.shown)),
         Cardinality(DOMAIN items) <= PendingLimit,
         NEW t \in Tokens, t = items[p].token, IsPending(t)
  PROVE  IsPending(t)'
<1>1. t.path = p /\ ~Discarded(t)
  BY DEF ImportInv, TokensInv, ListInv, EntryInv
<1>2. UNCHANGED pending => IsPending(t)'
  BY DEF IsPending
<1>3. ASSUME NEW d, Drop(d), t # d PROVE IsPending(t)'
  <2>1. \A s \in Tokens : ~Older(s, s)
    BY DEF ImportInv, TokensInv, Older, IsPending
  <2> QED
    BY <1>3, <2>1, DropEffect DEF ImportInv, Typed
<1>4. ASSUME NEW q \in Paths, ImportCommits(q) \/ ImportFails(q) PROVE IsPending(t)'
  <2>1. importer.step = "import" /\ q \in Importables(importer.shown)
    BY <1>4, ImportEffect DEF ImportInv, HandlersInv
  <2>2. q # p /\ importer.shown[q].token # None /\ q \in DOMAIN importer.shown
    BY <2>1 DEF Importables
  <2>3. importer.shown[q].token.path = q
    BY <2>2 DEF ImportInv, TokensInv, ListInv, EntryInv
  <2>4. t # importer.shown[q].token
    BY <1>1, <2>2, <2>3
  <2> QED
    BY <1>2, <1>3, <1>4, <2>4 DEF ImportCommits, ImportFails
<1>5. Answer => IsPending(t)'
  <2>1. \A b \in Batches : Review(b) => IsPending(t)'
    BY RoomEnough
  <2>2. \A b \in Batches : \A d \in loops[b].wait : DiscardForBatch(b, d) => IsPending(t)'
    BY <1>1, <1>3 DEF DiscardForBatch, Discarded
  <2>3. \A l \in Leaves : \A d \in leaves[l].wait : DiscardForLeave(l, d) => IsPending(t)'
    BY <1>1, <1>3 DEF DiscardForLeave, Discarded
  <2> QED
    BY <1>4, <2>1, <2>2, <2>3 DEF Answer
<1>6. UNCHANGED vars => IsPending(t)'
  BY <1>2 DEF vars
<1>7. Continue => IsPending(t)'
  BY <1>2 DEF Continue, StartReview, TakePreflight, TakeReview, TakeError, Cancelled, Left,
              ShowResults, EndImport
<1>8. User => IsPending(t)'
  BY <1>2 DEF User, ChooseFiles, ToggleAck, Leave, StartImport, Return
<1> QED
  BY <1>5, <1>6, <1>7, <1>8 DEF Next

\* The reviews of the list are there after every step of the list.
LEMMA ListKept ==
  ASSUME ImportInv, ListOwned, HeldInv, KeptInv, [Next]_vars, ~abandoned',
         Cardinality(DOMAIN items') <= PendingLimit,
         NEW p \in DOMAIN items', items'[p].status = "reviewed",
         ~(importer'.step = "import" /\ p \in Importables(importer'.shown))
  PROVE  /\ items'[p].token \in Tokens
         /\ \A t \in Tokens : t = items'[p].token => IsPending(t)'
<1> DEFINE Goal == \A t \in Tokens : t = items'[p].token => IsPending(t)'
<1>1. items'[p].token \in Tokens
  BY ImportInvStep, ListsAre DEF ImportInv, Typed, Item, TokensInv, ListInv, EntryInv
<1>2. ASSUME p \in DOMAIN items, items[p].status = "reviewed",
             items[p].token = items'[p].token, DOMAIN items' = DOMAIN items,
             ~(importer.step = "import" /\ p \in Importables(importer.shown))
      PROVE  Goal
  BY <1>1, <1>2, ListedKept, ImportConstants DEF KeptInv
<1>3. importer.step = "import" =>
        ShowResults \/ (importer'.step = "import" /\ importer'.shown = importer.shown)
  <2> DEFINE Stays == importer'.step = "import" /\ importer'.shown = importer.shown
  <2>1. UNCHANGED importer /\ importer.step = "import" => Stays
    OBVIOUS
  <2>2. \A q \in Paths : ImportCommits(q) \/ ImportFails(q) => Stays
    BY ImportEffect DEF ImportInv
  <2>3. UNCHANGED vars => UNCHANGED importer
    BY DEF vars, ui
  <2>4. Answer => UNCHANGED importer \/ Stays
    BY <2>2 DEF Answer, Review, DiscardForBatch, DiscardForLeave
  <2>5. Continue /\ importer.step = "import" => UNCHANGED importer \/ ShowResults
    BY DEF Continue, StartReview, TakePreflight, TakeReview, TakeError, Cancelled, Left, EndImport
  <2>6. User /\ importer.step = "import" => UNCHANGED importer
    BY DEF ImportInv, HandlersInv, User, ChooseFiles, ToggleAck, Leave, StartImport, Return
  <2> QED
    BY <2>1, <2>3, <2>4, <2>5, <2>6 DEF Next
<1>4. ASSUME ShowResults PROVE Goal
  <2>1. items' = Results /\ publishing
    BY <1>4 DEF ShowResults, ImportInv, HandlersInv
  <2>2. DOMAIN Results = DOMAIN importer.shown
    BY ResultsEffect DEF ImportInv
  <2>3. /\ p \in DOMAIN importer.shown
        /\ p \notin Importables(importer.shown)
        /\ Results[p].token = importer.shown[p].token
        /\ importer.shown[p].status = "reviewed"
    BY <2>1, <2>2, ResultsEffect DEF ImportInv
  <2>4. /\ DOMAIN items' = DOMAIN items /\ p \in DOMAIN items
        /\ items[p].status = "reviewed" /\ items[p].token = items'[p].token
    BY <2>1, <2>2, <2>3 DEF ListOwned
  <2> QED
    BY <1>2, <2>3, <2>4
<1>5. ~ShowResults /\ UNCHANGED items => Goal
  BY <1>2, <1>3
<1>6. items' = NoItems => Goal
  BY ListsAre
<1>7. \A b \in Batches : items' = [q \in loops[b].todo |-> Fresh] => Goal
  BY DEF Fresh
<1>8. ASSUME NEW b \in Batches, NEW q \in loops[b].todo, AnswersFor(b, q),
             UNCHANGED <<importer, pending>>
      PROVE  Goal
  <2>1. CASE p = q
    <3>1. q = loops[b].at /\ loops[b].step = "token"
      BY <1>8, <2>1 DEF AnswersFor
    <3>2. items'[p].token = [batch |-> b, path |-> loops[b].at]
      BY <1>8, <2>1, <3>1 DEF AnswersFor
    <3>3. \A t \in Tokens : t = items'[p].token => IsPending(t)
      BY <3>1, <3>2 DEF KeptInv
    <3> QED
      BY <1>8, <3>3 DEF IsPending
  <2>2. CASE p # q
    BY <1>2, <1>8, <2>2 DEF AnswersFor
  <2> QED
    BY <2>1, <2>2
<1>9. ASSUME NEW q \in Paths, ToggleAck(q) PROVE Goal
  <2>1. items \in [DOMAIN items -> Item]
    BY ListsAre DEF ImportInv, Typed
  <2>2. /\ DOMAIN items' = DOMAIN items /\ UNCHANGED importer
        /\ items'[p].status = items[p].status /\ items'[p].token = items[p].token
    BY <1>9, <2>1 DEF ToggleAck, Item
  <2> QED
    BY <1>2, <2>2
<1>10. Goal
  <2> HIDE DEF Goal
  <2>1. \A b \in Batches : \A q \in loops[b].todo :
          AnswersFor(b, q) /\ UNCHANGED <<publishing, leaves, importer, pending, committed, shownAck>>
            => Goal
    BY <1>8
  <2> QED
    BY <1>4, <1>5, <1>6, <1>7, <1>9, <2>1, ItemsMove
<1> QED
  BY <1>1, <1>10

\* Every step keeps the reviews that are needed.
LEMMA KeptStep ==
  ASSUME ImportInv, ListOwned, HeldInv, KeptInv, [Next]_vars, ~abandoned'
  PROVE  KeptInv'
<1>1. ASSUME NEW b \in Batches, loops'[b].step = "token"
      PROVE  IsPending([batch |-> b, path |-> loops[b].at])'
  BY <1>1, AnswersKept
<1>2. ASSUME Cardinality(DOMAIN items') <= PendingLimit, NEW p \in DOMAIN items',
             items'[p].status = "reviewed",
             ~(importer'.step = "import" /\ p \in Importables(importer'.shown))
      PROVE  IsPending(items[p].token)'
  BY <1>2, ListKept
<1> QED
  BY <1>1, <1>2 DEF KeptInv

-----------------------------------------------------------------------------

\* The invariant holds at first,
LEMMA ReviewInit == Init => ReviewIInv
<1> SUFFICES ASSUME Init PROVE CleanInv
  BY ImportInvInit DEF ReviewIInv
<1>1. /\ DOMAIN items = {} /\ DOMAIN importer.shown = {} /\ ~publishing
      /\ \A b \in Batches : ~Running(b) /\ loops[b].step = "unused"
      /\ \A t \in Tokens : ~IsPending(t)
  BY ListsAre, EmptySeq DEF Init, Running, IsPending
<1>2. \A s, t \in Tokens : ~Older(s, t)
  BY <1>1 DEF Older, IsPending
<1>3. ListOwned /\ TicksInv /\ HeldInv /\ KeptInv
  BY <1>1, <1>2 DEF ListOwned, TicksInv, Acknowledged, HeldInv, KeptInv
<1> QED
  BY <1>3 DEF CleanInv

\* and every step keeps it.
LEMMA ReviewStep == ReviewIInv /\ [Next]_vars => ReviewIInv'
<1> SUFFICES ASSUME ReviewIInv, [Next]_vars PROVE ReviewIInv'
  OBVIOUS
<1>1. ImportInv /\ ImportInv'
  BY ImportInvStep DEF ReviewIInv
<1>2. ~abandoned' => CleanInv
  BY <1>1, NobodyElse DEF ReviewIInv
<1>3. ~abandoned' => CleanInv'
  BY <1>1, <1>2, OwnedStep, TicksStep, HeldStep, KeptStep DEF CleanInv
<1> QED
  BY <1>1, <1>3 DEF ReviewIInv

\* In every behaviour, a list that is not replaced or captured during its review has
\* one owner, and every review is on its way, listed, or being discarded (app.js
\* 52788-52866, 54118-54124).
THEOREM ReviewInvariant == Spec => []ReviewIInv
BY ReviewInit, ReviewStep, PTL DEF Spec

\* As long as no list was replaced or captured during its review, what the back end
\* holds in private staging is on its way to the list, listed, or being discarded:
\* leaving the page or choosing other files gives every extracted archive back
\* (app.js 54118-54124).
THEOREM StagingGivenBack == Spec => []NothingLeaks
<1>1. ReviewIInv => NothingLeaks
  <2> SUFFICES ASSUME ReviewIInv, ~abandoned, NEW t \in Orphans PROVE FALSE
    BY DEF NothingLeaks
  <2>1. \E i \in DOMAIN pending : pending[i] = t
    BY DEF Orphans, ToSet
  <2>2. t \in Tokens /\ IsPending(t)
    BY <2>1, LenProperties, ElementOfSeq DEF ReviewIInv, ImportInv, Typed, IsPending
  <2>3. OnItsWay(t) \/ Discarded(t) \/ \E p \in DOMAIN items : items[p].token = t
    BY <2>2 DEF ReviewIInv, CleanInv, HeldInv
  <2>4. t = [batch |-> t.batch, path |-> t.path] /\ t.batch \in Batches
    BY <2>2 DEF Tokens
  <2> QED
    BY <2>3, <2>4 DEF Orphans, OnItsWay, Discarded
<1> QED
  BY <1>1, ReviewInvariant, PTL

\* An archive that is listed as ready can be imported, if the list is not longer than
\* what the back end keeps: its review was not evicted, whatever else takes up room
\* (desktop.rs 1216-1247).
THEOREM ReadyKept == Spec => []ReadyIsKept
<1>1. ReviewIInv => ReadyIsKept
  BY DEF ReviewIInv, CleanInv, KeptInv, ImportInv, HandlersInv, ReadyIsKept, Ready, Importables
<1> QED
  BY <1>1, ReviewInvariant, PTL

\* The acknowledgement that is sent for an archive with executable payload is one of
\* the review it names: a tick does not carry over to a later review of the same path
\* (app.js 52838-52866).
THEOREM AckMatchesShown == Spec => []AckIsForShown
<1>1. ReviewIInv => AckIsForShown
  BY DEF ReviewIInv, CleanInv, TicksInv, Acknowledged, ImportInv, Typed, ImporterRecords,
         HandlersInv, Importables, AckIsForShown
<1> QED
  BY <1>1, ReviewInvariant, PTL

================================================================================
