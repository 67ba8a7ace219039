-------------------------- MODULE ArchiveImportProofs --------------------------
(***************************************************************************)
(* For every set of archives and selections, and every limit: the list of  *)
(* the "Add mods" page and the reviews of the back end stay in step.       *)
(*                                                                         *)
(* Results, late answers and replaced lists cannot list an archive as      *)
(* imported that is not, and no review is discarded while it is imported.  *)
(***************************************************************************)
EXTENDS ArchiveImport, SequenceTheorems, FiniteSetTheorems, TLAPS

(* The inductive invariant. *)

Lists == UNION {[D -> Item] : D \in SUBSET Paths}

LoopRecords == [step : LoopSteps, todo : SUBSET Paths,
                at : Paths \cup {None}, wait : SUBSET Tokens]

LeaveRecords == [kind : {"none", "cancel", "navigate"}, wait : SUBSET Tokens]

ImporterRecords == [step : {"idle", "import", "refresh"}, todo : SUBSET Paths,
                    shown : Lists, done : SUBSET Paths]

\* TypeOK, and that a list is a function and the importer a record.
Typed ==
  /\ page \in {"archive", "library"}
  /\ items \in Lists
  /\ publishing \in BOOLEAN
  /\ loops \in [Batches -> LoopRecords]
  /\ leaves \in [Leaves -> LeaveRecords]
  /\ importer \in ImporterRecords
  /\ importer.todo \cup importer.done \subseteq DOMAIN importer.shown
  /\ pending \in Seq(Tokens)
  /\ committed \subseteq Tokens
  /\ shownAck \subseteq Tokens
  /\ abandoned \in BOOLEAN

\* A handler waits for discards only where it began them, and reviews what is left.
HandlersInv ==
  /\ \A b \in Batches :
       /\ loops[b].step \in {"review", "token"} => loops[b].at \in loops[b].todo
       /\ loops[b].step # "clearing" => loops[b].wait = {}
  /\ \A l \in Leaves : leaves[l].kind = "none" => leaves[l].wait = {}
  /\ publishing <=> importer.step # "idle"
  /\ importer.step = "idle" => importer.shown = NoItems
  /\ importer.step = "import" => importer.todo \subseteq Importables(importer.shown)

\* The loop of the batch has had this review, and will not ask for it again.
Issued(t) ==
  /\ loops[t.batch].step \notin {"unused", "clearing"}
  /\ t.path \notin loops[t.batch].todo

\* The review was made, and its answer is on the way to the loop.
OnItsWay(t) == loops[t.batch].step = "token" /\ loops[t.batch].at = t.path

Discarded(t) ==
  \/ \E b \in Batches : t \in loops[b].wait
  \/ \E l \in Leaves : t \in leaves[l].wait

\* The one was made before the other.
Older(s, t) == \E i, j \in DOMAIN pending : i < j /\ pending[i] = s /\ pending[j] = t

\* An entry names a review it was given, of its own archive, that is not being
\* discarded.  An archive listed as imported is in the library.
EntryInv(p, entry) ==
  /\ entry.status \in {"reviewed", "blocked", "imported"} => entry.token # None
  /\ entry.token # None =>
       entry.token.path = p /\ Issued(entry.token) /\ ~Discarded(entry.token)
  /\ entry.status = "imported" => entry.token \in committed

ListInv(list) == \A p \in DOMAIN list : EntryInv(p, list[p])

\* A review is held once, and no more when it is in the library.
TokensInv ==
  /\ ListInv(items)
  /\ ListInv(importer.shown)
  /\ \A p \in importer.done : importer.shown[p].token \in committed \ {None}
  /\ \A t \in Tokens : Discarded(t) \/ t \in committed => Issued(t)
  /\ \A t \in Tokens : IsPending(t) =>
       (Issued(t) \/ OnItsWay(t)) /\ t \notin committed /\ ~Older(t, t)

Fresh == [status |-> "preflight", token |-> None, ack |-> FALSE]

-----------------------------------------------------------------------------
(* What the operators of the model do. *)

\* A list is a function from archives to entries.
LEMMA ListsAre ==
  /\ NoItems \in Lists /\ DOMAIN NoItems = {}
  /\ \A list \in Lists : IsList(list) /\ list \in [DOMAIN list -> Item]
  /\ \A D \in SUBSET Paths : \A f \in [D -> Item] : f \in Lists
<1>1. \A D \in SUBSET Paths : \A f \in [D -> Item] : f \in Lists
  BY DEF Lists
<1>2. DOMAIN NoItems = {} /\ NoItems \in [{} -> Item]
  BY DEF NoItems
<1>3. ASSUME NEW list \in Lists PROVE IsList(list) /\ list \in [DOMAIN list -> Item]
  <2>1. PICK D \in SUBSET Paths : list \in [D -> Item]
    BY <1>3 DEF Lists
  <2> QED
    BY <2>1 DEF IsList
<1> QED
  BY <1>1, <1>2, <1>3

\* What the proofs use of types says what the runs check.
LEMMA TypedImpliesTypeOK ==
  ASSUME Typed
  PROVE  TypeOK
BY ListsAre DEF Typed, TypeOK, ImporterRecords, LoopRecords, LeaveRecords

\* An answer is entered in one entry, if the archive is listed.
LEMMA EnterEffect ==
  ASSUME items \in Lists, NEW p, NEW status \in {"preflight", "reviewed", "blocked", "failed"},
         NEW token, p \in DOMAIN items => token \in Tokens \cup {None},
         Enter(p, status, token)
  PROVE  /\ items' \in Lists
         /\ DOMAIN items' = DOMAIN items
         /\ \A q \in DOMAIN items : q # p => items'[q] = items[q]
         /\ p \in DOMAIN items =>
              items'[p] = [status |-> status, token |-> token, ack |-> items[p].ack]
<1>1. CASE p \notin DOMAIN items
  BY <1>1 DEF Enter
<1>2. CASE p \in DOMAIN items
  <2>1. DOMAIN items \subseteq Paths /\ items \in [DOMAIN items -> Item]
    BY ListsAre DEF IsList
  <2>2. items' \in [DOMAIN items -> Item]
    BY <1>2, <2>1 DEF Enter, Item
  <2>3. items' \in Lists /\ DOMAIN items' = DOMAIN items
    BY <2>1, <2>2, ListsAre
  <2>4. \A q \in DOMAIN items : q # p => items'[q] = items[q]
    BY <1>2, <2>1 DEF Enter
  <2>5. items[p] \in Item
    BY <1>2, <2>1
  <2>6. items'[p] = [items[p] EXCEPT !.status = status, !.token = token]
    BY <1>2, <2>1, <2>5 DEF Enter, Item
  <2>7. items'[p] = [status |-> status, token |-> token, ack |-> items[p].ack]
    BY <2>5, <2>6 DEF Item
  <2> QED
    BY <2>3, <2>4, <2>7
<1> QED
  BY <1>1, <1>2

\* The review is gone, and nothing else.
LEMMA DropEffect ==
  ASSUME pending \in Seq(Tokens), \A t \in Tokens : ~Older(t, t), NEW d, Drop(d)
  PROVE  /\ pending' \in Seq(Tokens)
         /\ \A t \in Tokens : IsPending(t)' <=> IsPending(t) /\ t # d
         /\ \A s, t \in Tokens : Older(s, t)' => Older(s, t)
<1>1. CASE ~IsPending(d)
  BY <1>1 DEF Drop, IsPending, Older
<1>2. CASE IsPending(d)
  <2> DEFINE k == CHOOSE i \in DOMAIN pending : pending[i] = d
  <2>1. k \in DOMAIN pending /\ pending[k] = d
    BY <1>2 DEF IsPending
  <2>2. DOMAIN pending = 1..Len(pending) /\ Len(pending) \in Nat
    BY LenProperties
  <2>3. pending' = SubSeq(pending, 1, k - 1) \o SubSeq(pending, k + 1, Len(pending))
    BY <1>2 DEF Drop, RemoveAt
  <2> HIDE DEF k
  <2>4. /\ SubSeq(pending, 1, k - 1) \in Seq(Tokens)
        /\ Len(SubSeq(pending, 1, k - 1)) = k - 1
        /\ \A i \in 1..(k - 1) : SubSeq(pending, 1, k - 1)[i] = pending[i]
    BY <2>1, <2>2, ElementOfSeq, SubSeqProperties
  <2>5. /\ SubSeq(pending, k + 1, Len(pending)) \in Seq(Tokens)
        /\ Len(SubSeq(pending, k + 1, Len(pending))) = Len(pending) - k
        /\ \A i \in 1..(Len(pending) - k) :
             SubSeq(pending, k + 1, Len(pending))[i] = pending[k + i]
    BY <2>1, <2>2, ElementOfSeq, SubSeqProperties
  <2>6. /\ pending' \in Seq(Tokens)
        /\ Len(pending') = Len(pending) - 1
        /\ \A i \in 1..(Len(pending) - 1) :
             pending'[i] = IF i < k THEN pending[i] ELSE pending[i + 1]
    <3> DEFINE front == SubSeq(pending, 1, k - 1)
               back == SubSeq(pending, k + 1, Len(pending))
    <3>1. pending' = front \o back /\ front \in Seq(Tokens) /\ back \in Seq(Tokens)
      BY <2>3, <2>4, <2>5
    <3>2. /\ Len(front) = k - 1 /\ \A i \in 1..(k - 1) : front[i] = pending[i]
          /\ Len(back) = Len(pending) - k
          /\ \A i \in 1..(Len(pending) - k) : back[i] = pending[k + i]
      BY <2>4, <2>5
    <3> HIDE DEF front, back
    <3>3. /\ pending' \in Seq(Tokens)
          /\ Len(pending') = Len(front) + Len(back)
          /\ \A i \in 1..(Len(front) + Len(back)) :
               pending'[i] = IF i <= Len(front) THEN front[i] ELSE back[i - Len(front)]
      BY <3>1, ConcatProperties
    <3>4. k \in 1..Len(pending)
      BY <2>1, <2>2
    <3>5. Len(pending') = Len(pending) - 1
      BY <2>2, <3>2, <3>3, <3>4
    <3>6. ASSUME NEW i \in 1..(Len(pending) - 1)
          PROVE  pending'[i] = IF i < k THEN pending[i] ELSE pending[i + 1]
      <4>1. pending'[i] = IF i <= k - 1 THEN front[i] ELSE back[i - (k - 1)]
        BY <2>2, <3>2, <3>3, <3>4
      <4>2. CASE i < k
        BY <2>2, <3>2, <3>4, <4>1, <4>2
      <4>3. CASE ~(i < k)
        <5>1. i - (k - 1) \in 1..(Len(pending) - k) /\ k + (i - (k - 1)) = i + 1
          BY <2>2, <3>4, <4>3
        <5> QED
          BY <2>2, <3>2, <3>4, <4>1, <4>3, <5>1
      <4> QED
        BY <4>2, <4>3
    <3> QED
      BY <3>3, <3>5, <3>6
  <2>7. DOMAIN pending' = 1..(Len(pending) - 1)
    BY <2>6, LenProperties
  <2>8. \A i \in DOMAIN pending : pending[i] \in Tokens
    BY <2>2, ElementOfSeq
  <2>9. \A i \in DOMAIN pending : i # k => pending[i] # d
    BY <2>1, <2>2, <2>8 DEF Older
  <2>10. ASSUME NEW t \in Tokens PROVE IsPending(t)' <=> IsPending(t) /\ t # d
    <3>1. ASSUME IsPending(t), t # d PROVE IsPending(t)'
      <4>1. PICK i \in DOMAIN pending : pending[i] = t
        BY <3>1 DEF IsPending
      <4>2. i < k \/ i > k
        BY <2>1, <2>2, <3>1, <4>1
      <4>3. \E j \in DOMAIN pending' : pending'[j] = t
        <5>1. CASE i < k
          BY <2>1, <2>2, <2>6, <2>7, <4>1, <5>1
        <5>2. CASE i > k
          <6>1. i - 1 \in DOMAIN pending' /\ ~(i - 1 < k) /\ (i - 1) + 1 = i
            BY <2>1, <2>2, <2>7, <5>2
          <6> QED
            BY <2>6, <2>7, <4>1, <6>1
        <5> QED
          BY <4>2, <5>1, <5>2
      <4> QED
        BY <4>3 DEF IsPending
    <3>2. ASSUME IsPending(t)' PROVE IsPending(t) /\ t # d
      <4>1. PICK j \in DOMAIN pending' : pending'[j] = t
        BY <3>2 DEF IsPending
      <4> QED
        BY <2>1, <2>2, <2>6, <2>7, <2>9, <4>1 DEF IsPending
    <3> QED
      BY <3>1, <3>2
  <2>11. ASSUME NEW s \in Tokens, NEW t \in Tokens, Older(s, t)' PROVE Older(s, t)
    <3>1. PICK i, j \in DOMAIN pending' : i < j /\ pending'[i] = s /\ pending'[j] = t
      BY <2>11 DEF Older
    <3> DEFINE m == IF i < k THEN i ELSE i + 1
               n == IF j < k THEN j ELSE j + 1
    <3>2. m \in DOMAIN pending /\ n \in DOMAIN pending /\ m < n
      BY <2>1, <2>2, <2>7, <3>1
    <3>3. pending[m] = s /\ pending[n] = t
      BY <2>6, <2>7, <3>1
    <3> HIDE DEF m, n
    <3> QED
      BY <3>2, <3>3 DEF Older
  <2> QED
    BY <2>6, <2>10, <2>11
<1> QED
  BY <1>1, <1>2

\* A sequence without its first elements.
LEMMA WhatIsLeft ==
  ASSUME NEW S, NEW seq \in Seq(S), NEW low \in 0..Len(seq)
  PROVE  LET left == SubSeq(seq, low + 1, Len(seq))
         IN /\ left \in Seq(S)
            /\ Len(left) = Len(seq) - low
            /\ \A i \in 1..Len(left) : left[i] = seq[i + low]
<1> DEFINE left == SubSeq(seq, low + 1, Len(seq))
<1>1. Len(seq) \in Nat /\ low \in Nat /\ low <= Len(seq)
  BY LenProperties
<1>2. \A i \in (low + 1)..Len(seq) : seq[i] \in S
  BY <1>1, ElementOfSeq
<1>3. /\ left \in Seq(S)
      /\ Len(left) = IF low + 1 <= Len(seq) THEN Len(seq) - (low + 1) + 1 ELSE 0
      /\ \A i \in 1..(Len(seq) - (low + 1) + 1) : left[i] = seq[low + 1 + i - 1]
  BY <1>1, <1>2, SubSeqProperties
<1> HIDE DEF left
<1>4. Len(left) = Len(seq) - low
  BY <1>1, <1>3
<1>5. ASSUME NEW i \in 1..Len(left) PROVE left[i] = seq[i + low]
  <2>1. i \in 1..(Len(seq) - (low + 1) + 1) /\ low + 1 + i - 1 = i + low
    BY <1>1, <1>4
  <2> QED
    BY <1>3, <2>1
<1> QED
  BY <1>3, <1>4, <1>5 DEF left

\* The new review is the youngest.
LEMMA ReviewEffect ==
  ASSUME Typed, NEW b \in Batches, loops[b].at \in Paths, Review(b)
  PROVE  LET new == [batch |-> b, path |-> loops[b].at]
         IN /\ pending' \in Seq(Tokens)
            /\ \A t \in Tokens : t = new => IsPending(t)'
            /\ \A t \in Tokens : IsPending(t)' => IsPending(t) \/ t = new
            /\ \A s, t \in Tokens : Older(s, t)' => Older(s, t) \/ (t = new /\ IsPending(s))
            /\ \A t \in Tokens, i \in DOMAIN pending :
                 pending[i] = t /\ i > Len(pending) - PendingLimit + 1 => IsPending(t)'
<1> DEFINE new == [batch |-> b, path |-> loops[b].at]
           low == IF Len(pending) < PendingLimit THEN 0 ELSE Len(pending) - PendingLimit + 1
           room == IF Len(pending) < PendingLimit THEN pending
                   ELSE SubSeq(pending, Len(pending) - PendingLimit + 2, Len(pending))
<1>1. pending \in Seq(Tokens) /\ Len(pending) \in Nat /\ DOMAIN pending = 1..Len(pending)
  BY LenProperties DEF Typed
<1>2. new \in Tokens /\ PendingLimit \in Nat \ {0}
  BY ImportConstants DEF Tokens
<1>4. /\ room \in Seq(Tokens)
      /\ Len(room) = Len(pending) - low
      /\ \A i \in 1..Len(room) : room[i] = pending[i + low]
  <2>1. CASE Len(pending) < PendingLimit
    BY <1>1, <2>1
  <2>2. CASE ~(Len(pending) < PendingLimit)
    <3>1. room = SubSeq(pending, low + 1, Len(pending)) /\ low \in 0..Len(pending)
      BY <1>1, <1>2, <2>2
    <3> HIDE DEF low, room
    <3> QED
      BY <1>1, <3>1, WhatIsLeft
  <2> QED
    BY <2>1, <2>2
<1>5. pending' = Append(room, new)
  BY DEF Review
<1>6. low \in 0..Len(pending) /\ \A i \in DOMAIN pending :
        i > Len(pending) - PendingLimit + 1 => i > low
  BY <1>1, <1>2
<1> HIDE DEF room, low, new
<1>7. /\ pending' \in Seq(Tokens)
      /\ DOMAIN pending' = 1..(Len(room) + 1)
      /\ \A i \in 1..Len(room) : pending'[i] = pending[i + low]
      /\ pending'[Len(room) + 1] = new
  BY <1>2, <1>4, <1>5, AppendProperties, LenProperties
<1>8. Len(room) = Len(pending) - low /\ Len(room) \in Nat
  BY <1>1, <1>4, <1>6
<1>9. ASSUME NEW t \in Tokens, t = new PROVE IsPending(t)'
  BY <1>7, <1>8, <1>9 DEF IsPending
<1>10. ASSUME NEW t \in Tokens, IsPending(t)' PROVE IsPending(t) \/ t = new
  <2>1. PICK i \in DOMAIN pending' : pending'[i] = t
    BY <1>10 DEF IsPending
  <2>2. CASE i = Len(room) + 1
    BY <1>7, <2>1, <2>2
  <2>3. CASE i \in 1..Len(room)
    <3>1. pending[i + low] = t /\ i + low \in DOMAIN pending
      BY <1>1, <1>6, <1>7, <1>8, <2>1, <2>3
    <3> QED
      BY <3>1 DEF IsPending
  <2> QED
    BY <1>7, <1>8, <2>1, <2>2, <2>3
<1>11. ASSUME NEW s \in Tokens, NEW t \in Tokens, Older(s, t)'
       PROVE  Older(s, t) \/ (t = new /\ IsPending(s))
  <2>1. PICK i, j \in DOMAIN pending' : i < j /\ pending'[i] = s /\ pending'[j] = t
    BY <1>11 DEF Older
  <2>2. i \in 1..Len(room) /\ i + low \in DOMAIN pending /\ pending[i + low] = s
    BY <1>1, <1>6, <1>7, <1>8, <2>1
  <2>3. CASE j = Len(room) + 1
    BY <1>7, <2>1, <2>2, <2>3 DEF IsPending
  <2>4. CASE j \in 1..Len(room)
    <3>1. j + low \in DOMAIN pending /\ pending[j + low] = t /\ i + low < j + low
      BY <1>1, <1>6, <1>7, <1>8, <2>1, <2>2, <2>4
    <3> QED
      BY <2>2, <3>1 DEF Older
  <2> QED
    BY <1>7, <1>8, <2>1, <2>3, <2>4
<1>12. ASSUME NEW t \in Tokens, NEW i \in DOMAIN pending, pending[i] = t,
              i > Len(pending) - PendingLimit + 1
       PROVE  IsPending(t)'
  <2>1. i - low \in 1..Len(room) /\ (i - low) + low = i
    BY <1>1, <1>6, <1>8, <1>12
  <2>2. pending'[i - low] = t /\ i - low \in DOMAIN pending'
    BY <1>7, <1>8, <1>12, <2>1
  <2> QED
    BY <2>2 DEF IsPending
<1> QED
  BY <1>7, <1>9, <1>10, <1>11, <1>12 DEF new

\* The loop goes on, and no other does.
LEMMA AdvanceEffect ==
  ASSUME loops \in [Batches -> LoopRecords], NEW b \in Batches, NEW p, Advance(b, p)
  PROVE  /\ loops' \in [Batches -> LoopRecords]
         /\ \A c \in Batches : c # b => loops'[c] = loops[c]
         /\ loops'[b].step \in {"preflight", "ended"}
         /\ loops'[b].todo = loops[b].todo \ {p}
         /\ loops'[b].at = None
         /\ loops'[b].wait = loops[b].wait
<1>1. loops[b] \in LoopRecords
  OBVIOUS
<1>2. loops'[b] = [loops[b] EXCEPT !.todo = loops[b].todo \ {p}, !.at = None,
                     !.step = IF loops[b].todo \ {p} = {} THEN "ended" ELSE "preflight"]
  BY <1>1 DEF Advance
<1>3. loops'[b] = [step |-> IF loops[b].todo \ {p} = {} THEN "ended" ELSE "preflight",
                   todo |-> loops[b].todo \ {p}, at |-> None, wait |-> loops[b].wait]
  BY <1>1, <1>2 DEF LoopRecords
<1>4. loops'[b] \in LoopRecords
  BY <1>1, <1>3 DEF LoopRecords, LoopSteps
<1>5. loops' = [loops EXCEPT ![b] = loops'[b]]
  BY <1>1 DEF Advance
<1> QED
  BY <1>3, <1>4, <1>5

\* The list that was clicked on, with its results.
LEMMA ResultsEffect ==
  ASSUME Typed
  PROVE  /\ Results \in Lists
         /\ DOMAIN Results = DOMAIN importer.shown
         /\ \A p \in DOMAIN importer.shown :
              /\ Results[p].token = importer.shown[p].token
              /\ Results[p].ack = importer.shown[p].ack
              /\ p \in importer.done => Results[p].status = "imported"
              /\ p \notin importer.done =>
                   Results[p].status = IF p \in Importables(importer.shown) THEN "failed"
                                       ELSE importer.shown[p].status
<1> DEFINE shown == importer.shown
<1>1. shown \in [DOMAIN shown -> Item] /\ DOMAIN shown \in SUBSET Paths
  BY ListsAre DEF Typed, ImporterRecords, IsList
<1>2. DOMAIN Results = DOMAIN shown
  BY DEF Results
<1> HIDE DEF shown
<1>3. ASSUME NEW p \in DOMAIN shown
      PROVE  /\ Results[p] \in Item
             /\ Results[p].token = shown[p].token
             /\ Results[p].ack = shown[p].ack
             /\ p \in importer.done => Results[p].status = "imported"
             /\ p \notin importer.done =>
                  Results[p].status = IF p \in Importables(shown) THEN "failed"
                                      ELSE shown[p].status
  <2>1. shown[p] \in Item
    BY <1>1
  <2>2. Results[p] = IF p \in importer.done THEN [shown[p] EXCEPT !.status = "imported"]
                     ELSE IF p \in Importables(shown) THEN [shown[p] EXCEPT !.status = "failed"]
                     ELSE shown[p]
    BY DEF Results, shown
  <2> QED
    BY <2>1, <2>2 DEF Item
<1>4. Results \in [DOMAIN shown -> Item]
  BY <1>2, <1>3 DEF Results, shown
<1> QED
  BY <1>1, <1>2, <1>3, <1>4, ListsAre DEF shown

\* What discarding the list gives back.
LEMMA DiscardableAre ==
  ASSUME Typed
  PROVE  Discardable \subseteq Tokens
BY ListsAre DEF Typed, Discardable, IsList, Item

\* The batch has its archives, and waits for the list to be discarded.
LEMMA ChooseEffect ==
  ASSUME Typed, NEW b \in Batches, ChooseFiles(b)
  PROVE  /\ loops' \in [Batches -> LoopRecords]
         /\ \A c \in Batches : c # b => loops'[c] = loops[c]
         /\ loops'[b].step = "clearing"
         /\ loops'[b].wait = Discardable
<1>1. PICK S \in Selected[b] :
        loops' = [loops EXCEPT ![b].step = "clearing", ![b].todo = S, ![b].wait = Discardable]
  BY DEF ChooseFiles
<1>2. loops[b] \in LoopRecords
  BY DEF Typed
<1>3. loops'[b] = [step |-> "clearing", todo |-> S, at |-> loops[b].at, wait |-> Discardable]
  <2> HIDE DEF Discardable
  <2>1. loops'[b] = [loops[b] EXCEPT !.step = "clearing", !.todo = S, !.wait = Discardable]
    BY <1>1, <1>2 DEF Typed
  <2> QED
    BY <1>2, <2>1 DEF LoopRecords
<1>4. S \in SUBSET Paths
  BY <1>1, ImportConstants
<1>5. loops'[b] \in LoopRecords
  BY <1>2, <1>3, <1>4, DiscardableAre DEF LoopRecords, LoopSteps
<1>6. loops' = [loops EXCEPT ![b] = loops'[b]]
  BY <1>1 DEF Typed
<1> QED
  BY <1>3, <1>5, <1>6 DEF Typed

\* A handler waits for one discard less.
LEMMA DiscardForBatchEffect ==
  ASSUME Typed, NEW b \in Batches, NEW t, DiscardForBatch(b, t)
  PROVE  /\ \A c \in Batches : /\ loops'[c].step = loops[c].step
                               /\ loops'[c].todo = loops[c].todo
                               /\ loops'[c].at = loops[c].at
                               /\ c # b => loops'[c].wait = loops[c].wait
         /\ loops'[b].wait = loops[b].wait \ {t}
<1>1. loops' = [loops EXCEPT ![b].wait = loops[b].wait \ {t}]
  BY DEF DiscardForBatch
<1>2. \A c \in Batches : c # b => loops'[c] = loops[c]
  BY <1>1 DEF Typed
<1>3. loops'[b] = [loops[b] EXCEPT !.wait = loops[b].wait \ {t}]
  BY <1>1 DEF Typed
<1>4. loops[b] \in LoopRecords
  BY DEF Typed
<1> QED
  BY <1>2, <1>3, <1>4 DEF LoopRecords

\* A departure waits for one discard less.
LEMMA DiscardForLeaveEffect ==
  ASSUME Typed, NEW l \in Leaves, NEW t, DiscardForLeave(l, t)
  PROVE  /\ \A m \in Leaves : /\ leaves'[m].kind = leaves[m].kind
                              /\ m # l => leaves'[m].wait = leaves[m].wait
         /\ leaves'[l].wait = leaves[l].wait \ {t}
<1>1. leaves' = [leaves EXCEPT ![l].wait = leaves[l].wait \ {t}]
  BY DEF DiscardForLeave
<1>2. \A m \in Leaves : m # l => leaves'[m] = leaves[m]
  BY <1>1 DEF Typed
<1>3. leaves'[l] = [leaves[l] EXCEPT !.wait = leaves[l].wait \ {t}]
  BY <1>1 DEF Typed
<1>4. leaves[l] \in LeaveRecords
  BY DEF Typed
<1> QED
  BY <1>2, <1>3, <1>4 DEF LeaveRecords

\* The importer has one archive less to do.
LEMMA ImportEffect ==
  ASSUME Typed, NEW p \in Paths, ImportCommits(p) \/ ImportFails(p)
  PROVE  /\ importer.step = "import" /\ importer'.step = "import"
         /\ importer'.shown = importer.shown
         /\ p \in importer.todo /\ importer'.todo = importer.todo \ {p}
         /\ ImportCommits(p) => importer'.done = importer.done \cup {p}
         /\ ImportFails(p) => importer'.done = importer.done
BY DEF Typed, ImporterRecords, ImportCommits, ImportFails

\* The new list is that of the batch, or empty.
LEMMA StartEffect ==
  ASSUME Typed, NEW b \in Batches, StartReview(b)
  PROVE  /\ \A c \in Batches : c # b => loops'[c] = loops[c]
         /\ loops'[b].wait = {}
         /\ \/ loops'[b].step = "ended" /\ loops'[b].todo = {} /\ items' = NoItems
            \/ /\ loops'[b].step = "preflight" /\ loops'[b].todo = loops[b].todo
               /\ items' = [p \in loops[b].todo |-> Fresh]
<1>1. loops[b] \in LoopRecords /\ loops[b].wait = {}
  BY DEF Typed, StartReview
<1>2. CASE Cardinality(loops[b].todo) > BatchLimit
  <2>1. loops' = [loops EXCEPT ![b].step = "ended", ![b].todo = {}] /\ items' = NoItems
    BY <1>2 DEF StartReview
  <2>2. loops'[b] = [loops[b] EXCEPT !.step = "ended", !.todo = {}]
    BY <1>1, <2>1 DEF Typed
  <2> QED
    BY <1>1, <2>1, <2>2 DEF Typed, LoopRecords
<1>3. CASE ~(Cardinality(loops[b].todo) > BatchLimit)
  <2>1. loops' = [loops EXCEPT ![b].step = "preflight"]
    BY <1>3 DEF StartReview
  <2>2. items' = [p \in loops[b].todo |-> Fresh]
    BY <1>3 DEF StartReview, Fresh
  <2>3. loops'[b] = [loops[b] EXCEPT !.step = "preflight"]
    BY <1>1, <2>1 DEF Typed
  <2> QED
    BY <1>1, <2>1, <2>2, <2>3 DEF Typed, LoopRecords
<1> QED
  BY <1>2, <1>3

-----------------------------------------------------------------------------
(* Types. *)

\* The page opens with an empty list, and nothing under way.
LEMMA TypedInit ==
  ASSUME Init
  PROVE  Typed
BY ListsAre, EmptySeq DEF Init, Typed, LoopRecords, LoopSteps, LeaveRecords, ImporterRecords

\* Answers of the back end keep the types.
LEMMA TypedAnswer ==
  ASSUME Typed, HandlersInv, TokensInv, Answer
  PROVE  Typed'
<1>1. ASSUME NEW b \in Batches, Review(b) PROVE Typed'
  <2>1. loops[b].at \in Paths
    BY <1>1 DEF Typed, HandlersInv, Review, LoopRecords
  <2> QED
    BY <1>1, <2>1, ReviewEffect DEF Typed, Review, LoopRecords, LoopSteps
<1>2. ASSUME NEW t, Drop(t) PROVE pending' \in Seq(Tokens)
  BY <1>2, DropEffect DEF Typed, TokensInv, IsPending, Older
<1>3. ASSUME NEW b \in Batches, NEW t, DiscardForBatch(b, t) PROVE Typed'
  BY <1>2, <1>3 DEF Typed, DiscardForBatch, LoopRecords
<1>4. ASSUME NEW l \in Leaves, NEW t, DiscardForLeave(l, t) PROVE Typed'
  BY <1>2, <1>4 DEF Typed, DiscardForLeave, LeaveRecords
<1>5. ASSUME NEW p \in Paths, ImportCommits(p) PROVE Typed'
  <2>1. importer.shown[p].token \in Tokens
    BY <1>5, ElementOfSeq, LenProperties DEF Typed, ImportCommits, Accepts, IsPending
  <2> QED
    BY <1>2, <1>5, <2>1 DEF Typed, ImportCommits, ImporterRecords
<1>6. ASSUME NEW p \in Paths, ImportFails(p) PROVE Typed'
  <2>1. pending' \in Seq(Tokens)
    BY <1>2, <1>6 DEF Typed, ImportFails
  <2> QED
    BY <1>6, <2>1 DEF Typed, ImportFails, ImporterRecords
<1> QED
  BY <1>1, <1>3, <1>4, <1>5, <1>6 DEF Answer

\* So do the handlers that go on,
LEMMA TypedContinue ==
  ASSUME Typed, HandlersInv, Continue
  PROVE  Typed'
<1>1. ASSUME NEW b \in Batches, StartReview(b) PROVE Typed'
  <2> DEFINE list == [p \in loops[b].todo |-> Fresh]
  <2>1. loops[b].todo \in SUBSET Paths
    BY DEF Typed, LoopRecords
  <2>2. list \in [loops[b].todo -> Item]
    BY DEF Fresh, Item
  <2>3. list \in Lists
    BY <2>1, <2>2, ListsAre
  <2>4. items' \in Lists
    BY <1>1, <2>3, ListsAre DEF StartReview, Fresh
  <2>5. loops' \in [Batches -> LoopRecords]
    BY <1>1 DEF Typed, StartReview, LoopRecords, LoopSteps
  <2> QED
    BY <1>1, <2>4, <2>5 DEF Typed, StartReview
<1>2. ASSUME NEW p \in DOMAIN items PROVE items[p].token \in Tokens \cup {None}
  BY ListsAre DEF Typed, IsList, Item
<1>3. ASSUME NEW b \in Batches, NEW p \in Paths, TakePreflight(b, p) PROVE Typed'
  <2>1. items' \in Lists
    BY <1>2, <1>3, EnterEffect DEF Typed, TakePreflight
  <2>2. loops' \in [Batches -> LoopRecords]
    BY <1>3, AdvanceEffect DEF Typed, TakePreflight, LoopRecords, LoopSteps
  <2> QED
    BY <1>3, <2>1, <2>2 DEF Typed, TakePreflight
<1>4. ASSUME NEW b \in Batches, TakeReview(b) PROVE Typed'
  <2>1. [batch |-> b, path |-> loops[b].at] \in Tokens
    BY <1>4 DEF Typed, HandlersInv, TakeReview, LoopRecords, Tokens
  <2>2. items' \in Lists
    BY <1>4, <2>1, EnterEffect DEF Typed, TakeReview
  <2> QED
    BY <1>4, <2>2, AdvanceEffect DEF Typed, TakeReview
<1>5. ASSUME NEW b \in Batches, TakeError(b) PROVE Typed'
  <2>1. items' \in Lists
    BY <1>2, <1>5, EnterEffect DEF Typed, TakeError
  <2> QED
    BY <1>5, <2>1, AdvanceEffect DEF Typed, TakeError
<1>6. ASSUME NEW l \in Leaves, Cancelled(l) PROVE Typed'
  <2>1. CASE publishing
    BY <1>6, <2>1 DEF Typed, Cancelled, LeaveRecords
  <2>2. CASE ~publishing
    <3>1. leaves' \in [Leaves -> LeaveRecords] /\ items' \in Lists
      BY <1>6, <2>2, ListsAre, DiscardableAre DEF Typed, Cancelled, LeaveRecords
    <3> QED
      BY <1>6, <2>2, <3>1 DEF Typed, Cancelled, Abandon
  <2> QED
    BY <2>1, <2>2
<1>9. ASSUME NEW l \in Leaves, Left(l) PROVE Typed'
  BY <1>9 DEF Typed, Left, LeaveRecords
<1>7. CASE ShowResults
  BY <1>7, ResultsEffect DEF Typed, ShowResults, ImporterRecords
<1>8. CASE EndImport
  BY <1>8, ListsAre DEF Typed, EndImport, Abandon, ImporterRecords
<1> QED
  BY <1>1, <1>3, <1>4, <1>5, <1>6, <1>7, <1>8, <1>9 DEF Continue

\* and what the user begins.
LEMMA TypedUser ==
  ASSUME Typed, TokensInv, User
  PROVE  Typed'
<1>1. ASSUME NEW b \in Batches, ChooseFiles(b) PROVE Typed'
  BY <1>1, ListsAre, ChooseEffect DEF Typed, ChooseFiles, Abandon
<1>2. ASSUME NEW p \in Paths, ToggleAck(p) PROVE Typed'
  <2>1. items \in [DOMAIN items -> Item] /\ DOMAIN items \in SUBSET Paths /\ p \in DOMAIN items
    BY <1>2, ListsAre DEF Typed, IsList, ToggleAck
  <2>2. items' = [items EXCEPT ![p] = [items[p] EXCEPT !.ack = ~items[p].ack]]
    BY <1>2, <2>1 DEF ToggleAck
  <2>3. [items[p] EXCEPT !.ack = ~items[p].ack] \in Item
    BY <2>1 DEF Item
  <2>4. items' \in [DOMAIN items -> Item]
    BY <2>1, <2>2, <2>3
  <2>5. items' \in Lists
    BY <2>1, <2>4, ListsAre
  <2>6. items[p].token \in Tokens
    BY <1>2, <2>1 DEF ToggleAck, TokensInv, ListInv, EntryInv, Item
  <2> QED
    BY <1>2, <2>5, <2>6 DEF Typed, ToggleAck
<1>3. ASSUME NEW l \in Leaves, NEW kind \in {"cancel", "navigate"}, Leave(l, kind) PROVE Typed'
  BY <1>3, ListsAre, DiscardableAre DEF Typed, Leave, Abandon, LeaveRecords
<1>4. CASE StartImport
  BY <1>4, ListsAre DEF Typed, StartImport, Abandon, ImporterRecords, Ready, Importables, IsList
<1>5. CASE Return
  BY <1>5 DEF Typed, Return
<1> QED
  BY <1>1, <1>2, <1>3, <1>4, <1>5 DEF User

\* Every step keeps the types.
LEMMA TypedStep ==
  ASSUME Typed, HandlersInv, TokensInv, [Next]_vars
  PROVE  Typed'
<1>1. CASE UNCHANGED vars
  BY <1>1 DEF vars, ui, Typed
<1> QED
  BY <1>1, TypedAnswer, TypedContinue, TypedUser DEF Next

-----------------------------------------------------------------------------
(* Handlers. *)

\* Every step keeps the handlers in order.
LEMMA HandlersStep ==
  ASSUME Typed, HandlersInv, [Next]_vars
  PROVE  HandlersInv'
<1> USE DEF HandlersInv
<1>1. CASE UNCHANGED vars
  BY <1>1 DEF vars, ui
<1>2. ASSUME NEW b \in Batches, Review(b) PROVE HandlersInv'
  <2>1. UNCHANGED <<publishing, leaves, importer>>
    BY <1>2 DEF Review
  <2>2. \A c \in Batches : /\ c # b => loops'[c] = loops[c]
                           /\ loops'[c].todo = loops[c].todo
                           /\ loops'[c].at = loops[c].at
                           /\ loops'[c].wait = loops[c].wait
    BY <1>2 DEF Typed, LoopRecords, Review
  <2>3. loops[b].step = "review" /\ loops'[b].step = "token"
    BY <1>2 DEF Typed, LoopRecords, Review
  <2> QED
    BY <2>1, <2>2, <2>3
<1>3. ASSUME NEW b \in Batches, NEW t, DiscardForBatch(b, t) PROVE HandlersInv'
  <2>1. UNCHANGED <<publishing, leaves, importer>>
    BY <1>3 DEF DiscardForBatch
  <2> QED
    BY <1>3, <2>1, DiscardForBatchEffect
<1>4. ASSUME NEW l \in Leaves, NEW t, DiscardForLeave(l, t) PROVE HandlersInv'
  <2>1. UNCHANGED <<publishing, loops, importer>>
    BY <1>4 DEF DiscardForLeave
  <2> QED
    BY <1>4, <2>1, DiscardForLeaveEffect
<1>5. ASSUME NEW p \in Paths, ImportCommits(p) \/ ImportFails(p) PROVE HandlersInv'
  <2>1. UNCHANGED <<publishing, loops, leaves>>
    BY <1>5 DEF ImportCommits, ImportFails
  <2> QED
    BY <1>5, <2>1, ImportEffect
<1>6. ASSUME NEW b \in Batches, StartReview(b) PROVE HandlersInv'
  <2>1. UNCHANGED <<publishing, leaves, importer>>
    BY <1>6 DEF StartReview
  <2> QED
    BY <1>6, <2>1, StartEffect
<1>7. ASSUME NEW b \in Batches, NEW p \in Paths, TakePreflight(b, p) PROVE HandlersInv'
  <2>1. CASE loops' = [loops EXCEPT ![b].step = "review", ![b].at = p]
    <3>1. p \in loops[b].todo
      BY <1>7 DEF TakePreflight
    <3> QED
      BY <1>7, <2>1, <3>1 DEF Typed, LoopRecords, TakePreflight
  <2>2. CASE Advance(b, p)
    BY <1>7, <2>2, AdvanceEffect DEF Typed, TakePreflight
  <2> QED
    BY <1>7, <2>1, <2>2 DEF TakePreflight
<1>8. ASSUME NEW b \in Batches, TakeReview(b) \/ TakeError(b) PROVE HandlersInv'
  BY <1>8, AdvanceEffect DEF Typed, TakeReview, TakeError
<1>9. ASSUME NEW l \in Leaves, Cancelled(l) \/ Left(l) PROVE HandlersInv'
  BY <1>9 DEF Typed, LeaveRecords, Cancelled, Left
<1>10. CASE ShowResults
  BY <1>10 DEF Typed, ImporterRecords, ShowResults
<1>11. CASE EndImport
  BY <1>11 DEF EndImport
<1>12. ASSUME NEW b \in Batches, ChooseFiles(b) PROVE HandlersInv'
  <2>1. UNCHANGED <<publishing, leaves, importer>>
    BY <1>12 DEF ChooseFiles
  <2>2. \A c \in Batches : c # b => loops'[c] = loops[c]
    BY <1>12, ChooseEffect
  <2>3. loops'[b].step = "clearing"
    BY <1>12, ChooseEffect
  <2> QED
    BY <2>1, <2>2, <2>3
<1>13. ASSUME NEW p \in Paths, ToggleAck(p) PROVE HandlersInv'
  BY <1>13 DEF ToggleAck
<1>14. ASSUME NEW l \in Leaves, NEW kind \in {"cancel", "navigate"}, Leave(l, kind)
       PROVE  HandlersInv'
  BY <1>14 DEF Typed, LeaveRecords, Leave
<1>15. CASE StartImport
  BY <1>15 DEF StartImport, Ready
<1>16. CASE Return
  BY <1>16 DEF Return
<1> QED
  BY <1>1, <1>2, <1>3, <1>4, <1>5, <1>6, <1>7, <1>8, <1>9, <1>10, <1>11, <1>12, <1>13,
     <1>14, <1>15, <1>16 DEF Next, Answer, Continue, User

-----------------------------------------------------------------------------
(* Reviews. *)

\* A loop stays as it is, has not reviewed anything yet, or goes on with less to do.
LEMMA LoopMoves ==
  ASSUME Typed, HandlersInv, [Next]_vars, NEW b \in Batches
  PROVE  \/ loops'[b] = loops[b]
         \/ loops[b].step \in {"unused", "clearing"}
         \/ /\ loops'[b].step \notin {"unused", "clearing"}
            /\ loops'[b].todo \subseteq loops[b].todo
            /\ loops[b].step = "token" => loops[b].at \notin loops'[b].todo
<1> DEFINE Goal == \/ loops'[b] = loops[b]
                   \/ loops[b].step \in {"unused", "clearing"}
                   \/ /\ loops'[b].step \notin {"unused", "clearing"}
                      /\ loops'[b].todo \subseteq loops[b].todo
                      /\ loops[b].step = "token" => loops[b].at \notin loops'[b].todo
<1>1. CASE UNCHANGED loops
  BY <1>1
<1>2. CASE UNCHANGED vars
  BY <1>2 DEF vars, ui
<1>3. ASSUME NEW c \in Batches, Review(c) PROVE Goal
  BY <1>3 DEF Typed, LoopRecords, Review
<1>4. ASSUME NEW c \in Batches, NEW t \in loops[c].wait, DiscardForBatch(c, t) PROVE Goal
  BY <1>4 DEF Typed, HandlersInv, DiscardForBatch
<1>5. ASSUME NEW c \in Batches, StartReview(c) PROVE Goal
  BY <1>5, StartEffect DEF StartReview
<1>6. ASSUME NEW c \in Batches, NEW p \in Paths, TakePreflight(c, p) PROVE Goal
  <2>1. loops[c].step = "preflight"
    BY <1>6 DEF TakePreflight
  <2>2. CASE loops' = [loops EXCEPT ![c].step = "review", ![c].at = p]
    BY <2>1, <2>2 DEF Typed, LoopRecords
  <2>3. CASE Advance(c, p)
    BY <2>1, <2>3, AdvanceEffect DEF Typed
  <2> QED
    BY <1>6, <2>2, <2>3 DEF TakePreflight
<1>7. ASSUME NEW c \in Batches, TakeReview(c) \/ TakeError(c) PROVE Goal
  BY <1>7, AdvanceEffect DEF Typed, TakeReview, TakeError
<1>8. ASSUME NEW c \in Batches, ChooseFiles(c) PROVE Goal
  BY <1>8, ChooseEffect DEF ChooseFiles
<1>9. Answer => Goal
  BY <1>1, <1>3, <1>4 DEF Answer, DiscardForLeave, ImportCommits, ImportFails
<1>10. Continue => Goal
  BY <1>1, <1>5, <1>6, <1>7 DEF Continue, Cancelled, Left, ShowResults, EndImport
<1>11. User => Goal
  BY <1>1, <1>8 DEF User, ToggleAck, Leave, StartImport, Return
<1> QED
  BY <1>2, <1>9, <1>10, <1>11 DEF Next

\* A review that was issued is never issued again.
LEMMA IssuedStays ==
  ASSUME Typed, HandlersInv, [Next]_vars, NEW t \in Tokens
  PROVE  /\ Issued(t) => Issued(t)'
         /\ OnItsWay(t) => Issued(t)' \/ OnItsWay(t)'
<1>1. t.batch \in Batches
  BY DEF Tokens
<1> QED
  BY <1>1, LoopMoves DEF Issued, OnItsWay

\* Discards begin only when the list goes, and then there is no import.
LEMMA DiscardedStep ==
  ASSUME Typed, HandlersInv, [Next]_vars
  PROVE  \/ \A t \in Tokens : Discarded(t)' => Discarded(t)
         \/ /\ \A t \in Tokens : Discarded(t)' => Discarded(t) \/ t \in Discardable
            /\ items' = NoItems /\ importer.shown = NoItems /\ UNCHANGED importer
            /\ UNCHANGED <<pending, committed>>
<1> DEFINE Less == \A t \in Tokens : Discarded(t)' => Discarded(t)
           More == /\ \A t \in Tokens : Discarded(t)' => Discarded(t) \/ t \in Discardable
                   /\ items' = NoItems /\ importer.shown = NoItems /\ UNCHANGED importer
                   /\ UNCHANGED <<pending, committed>>
<1>1. ASSUME UNCHANGED leaves, \A b \in Batches : loops'[b].wait \subseteq loops[b].wait
      PROVE  Less
  BY <1>1 DEF Discarded
<1>2. CASE UNCHANGED vars
  BY <1>1, <1>2 DEF vars, ui
<1>3. ASSUME NEW b \in Batches, Review(b) PROVE Less
  <2>1. \A c \in Batches : loops'[c].wait = loops[c].wait
    BY <1>3 DEF Typed, LoopRecords, Review
  <2> QED
    BY <1>1, <1>3, <2>1 DEF Review
<1>4. ASSUME NEW b \in Batches, NEW t, DiscardForBatch(b, t) PROVE Less
  BY <1>1, <1>4, DiscardForBatchEffect DEF DiscardForBatch
<1>5. ASSUME NEW l \in Leaves, NEW t, DiscardForLeave(l, t) PROVE Less
  BY <1>5, DiscardForLeaveEffect DEF DiscardForLeave, Discarded
<1>6. ASSUME NEW p \in Paths, ImportCommits(p) \/ ImportFails(p) PROVE Less
  BY <1>1, <1>6 DEF ImportCommits, ImportFails
<1>7. ASSUME NEW b \in Batches, StartReview(b) PROVE Less
  BY <1>1, <1>7, StartEffect DEF StartReview
<1>8. ASSUME NEW b \in Batches, NEW p \in Paths, TakePreflight(b, p) PROVE Less
  <2>1. CASE loops' = [loops EXCEPT ![b].step = "review", ![b].at = p]
    <3>1. \A c \in Batches : loops'[c].wait = loops[c].wait
      BY <2>1 DEF Typed, LoopRecords
    <3> QED
      BY <1>1, <1>8, <3>1 DEF TakePreflight
  <2>2. CASE Advance(b, p)
    BY <1>1, <1>8, <2>2, AdvanceEffect DEF Typed, TakePreflight
  <2> QED
    BY <1>8, <2>1, <2>2 DEF TakePreflight
<1>9. ASSUME NEW b \in Batches, TakeReview(b) \/ TakeError(b) PROVE Less
  BY <1>1, <1>9, AdvanceEffect DEF Typed, TakeReview, TakeError
<1>10. ASSUME NEW l \in Leaves, Cancelled(l) PROVE Less \/ More
  <2>1. CASE publishing
    <3>1. \A m \in Leaves : leaves'[m].wait = leaves[m].wait
      BY <1>10, <2>1 DEF Typed, LeaveRecords, Cancelled
    <3> QED
      BY <1>10, <3>1 DEF Cancelled, Discarded
  <2>2. CASE ~publishing
    <3>1. /\ \A m \in Leaves : m # l => leaves'[m] = leaves[m]
          /\ leaves'[l].wait = Discardable /\ UNCHANGED loops
          /\ items' = NoItems /\ UNCHANGED <<importer, pending, committed>>
      BY <1>10, <2>2 DEF Typed, Cancelled
    <3> QED
      BY <2>2, <3>1 DEF HandlersInv, Discarded
  <2> QED
    BY <2>1, <2>2
<1>11. ASSUME NEW l \in Leaves, Left(l) PROVE Less
  <2>1. \A m \in Leaves : leaves'[m].wait = leaves[m].wait
    BY <1>11 DEF Typed, LeaveRecords, Left
  <2> QED
    BY <1>11, <2>1 DEF Left, Discarded
<1>12. CASE ShowResults \/ EndImport
  BY <1>1, <1>12 DEF ShowResults, EndImport
<1>13. ASSUME NEW b \in Batches, ChooseFiles(b) PROVE More
  <2>1. /\ UNCHANGED <<leaves, importer, pending, committed>> /\ ~publishing
        /\ items' = NoItems
    BY <1>13 DEF ChooseFiles
  <2>2. \A c \in Batches : c # b => loops'[c] = loops[c]
    BY <1>13, ChooseEffect
  <2>3. loops'[b].wait = Discardable
    BY <1>13, ChooseEffect
  <2> QED
    BY <2>1, <2>2, <2>3 DEF HandlersInv, Discarded
<1>14. ASSUME NEW l \in Leaves, NEW kind \in {"cancel", "navigate"}, Leave(l, kind) PROVE More
  <2>1. /\ \A m \in Leaves : m # l => leaves'[m] = leaves[m]
        /\ leaves'[l].wait = Discardable
        /\ UNCHANGED <<loops, importer, pending, committed>> /\ ~publishing /\ items' = NoItems
    BY <1>14 DEF Typed, Leave
  <2> QED
    BY <2>1 DEF HandlersInv, Discarded
<1>15. ASSUME NEW p \in Paths, ToggleAck(p) PROVE Less
  BY <1>1, <1>15 DEF ToggleAck
<1>16. CASE StartImport \/ Return
  BY <1>1, <1>16 DEF StartImport, Return
<1> QED
  BY <1>2, <1>3, <1>4, <1>5, <1>6, <1>7, <1>8, <1>9, <1>10, <1>11, <1>12, <1>13, <1>14, <1>15,
     <1>16
  DEF Next, Answer, Continue, User

\* Only a review adds to the reviews that are held.
LEMMA PendingStep ==
  ASSUME Typed, TokensInv, [Next]_vars, \A b \in Batches : ~Review(b)
  PROVE  /\ \A t \in Tokens : IsPending(t)' => IsPending(t)
         /\ \A s, t \in Tokens : Older(s, t)' => Older(s, t)
<1> DEFINE Fewer == /\ \A t \in Tokens : IsPending(t)' => IsPending(t)
                    /\ \A s, t \in Tokens : Older(s, t)' => Older(s, t)
<1>1. ASSUME UNCHANGED pending PROVE Fewer
  BY <1>1 DEF IsPending, Older
<1>2. \A t \in Tokens : ~Older(t, t)
  BY DEF TokensInv, Older, IsPending
<1>3. ASSUME NEW d, Drop(d) PROVE Fewer
  BY <1>2, <1>3, DropEffect DEF Typed
<1>4. UNCHANGED vars => Fewer
  BY <1>1 DEF vars
<1>5. Answer => Fewer
  BY <1>1, <1>3 DEF Answer, DiscardForBatch, DiscardForLeave, ImportCommits, ImportFails
<1>6. Continue => Fewer
  BY <1>1 DEF Continue, StartReview, TakePreflight, TakeReview, TakeError, Cancelled, Left,
              ShowResults, EndImport
<1>7. User => Fewer
  BY <1>1 DEF User, ChooseFiles, ToggleAck, Leave, StartImport, Return
<1> QED
  BY <1>4, <1>5, <1>6, <1>7 DEF Next

\* What an import has added to the library.
LEMMA CommittedStep ==
  ASSUME Typed, HandlersInv, TokensInv, [Next]_vars
  PROVE  \/ UNCHANGED committed
         \/ \E p \in Paths : /\ ImportCommits(p)
                             /\ p \in DOMAIN importer.shown
                             /\ importer.shown[p].token # None
                             /\ committed' = committed \cup {importer.shown[p].token}
                             /\ Drop(importer.shown[p].token)
<1>1. ASSUME NEW p \in Paths, ImportCommits(p)
      PROVE  /\ p \in DOMAIN importer.shown /\ importer.shown[p].token # None
             /\ committed' = committed \cup {importer.shown[p].token}
             /\ Drop(importer.shown[p].token)
  BY <1>1 DEF Typed, HandlersInv, ImportCommits, Importables
<1>2. UNCHANGED vars => UNCHANGED committed
  BY DEF vars
<1>3. Answer => UNCHANGED committed \/ \E p \in Paths : ImportCommits(p)
  BY DEF Answer, Review, DiscardForBatch, DiscardForLeave, ImportFails
<1>4. Continue => UNCHANGED committed
  BY DEF Continue, StartReview, TakePreflight, TakeReview, TakeError, Cancelled, Left,
         ShowResults, EndImport
<1>5. User => UNCHANGED committed
  BY DEF User, ChooseFiles, ToggleAck, Leave, StartImport, Return
<1> QED
  BY <1>1, <1>2, <1>3, <1>4, <1>5 DEF Next

\* The reviews that are discarded, in the library, or held.
LEMMA TokensStep ==
  ASSUME Typed, HandlersInv, TokensInv, [Next]_vars, NEW t \in Tokens
  PROVE  /\ Discarded(t)' \/ t \in committed' => Issued(t)'
         /\ IsPending(t)' => (Issued(t)' \/ OnItsWay(t)') /\ t \notin committed' /\ ~Older(t, t)'
<1>1. Discarded(t)' => Issued(t)'
  <2>1. t \in Discardable => Issued(t)
    BY DEF Discardable, TokensInv, ListInv, EntryInv
  <2> QED
    BY <2>1, DiscardedStep, IssuedStays DEF TokensInv
<1>2. ASSUME NEW p \in DOMAIN importer.shown, importer.shown[p].token # None
      PROVE  Issued(importer.shown[p].token)
  BY <1>2 DEF TokensInv, ListInv, EntryInv
<1>3. t \in committed' => Issued(t)'
  BY <1>2, CommittedStep, IssuedStays DEF TokensInv
<1>4. ASSUME NEW b \in Batches, Review(b), IsPending(t)'
      PROVE  (Issued(t)' \/ OnItsWay(t)') /\ t \notin committed' /\ ~Older(t, t)'
  <2> DEFINE new == [batch |-> b, path |-> loops[b].at]
  <2>1. loops[b].at \in loops[b].todo /\ loops[b].at \in Paths /\ loops[b].step = "review"
    BY <1>4 DEF Typed, HandlersInv, LoopRecords, Review
  <2>2. new \in Tokens /\ new.batch = b /\ new.path = loops[b].at
    BY <2>1 DEF Tokens
  <2>3. loops'[b].step = "token" /\ loops'[b].at = loops[b].at
    BY <1>4 DEF Typed, LoopRecords, Review
  <2>4. ~Issued(new) /\ ~OnItsWay(new)
    BY <2>1, <2>2 DEF Issued, OnItsWay
  <2>5. ~IsPending(new) /\ new \notin committed
    BY <2>2, <2>4 DEF TokensInv
  <2>6. committed' = committed
    BY <1>4 DEF Review
  <2>7. t = new => OnItsWay(t)'
    BY <2>2, <2>3 DEF OnItsWay
  <2>8. (IsPending(t) \/ t = new) /\ (Older(t, t)' => Older(t, t) \/ (t = new /\ IsPending(t)))
    BY <1>4, <2>1, ReviewEffect
  <2>9. IsPending(t) => (Issued(t) \/ OnItsWay(t)) /\ t \notin committed /\ ~Older(t, t)
    BY DEF TokensInv
  <2>10. Older(t, t) => IsPending(t)
    BY DEF Older, IsPending
  <2> QED
    BY <2>5, <2>6, <2>7, <2>8, <2>9, <2>10, IssuedStays
<1>5. ASSUME \A b \in Batches : ~Review(b), IsPending(t)'
      PROVE  (Issued(t)' \/ OnItsWay(t)') /\ t \notin committed' /\ ~Older(t, t)'
  <2>1. IsPending(t) /\ ~Older(t, t)'
    BY <1>5, PendingStep DEF TokensInv
  <2>2. ASSUME NEW p \in Paths, Drop(importer.shown[p].token) PROVE t # importer.shown[p].token
    <3>1. \A s \in Tokens : ~Older(s, s)
      BY DEF TokensInv, Older, IsPending
    <3> QED
      BY <1>5, <2>2, <3>1, DropEffect DEF Typed
  <2> QED
    BY <2>1, <2>2, CommittedStep, IssuedStays DEF TokensInv
<1> QED
  BY <1>1, <1>3, <1>4, <1>5

\* An entry stays true while no discards begin.
LEMMA EntryStays ==
  ASSUME Typed, HandlersInv, TokensInv, [Next]_vars,
         \A t \in Tokens : Discarded(t)' => Discarded(t),
         NEW p, NEW entry \in Item, EntryInv(p, entry)
  PROVE  EntryInv(p, entry)'
<1>1. committed \subseteq committed'
  BY CommittedStep
<1>2. entry.token \in Tokens \cup {None}
  BY DEF Item
<1>3. CASE entry.token = None
  BY <1>1, <1>3 DEF EntryInv
<1>4. CASE entry.token # None
  <2>1. entry.token \in Tokens
    BY <1>2, <1>4
  <2>2. Issued(entry.token)' /\ ~Discarded(entry.token)'
    BY <1>4, <2>1, IssuedStays DEF EntryInv
  <2> QED
    BY <1>1, <1>4, <2>2 DEF EntryInv
<1> QED
  BY <1>3, <1>4

\* What the page lists.
LEMMA ItemsStep ==
  ASSUME Typed, HandlersInv, TokensInv, [Next]_vars
  PROVE  ListInv(items)'
<1> SUFFICES ASSUME NEW p \in DOMAIN items', NEW entry, entry = items'[p]
             PROVE  EntryInv(p, entry)'
  BY DEF ListInv
<1>1. items' # NoItems
  BY ListsAre
<1>2. \A t \in Tokens : Discarded(t)' => Discarded(t)
  BY <1>1, DiscardedStep
<1>3. entry \in Item
  BY TypedStep, ListsAre DEF Typed, IsList
<1>4. ASSUME NEW old \in Item, EntryInv(p, old), entry.token = old.token,
             entry.status \in {old.status, "preflight", "failed"}
      PROVE  EntryInv(p, entry)'
  <2>1. EntryInv(p, entry)
    BY <1>4 DEF EntryInv
  <2> QED
    BY <1>2, <1>3, <2>1, EntryStays
<1>5. ASSUME NEW q \in DOMAIN items PROVE items[q] \in Item /\ EntryInv(q, items[q])
  BY <1>5, ListsAre DEF Typed, IsList, TokensInv, ListInv
<1>6. CASE UNCHANGED items
  BY <1>4, <1>5, <1>6
<1>7. UNCHANGED vars => UNCHANGED items
  BY DEF vars, ui
<1>8. Answer => UNCHANGED items
  BY DEF Answer, Review, DiscardForBatch, DiscardForLeave, ImportCommits, ImportFails
<1>9. ASSUME NEW b \in Batches, StartReview(b) PROVE EntryInv(p, entry)'
  <2>1. items' = [q \in loops[b].todo |-> Fresh]
    BY <1>1, <1>9, StartEffect
  <2>2. entry = Fresh
    BY <2>1
  <2> QED
    BY <2>2 DEF EntryInv, Fresh
<1>10. ASSUME NEW r, NEW status \in {"preflight", "failed"}, Enter(r, status, items[r].token)
       PROVE  EntryInv(p, entry)'
  <2>1. r \in DOMAIN items => items[r].token \in Tokens \cup {None}
    BY <1>5 DEF Item
  <2>2. /\ DOMAIN items' = DOMAIN items
        /\ p # r => items'[p] = items[p]
        /\ p = r => items'[p].status = status /\ items'[p].token = items[p].token
    <3>1. items \in Lists /\ status \in {"preflight", "reviewed", "blocked", "failed"}
      BY DEF Typed
    <3> HIDE DEF Typed
    <3> DEFINE token == items[r].token
    <3>2. Enter(r, status, token) /\ (r \in DOMAIN items => token \in Tokens \cup {None})
      BY <1>10, <2>1
    <3>3. p = r => token = items[p].token
      OBVIOUS
    <3> HIDE DEF token
    <3>4. /\ DOMAIN items' = DOMAIN items
          /\ \A q \in DOMAIN items : q # r => items'[q] = items[q]
          /\ r \in DOMAIN items =>
               items'[r] = [status |-> status, token |-> token, ack |-> items[r].ack]
      BY <3>1, <3>2, EnterEffect
    <3> QED
      BY <3>3, <3>4
  <2> QED
    BY <1>4, <1>5, <2>2
<1>11. ASSUME NEW b \in Batches, TakeReview(b) PROVE EntryInv(p, entry)'
  <2> DEFINE q == loops[b].at
             new == [batch |-> b, path |-> q]
  <2>1. q \in loops[b].todo /\ q \in Paths
    BY <1>11 DEF Typed, HandlersInv, LoopRecords, TakeReview
  <2>2. new \in Tokens /\ new.batch = b /\ new.path = q
    BY <2>1 DEF Tokens
  <2>3. Enter(q, "reviewed", new) \/ Enter(q, "blocked", new)
    BY <1>11 DEF TakeReview
  <2> HIDE DEF q, new
  <2>4. ASSUME NEW status \in {"reviewed", "blocked"}, Enter(q, status, new)
        PROVE  /\ DOMAIN items' = DOMAIN items
               /\ \A r \in DOMAIN items : r # q => items'[r] = items[r]
               /\ q \in DOMAIN items =>
                    items'[q] = [status |-> status, token |-> new, ack |-> items[q].ack]
    BY <2>2, <2>4, EnterEffect DEF Typed
  <2>5. /\ DOMAIN items' = DOMAIN items
        /\ p # q => items'[p] = items[p]
        /\ p = q => items'[p].status \in {"reviewed", "blocked"} /\ items'[p].token = new
    BY <2>3, <2>4
  <2>6. CASE p # q
    BY <1>4, <1>5, <2>5, <2>6
  <2>7. CASE p = q
    <3>1. q \notin loops'[b].todo /\ loops'[b].step \in {"preflight", "ended"}
      BY <1>11, AdvanceEffect DEF Typed, TakeReview, q
    <3>2. ~Discarded(new)
      BY <2>1, <2>2 DEF TokensInv, Issued
    <3>3. \A t \in Tokens : t = new => Issued(t)' /\ ~Discarded(t)'
      BY <1>2, <2>2, <3>1, <3>2 DEF Issued
    <3>4. entry.token \in Tokens /\ entry.token.path = p /\ entry.token # None
      BY <2>2, <2>5, <2>7, ImportConstants
    <3>5. Issued(entry.token)' /\ ~Discarded(entry.token)'
      BY <2>5, <2>7, <3>3, <3>4
    <3>6. entry.status # "imported"
      BY <2>5, <2>7
    <3> QED
      BY <3>4, <3>5, <3>6 DEF EntryInv
  <2> QED
    BY <2>6, <2>7
<1>12. CASE items' = Results
  <2> DEFINE shown == importer.shown
  <2>1. /\ p \in DOMAIN shown /\ shown[p] \in Item /\ EntryInv(p, shown[p])
        /\ entry.token = shown[p].token
        /\ entry.status \in {"imported", "failed", shown[p].status}
        /\ entry.status = "imported" => shown[p].status = "imported" \/ p \in importer.done
    BY <1>12, ResultsEffect, ListsAre DEF Typed, ImporterRecords, IsList, TokensInv, ListInv
  <2>2. p \in importer.done => shown[p].token \in committed \ {None}
    BY DEF TokensInv
  <2>3. EntryInv(p, entry)
    BY <2>1, <2>2 DEF EntryInv
  <2> QED
    BY <1>2, <1>3, <2>3, EntryStays
<1>13. ASSUME NEW q \in Paths, ToggleAck(q) PROVE EntryInv(p, entry)'
  <2>1. items \in [DOMAIN items -> Item]
    BY ListsAre DEF Typed
  <2>2. p \in DOMAIN items /\ items'[p].status = items[p].status /\ items'[p].token = items[p].token
    BY <1>13, <2>1 DEF ToggleAck, Item
  <2> QED
    BY <1>4, <1>5, <2>2
<1>14. Continue => EntryInv(p, entry)'
  <2>1. ASSUME NEW b \in Batches, NEW q \in Paths, TakePreflight(b, q)
        PROVE  Enter(q, "preflight", items[q].token) \/ Enter(q, "failed", items[q].token)
    BY <2>1 DEF TakePreflight
  <2>2. ASSUME NEW b \in Batches, TakeError(b)
        PROVE  Enter(loops[b].at, "failed", items[loops[b].at].token)
    BY <2>2 DEF TakeError
  <2>3. ASSUME NEW l \in Leaves, Cancelled(l) \/ Left(l) PROVE UNCHANGED items
    BY <1>1, <2>3 DEF Cancelled, Left
  <2>4. EndImport => UNCHANGED items
    BY <1>1 DEF EndImport
  <2>5. ShowResults => items' = Results
    BY DEF ShowResults
  <2> QED
    BY <1>6, <1>9, <1>10, <1>11, <1>12, <2>1, <2>2, <2>3, <2>4, <2>5 DEF Continue
<1>15. User => EntryInv(p, entry)'
  BY <1>1, <1>6, <1>13 DEF User, ChooseFiles, Leave, StartImport, Return
<1> QED
  BY <1>6, <1>7, <1>8, <1>14, <1>15 DEF Next

\* What the importer holds.
LEMMA ShownStep ==
  ASSUME Typed, HandlersInv, TokensInv, [Next]_vars
  PROVE  /\ ListInv(importer.shown)'
         /\ \A p \in importer'.done : importer'.shown[p].token \in committed' \ {None}
<1> DEFINE shown == importer.shown
           new == importer'.shown
           Goal == /\ ListInv(importer.shown)'
                   /\ \A p \in importer'.done : new[p].token \in committed' \ {None}
<1>1. committed \subseteq committed'
  BY CommittedStep
<1>2. ASSUME new = NoItems, importer'.done = {} PROVE Goal
  BY <1>2, ListsAre DEF ListInv
<1>3. \/ new = NoItems
      \/ \A t \in Tokens : Discarded(t)' => Discarded(t)
  BY DiscardedStep
<1>4. ASSUME NEW p \in DOMAIN new, NEW entry, entry = new[p], EntryInv(p, entry)
      PROVE  EntryInv(p, entry)'
  <2>1. entry \in Item
    BY <1>4, TypedStep, ListsAre DEF Typed, ImporterRecords, IsList
  <2>2. \A t \in Tokens : Discarded(t)' => Discarded(t)
    BY <1>3, ListsAre
  <2> QED
    BY <1>4, <2>1, <2>2, EntryStays
<1>5. ASSUME \A p \in DOMAIN new : EntryInv(p, new[p]) PROVE ListInv(importer.shown)'
  <2> SUFFICES ASSUME NEW p \in DOMAIN new, NEW entry, entry = new[p] PROVE EntryInv(p, entry)'
    BY DEF ListInv
  <2> QED
    BY <1>4, <1>5
<1>6. ASSUME UNCHANGED importer PROVE Goal
  BY <1>1, <1>5, <1>6 DEF TokensInv, ListInv
<1>7. ASSUME NEW p \in Paths, ImportCommits(p) PROVE Goal
  <2>1. new = shown /\ importer'.done = importer.done \cup {p} /\ p \in Importables(shown)
    BY <1>7, ImportEffect DEF HandlersInv
  <2>2. shown[p].token \in committed' \ {None}
    BY <1>7, <2>1 DEF ImportCommits, Importables
  <2> QED
    BY <1>1, <1>5, <2>1, <2>2 DEF TokensInv, ListInv
<1>8. ASSUME NEW p \in Paths, ImportFails(p) PROVE Goal
  <2>1. new = shown /\ importer'.done = importer.done
    BY <1>8, ImportEffect
  <2> QED
    BY <1>1, <1>5, <2>1 DEF TokensInv, ListInv
<1>9. CASE ShowResults
  <2>1. new = Results /\ importer'.done = importer.done
    BY <1>9 DEF Typed, ImporterRecords, ShowResults
  <2>2. ASSUME NEW p \in DOMAIN new PROVE EntryInv(p, new[p])
    <3>1. /\ p \in DOMAIN shown /\ EntryInv(p, shown[p])
          /\ new[p].token = shown[p].token
          /\ new[p].status \in {"imported", "failed", shown[p].status}
          /\ new[p].status = "imported" => shown[p].status = "imported" \/ p \in importer.done
      BY <2>1, ResultsEffect DEF TokensInv, ListInv
    <3>2. p \in importer.done => shown[p].token \in committed \ {None}
      BY DEF TokensInv
    <3> QED
      BY <3>1, <3>2 DEF EntryInv
  <2>3. importer.done \subseteq DOMAIN shown
    BY DEF Typed
  <2>4. \A p \in importer.done : new[p].token \in committed' \ {None}
    BY <1>1, <2>1, <2>3, ResultsEffect DEF TokensInv
  <2> QED
    BY <1>5, <2>1, <2>2, <2>4
<1>10. CASE EndImport
  BY <1>2, <1>10 DEF EndImport
<1>11. CASE StartImport
  <2>1. new = items /\ importer'.done = {}
    BY <1>11 DEF StartImport
  <2> QED
    BY <1>5, <2>1 DEF TokensInv, ListInv
<1>12. UNCHANGED vars => Goal
  BY <1>6 DEF vars, ui
<1>13. Answer => Goal
  BY <1>6, <1>7, <1>8 DEF Answer, Review, DiscardForBatch, DiscardForLeave
<1>14. Continue => Goal
  BY <1>6, <1>9, <1>10 DEF Continue, StartReview, TakePreflight, TakeReview, TakeError,
                            Cancelled, Left
<1>15. User => Goal
  BY <1>6, <1>11 DEF User, ChooseFiles, ToggleAck, Leave, Return
<1> QED
  BY <1>12, <1>13, <1>14, <1>15 DEF Next

-----------------------------------------------------------------------------
(* Results. *)

ImportInv == Typed /\ HandlersInv /\ TokensInv

\* The invariant holds at first, and every step keeps it.
LEMMA ImportInvInit ==
  ASSUME Init
  PROVE  ImportInv
<1>1. HandlersInv
  BY DEF Init, HandlersInv
<1>2. \A t : ~IsPending(t)
  BY EmptySeq DEF Init, IsPending
<1>3. TokensInv
  BY <1>2, ListsAre DEF Init, TokensInv, ListInv, Discarded
<1> QED
  BY <1>1, <1>3, TypedInit DEF ImportInv

\* Every step keeps the invariant.
LEMMA ImportInvStep ==
  ASSUME ImportInv, [Next]_vars
  PROVE  ImportInv'
<1>1. Typed' /\ HandlersInv'
  BY TypedStep, HandlersStep DEF ImportInv
<1>2. TokensInv'
  BY ItemsStep, ShownStep, TokensStep DEF ImportInv, TokensInv
<1> QED
  BY <1>1, <1>2 DEF ImportInv

\* Lists, handlers and reviews stay in step in every behaviour: entries name reviews
\* of their own archive, a review is held once, and imported only once (app.js
\* 52788-52866, desktop.rs 842-931).
THEOREM ImportInvariant == Spec => []ImportInv
BY ImportInvInit, ImportInvStep, PTL DEF Spec

\* The state of the page and of the back end has its types (app.js 54076-54079).
THEOREM ImportTypes == Spec => []TypeOK
<1>1. ImportInv => TypeOK
  BY TypedImpliesTypeOK DEF ImportInv
<1> QED
  BY <1>1, ImportInvariant, PTL

\* However late answers, results and new selections interleave, an archive that is
\* listed as imported is in the library (app.js 52838-52866).
THEOREM NothingFalselyImported == Spec => []NoFalseSuccess
<1>1. ImportInv => NoFalseSuccess
  BY DEF ImportInv, TokensInv, ListInv, EntryInv, NoFalseSuccess
<1> QED
  BY <1>1, ImportInvariant, PTL

\* No handler waits for the discard of a review that is yet to be imported
\* (app.js 54118-54124).
THEOREM ImportUndisturbed == Spec => []ImportNotDiscarded
<1>1. ImportInv => ImportNotDiscarded
  BY DEF ImportInv, Typed, HandlersInv, TokensInv, ListInv, EntryInv, Discarded, Importables,
         ImportNotDiscarded
<1> QED
  BY <1>1, ImportInvariant, PTL

================================================================================
