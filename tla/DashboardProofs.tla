-------------------------- MODULE DashboardProofs ---------------------------
(***************************************************************************)
(* Proofs about the dashboard, for any number of rows, timestamps, limits  *)
(* and polls: in the EventsExplorer paging repeats no row and skips none,  *)
(* whatever is inserted meanwhile, and the stack of cursors describes the  *)
(* screen; the HealthStrip does not go back on what it says.               *)
(***************************************************************************)
EXTENDS Dashboard, FiniteSetTheorems, TLAPS

-----------------------------------------------------------------------------
(* What a page is, and the inductive invariant.                            *)

\* The rows are in the order of the question.
InOrder(order, rows) ==
  \A i, j \in 1..Len(rows) :
    i < j => Explorer!Precedes(order, rows[i], rows[j])

\* Every row of the page comes after the cursor.
After(order, cursor, rows) ==
  \A i \in 1..Len(rows) : Explorer!Beyond(order, cursor, rows[i])

\* A full page has rows after it, if any; no row is after another one.
Follows(f, rows, r) ==
  /\ Len(rows) = f.limit
  /\ Explorer!Precedes(f.order, rows[Len(rows)], r)

\* The row is on the page.
On(r, rows) == \E i \in 1..Len(rows) : rows[i] = r

\* Every row of S that comes after the cursor is on the page or follows it.
Covers(f, cursor, rows, S) ==
  \A r \in S : Explorer!Beyond(f.order, cursor, r) =>
                 On(r, rows) \/ Follows(f, rows, r)

\* A stack of cursors: only the first page has none.
Stacks == {s \in Seq(Explorer!Cursors) :
             /\ Len(s) > 0
             /\ s[1] = None
             /\ \A i \in 2..Len(s) : s[i] \in Explorer!Rows}

Queries == [cursor : Explorer!Cursors, onSuccess : Stacks \cup {None},
            form : Explorer!Forms, rows : Seq(Explorer!Rows) \cup {None},
            base : SUBSET Explorer!Rows]

Walks == [form : Explorer!Forms, base : SUBSET Explorer!Rows,
          pages : Seq(Seq(Explorer!Rows))]

\* The types, and one query at a time.
Typed ==
  /\ next_id \in 1..(MaxRows + 1)
  /\ uncommitted \subseteq Explorer!Rows
  /\ events \subseteq Explorer!Rows
  /\ form \in Explorer!Forms
  /\ edits \in 0..MaxEdits
  /\ cursorStack \in Stacks
  /\ results \in Seq(Explorer!Rows) \cup {None}
  /\ nextCursor \in Explorer!Cursors
  /\ loading \in BOOLEAN
  /\ error \in BOOLEAN
  /\ queries \subseteq Queries
  /\ walk \in Walks \cup {None}
  /\ \A p, q \in queries : p = q
  /\ loading = (queries # {})

\* Every cursor of the stack is the end of a full page of the walk.
Fits(w, stack) ==
  /\ Len(stack) <= Len(w.pages) + 1
  /\ \A i \in 2..Len(stack) :
       /\ Len(w.pages[i - 1]) = w.form.limit
       /\ stack[i] = w.pages[i - 1][w.form.limit]

\* The pages are in order, one after another.
PagesInOrder(w) ==
  \A m, n \in 1..Len(w.pages) :
    \A i \in 1..Len(w.pages[m]), j \in 1..Len(w.pages[n]) :
      m < n \/ (m = n /\ i < j) =>
        Explorer!Precedes(w.form.order, w.pages[m][i], w.pages[n][j])

\* After every page of the walk, the rows that were there at its beginning
\* have been on a page or are still to come.
PagesCover(w) ==
  \A n \in 1..Len(w.pages), r \in w.base :
    \/ \E m \in 1..n : On(r, w.pages[m])
    \/ Follows(w.form, w.pages[n], r)

\* What the screen shows of a walk.
WalkInv ==
  walk # None =>
    /\ Fits(walk, cursorStack)
    /\ Len(cursorStack) = Len(walk.pages)
    /\ results = walk.pages[Len(walk.pages)]
    /\ nextCursor = Explorer!NextCursor(walk.form, results)
    /\ walk.base \subseteq Explorer!Matching(walk.form, None)
    /\ After(walk.form.order, cursorStack[Len(cursorStack)], results)
    /\ PagesInOrder(walk)
    /\ PagesCover(walk)

\* What a query under way was asked for, ...
Asked(q) ==
  IF q.onSuccess = None
  THEN q.cursor = None /\ walk = None /\ cursorStack = <<None>>
  ELSE /\ q.cursor = q.onSuccess[Len(q.onSuccess)]
       /\ walk # None => Fits(walk, q.onSuccess)

\* ... and what its answer says.
Answered(q) ==
  q.rows # None =>
    /\ InOrder(q.form.order, q.rows)
    /\ After(q.form.order, q.cursor, q.rows)
    /\ Covers(q.form, q.cursor, q.rows, q.base)
    /\ q.base \subseteq Explorer!Matching(q.form, None)
    /\ walk # None /\ walk.form = q.form => walk.base \subseteq q.base

ExplorerInv ==
  /\ Typed
  /\ WalkInv
  /\ \A q \in queries : Asked(q) /\ Answered(q)

-----------------------------------------------------------------------------
(* The order of the rows, and the page it gives.                           *)

\* Row comparison on (timestamp, id), in either direction, is a strict total
\* order: rows are equal only if both columns are.
LEMMA RowOrder ==
  ASSUME NEW o, NEW a \in Explorer!Rows, NEW b \in Explorer!Rows,
         NEW c \in Explorer!Rows
  PROVE  /\ ~Explorer!Precedes(o, a, a)
         /\ Explorer!Precedes(o, a, b) /\ Explorer!Precedes(o, b, c)
              => Explorer!Precedes(o, a, c)
         /\ a = b \/ Explorer!Precedes(o, a, b) \/ Explorer!Precedes(o, b, a)
BY DashboardAssumption DEF Explorer!Rows, Explorer!Precedes, Explorer!Less

\* The rank counts rows.
LEMMA RankCounts ==
  ASSUME NEW o, NEW S, NEW r
  PROVE  Explorer!Rank(o, S, r) =
           Cardinality({s \in S : Explorer!Precedes(o, s, r)})
BY DEF Explorer!Rank, Explorer!Cardinality, Cardinality

\* There are finitely many rows.
LEMMA RowsFinite == IsFiniteSet(Explorer!Rows)
<1>. DEFINE P == (1..MaxTime) \X (1..MaxRows)
            f == [p \in P |-> [timestamp |-> p[1], id |-> p[2]]]
<1>1. IsFiniteSet(P)
  <2>1. IsFiniteSet(1..MaxTime) /\ IsFiniteSet(1..MaxRows)
    BY DashboardAssumption, FS_Interval
  <2>. QED
    BY <2>1, FS_Product, Zenon
<1>2. f \in [P -> Explorer!Rows]
  BY DEF Explorer!Rows
<1>3. ASSUME NEW r \in Explorer!Rows
      PROVE  \E p \in P : f[p] = r
  <2>1. <<r.timestamp, r.id>> \in P
    BY DEF Explorer!Rows
  <2>2. f[<<r.timestamp, r.id>>] = r
    BY <2>1 DEF Explorer!Rows
  <2>. QED
    BY <2>1, <2>2
<1>4. f \in Surjection(P, Explorer!Rows)
  BY <1>2, <1>3, Zenon DEF Surjection
<1>. QED
  BY <1>1, <1>4, FS_Surjection

\* A later row has more rows before it.
LEMMA RankGrows ==
  ASSUME NEW o, NEW S, S \subseteq Explorer!Rows, NEW a \in S, NEW b \in S,
         Explorer!Precedes(o, a, b)
  PROVE  /\ Explorer!Rank(o, S, a) \in Nat
         /\ Explorer!Rank(o, S, b) \in Nat
         /\ Explorer!Rank(o, S, a) < Explorer!Rank(o, S, b)
<1>. DEFINE A == {s \in S : Explorer!Precedes(o, s, a)}
            B == {s \in S : Explorer!Precedes(o, s, b)}
<1>1. IsFiniteSet(A) /\ IsFiniteSet(B)
  <2>1. A \in SUBSET Explorer!Rows /\ B \in SUBSET Explorer!Rows
    OBVIOUS
  <2>. QED
    BY <2>1, RowsFinite, FS_Subset
<1>2. A \subseteq B
  BY RowOrder, ZenonT(30)
<1>3. a \in B /\ a \notin A
  BY RowOrder
<1>4. Cardinality(A) \in Nat /\ Cardinality(B) \in Nat
  BY <1>1, FS_CardinalityType
<1>5. Cardinality(A) < Cardinality(B)
  BY <1>1, <1>2, <1>3, <1>4, FS_Subset
<1>. QED
  BY <1>4, <1>5, RankCounts

\* The rank of a row is below the number of rows.
LEMMA RankBound ==
  ASSUME NEW o, NEW S, S \subseteq Explorer!Rows, NEW a \in S
  PROVE  /\ Cardinality(S) \in Nat
         /\ Explorer!Rank(o, S, a) \in 0..(Cardinality(S) - 1)
<1>. DEFINE A == {s \in S : Explorer!Precedes(o, s, a)}
<1>1. IsFiniteSet(A) /\ IsFiniteSet(S)
  BY RowsFinite, FS_Subset
<1>2. A \subseteq S /\ a \notin A
  BY RowOrder
<1>3. Cardinality(A) \in Nat /\ Cardinality(S) \in Nat
  BY <1>1, FS_CardinalityType
<1>4. Cardinality(A) < Cardinality(S)
  BY <1>1, <1>2, <1>3, FS_Subset
<1>. QED
  BY <1>3, <1>4, RankCounts

\* Rows with the same rank are the same row.
LEMMA RankInjective ==
  ASSUME NEW o, NEW S, S \subseteq Explorer!Rows, NEW a \in S, NEW b \in S,
         Explorer!Rank(o, S, a) = Explorer!Rank(o, S, b)
  PROVE  a = b
<1>1. ~Explorer!Precedes(o, a, b) /\ ~Explorer!Precedes(o, b, a)
  BY RankGrows
<1>. QED
  BY <1>1, RowOrder

\* Every rank below the number of rows is some row's: the order is total, so
\* the ranks are as many as the rows.
LEMMA RankTaken ==
  ASSUME NEW o, NEW S, S \subseteq Explorer!Rows,
         NEW k \in 0..(Cardinality(S) - 1)
  PROVE  \E r \in S : Explorer!Rank(o, S, r) = k
<1>. DEFINE n == Cardinality(S)
            f == [r \in S |-> Explorer!Rank(o, S, r)]
<1>1. IsFiniteSet(S) /\ n \in Nat
  BY RowsFinite, FS_Subset, FS_CardinalityType
<1>2. IsFiniteSet(0..(n - 1)) /\ Cardinality(0..(n - 1)) = n
  <2>1. 0 \in Int /\ n - 1 \in Int
    BY <1>1
  <2>2. /\ IsFiniteSet(0..(n - 1))
        /\ Cardinality(0..(n - 1)) =
             IF 0 > n - 1 THEN 0 ELSE (n - 1) - 0 + 1
    BY <2>1, FS_Interval, Zenon
  <2>. QED
    BY <1>1, <2>2
<1>3. f \in [S -> 0..(n - 1)]
  BY RankBound
<1>4. f \in Injection(S, 0..(n - 1))
  BY <1>3, RankInjective DEF Injection, IsInjective
<1>5. f \in Surjection(S, 0..(n - 1))
  BY <1>1, <1>2, <1>4, FS_Injection
<1>. QED
  BY <1>5, Zenon DEF Surjection

\* What queryEvents returns: matching rows in order, and those it leaves out
\* come after a full page.
LEMMA PageIsRanked ==
  ASSUME events \subseteq Explorer!Rows, NEW f \in Explorer!Forms,
         NEW cursor \in Explorer!Cursors
  PROVE  LET page == Explorer!queryEvents(f, cursor)
             M == Explorer!Matching(f, cursor)
         IN  /\ page \in Seq(M)
             /\ Len(page) <= f.limit
             /\ Len(page) = f.limit \/ Len(page) = Cardinality(M)
             /\ \A i \in 1..Len(page) :
                  Explorer!Rank(f.order, M, page[i]) = i - 1
<1>. DEFINE page == Explorer!queryEvents(f, cursor)
            M == Explorer!Matching(f, cursor)
            n == Cardinality(M)
            size == IF n > f.limit THEN f.limit ELSE n
            row(i) == CHOOSE r \in M : Explorer!Rank(f.order, M, r) = i - 1
<1>1. page = [i \in 1..size |-> row(i)]
  BY DEF Explorer!queryEvents, Explorer!Cardinality, Cardinality
<1>2. M \subseteq Explorer!Rows /\ n \in Nat
  BY RowsFinite, FS_Subset, FS_CardinalityType DEF Explorer!Matching
<1>3. f.limit \in Nat /\ size \in Nat /\ size <= n /\ size <= f.limit
  BY <1>2, DashboardAssumption DEF Explorer!Forms
<1>. HIDE DEF n, M
<1>4. ASSUME NEW i \in 1..size
      PROVE  row(i) \in M /\ Explorer!Rank(f.order, M, row(i)) = i - 1
  <2>1. i - 1 \in 0..(n - 1)
    BY <1>2, <1>3
  <2>2. \E r \in M : Explorer!Rank(f.order, M, r) = i - 1
    BY <1>2, <2>1, RankTaken, Zenon DEF n
  <2>. QED
    BY <2>2
<1>. HIDE DEF row
<1>5. [i \in 1..size |-> row(i)] \in Seq(M)
  BY <1>3, <1>4
<1>6. Len([i \in 1..size |-> row(i)]) = size
  BY <1>3
<1>7. page \in Seq(M) /\ Len(page) = size
  BY <1>1, <1>5, <1>6, Zenon
<1>8. ASSUME NEW i \in 1..Len(page)
      PROVE  Explorer!Rank(f.order, M, page[i]) = i - 1
  BY <1>1, <1>4, <1>7, Zenon
<1>9. size = f.limit \/ size = n
  OBVIOUS
<1>. HIDE DEF page, size
<1>10. /\ page \in Seq(M)
       /\ Len(page) <= f.limit
       /\ Len(page) = f.limit \/ Len(page) = Cardinality(M)
       /\ \A i \in 1..Len(page) : Explorer!Rank(f.order, M, page[i]) = i - 1
  BY <1>3, <1>7, <1>8, <1>9 DEF n
<1>. QED
  BY <1>10 DEF page, M

\* So a page is in order, after its cursor, and covers the matching rows.
LEMMA PageFacts ==
  ASSUME events \subseteq Explorer!Rows, NEW f \in Explorer!Forms,
         NEW cursor \in Explorer!Cursors
  PROVE  LET page == Explorer!queryEvents(f, cursor)
         IN  /\ page \in Seq(Explorer!Rows)
             /\ InOrder(f.order, page)
             /\ After(f.order, cursor, page)
             /\ Covers(f, cursor, page, Explorer!Matching(f, None))
<1>. DEFINE page == Explorer!queryEvents(f, cursor)
            M == Explorer!Matching(f, cursor)
            rank(r) == Explorer!Rank(f.order, M, r)
<1>1. /\ page \in Seq(M)
      /\ Len(page) <= f.limit
      /\ Len(page) = f.limit \/ Len(page) = Cardinality(M)
      /\ \A i \in 1..Len(page) : rank(page[i]) = i - 1
  BY PageIsRanked
<1>2. /\ M \subseteq Explorer!Rows
      /\ \A r \in M : Explorer!Beyond(f.order, cursor, r)
      /\ \A r \in Explorer!Matching(f, None) :
           Explorer!Beyond(f.order, cursor, r) => r \in M
  BY DEF Explorer!Matching
<1>3. f.limit \in Nat /\ f.limit > 0
  BY DashboardAssumption DEF Explorer!Forms
<1>. HIDE DEF page, M
<1>4. ASSUME NEW a \in M, NEW b \in M
      PROVE  /\ rank(a) \in 0..(Cardinality(M) - 1)
             /\ rank(a) = rank(b) => a = b
             /\ rank(a) < rank(b) => Explorer!Precedes(f.order, a, b)
  <2>1. Cardinality(M) \in Nat /\ rank(a) \in 0..(Cardinality(M) - 1)
    BY <1>2, RankBound
  <2>2. rank(b) \in 0..(Cardinality(M) - 1)
    BY <1>2, RankBound
  <2>3. rank(a) = rank(b) => a = b
    BY <1>2, RankInjective
  <2>4. Explorer!Precedes(f.order, b, a) => rank(b) < rank(a)
    BY <1>2, RankGrows
  <2>5. a = b \/ Explorer!Precedes(f.order, a, b)
              \/ Explorer!Precedes(f.order, b, a)
    BY <1>2, RowOrder, Zenon
  <2>. HIDE DEF rank
  <2>. QED
    BY <2>1, <2>2, <2>3, <2>4, <2>5
<1>. HIDE DEF rank
<1>5. Cardinality(M) \in Nat
  BY <1>2, RowsFinite, FS_Subset, FS_CardinalityType
<1>6. page \in Seq(Explorer!Rows)
  BY <1>1, <1>2
<1>7. \A i \in 1..Len(page) : page[i] \in M
  BY <1>1
<1>8. InOrder(f.order, page)
  <2>. SUFFICES ASSUME NEW i \in 1..Len(page), NEW j \in 1..Len(page), i < j
                PROVE  Explorer!Precedes(f.order, page[i], page[j])
    BY DEF InOrder
  <2>1. rank(page[i]) < rank(page[j])
    BY <1>1
  <2>. QED
    BY <1>4, <1>7, <2>1
<1>9. After(f.order, cursor, page)
  BY <1>2, <1>7 DEF After
<1>10. ASSUME NEW r \in M
       PROVE  On(r, page) \/ Follows(f, page, r)
  <2>1. rank(r) \in 0..(Cardinality(M) - 1)
    BY <1>4
  <2>2. Len(page) \in Nat
    BY <1>1
  <2>3. CASE rank(r) < Len(page)
    <3>1. rank(r) + 1 \in 1..Len(page)
      BY <1>5, <2>1, <2>2, <2>3
    <3>2. rank(page[rank(r) + 1]) = rank(r)
      BY <1>1, <1>5, <2>1, <3>1
    <3>3. page[rank(r) + 1] = r
      BY <1>4, <1>7, <3>1, <3>2
    <3>. QED
      BY <3>1, <3>3 DEF On
  <2>4. CASE ~(rank(r) < Len(page))
    <3>1. Len(page) = f.limit
      BY <1>1, <1>5, <2>1, <2>2, <2>4
    <3>2. Len(page) \in 1..Len(page)
      BY <1>3, <3>1
    <3>3. rank(page[Len(page)]) < rank(r)
      BY <1>1, <1>5, <2>1, <2>2, <2>4, <3>2
    <3>4. Explorer!Precedes(f.order, page[Len(page)], r)
      BY <1>4, <1>7, <3>2, <3>3
    <3>. QED
      BY <3>1, <3>4 DEF Follows
  <2>. QED
    BY <2>3, <2>4
<1>11. Covers(f, cursor, page, Explorer!Matching(f, None))
  BY <1>2, <1>10 DEF Covers
<1>. QED
  BY <1>6, <1>8, <1>9, <1>11 DEF page

-----------------------------------------------------------------------------
(* Every step of the explorer preserves the invariant.                     *)

\* The table grows: no row leaves it.
LEMMA MatchingGrows ==
  ASSUME NEW f, events \subseteq events'
  PROVE  Explorer!Matching(f, None) \subseteq Explorer!Matching(f, None)'
BY DEF Explorer!Matching

\* InsertRow and CommitRow, the write path.
LEMMA TableStep ==
  ASSUME ExplorerInv, Explorer!InsertRow \/ Explorer!CommitRow
  PROVE  ExplorerInv'
<1>1. /\ UNCHANGED <<form, edits, cursorStack, results, nextCursor, loading,
                     error, queries, walk>>
      /\ events \subseteq events'
  BY DEF Explorer!InsertRow, Explorer!CommitRow, Explorer!fields,
     Explorer!screen
<1>2. Typed'
  <2>1. /\ next_id' \in 1..(MaxRows + 1)
        /\ uncommitted' \subseteq Explorer!Rows
        /\ events' \subseteq Explorer!Rows
    <3>1. CASE Explorer!InsertRow
      BY <3>1, DashboardAssumption DEF ExplorerInv, Typed,
         Explorer!InsertRow, Explorer!Rows
    <3>2. CASE Explorer!CommitRow
      BY <3>2 DEF ExplorerInv, Typed, Explorer!CommitRow
    <3>. QED
      BY <3>1, <3>2
  <2>. QED
    BY <1>1, <2>1 DEF ExplorerInv, Typed
<1>3. \A f : Explorer!Matching(f, None) \subseteq Explorer!Matching(f, None)'
  BY <1>1, MatchingGrows
<1>4. WalkInv'
  BY <1>1, <1>3 DEF ExplorerInv, WalkInv
<1>5. \A q \in queries' : Asked(q)' /\ Answered(q)'
  BY <1>1, <1>3 DEF ExplorerInv, Asked, Answered
<1>. QED
  BY <1>2, <1>4, <1>5 DEF ExplorerInv

\* EditForm: a query under way keeps the form it was asked with.
LEMMA EditStep ==
  ASSUME ExplorerInv, Explorer!EditForm
  PROVE  ExplorerInv'
<1>1. UNCHANGED <<next_id, uncommitted, events, cursorStack, results,
                  nextCursor, loading, error, queries, walk>>
  BY DEF Explorer!EditForm, Explorer!table, Explorer!screen
<1>2. Typed'
  BY <1>1, DashboardAssumption DEF ExplorerInv, Typed, Explorer!EditForm
<1>3. \A f : Explorer!Matching(f, None)' = Explorer!Matching(f, None)
  BY <1>1 DEF Explorer!Matching
<1>4. WalkInv'
  BY <1>1, <1>3 DEF ExplorerInv, WalkInv
<1>5. \A q \in queries' : Asked(q)' /\ Answered(q)'
  BY <1>1, <1>3 DEF ExplorerInv, Asked, Answered
<1>. QED
  BY <1>2, <1>4, <1>5 DEF ExplorerInv

\* runQuery: the new query is the only one, and it has no answer yet.
LEMMA QueryStarts ==
  ASSUME ExplorerInv, ~loading, NEW q \in Queries, q.rows = None,
         queries' = queries \cup {q}, loading' = TRUE, error' = FALSE,
         UNCHANGED <<next_id, uncommitted, events, form, edits, results>>,
         cursorStack' \in Stacks, nextCursor' \in Explorer!Cursors,
         walk' \in Walks \cup {None}, WalkInv', Asked(q)'
  PROVE  ExplorerInv'
<1>1. queries' = {q}
  BY Zenon DEF ExplorerInv, Typed
<1>2. Typed'
  BY <1>1, Zenon DEF ExplorerInv, Typed
<1>3. Answered(q)'
  BY DEF Answered
<1>4. \A p \in queries' : p = q
  BY <1>1
<1>5. \A p \in queries' : Asked(p)' /\ Answered(p)'
  BY <1>3, <1>4 DEF Asked, Answered
<1>. QED
  BY <1>2, <1>5 DEF ExplorerInv

\* A query as runQuery records it.
LEMMA QueryRecord ==
  ASSUME Typed, NEW cursor \in Explorer!Cursors,
         NEW onSuccess \in Stacks \cup {None}
  PROVE  \E q \in Queries : /\ q = Explorer!Query(cursor, onSuccess)
                            /\ q.rows = None
                            /\ q.cursor = cursor
                            /\ q.onSuccess = onSuccess
<1>. DEFINE q == [cursor |-> cursor, onSuccess |-> onSuccess, form |-> form,
                  rows |-> None, base |-> {}]
<1>1. q = Explorer!Query(cursor, onSuccess)
  BY DEF Explorer!Query
<1>2. q \in Queries
  BY DEF Typed, Queries
<1>. QED
  BY <1>1, <1>2

\* handleSubmit: a new walk begins with the first page.
LEMMA SubmitStep ==
  ASSUME ExplorerInv, Explorer!handleSubmit
  PROVE  ExplorerInv'
<1>1. /\ ~loading
      /\ cursorStack' = <<None>>
      /\ nextCursor' = None
      /\ Explorer!runQuery(None, None)
      /\ walk' = None
      /\ UNCHANGED <<next_id, uncommitted, events, form, edits, results>>
  BY DEF Explorer!handleSubmit, Explorer!table, Explorer!fields
<1>2. None \in Explorer!Cursors
  BY DEF Explorer!Cursors
<1>3. <<None>> \in Stacks
  BY <1>2 DEF Stacks
<1>4. WalkInv'
  BY <1>1 DEF WalkInv
<1>5. PICK q \in Queries : /\ q = Explorer!Query(None, None)
                           /\ q.rows = None
                           /\ q.cursor = None
                           /\ q.onSuccess = None
  BY <1>2, QueryRecord DEF ExplorerInv
<1>6. Asked(q)'
  BY <1>1, <1>5 DEF Asked
<1>7. queries' = queries \cup {q} /\ loading' = TRUE /\ error' = FALSE
  BY <1>1, <1>5 DEF Explorer!runQuery
<1>. QED
  BY <1>1, <1>2, <1>3, <1>4, <1>5, <1>6, <1>7, QueryStarts, Zenon

\* A walk that is left alone stays as it was.
LEMMA WalkUnchanged ==
  ASSUME WalkInv,
         UNCHANGED <<events, cursorStack, results, nextCursor, walk>>
  PROVE  WalkInv'
<1>1. \A f : Explorer!Matching(f, None)' = Explorer!Matching(f, None)
  BY DEF Explorer!Matching
<1>. QED
  BY <1>1 DEF WalkInv

\* What makes a sequence a stack of cursors.
LEMMA StackShape ==
  ASSUME NEW s \in Seq(Explorer!Cursors), NEW n \in Nat, Len(s) = n, n > 0,
         s[1] = None, \A i \in 2..n : s[i] \in Explorer!Rows
  PROVE  s \in Stacks
BY DEF Stacks

\* A stack grows by a row.
LEMMA StackPush ==
  ASSUME NEW s \in Stacks, NEW c \in Explorer!Rows
  PROVE  /\ Append(s, c) \in Stacks
         /\ Len(Append(s, c)) = Len(s) + 1
         /\ \A i \in 1..Len(s) : Append(s, c)[i] = s[i]
         /\ Append(s, c)[Len(s) + 1] = c
<1>1. /\ s \in Seq(Explorer!Cursors) /\ c \in Explorer!Cursors
      /\ Len(s) \in Nat /\ Len(s) > 0
      /\ s[1] = None
      /\ \A i \in 2..Len(s) : s[i] \in Explorer!Rows
  BY DEF Stacks, Explorer!Cursors
<1>2. /\ Append(s, c) \in Seq(Explorer!Cursors)
      /\ Len(Append(s, c)) = Len(s) + 1
      /\ \A i \in 1..Len(s) : Append(s, c)[i] = s[i]
      /\ Append(s, c)[Len(s) + 1] = c
  BY <1>1
<1>3. Append(s, c)[1] = None
  BY <1>1, <1>2
<1>4. ASSUME NEW i \in 2..(Len(s) + 1)
      PROVE  Append(s, c)[i] \in Explorer!Rows
  <2>1. i = Len(s) + 1 \/ i \in 2..Len(s)
    BY <1>1
  <2>. QED
    BY <1>1, <1>2, <2>1
<1>5. Append(s, c) \in Stacks
  <2>1. Len(s) + 1 \in Nat /\ Len(s) + 1 > 0
    BY <1>1
  <2>. QED
    BY <1>2, <1>3, <1>4, <2>1, StackShape, Zenon
<1>. QED
  BY <1>2, <1>5

\* A stack of two or more loses its top.
LEMMA StackPop ==
  ASSUME NEW s \in Stacks, Len(s) > 1
  PROVE  /\ SubSeq(s, 1, Len(s) - 1) \in Stacks
         /\ Len(SubSeq(s, 1, Len(s) - 1)) = Len(s) - 1
         /\ \A i \in 1..(Len(s) - 1) : SubSeq(s, 1, Len(s) - 1)[i] = s[i]
<1>1. /\ s \in Seq(Explorer!Cursors) /\ Len(s) \in Nat
      /\ s[1] = None
      /\ \A i \in 2..Len(s) : s[i] \in Explorer!Rows
  BY DEF Stacks
<1>2. /\ SubSeq(s, 1, Len(s) - 1) \in Seq(Explorer!Cursors)
      /\ Len(SubSeq(s, 1, Len(s) - 1)) = Len(s) - 1
      /\ \A i \in 1..(Len(s) - 1) : SubSeq(s, 1, Len(s) - 1)[i] = s[i]
  BY <1>1
<1>3. SubSeq(s, 1, Len(s) - 1)[1] = None
  BY <1>1, <1>2
<1>4. \A i \in 2..(Len(s) - 1) :
        SubSeq(s, 1, Len(s) - 1)[i] \in Explorer!Rows
  BY <1>1, <1>2
<1>5. SubSeq(s, 1, Len(s) - 1) \in Stacks
  <2>1. Len(s) - 1 \in Nat /\ Len(s) - 1 > 0
    BY <1>1
  <2>. QED
    BY <1>2, <1>3, <1>4, <2>1, StackShape, Zenon
<1>. QED
  BY <1>2, <1>5

\* handleNext: the cursor is the end of the page on the screen.
LEMMA NextStep ==
  ASSUME ExplorerInv, Explorer!handleNext
  PROVE  ExplorerInv'
<1>. DEFINE stack == Append(cursorStack, nextCursor)
<1>1. /\ ~loading
      /\ nextCursor # None
      /\ Explorer!runQuery(nextCursor, stack)
      /\ UNCHANGED <<next_id, uncommitted, events, form, edits, cursorStack,
                     results, nextCursor, walk>>
  BY DEF Explorer!handleNext, Explorer!table, Explorer!fields
<1>2. /\ nextCursor \in Explorer!Rows
      /\ nextCursor \in Explorer!Cursors
      /\ cursorStack \in Stacks
      /\ walk \in Walks \cup {None}
  BY <1>1 DEF ExplorerInv, Typed, Explorer!Cursors
<1>3. WalkInv'
  BY <1>1, WalkUnchanged DEF ExplorerInv
<1>4. /\ stack \in Stacks
      /\ Len(stack) = Len(cursorStack) + 1
      /\ \A i \in 1..Len(cursorStack) : stack[i] = cursorStack[i]
      /\ stack[Len(cursorStack) + 1] = nextCursor
  BY <1>2, StackPush
<1>5. stack # None
  BY <1>4, DashboardAssumption, SMTT(30) DEF Stacks
<1>. HIDE DEF stack
<1>6. ASSUME walk # None
      PROVE  Fits(walk, stack)
  <2>1. /\ Fits(walk, cursorStack)
        /\ Len(cursorStack) = Len(walk.pages)
        /\ results = walk.pages[Len(walk.pages)]
        /\ nextCursor = Explorer!NextCursor(walk.form, results)
    BY <1>6 DEF ExplorerInv, WalkInv
  <2>2. /\ Len(results) = walk.form.limit
        /\ nextCursor = results[walk.form.limit]
    BY <1>1, <2>1 DEF Explorer!NextCursor
  <2>3. Len(cursorStack) \in Nat
    BY <1>2 DEF Stacks
  <2>4. ASSUME NEW i \in 2..Len(stack)
        PROVE  /\ Len(walk.pages[i - 1]) = walk.form.limit
               /\ stack[i] = walk.pages[i - 1][walk.form.limit]
    <3>1. CASE i = Len(cursorStack) + 1
      BY <1>4, <2>1, <2>2, <2>3, <3>1
    <3>2. CASE i # Len(cursorStack) + 1
      <4>1. i \in 2..Len(cursorStack)
        BY <1>4, <2>3, <3>2
      <4>. QED
        BY <1>4, <2>1, <4>1 DEF Fits
    <3>. QED
      BY <3>1, <3>2
  <2>. QED
    BY <1>4, <2>1, <2>3, <2>4 DEF Fits
<1>7. PICK q \in Queries : /\ q = Explorer!Query(nextCursor, stack)
                           /\ q.rows = None
                           /\ q.cursor = nextCursor
                           /\ q.onSuccess = stack
  BY <1>2, <1>4, QueryRecord DEF ExplorerInv
<1>8. q.onSuccess # None /\ q.cursor = q.onSuccess[Len(q.onSuccess)]
  BY <1>4, <1>5, <1>7
<1>9. Asked(q)'
  BY <1>1, <1>6, <1>7, <1>8 DEF Asked
<1>10. queries' = queries \cup {q} /\ loading' = TRUE /\ error' = FALSE
  BY <1>1, <1>7 DEF Explorer!runQuery
<1>. QED
  BY <1>1, <1>2, <1>3, <1>7, <1>9, <1>10, QueryStarts, Zenon

\* handlePrevious: the page below the top of the stack is asked for again.
LEMMA PreviousStep ==
  ASSUME ExplorerInv, Explorer!handlePrevious
  PROVE  ExplorerInv'
<1>. DEFINE stack == SubSeq(cursorStack, 1, Len(cursorStack) - 1)
            cursor == stack[Len(stack)]
<1>1. /\ ~loading
      /\ Len(cursorStack) > 1
      /\ Explorer!runQuery(cursor, stack)
      /\ UNCHANGED <<next_id, uncommitted, events, form, edits, cursorStack,
                     results, nextCursor, walk>>
  BY DEF Explorer!handlePrevious, Explorer!table, Explorer!fields
<1>2. /\ nextCursor \in Explorer!Cursors
      /\ cursorStack \in Stacks /\ Len(cursorStack) \in Nat
      /\ walk \in Walks \cup {None}
  BY DEF ExplorerInv, Typed, Stacks
<1>3. WalkInv'
  BY <1>1, WalkUnchanged DEF ExplorerInv
<1>4. /\ stack \in Stacks
      /\ Len(stack) = Len(cursorStack) - 1
      /\ \A i \in 1..(Len(cursorStack) - 1) : stack[i] = cursorStack[i]
  BY <1>1, <1>2, StackPop
<1>. HIDE DEF stack
<1>5. stack # None /\ cursor \in Explorer!Cursors
  BY <1>4, DashboardAssumption DEF Stacks
<1>6. ASSUME walk # None
      PROVE  Fits(walk, stack)
  <2>1. /\ Fits(walk, cursorStack)
        /\ Len(cursorStack) = Len(walk.pages)
    BY <1>6 DEF ExplorerInv, WalkInv
  <2>. QED
    BY <1>2, <1>4, <2>1 DEF Fits
<1>7. PICK q \in Queries : /\ q = Explorer!Query(cursor, stack)
                           /\ q.rows = None
                           /\ q.cursor = cursor
                           /\ q.onSuccess = stack
  BY <1>4, <1>5, QueryRecord DEF ExplorerInv
<1>8. q.onSuccess # None /\ q.cursor = q.onSuccess[Len(q.onSuccess)]
  BY <1>5, <1>7
<1>9. Asked(q)'
  BY <1>1, <1>6, <1>7, <1>8 DEF Asked
<1>10. queries' = queries \cup {q} /\ loading' = TRUE /\ error' = FALSE
  BY <1>1, <1>7 DEF Explorer!runQuery
<1>. QED
  BY <1>1, <1>2, <1>3, <1>7, <1>9, <1>10, QueryStarts, Zenon

\* Fails: the stack, the page and the cursor are those of before the query.
LEMMA FailStep ==
  ASSUME ExplorerInv, NEW q \in queries, Explorer!Fails(q)
  PROVE  ExplorerInv'
<1>1. /\ error' = TRUE
      /\ loading' = FALSE
      /\ queries' = queries \ {q}
      /\ UNCHANGED <<next_id, uncommitted, events, form, edits, cursorStack,
                     results, nextCursor, walk>>
  BY DEF Explorer!Fails, Explorer!table, Explorer!fields
<1>2. queries' = {}
  BY <1>1 DEF ExplorerInv, Typed
<1>3. WalkInv'
  BY <1>1, WalkUnchanged DEF ExplorerInv
<1>4. Typed'
  BY <1>1, <1>2, Zenon DEF ExplorerInv, Typed
<1>. QED
  BY <1>2, <1>3, <1>4 DEF ExplorerInv

\* What Select writes into a query.
LEMMA QueryAnswered ==
  ASSUME NEW C, NEW S, NEW F, NEW R, NEW B, NEW page \in R, NEW all \in B,
         NEW q \in [cursor : C, onSuccess : S, form : F, rows : R, base : B]
  PROVE  LET p == [q EXCEPT !.rows = page, !.base = all]
         IN  /\ p \in [cursor : C, onSuccess : S, form : F, rows : R, base : B]
             /\ p.rows = page /\ p.base = all
             /\ p.cursor = q.cursor /\ p.form = q.form
             /\ p.onSuccess = q.onSuccess
BY Zenon

\* Select: the answer is a page of the table as it is now, which has every row
\* of the walk's base.
LEMMA SelectStep ==
  ASSUME ExplorerInv, NEW q \in queries, Explorer!Select(q)
  PROVE  ExplorerInv'
<1>. DEFINE page == Explorer!queryEvents(q.form, q.cursor)
            all == Explorer!Matching(q.form, None)
<1>1. /\ q \in Queries
      /\ events \subseteq Explorer!Rows
      /\ queries = {q}
  BY DEF ExplorerInv, Typed
<1>2. q.form \in Explorer!Forms /\ q.cursor \in Explorer!Cursors
  BY <1>1 DEF Queries
<1>3. /\ page \in Seq(Explorer!Rows)
      /\ InOrder(q.form.order, page)
      /\ After(q.form.order, q.cursor, page)
      /\ Covers(q.form, q.cursor, page, all)
  BY <1>1, <1>2, PageFacts
<1>4. all \in SUBSET Explorer!Rows
  BY <1>1 DEF Explorer!Matching
<1>5. /\ queries' = {[q EXCEPT !.rows = page, !.base = all]}
      /\ UNCHANGED <<next_id, uncommitted, events, form, edits, cursorStack,
                     results, nextCursor, loading, error, walk>>
  BY <1>1 DEF Explorer!Select, Explorer!table, Explorer!fields,
     Explorer!screen
<1>. HIDE DEF page, all
<1>6. PICK p \in Queries : /\ p = [q EXCEPT !.rows = page, !.base = all]
                           /\ p.rows = page /\ p.base = all
                           /\ p.cursor = q.cursor /\ p.form = q.form
                           /\ p.onSuccess = q.onSuccess
  <2>. DEFINE p == [q EXCEPT !.rows = page, !.base = all]
  <2>1. page \in Seq(Explorer!Rows) \cup {None}
    BY <1>3
  <2>2. /\ p \in Queries
        /\ p.rows = page /\ p.base = all
        /\ p.cursor = q.cursor /\ p.form = q.form
        /\ p.onSuccess = q.onSuccess
    BY <1>1, <1>4, <2>1, QueryAnswered, Zenon DEF Queries
  <2>. QED
    BY <2>2, Zenon
<1>7. Typed'
  BY <1>1, <1>5, <1>6, Zenon DEF ExplorerInv, Typed
<1>8. WalkInv'
  BY <1>5, WalkUnchanged DEF ExplorerInv
<1>9. Asked(p)'
  BY <1>5, <1>6 DEF ExplorerInv, Asked
<1>10. Answered(p)'
  <2>1. Explorer!Matching(p.form, None)' = all
    BY <1>5, <1>6, Zenon DEF all, Explorer!Matching
  <2>2. walk # None /\ walk.form = q.form => walk.base \subseteq all
    BY DEF ExplorerInv, WalkInv, all
  <2>. QED
    BY <1>3, <1>5, <1>6, <2>1, <2>2 DEF Answered
<1>11. \A r \in queries' : r = p
  BY <1>5, <1>6
<1>12. \A r \in queries' : Asked(r)' /\ Answered(r)'
  BY <1>9, <1>10, <1>11, SMTT(30) DEF Asked, Answered
<1>. QED
  BY <1>7, <1>8, <1>12 DEF ExplorerInv

\* One page more: a page that begins where the last one ends, and covers what
\* comes after, keeps the pages in order and the base covered.
LEMMA PageAdded ==
  ASSUME NEW v \in Walks, NEW w \in Walks, NEW n \in Nat, n > 0,
         NEW cursor \in Explorer!Cursors, NEW rows \in Seq(Explorer!Rows),
         w.form = v.form, w.base = v.base, Len(w.pages) = n,
         n - 1 <= Len(v.pages),
         \A i \in 1..(n - 1) : w.pages[i] = v.pages[i],
         w.pages[n] = rows,
         n = 1 => cursor = None,
         n > 1 => /\ Len(v.pages[n - 1]) = v.form.limit
                  /\ cursor = v.pages[n - 1][v.form.limit],
         InOrder(v.form.order, rows), After(v.form.order, cursor, rows),
         Covers(v.form, cursor, rows, v.base),
         PagesInOrder(v), PagesCover(v)
  PROVE  PagesInOrder(w) /\ PagesCover(w)
<1>. DEFINE o == v.form.order
<1>1. /\ Len(v.pages) \in Nat /\ v.form.limit \in Nat /\ v.form.limit > 0
      /\ \A m \in 1..Len(v.pages) : v.pages[m] \in Seq(Explorer!Rows)
      /\ v.base \subseteq Explorer!Rows
  BY DashboardAssumption DEF Walks, Explorer!Forms
<1>2. /\ \A m \in 1..Len(v.pages) : \A i \in 1..Len(v.pages[m]) :
           v.pages[m][i] \in Explorer!Rows
      /\ \A j \in 1..Len(rows) : rows[j] \in Explorer!Rows
  BY <1>1
<1>3. ASSUME NEW m \in 1..(n - 1), NEW i \in 1..Len(v.pages[m]),
             NEW j \in 1..Len(rows)
      PROVE  Explorer!Precedes(o, v.pages[m][i], rows[j])
  <2>1. /\ n - 1 \in 1..Len(v.pages) /\ m \in 1..Len(v.pages)
        /\ v.form.limit \in 1..Len(v.pages[n - 1])
        /\ Len(v.pages[m]) \in Nat
    BY <1>1, SMTT(30)
  <2>5. n > 1 /\ cursor = v.pages[n - 1][v.form.limit]
    OBVIOUS
  <2>2. cursor \in Explorer!Rows /\ cursor # None
    BY <1>2, <2>1, <2>5, DashboardAssumption, Zenon
  <2>3. Explorer!Precedes(o, cursor, rows[j])
    BY <2>2, ZenonT(30) DEF After, Explorer!Beyond
  <2>4. v.pages[m][i] = cursor \/ Explorer!Precedes(o, v.pages[m][i], cursor)
    <3>1. CASE m < n - 1
      BY <2>1, <2>5, <3>1, Zenon DEF PagesInOrder
    <3>2. CASE m = n - 1 /\ i < v.form.limit
      BY <2>1, <2>5, <3>2, Zenon DEF PagesInOrder
    <3>3. CASE m = n - 1 /\ i = v.form.limit
      BY <2>5, <3>3
    <3>. QED
      BY <1>1, <2>1, <3>1, <3>2, <3>3, SMTT(30)
  <2>6. v.pages[m][i] \in Explorer!Rows /\ rows[j] \in Explorer!Rows
    BY <1>2, <2>1
  <2>7. CASE v.pages[m][i] = cursor
    BY <2>3, <2>7, SMTT(30)
  <2>8. CASE Explorer!Precedes(o, v.pages[m][i], cursor)
    <3>. HIDE DEF o
    <3>. QED
      BY <2>2, <2>3, <2>6, <2>8, RowOrder, Zenon
  <2>. QED
    BY <2>4, <2>7, <2>8, SMTT(30)
<1>4. PagesInOrder(w)
  <2>. SUFFICES ASSUME NEW m \in 1..n, NEW k \in 1..n,
                       NEW i \in 1..Len(w.pages[m]),
                       NEW j \in 1..Len(w.pages[k]),
                       m < k \/ (m = k /\ i < j)
                PROVE  Explorer!Precedes(o, w.pages[m][i], w.pages[k][j])
    BY DEF PagesInOrder
  <2>1. CASE k = n /\ m = n
    BY <2>1, SMTT(30) DEF InOrder
  <2>2. CASE k = n /\ m # n
    <3>1. m \in 1..(n - 1) /\ w.pages[m] = v.pages[m]
      BY <2>2, SMTT(30)
    <3>. QED
      BY <1>3, <2>2, <3>1, ZenonT(30)
  <2>3. CASE k # n
    <3>1. m \in 1..(n - 1) /\ k \in 1..(n - 1)
      BY <2>3, SMTT(30)
    <3>2. m \in 1..Len(v.pages) /\ k \in 1..Len(v.pages)
      BY <1>1, <3>1, SMTT(30)
    <3>. QED
      BY <3>1, <3>2, Zenon DEF PagesInOrder
  <2>. QED
    BY <2>1, <2>2, <2>3
<1>5. PagesCover(w)
  <2>. SUFFICES ASSUME NEW k \in 1..n, NEW r \in v.base,
                       ~Follows(v.form, w.pages[k], r)
                PROVE  \E m \in 1..k : On(r, w.pages[m])
    BY DEF PagesCover
  <2>1. CASE k # n
    <3>1. k \in 1..(n - 1) /\ k \in 1..Len(v.pages)
      BY <1>1, <2>1
    <3>2. PICK m \in 1..k : On(r, v.pages[m])
      BY <3>1 DEF PagesCover
    <3>. QED
      BY <3>1, <3>2, SMTT(30)
  <2>2. CASE k = n
    <3>1. CASE \E m \in 1..(n - 1) : On(r, v.pages[m])
      BY <2>2, <3>1, SMTT(30)
    <3>2. CASE ~\E m \in 1..(n - 1) : On(r, v.pages[m])
      <4>1. Explorer!Beyond(o, cursor, r)
        <5>1. CASE n = 1
          BY <5>1, SMTT(30) DEF Explorer!Beyond
        <5>2. CASE n > 1
          <6>1. n - 1 \in 1..Len(v.pages)
            BY <1>1, <5>2, SMTT(30)
          <6>2. Follows(v.form, v.pages[n - 1], r)
            BY <3>2, <6>1, ZenonT(30) DEF PagesCover
          <6>. QED
            BY <5>2, <6>2, SMTT(30) DEF Follows, Explorer!Beyond
        <5>. QED
          BY <5>1, <5>2, SMTT(30)
      <4>2. On(r, rows)
        BY <2>2, <4>1 DEF Covers
      <4>. QED
        BY <2>2, <4>2, SMTT(30)
    <3>. QED
      BY <3>1, <3>2, SMTT(30)
  <2>. QED
    BY <2>1, <2>2, SMTT(30)
<1>. QED
  BY <1>4, <1>5

\* What Succeeds makes of a walk: a new one, or the old one with other pages.
LEMMA WalkRecord ==
  ASSUME NEW F, NEW B, NEW P, NEW f \in F, NEW b \in B, NEW p \in P
  PROVE  /\ LET w == [form |-> f, base |-> b, pages |-> p]
            IN  /\ w \in [form : F, base : B, pages : P]
                /\ w.form = f /\ w.base = b /\ w.pages = p
         /\ \A v \in [form : F, base : B, pages : P] :
              LET w == [v EXCEPT !.pages = p]
              IN  /\ w \in [form : F, base : B, pages : P]
                  /\ w.form = v.form /\ w.base = v.base /\ w.pages = p
OBVIOUS

\* Succeeds, after handleSubmit: the walk is its first page.
LEMMA FirstPage ==
  ASSUME ExplorerInv, NEW q \in queries, Explorer!Succeeds(q),
         q.onSuccess = None
  PROVE  walk' \in Walks /\ WalkInv' /\ cursorStack' \in Stacks
<1>1. /\ q \in Queries
      /\ q.rows # None
      /\ events \subseteq Explorer!Rows
      /\ cursorStack \in Stacks
  BY DEF ExplorerInv, Typed, Explorer!Succeeds
<1>2. /\ results' = q.rows
      /\ nextCursor' = Explorer!NextCursor(q.form, q.rows)
      /\ cursorStack' = cursorStack
      /\ walk' = [form |-> q.form, base |-> q.base, pages |-> <<q.rows>>]
      /\ events' = events
  BY DEF Explorer!Succeeds, Explorer!Walked, Explorer!table
<1>3. q.cursor = None /\ cursorStack = <<None>>
  BY DEF ExplorerInv, Asked
<1>4. /\ InOrder(q.form.order, q.rows)
      /\ After(q.form.order, q.cursor, q.rows)
      /\ Covers(q.form, q.cursor, q.rows, q.base)
      /\ q.base \subseteq Explorer!Matching(q.form, None)
  BY <1>1 DEF ExplorerInv, Answered
<1>5. /\ q.rows \in Seq(Explorer!Rows)
      /\ q.form \in Explorer!Forms
      /\ q.base \in SUBSET Explorer!Rows
  BY <1>1 DEF Queries
<1>6. PICK w \in Walks : /\ w = walk'
                         /\ w.form = q.form /\ w.base = q.base
                         /\ w.pages = <<q.rows>>
  <2>. DEFINE w == [form |-> q.form, base |-> q.base, pages |-> <<q.rows>>]
  <2>1. <<q.rows>> \in Seq(Seq(Explorer!Rows))
    BY <1>5
  <2>2. /\ w \in Walks
        /\ w.form = q.form /\ w.base = q.base /\ w.pages = <<q.rows>>
    BY <1>5, <2>1, WalkRecord DEF Walks
  <2>. QED
    BY <1>2, <2>2
<1>7. Len(w.pages) = 1 /\ w.pages[1] = q.rows
  BY <1>5, <1>6
<1>8. Fits(w, <<None>>)
  BY <1>7 DEF Fits
<1>9. PagesInOrder(w)
  BY <1>4, <1>6, <1>7, SMTT(30) DEF PagesInOrder, InOrder
<1>10. PagesCover(w)
  <2>. SUFFICES ASSUME NEW r \in q.base
                PROVE  On(r, q.rows) \/ Follows(q.form, q.rows, r)
    BY <1>6, <1>7 DEF PagesCover
  <2>. QED
    BY <1>3, <1>4 DEF Covers, Explorer!Beyond
<1>11. Explorer!Matching(q.form, None)' = Explorer!Matching(q.form, None)
  BY <1>2 DEF Explorer!Matching
<1>12. /\ Len(cursorStack) = 1
       /\ cursorStack[Len(cursorStack)] = None
  BY <1>3, SMTT(30)
<1>13. WalkInv'
  BY <1>2, <1>3, <1>4, <1>6, <1>7, <1>8, <1>9, <1>10, <1>11, <1>12,
     ZenonT(30)
     DEF WalkInv, Explorer!NextCursor
<1>. QED
  BY <1>1, <1>2, <1>6, <1>13, SMTT(30)

\* Succeeds, after handleNext or handlePrevious: the walk goes on from the
\* page the stack names.
LEMMA AnotherPage ==
  ASSUME ExplorerInv, NEW q \in queries, Explorer!Succeeds(q),
         q.onSuccess # None, walk # None, q.form = walk.form
  PROVE  walk' \in Walks /\ WalkInv' /\ cursorStack' \in Stacks
<1>. DEFINE n == Len(q.onSuccess)
            pages == Append(SubSeq(walk.pages, 1, n - 1), q.rows)
<1>1. /\ q \in Queries
      /\ q.rows # None
      /\ walk \in Walks
  BY DEF ExplorerInv, Typed, Explorer!Succeeds
<1>2. /\ results' = q.rows
      /\ nextCursor' = Explorer!NextCursor(q.form, q.rows)
      /\ cursorStack' = q.onSuccess
      /\ walk' = [walk EXCEPT !.pages = pages]
      /\ events' = events
  BY DEF Explorer!Succeeds, Explorer!Walked, Explorer!table
<1>3. /\ q.cursor = q.onSuccess[n]
      /\ Fits(walk, q.onSuccess)
  BY DEF ExplorerInv, Asked
<1>4. /\ InOrder(q.form.order, q.rows)
      /\ After(q.form.order, q.cursor, q.rows)
      /\ Covers(q.form, q.cursor, q.rows, q.base)
      /\ walk.base \subseteq q.base
  BY <1>1 DEF ExplorerInv, Answered
<1>5. /\ q.rows \in Seq(Explorer!Rows)
      /\ q.cursor \in Explorer!Cursors
      /\ q.onSuccess \in Stacks
      /\ n \in Nat /\ n > 0 /\ q.onSuccess[1] = None
  BY <1>1, SMTT(30) DEF Queries, Stacks
<1>6. /\ walk.base \subseteq Explorer!Matching(walk.form, None)
      /\ PagesInOrder(walk)
      /\ PagesCover(walk)
  BY DEF ExplorerInv, WalkInv
<1>7. /\ walk.pages \in Seq(Seq(Explorer!Rows))
      /\ walk.form \in Explorer!Forms
      /\ Len(walk.pages) \in Nat
      /\ n - 1 <= Len(walk.pages)
  BY <1>1, <1>3, <1>5 DEF Walks, Fits
<1>8. /\ pages \in Seq(Seq(Explorer!Rows))
      /\ Len(pages) = n
      /\ \A i \in 1..(n - 1) : pages[i] = walk.pages[i]
      /\ pages[n] = q.rows
  <2>1. /\ SubSeq(walk.pages, 1, n - 1) \in Seq(Seq(Explorer!Rows))
        /\ Len(SubSeq(walk.pages, 1, n - 1)) = n - 1
        /\ \A i \in 1..(n - 1) :
             SubSeq(walk.pages, 1, n - 1)[i] = walk.pages[i]
    BY <1>5, <1>7
  <2>. QED
    BY <1>5, <2>1
<1>. HIDE DEF pages, n
<1>9. PICK w \in Walks : /\ w = walk'
                         /\ w.form = walk.form /\ w.base = walk.base
                         /\ w.pages = pages
  <2>. DEFINE w == [walk EXCEPT !.pages = pages]
  <2>1. /\ walk.form \in Explorer!Forms
        /\ walk.base \in SUBSET Explorer!Rows
    BY <1>1 DEF Walks
  <2>2. /\ w \in Walks
        /\ w.form = walk.form /\ w.base = walk.base /\ w.pages = pages
    BY <1>1, <1>8, <2>1, WalkRecord, Zenon DEF Walks
  <2>. QED
    BY <1>2, <2>2, Zenon
<1>10. PICK v \in Walks : v = walk
  BY <1>1
<1>11. n = 1 => q.cursor = None
  BY <1>3, <1>5
<1>12. n > 1 => /\ Len(v.pages[n - 1]) = v.form.limit
                /\ q.cursor = v.pages[n - 1][v.form.limit]
  BY <1>3, <1>5, <1>10, SMTT(30) DEF Fits, n
<1>13. Covers(v.form, q.cursor, q.rows, v.base)
  BY <1>4, <1>10, SMTT(30) DEF Covers
<1>14. PagesInOrder(w) /\ PagesCover(w)
  <2>1. /\ w.form = v.form /\ w.base = v.base
        /\ Len(w.pages) = n /\ n - 1 <= Len(v.pages)
        /\ \A i \in 1..(n - 1) : w.pages[i] = v.pages[i]
        /\ w.pages[n] = q.rows
    BY <1>7, <1>8, <1>9, <1>10, SMTT(30)
  <2>2. /\ InOrder(v.form.order, q.rows)
        /\ After(v.form.order, q.cursor, q.rows)
        /\ PagesInOrder(v)
        /\ PagesCover(v)
    BY <1>4, <1>6, <1>10, SMTT(30)
  <2>. QED
    BY <1>5, <1>11, <1>12, <1>13, <2>1, <2>2, PageAdded, ZenonT(30)
<1>15. Fits(w, q.onSuccess)
  <2>1. /\ Len(q.onSuccess) = n
        /\ Len(q.onSuccess) <= Len(w.pages) + 1
    BY <1>5, <1>8, <1>9 DEF n
  <2>2. ASSUME NEW i \in 2..Len(q.onSuccess)
        PROVE  /\ Len(w.pages[i - 1]) = w.form.limit
               /\ q.onSuccess[i] = w.pages[i - 1][w.form.limit]
    <3>1. i - 1 \in 1..(n - 1)
      BY <1>5, <2>1
    <3>. QED
      BY <1>3, <1>8, <1>9, <3>1, Zenon DEF Fits
  <2>. QED
    BY <2>1, <2>2, Zenon DEF Fits
<1>16. Explorer!Matching(walk.form, None)' = Explorer!Matching(w.form, None)
  BY <1>2, <1>9 DEF Explorer!Matching
<1>17. WalkInv'
  <2>1. /\ Len(q.onSuccess) = Len(w.pages)
        /\ q.rows = w.pages[Len(w.pages)]
        /\ q.onSuccess[Len(q.onSuccess)] = q.cursor
    BY <1>3, <1>8, <1>9 DEF n
  <2>2. Explorer!NextCursor(q.form, q.rows) =
          Explorer!NextCursor(w.form, w.pages[Len(w.pages)])
    BY <1>9, <2>1
  <2>. QED
    BY <1>2, <1>4, <1>6, <1>9, <1>14, <1>15, <1>16, <2>1, <2>2
       DEF WalkInv, Explorer!NextCursor
<1>. QED
  BY <1>2, <1>5, <1>9, <1>17, SMTT(30)

\* Succeeds: the answer goes to the screen together with its stack.
LEMMA SucceedStep ==
  ASSUME ExplorerInv, NEW q \in queries, Explorer!Succeeds(q)
  PROVE  ExplorerInv'
<1>1. /\ q \in Queries
      /\ q.rows \in Seq(Explorer!Rows)
      /\ q.form \in Explorer!Forms
      /\ q.onSuccess \in Stacks \cup {None}
  BY DEF ExplorerInv, Typed, Queries, Explorer!Succeeds
<1>2. /\ results' = q.rows
      /\ nextCursor' = Explorer!NextCursor(q.form, q.rows)
      /\ cursorStack' = IF q.onSuccess = None THEN cursorStack ELSE q.onSuccess
      /\ loading' = FALSE
      /\ queries' = queries \ {q}
      /\ walk' = Explorer!Walked(q)
      /\ UNCHANGED <<next_id, uncommitted, events, form, edits, error>>
  BY DEF Explorer!Succeeds, Explorer!table, Explorer!fields
<1>3. queries' = {}
  BY <1>2 DEF ExplorerInv, Typed
<1>4. nextCursor' \in Explorer!Cursors
  <2>1. q.form.limit \in Nat /\ q.form.limit > 0
    BY <1>1, DashboardAssumption DEF Explorer!Forms
  <2>2. Len(q.rows) = q.form.limit => q.rows[Len(q.rows)] \in Explorer!Rows
    BY <1>1, <2>1
  <2>. QED
    BY <1>2, <2>2 DEF Explorer!NextCursor, Explorer!Cursors
<1>5. /\ walk' \in Walks \cup {None}
      /\ WalkInv'
      /\ cursorStack' \in Stacks
  <2>1. CASE q.onSuccess = None
    BY <2>1, FirstPage
  <2>2. CASE q.onSuccess # None /\ walk # None /\ q.form = walk.form
    BY <2>2, AnotherPage
  <2>3. CASE q.onSuccess # None /\ ~(walk # None /\ q.form = walk.form)
    <3>1. walk' = None
      BY <1>2, <2>3, SMTT(30) DEF Explorer!Walked
    <3>2. cursorStack' \in Stacks
      BY <1>1, <1>2, <2>3, SMTT(30)
    <3>. QED
      BY <3>1, <3>2 DEF WalkInv
  <2>. QED
    BY <2>1, <2>2, <2>3
<1>6. Typed'
  BY <1>1, <1>2, <1>3, <1>4, <1>5, Zenon DEF ExplorerInv, Typed
<1>. QED
  BY <1>3, <1>5, <1>6 DEF ExplorerInv

-----------------------------------------------------------------------------
(* What the invariant gives.                                               *)

\* It holds throughout every behaviour of the page: the strip leaves the
\* explorer alone.
LEMMA Invariance == Spec => []ExplorerInv
<1>1. Init => ExplorerInv
  <2>. SUFFICES ASSUME Explorer!Init
                PROVE  ExplorerInv
    BY DEF Init
  <2>1. None \in Explorer!Cursors
    BY DEF Explorer!Cursors
  <2>2. <<None>> \in Stacks
    BY <2>1 DEF Stacks
  <2>3. 1 \in 1..(MaxRows + 1) /\ 0 \in 0..MaxEdits
    BY DashboardAssumption
  <2>4. loading = (queries # {})
    BY Zenon DEF Explorer!Init
  <2>5. Typed
    BY <2>1, <2>2, <2>3, <2>4, Zenon DEF Explorer!Init, Typed
  <2>. QED
    BY <2>5 DEF Explorer!Init, ExplorerInv, WalkInv
<1>2. ExplorerInv /\ Explorer!Next => ExplorerInv'
  BY TableStep, EditStep, SubmitStep, NextStep, PreviousStep, SelectStep,
     SucceedStep, FailStep DEF Explorer!Next
<1>3. ExplorerInv /\ UNCHANGED explorer => ExplorerInv'
  <2>. SUFFICES ASSUME ExplorerInv, UNCHANGED explorer
                PROVE  ExplorerInv'
    OBVIOUS
  <2>. USE DEF explorer
  <2>1. \A f : Explorer!Matching(f, None)' = Explorer!Matching(f, None)
    BY DEF Explorer!Matching
  <2>2. Typed'
    BY DEF ExplorerInv, Typed
  <2>3. WalkInv'
    BY WalkUnchanged, SMTT(30) DEF ExplorerInv
  <2>4. \A q \in queries' : Asked(q)' /\ Answered(q)'
    BY <2>1, ZenonT(30) DEF ExplorerInv, Asked, Answered
  <2>. QED
    BY <2>2, <2>3, <2>4 DEF ExplorerInv
<1>4. ExplorerInv /\ [Next]_vars => ExplorerInv'
  BY <1>2, <1>3 DEF Next, vars
<1>. QED
  BY <1>1, <1>4, PTL DEF Spec

\* The explorer's variables have their types, and only the first page of a
\* stack has no cursor.
THEOREM TypeCorrect == Spec => []TypeOK
<1>1. ExplorerInv => TypeOK
  BY SMTT(30) DEF ExplorerInv, Typed, Stacks, Queries, TypeOK,
     Explorer!TypeOK, Explorer!Pages
<1>. QED
  BY <1>1, Invariance, PTL

\* Walking with Next and Previous, the pages down to the one on the screen are
\* in order and have no row in common, whatever commits in between.
THEOREM NoRowRepeats == Spec => []RowsShownOnce
<1>1. ExplorerInv => RowsShownOnce
  BY DEF ExplorerInv, WalkInv, PagesInOrder, RowsShownOnce,
     Explorer!RowsShownOnce
<1>. QED
  BY <1>1, Invariance, PTL

\* On the last page, every row that was there when the first page was read has
\* been on some page, in whatever order later rows commit.
THEOREM EveryRowShown == Spec => []NoRowSkipped
<1>1. ExplorerInv => NoRowSkipped
  <2>. SUFFICES ASSUME ExplorerInv, walk # None, nextCursor = None,
                       NEW r \in walk.base
                PROVE  \E n \in 1..Len(walk.pages) :
                         \E i \in 1..Len(walk.pages[n]) : walk.pages[n][i] = r
    BY DEF NoRowSkipped, Explorer!NoRowSkipped
  <2>1. /\ walk \in Walks
        /\ Len(cursorStack) \in Nat /\ Len(cursorStack) > 0
    BY DEF ExplorerInv, Typed, Stacks
  <2>2. /\ Len(cursorStack) = Len(walk.pages)
        /\ nextCursor =
             Explorer!NextCursor(walk.form, walk.pages[Len(walk.pages)])
        /\ PagesCover(walk)
    BY DEF ExplorerInv, WalkInv
  <2>. DEFINE n == Len(walk.pages)
              page == walk.pages[n]
  <2>3. n \in 1..n /\ page \in Seq(Explorer!Rows)
    BY <2>1, <2>2 DEF Walks
  <2>4. walk.form.limit \in Nat /\ walk.form.limit > 0
    BY <2>1, DashboardAssumption DEF Walks, Explorer!Forms
  <2>5. Len(page) # walk.form.limit
    <3>1. ASSUME Len(page) = walk.form.limit
          PROVE  page[Len(page)] \in Explorer!Rows
      BY <2>3, <2>4, <3>1
    <3>. QED
      BY <2>2, <3>1, DashboardAssumption DEF Explorer!NextCursor
  <2>6. \E m \in 1..n : On(r, walk.pages[m])
    BY <2>2, <2>3, <2>5, SMTT(30) DEF PagesCover, Follows
  <2>. QED
    BY <2>6 DEF On
<1>. QED
  BY <1>1, Invariance, PTL

\* The stack of cursors describes the page on the screen, also after a
\* navigation that failed.
THEOREM StackDescribesScreen == Spec => []StackMatchesScreen
<1>1. ExplorerInv => StackMatchesScreen
  BY DEF ExplorerInv, WalkInv, Fits, After, StackMatchesScreen,
     Explorer!StackMatchesScreen
<1>. QED
  BY <1>1, Invariance, PTL

-----------------------------------------------------------------------------
(* The strip: the half of StatusConverges that concerns single steps.      *)

\* What a poll has found out so far is what it would find out now.
Current(w, found) ==
  \/ found \in {"free", "sent", Strip!Truth(w)}
  \/ found \in {"up", "down"} /\ (w.backend => (found = "up") = w.database)

\* The strip says how things are, and so will every answer under way that it
\* will look at.
Settled(w) ==
  /\ world = w
  /\ status = Strip!Truth(w)
  /\ \A p \in Polls : p \in cancelled \/ Current(w, poll[p])

\* What a poll can have found out.
PollsTyped ==
  poll \in [Polls -> {"free", "sent", "up", "down"} \cup Strip!Answers]

\* A poll is free, on its way, or has an answer.
LEMMA PollTypes == Spec => []PollsTyped
<1>1. Init => PollsTyped
  BY DEF Init, Strip!Init, PollsTyped
<1>2. PollsTyped /\ Strip!Next => PollsTyped'
  <2>1. \A d, r : Strip!deriveStatus(d, r) \in Strip!Answers
    BY DEF Strip!deriveStatus, Strip!Answers
  <2>2. PollsTyped /\ Strip!WorldChanges => PollsTyped'
    BY DEF PollsTyped, Strip!WorldChanges
  <2>3. PollsTyped /\ Strip!Unmount => PollsTyped'
    BY DEF PollsTyped, Strip!Unmount
  <2>4. ASSUME NEW p \in Polls
        PROVE  PollsTyped /\ (Strip!Mount(p) \/ Strip!Tick(p)) => PollsTyped'
    BY DEF PollsTyped, Strip!Mount, Strip!Tick, Strip!Send
  <2>5. ASSUME NEW p \in Polls
        PROVE  PollsTyped /\ Strip!Progress(p) => PollsTyped'
    <3>1. PollsTyped /\ Strip!CheckRedis(p) => PollsTyped'
      BY <2>1 DEF PollsTyped, Strip!CheckRedis
    <3>2. PollsTyped /\ Strip!CheckDatabase(p) => PollsTyped'
      BY DEF PollsTyped, Strip!CheckDatabase
    <3>3. PollsTyped /\ (Strip!Lost(p) \/ Strip!Apply(p)) => PollsTyped'
      BY Zenon DEF PollsTyped, Strip!Lost, Strip!Apply, Strip!Answers
    <3>. QED
      BY <3>1, <3>2, <3>3 DEF Strip!Progress
  <2>. QED
    BY <2>2, <2>3, <2>4, <2>5 DEF Strip!Next
<1>3. PollsTyped /\ [Next]_vars => PollsTyped'
  BY <1>2 DEF Next, vars, strip, PollsTyped
<1>. QED
  BY <1>1, <1>3, PTL DEF Spec

\* Once the strip says how things are, with no outdated answer on its way, it
\* goes on to say so for as long as things stay as they are: polls may overlap,
\* answers overtake each other, and the effect be cleaned up and run again.
THEOREM StatusStaysTrue ==
  Spec => [][\A w \in Strip!Worlds :
               Settled(w) /\ world' = world => Settled(w)']_vars
<1>. DEFINE Stays == \A w \in Strip!Worlds :
                       Settled(w) /\ world' = world => Settled(w)'
<1>1. PollsTyped /\ [Next]_vars => [Stays]_vars
  <2>. SUFFICES ASSUME PollsTyped, [Next]_vars, NEW w \in Strip!Worlds,
                       Settled(w), world' = world
                PROVE  Settled(w)'
    OBVIOUS
  <2>. USE DEF Settled, PollsTyped
  <2>1. ASSUME NEW p \in Polls, Strip!Mount(p) \/ Strip!Tick(p)
        PROVE  Settled(w)'
    BY <2>1 DEF Current, Strip!Mount, Strip!Tick, Strip!Send
  <2>2. CASE Strip!Unmount
    BY <2>2 DEF Current, Strip!Unmount
  <2>3. ASSUME NEW p \in Polls, Strip!CheckDatabase(p)
        PROVE  Settled(w)'
    <3>1. Current(w, IF w.database THEN "up" ELSE "down")
      BY DEF Current, Strip!Worlds
    <3>. QED
      BY <2>3, <3>1 DEF Strip!CheckDatabase
  <2>4. ASSUME NEW p \in Polls, Strip!CheckRedis(p)
        PROVE  Settled(w)'
    <3>1. poll[p] \in {"up", "down"} /\ w.backend
      BY <2>4 DEF Strip!CheckRedis
    <3>2. p \in cancelled \/ (poll[p] = "up") = w.database
      BY <3>1, Zenon DEF Current, Strip!Truth, Strip!deriveStatus
    <3>3. Strip!Truth(w) = Strip!deriveStatus(w.database, w.redis)
      BY <3>1 DEF Strip!Truth
    <3>4. poll' = [poll EXCEPT ![p] =
                     Strip!deriveStatus(poll[p] = "up", w.redis)]
      BY <2>4 DEF Strip!CheckRedis
    <3>5. Strip!deriveStatus(poll[p] = "up", w.redis) \in Strip!Answers
      BY Zenon DEF Strip!deriveStatus, Strip!Answers, Strip!Worlds
    <3>6. p \in cancelled
            \/ Current(w, Strip!deriveStatus(poll[p] = "up", w.redis))
      BY <3>2, <3>3 DEF Current
    <3>. QED
      BY <2>4, <3>4, <3>5, <3>6 DEF Strip!CheckRedis
  <2>5. ASSUME NEW p \in Polls, Strip!Lost(p)
        PROVE  Settled(w)'
    <3>1. Current(w, "unreachable") /\ "unreachable" \in Strip!Answers
      BY <2>5, Zenon DEF Current, Strip!Lost, Strip!Truth, Strip!Answers
    <3>. QED
      BY <2>5, <3>1 DEF Strip!Lost
  <2>6. ASSUME NEW p \in Polls, Strip!Apply(p)
        PROVE  Settled(w)'
    <3>1. p \in cancelled \/ poll[p] = Strip!Truth(w)
      BY <2>6, Zenon DEF Current, Strip!Apply, Strip!Answers
    <3>2. Current(w, "free")
      BY DEF Current
    <3>. QED
      BY <2>6, <3>1, <3>2 DEF Strip!Apply
  <2>7. CASE UNCHANGED strip
    BY <2>7 DEF strip
  <2>. QED
    BY <2>1, <2>2, <2>3, <2>4, <2>5, <2>6, <2>7 DEF Next, vars, Strip!Next,
       Strip!Progress, Strip!WorldChanges
<1>. QED
  BY <1>1, PollTypes, PTL DEF Spec

=============================================================================
