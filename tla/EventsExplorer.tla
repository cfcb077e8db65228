--------------------------- MODULE EventsExplorer ---------------------------
(***************************************************************************)
(* Paging through stored events: the dashboard's EventsExplorer            *)
(* (frontend/src/components/EventsExplorer.tsx) over GET /v1/events        *)
(* (backend/src/events-query and queryEvents in events.repository.ts),     *)
(* while the write path inserts into the same table.                       *)
(*                                                                         *)
(* A row is its timestamp and its id, which is all a cursor and the order  *)
(* of a page depend on.  `events' holds the rows of the device asked for;  *)
(* `to' is the mirror image of `from' and is left out.  Timestamps are     *)
(* parsed from text with milliseconds before they are stored, so the       *)
(* cursor's text gives back the timestamp of the row it was made from.     *)
(***************************************************************************)
EXTENDS Naturals, Sequences, FiniteSets

CONSTANTS MaxRows,   \* bound on the rows inserted
          MaxTime,   \* timestamps are 1..MaxTime
          MaxLimit,  \* limits are 1..MaxLimit
          MaxEdits,  \* bound on the changes of the form
          None

VARIABLES
  next_id,      \* the sequence behind events.id
  uncommitted,  \* rows of transactions under way
  events,       \* rows of the table
  form,         \* the fields of the form
  edits,
  cursorStack, results, nextCursor, loading, error,
  queries,      \* the queries under way
  walk          \* history: the pages walked through since the last submit

table == <<next_id, uncommitted, events>>
fields == <<form, edits>>
screen == <<cursorStack, results, nextCursor, loading, error>>
vars == <<table, fields, screen, queries, walk>>

Rows == [timestamp : 1..MaxTime, id : 1..MaxRows]
Forms == [from : 1..MaxTime, order : {"asc", "desc"}, limit : 1..MaxLimit]

Init ==
  /\ next_id = 1
  /\ uncommitted = {}
  /\ events = {}
  /\ form \in Forms
  /\ edits = 0
  /\ cursorStack = <<None>>
  /\ results = None
  /\ nextCursor = None
  /\ loading = FALSE
  /\ error = FALSE
  /\ queries = {}
  /\ walk = None

-----------------------------------------------------------------------------
(* The write path: an id is drawn when the row is inserted, and the row    *)
(* appears when its transaction commits, in whatever order.                *)

InsertRow ==
  /\ next_id <= MaxRows
  /\ next_id' = next_id + 1
  /\ \E t \in 1..MaxTime :
       uncommitted' = uncommitted \cup {[timestamp |-> t, id |-> next_id]}
  /\ UNCHANGED <<events, fields, screen, queries, walk>>

CommitRow ==
  /\ \E r \in uncommitted : /\ uncommitted' = uncommitted \ {r}
                            /\ events' = events \cup {r}
  /\ UNCHANGED <<next_id, fields, screen, queries, walk>>

-----------------------------------------------------------------------------
(* EventsQueryService.query and EventsRepository.queryEvents.              *)

\* (timestamp, id) < (...), row comparison.
Less(a, b) ==
  \/ a.timestamp < b.timestamp
  \/ a.timestamp = b.timestamp /\ a.id < b.id

\* ORDER BY timestamp, id, in the direction asked for.
Precedes(order, a, b) == IF order = "asc" THEN Less(a, b) ELSE Less(b, a)

\* Mutant: the cursor's own row is included.
Beyond_Inclusive(order, cursor, r) ==
  cursor # None => ~Precedes(order, r, cursor)

\* Mutant: the cursor compares timestamps only.
Beyond_TimestampOnly(order, cursor, r) ==
  cursor # None =>
    IF order = "asc" THEN cursor.timestamp < r.timestamp
                     ELSE r.timestamp < cursor.timestamp

Beyond(order, cursor, r) == cursor # None => Precedes(order, cursor, r)

Matching(f, cursor) ==
  {r \in events : r.timestamp >= f.from /\ Beyond(f.order, cursor, r)}

\* How many of the rows come before r.
Rank(order, rows, r) == Cardinality({s \in rows : Precedes(order, s, r)})

\* ORDER BY ... LIMIT: the i-th row of a page has i - 1 rows before it.
queryEvents(f, cursor) ==
  LET rows == Matching(f, cursor)
      total == Cardinality(rows)
  IN  [i \in 1..(IF total > f.limit THEN f.limit ELSE total) |->
         CHOOSE r \in rows : Rank(f.order, rows, r) = i - 1]

\* A full page gives the cursor of its last row.
NextCursor(f, rows) ==
  IF Len(rows) = f.limit THEN rows[Len(rows)] ELSE None

\* The SELECT, on one snapshot of the table.
Select(q) ==
  /\ q.rows = None
  /\ queries' = (queries \ {q}) \cup
                  {[q EXCEPT !.rows = queryEvents(q.form, q.cursor),
                             !.base = Matching(q.form, None)]}
  /\ UNCHANGED <<table, fields, screen, walk>>

-----------------------------------------------------------------------------
(* The component.                                                          *)

Query(cursor, onSuccess) ==
  [cursor |-> cursor, onSuccess |-> onSuccess, form |-> form, rows |-> None,
   base |-> {}]

\* runQuery up to its await.
runQuery(cursor, onSuccess) ==
  /\ loading' = TRUE
  /\ error' = FALSE
  /\ queries' = queries \cup {Query(cursor, onSuccess)}

\* The Query button; it is disabled while a query is loading.
handleSubmit ==
  /\ ~loading
  /\ cursorStack' = <<None>>
  /\ nextCursor' = None
  /\ runQuery(None, None)
  /\ walk' = None
  /\ UNCHANGED <<table, fields, results>>

\* Mutant: the button is shown on the last page too.
handleNext_Always ==
  /\ ~loading
  /\ results # None
  /\ runQuery(nextCursor, Append(cursorStack, nextCursor))
  /\ UNCHANGED <<table, fields, cursorStack, results, nextCursor, walk>>

\* Mutant: the stack is changed before the answer is there.
handleNext_CommitsFirst ==
  /\ ~loading
  /\ nextCursor # None
  /\ runQuery(nextCursor, None)
  /\ cursorStack' = Append(cursorStack, nextCursor)
  /\ UNCHANGED <<table, fields, results, nextCursor, walk>>

handleNext ==
  /\ ~loading
  /\ nextCursor # None
  /\ runQuery(nextCursor, Append(cursorStack, nextCursor))
  /\ UNCHANGED <<table, fields, cursorStack, results, nextCursor, walk>>

handlePrevious ==
  /\ ~loading
  /\ Len(cursorStack) > 1
  /\ LET newStack == SubSeq(cursorStack, 1, Len(cursorStack) - 1)
     IN  runQuery(newStack[Len(newStack)], newStack)
  /\ UNCHANGED <<table, fields, cursorStack, results, nextCursor, walk>>

\* The fields can be changed at any time, also between two pages.
EditForm ==
  /\ edits < MaxEdits
  /\ edits' = edits + 1
  /\ \E f \in Forms \ {form} : form' = f
  /\ UNCHANGED <<table, screen, queries, walk>>

\* The walk goes on only while every page of it asks the same question; an
\* answer to another form ends it.
Walked(q) ==
  CASE q.onSuccess = None ->
         [form |-> q.form, base |-> q.base, pages |-> <<q.rows>>]
    [] q.onSuccess # None /\ walk # None /\ q.form = walk.form ->
         [walk EXCEPT !.pages = Append(SubSeq(@, 1, Len(q.onSuccess) - 1),
                                       q.rows)]
    [] OTHER -> None

Succeeds(q) ==
  /\ q.rows # None
  /\ results' = q.rows
  /\ nextCursor' = NextCursor(q.form, q.rows)
  /\ cursorStack' = IF q.onSuccess = None THEN cursorStack ELSE q.onSuccess
  /\ loading' = FALSE
  /\ queries' = queries \ {q}
  /\ walk' = Walked(q)
  /\ UNCHANGED <<table, fields, error>>

\* The request, the query or the answer is lost, or a field was not valid.
Fails(q) ==
  /\ error' = TRUE
  /\ loading' = FALSE
  /\ queries' = queries \ {q}
  /\ UNCHANGED <<table, fields, cursorStack, results, nextCursor, walk>>

-----------------------------------------------------------------------------

Next ==
  \/ InsertRow \/ CommitRow
  \/ handleSubmit \/ handleNext \/ handlePrevious \/ EditForm
  \/ \E q \in queries : Select(q) \/ Succeeds(q) \/ Fails(q)

Spec == Init /\ [][Next]_vars

-----------------------------------------------------------------------------
(* Properties.                                                             *)

Cursors == Rows \cup {None}
Pages == {results} \cup {q.rows : q \in queries}

\* Every variable has its type, and only the first page has no cursor.
TypeOK ==
  /\ next_id \in 1..(MaxRows + 1)
  /\ uncommitted \subseteq Rows
  /\ events \subseteq Rows
  /\ form \in Forms
  /\ edits \in 0..MaxEdits
  /\ cursorStack[1] = None
  /\ \A i \in 2..Len(cursorStack) : cursorStack[i] \in Rows
  /\ \A p \in Pages \ {None} : p \in Seq(Rows)
  /\ nextCursor \in Cursors
  /\ {loading, error} \subseteq BOOLEAN

\* queryEvents: "a concurrent insert anywhere in the table cannot cause an
\* already-returned row to repeat": walking with Next and Previous, the pages
\* down to the one on the screen are in order and have no row in common.
RowsShownOnce ==
  walk # None =>
    \A m, n \in 1..Len(walk.pages) :
      \A i \in 1..Len(walk.pages[m]), j \in 1..Len(walk.pages[n]) :
        m < n \/ (m = n /\ i < j) =>
          Precedes(walk.form.order, walk.pages[m][i], walk.pages[n][j])

\* "... or a not-yet-returned row to be skipped": on the last page, every row
\* that was there when the first page was read has been on some page.
NoRowSkipped ==
  walk # None /\ ~loading /\ nextCursor = None =>
    \A r \in walk.base :
      \E n \in 1..Len(walk.pages) :
        \E i \in 1..Len(walk.pages[n]) : walk.pages[n][i] = r

\* The stack, the screen and the Next button agree, also after a navigation
\* that failed: the page on the screen begins after the top of the stack, and
\* every entry of the stack is the end of the page below it.
StackMatchesScreen ==
  walk # None =>
    /\ Len(cursorStack) = Len(walk.pages)
    /\ results = walk.pages[Len(walk.pages)]
    /\ \A i \in 2..Len(cursorStack) :
         cursorStack[i] = walk.pages[i - 1][Len(walk.pages[i - 1])]
    /\ \A i \in 1..Len(results) :
         Beyond(walk.form.order, cursorStack[Len(cursorStack)], results[i])
=============================================================================
