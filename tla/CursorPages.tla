------------------------------ MODULE CursorPages ------------------------------
(***************************************************************************)
(* AsyncLinkHeaderPagination: a client walks a sorted list by "next" links  *)
(* while rows come, go and move.  A cursor is the sort key of a row and how *)
(* many rows after it to skip.  The list is ordered by one field only, and  *)
(* each page is a query of its own: the database may give rows with equal   *)
(* keys another order on every page.                                       *)
(***************************************************************************)
EXTENDS Naturals, Sequences, FiniteSets, SequencesExt

CONSTANTS
  RowIds, SortKeys,   \* bound: rows and the values of the sort field
  Limits,         \* bound: page sizes asked for
  MaxPageSize,    \* max_page_size
  MaxEdits      \* bound: rows added, removed or moved during a walk

Top == 0          \* no position: the first page

VARIABLES
  rows,      \* the rows of the queryset: id -> sort key, 0 for none
  limit, cursor, walk, shown, \* the request's limit, its cursor, its progress, the rows so far
  touched,   \* keys a row got or lost during the walk
  shifted,   \* a row came or went below a cursor that skips rows by their number
  edits
pageVars == <<rows, limit, cursor, walk, shown, touched, shifted, edits>>
--------------------------------------------------------------------------------
Live == { r \in RowIds : rows[r] # 0 }
\* The orders one query may give rows that tie.
TieOrders == { t \in [RowIds -> 1..Cardinality(RowIds)] : \A a, b \in RowIds : t[a] = t[b] => a = b }
\* order_by: descending sort key, and nothing else.
Sorted(tie) ==
  SetToSortSeq(Live, LAMBDA a, b : rows[a] > rows[b] \/ (rows[a] = rows[b] /\ tie[a] < tie[b]))
_get_position_from_instance(r) == rows[r]
PageSize == IF limit < MaxPageSize THEN limit ELSE MaxPageSize
Slice(past) ==
  SubSeq(past, cursor.offset + 1, IF cursor.offset + PageSize + 1 < Len(past) THEN cursor.offset + PageSize + 1 ELSE Len(past))
GetResultsInclusive ==
  { Slice(SelectSeq(Sorted(tie), LAMBDA r : cursor.position = Top \/ rows[r] <= cursor.position)) :
    tie \in TieOrders }
\* What the query may return: the rows past the cursor's position in one of the
\* orders, from the offset on, one more than the page holds.
get_results ==
  { Slice(SelectSeq(Sorted(tie), LAMBDA r : cursor.position = Top \/ rows[r] < cursor.position)) :
    tie \in TieOrders }
\* The library's next_link: the last row of the page whose key differs from the
\* one after it, and the rows of the page after that; else the same position
\* and a whole page more to skip.
next_link(page, next_position) ==
  LET n == Len(page)
      KeyAt(k) == IF k = n + 1 THEN next_position ELSE _get_position_from_instance(page[k])
      unique == { k \in 1..n : KeyAt(k) # KeyAt(k + 1) } IN
  IF unique # {}
  THEN LET k == CHOOSE x \in unique : \A y \in unique : y <= x IN
       [position |-> KeyAt(k), offset |-> n - k]
  ELSE [position |-> cursor.position, offset |-> cursor.offset + PageSize]

PagesInit ==
  /\ rows \in [RowIds -> SortKeys \cup {0}] /\ limit \in Limits
  /\ cursor = [position |-> Top, offset |-> 0] /\ walk = "on" /\ shown = <<>>
  /\ touched = {} /\ shifted = FALSE /\ edits = 0
\* apaginate_queryset for a cursor that is not reversed.
apaginate_queryset ==
  \E results \in get_results :
    LET page == SubSeq(results, 1, IF Len(results) < PageSize THEN Len(results) ELSE PageSize) IN
    /\ walk = "on" /\ shown' = shown \o page
    /\ IF Len(results) > Len(page)
       THEN cursor' = next_link(page, _get_position_from_instance(Last(results))) /\ walk' = "on"
       ELSE walk' = "done" /\ UNCHANGED cursor
    /\ UNCHANGED <<rows, limit, touched, shifted, edits>>
\* Between two pages a row is added, removed (key 0) or given another key, as the
\* next event does to an issue sorted by last_seen.
Edit(r, key) ==
  /\ walk = "on" /\ shown # <<>> /\ edits < MaxEdits /\ edits' = edits + 1
  /\ rows[r] # key /\ rows' = [rows EXCEPT ![r] = key]
  /\ LET changed == {rows[r], key} \ {0} IN
     /\ touched' = touched \cup changed
     /\ shifted' = \/ shifted
                   \/ cursor.offset > 0 /\ \E k \in changed : cursor.position = Top \/ k < cursor.position
  /\ UNCHANGED <<limit, cursor, walk, shown>>
PagesNext == apaginate_queryset \/ \E r \in RowIds, key \in SortKeys \cup {0} : Edit(r, key)
PagesSpec == PagesInit /\ [][PagesNext]_pageVars
--------------------------------------------------------------------------------
\* A walk over the list ends and shows, for every sort key whose rows stayed as
\* they were, exactly as many rows as have that key: a row alone with its key
\* exactly once, whatever comes, goes or moves elsewhere, on the pages before it
\* or after it.  Rows that tie are as many as they should be, but the order_by has
\* no tie-break, so one of them may be shown on two pages and another on none; and
\* nothing is said when a row comes or goes below a cursor that skips by number.
PagesCoverList ==
  \A k \in SortKeys \ touched :
    LET listed == Cardinality({ r \in Live : rows[r] = k })
        seen   == Cardinality({ n \in DOMAIN shown : rows[shown[n]] = k }) IN
    ~shifted => seen <= listed /\ (walk = "done" => seen = listed)
================================================================================
