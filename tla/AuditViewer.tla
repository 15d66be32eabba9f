------------------------------- MODULE AuditViewer -------------------------------
(***************************************************************************)
(* AuditLogViewer and AuditLogger.query_entries: the audit log page by     *)
(* page, filtered and sorted, while other threads write to it.  A page is  *)
(* read with two statements, one that counts and one that selects.         *)
(*                                                                         *)
(* A filter is a type of event, which stands for all filters that look at  *)
(* the row alone, and a number of days.  One such number stands for the    *)
(* three of the window; the date it means is computed anew for every page, *)
(* so rows leave the list while a person pages through it.                 *)
(***************************************************************************)
EXTENDS Naturals, SequencesExt

CONSTANTS
  EventTypes,
  Exported,   \* the type of the event an export writes
  AllEvents,  \* no filter
  MaxLog,     \* bound: events
  PerPage     \* config.page_size

ASSUME ViewerAssumption == PerPage \in Nat \ {0}

VARIABLES
  events,     \* the types of the rows of audit_log
  aged,       \* the rows that are older than the number of days by now
  filter,     \* what the filters of the window show: [type, dated]
  sort,       \* [by, descending]
  page, pages,\* current_page, current_pages
  listed,     \* the rows of the tree, by sequence number
  selected,   \* the selected one, or none
  query,      \* query_entries under way: [step, count]
  cut,        \* the rows before its date_from, or before that of the last one
  visited,    \* history: rows listed since the first page was
  atStart,    \* history: events there were then
  cutAtStart, \* history: cut, then
  grown,      \* history: a matching event was written between the last query's two statements
  disturbed   \* history: since the first page a query failed, or a filter was only typed

pageVars == <<filter, sort, page, pages, listed, selected>>
pastVars == <<visited, atStart, cutAtStart>>
window == <<listed, pages, selected>>
viewerVars == <<events, aged, pageVars, query, cut, pastVars, grown, disturbed>>

Columns == {"sequence_number", "event_type"}
NoQuery == [step |-> "none", count |-> 0]

OfType(type, f) == f.type = AllEvents \/ type = f.type
Matching(f) == {n \in DOMAIN events \ cut : OfType(events[n], f)}

\* The first query is made when the window opens.
ViewerInit ==
  /\ events = << >> /\ aged = {}
  /\ filter = [type |-> AllEvents, dated |-> FALSE]
  /\ sort = [by |-> "sequence_number", descending |-> TRUE]
  /\ page = 1 /\ pages = 1 /\ listed = << >> /\ selected = {}
  /\ query = [step |-> "count", count |-> 0] /\ cut = {}
  /\ visited = {} /\ atStart = 0 /\ cutAtStart = {} /\ grown = FALSE /\ disturbed = FALSE

Answered == query = NoQuery

\* The histories begin with the first page.
StartHistory == visited' = {} /\ atStart' = 0 /\ cutAtStart' = {}

WriteEvent(type) ==
  /\ Len(events) < MaxLog
  /\ events' = Append(events, type)
  /\ grown' = (grown \/ (query.step = "select" /\ OfType(type, filter)))
  /\ UNCHANGED <<aged, filter, sort, page, query, cut, window, pastVars, disturbed>>

\* Time passes: a row gets older than the number of days.
Age(n) ==
  /\ n \notin aged
  /\ aged' = aged \cup {n}
  /\ UNCHANGED <<events, pageVars, query, cut, pastVars, grown, disturbed>>

--------------------------------------------------------------------------------
\* query_entries

\* A slip: a last page that is not full is not counted.
PagesDown(count) == IF count < PerPage THEN 1 ELSE count \div PerPage
PagesOf(count) == IF count = 0 THEN 1 ELSE (count + PerPage - 1) \div PerPage

\* ORDER BY one column; rows that agree in it come in any order.
Precedes(a, b, s) ==
  CASE s.by = "event_type" -> TRUE
    [] s.descending -> a > b
    [] OTHER -> a < b
Grouped(list) == \A i, j, k \in DOMAIN list :
  i < j /\ j < k /\ events[list[i]] = events[list[k]] => events[list[j]] = events[list[i]]
Orders(set, s) ==
  {list \in SetToSeqs(set) :
     /\ \A i, j \in DOMAIN list : i < j => Precedes(list[i], list[j], s)
     /\ s.by = "event_type" => Grouped(list)}

Offset == (page - 1) * PerPage
Slice(list) ==
  SubSeq(list, Offset + 1, IF Offset + PerPage < Len(list) THEN Offset + PerPage ELSE Len(list))

Count ==
  /\ query.step = "count"
  /\ query' = [step |-> "select", count |-> Cardinality(Matching(filter))]
  /\ UNCHANGED <<events, aged, filter, sort, page, cut, window, pastVars, grown, disturbed>>

\* _load_logs fills the tree anew; what was selected goes.
Select ==
  /\ query.step = "select"
  /\ \E list \in Orders(Matching(filter), sort) : listed' = Slice(list)
  /\ pages' = PagesOf(query.count)
  /\ selected' = {} /\ query' = NoQuery
  /\ IF page = 1
     THEN visited' = ToSet(listed') /\ atStart' = Len(events) /\ cutAtStart' = cut
     ELSE visited' = visited \cup ToSet(listed') /\ UNCHANGED <<atStart, cutAtStart>>
  /\ UNCHANGED <<events, aged, filter, sort, page, cut, grown, disturbed>>

\* The flush before it or a statement raises: the window keeps its rows under the new number.
QueryFails ==
  /\ ~Answered
  /\ query' = NoQuery /\ disturbed' = TRUE /\ StartHistory
  /\ UNCHANGED <<events, aged, filter, sort, page, cut, window, grown>>

--------------------------------------------------------------------------------
\* The window

\* _build_query computes date_from from the clock, if the filter has a number of days.
Load ==
  /\ query' = [step |-> "count", count |-> 0]
  /\ cut' = IF filter'.dated THEN aged ELSE {}
  /\ grown' = FALSE /\ disturbed' = (disturbed /\ page' # 1)
  /\ IF page' = 1 THEN StartHistory ELSE UNCHANGED pastVars
  /\ UNCHANGED <<aged, window>>

ResetAndLoad(f) ==
  /\ Answered
  /\ filter' = f /\ page' = 1
  /\ UNCHANGED <<events, sort>> /\ Load

\* F5, and after a full verification: the page stays what it was.
Reload ==
  /\ Answered
  /\ UNCHANGED <<events, filter, sort, page>>
  /\ Load

TypeFilter(f) ==
  /\ Answered /\ f # filter
  /\ filter' = f /\ disturbed' = TRUE /\ StartHistory
  /\ UNCHANGED <<events, aged, sort, page, query, cut, window, grown>>

ChangeSort(column) ==
  /\ Answered
  /\ sort' = [by |-> column, descending |-> IF sort.by = column THEN ~sort.descending ELSE FALSE]
  /\ page' = 1
  /\ UNCHANGED <<events, filter>> /\ Load

PageBack ==
  /\ Answered /\ page > 1
  /\ page' = page - 1
  /\ UNCHANGED <<events, filter, sort>> /\ Load

PageForward ==
  /\ Answered /\ page < pages
  /\ page' = page + 1
  /\ UNCHANGED <<events, filter, sort>> /\ Load

SelectRow(n) ==
  /\ Answered /\ n \in ToSet(listed)
  /\ selected' = {n}
  /\ UNCHANGED <<events, aged, filter, sort, page, pages, listed, query, cut, pastVars, grown, disturbed>>

\* Every matching row is exported, whatever page is shown; the export is an event itself, and
\* the page is loaded again.  It may fail before the event or in it.
ExportLog ==
  /\ Answered /\ Len(events) < MaxLog
  /\ events' = Append(events, Exported)
  /\ UNCHANGED <<filter, sort, page>>
  /\ Load

ViewerNext ==
  \/ \E type \in EventTypes : WriteEvent(type)
  \/ \E f \in [type : EventTypes \cup {AllEvents}, dated : BOOLEAN] : ResetAndLoad(f) \/ TypeFilter(f)
  \/ \E column \in Columns : ChangeSort(column)
  \/ \E n \in DOMAIN events : SelectRow(n) \/ Age(n)
  \/ Count \/ Select \/ QueryFails \/ Reload \/ PageBack \/ PageForward \/ ExportLog

ViewerSpec == ViewerInit /\ [][ViewerNext]_viewerVars

--------------------------------------------------------------------------------

\* The place of row n in the order the window lists the rows in.
InOrder(m, n) == IF sort.descending THEN m >= n ELSE m <= n
Before(n) == {m \in Matching(filter) : InOrder(m, n)}
Place(n) == Cardinality(Before(n))

\* Since the first page a row that came before n has left the dates of the filter, so n and all
\* rows after it have moved up by one, perhaps onto a page that was already turned.
MovedUp(n) == \E m \in cut \ cutAtStart : InOrder(m, n) /\ OfType(events[m], filter)

\* What a person who has paged to here should have seen.
Due == {n \in Matching(filter) : n <= atStart /\ ~MovedUp(n)}

\* Who pages through the log in the order it was written in, forward or backward, has seen
\* every event due up to this page, although new events move the rows between the pages; and
\* on the last page every one.  Due is what matches and was there at the start.  The exemptions:
\* a row that moved up because one before it became too old for the dates of the filter, which
\* are computed anew for every page (MovedUp); the last page, if a matching event was written
\* between its count and its selection, which may have pushed a row to a page that the
\* window does not know of (grown); and a person who has not come here by pages that were
\* loaded with the filters applied (disturbed).
NothingSkipped ==
  /\ selected \subseteq ToSet(listed)
  /\ Answered /\ ~disturbed /\ sort.by = "sequence_number" =>
       /\ {n \in Due : Place(n) <= page * PerPage} \subseteq visited
       /\ page >= pages /\ ~grown => Due \subseteq visited
================================================================================
