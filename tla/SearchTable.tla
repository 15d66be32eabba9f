------------------------------- MODULE SearchTable -------------------------------
(***************************************************************************)
(* What the main window lists: pages of the vault loaded as needed, the    *)
(* index VaultSearchIndex over them, the text and the category to filter   *)
(* by, and the rows of the table.  Everything happens on the Tk thread; a  *)
(* typed text is searched 120 ms later, by a timer that the next keystroke *)
(* cancels but a search for another reason forgets; any query may fail.    *)
(***************************************************************************)
EXTENDS Integers, SequencesExt

CONSTANTS
  Items,       \* entries
  CategoryOf,  \* their categories
  Finds,       \* which entries a text finds
  Blank, All,  \* no text, all categories
  PageSize,    \* lazy_load_page_size
  MaxTimers    \* bound: searches that are scheduled

ASSUME SearchAssumption == PageSize \in Nat \ {0}

VARIABLES
  rows,     \* the entries of the vault, the latest change first
  total,      \* _total_entry_count
  loaded,     \* _all_entries
  index,      \* the records of the search index
  text, category,
  shown,      \* the rows of the table
  timers,     \* searches scheduled with after
  known,      \* _search_after_id names one of them
  typed,      \* history: the text or the category was typed since the last search
  unlocked,   \* entry_manager is there
  behind,     \* history: the vault has changed and the list could not be loaded since
  partial,    \* history: the last search could not load all pages
  unindexed   \* history: the index was replaced since the list was loaded

searchVars == <<rows, total, loaded, index, text, category, shown, timers, known,
                typed, unlocked, behind, partial, unindexed>>

SearchInit ==
  /\ rows = << >> /\ total = 0 /\ loaded = << >> /\ index = << >>
  /\ text = Blank /\ category = All /\ shown = << >>
  /\ timers = 0 /\ known = FALSE /\ typed = FALSE /\ unlocked = FALSE
  /\ behind = FALSE /\ partial = FALSE /\ unindexed = FALSE

--------------------------------------------------------------------------------
\* VaultSearchIndex.search

MatchesTerms(e, t) == IF t = Blank THEN TRUE ELSE e \in Finds[t]
MatchesFilters(e, c) == c = All \/ CategoryOf[e] = c
Search(list, t, c) == SelectSeq(list, LAMBDA e : MatchesTerms(e, t) /\ MatchesFilters(e, c))

\* So many pages more of the vault v, whatever the list holds.
MorePages(v, list, k) ==
  LET upto == Len(list) + k * PageSize
  IN list \o SubSeq(v, Len(list) + 1, IF upto < Len(v) THEN upto ELSE Len(v))
NextPage(v, list) == MorePages(v, list, 1)

\* The lists a search for a text may end up with: pages are loaded until the count is
\* reached, none comes any more, or a query fails.
Pages(v, list) ==
  LET after == [k \in 0..Len(v) |-> MorePages(v, list, k)]
  IN {after[k] : k \in {n \in DOMAIN after : \A m \in 0..n - 1 : Len(after[m]) < total'}}
AllPages(v, list) == Len(list) >= total' \/ NextPage(v, list) = list

Categories(list) == {All} \cup {CategoryOf[e] : e \in ToSet(list)}
Remaining(c, list) == IF c \in Categories(list) THEN c ELSE All

\* A slip: what was loaded for the search is not indexed.
ApplyUnindexed(t, list, idx, c) ==
  \E l \in IF t = Blank THEN {list} ELSE Pages(rows', list) :
    /\ loaded' = l
    /\ index' = idx
    /\ category' = IF l = list THEN c ELSE Remaining(c, l)
    /\ shown' = Search(index', t, category')
    /\ partial' = (t # Blank /\ ~AllPages(rows', l))
    /\ unindexed' = FALSE
    /\ known' = FALSE /\ typed' = FALSE

\* _apply_search with the text, list, index and category it finds.  What it loads is indexed,
\* and then a category that has gone is reset.
ApplySearch(t, list, idx, c) ==
  \E l \in IF t = Blank THEN {list} ELSE Pages(rows', list) :
    /\ loaded' = l
    /\ index' = IF l = list THEN idx ELSE l
    /\ category' = IF l = list THEN c ELSE Remaining(c, l)
    /\ shown' = Search(index', t, category')
    /\ partial' = (t # Blank /\ ~AllPages(rows', l))
    /\ unindexed' = (index' # l)
    /\ known' = FALSE /\ typed' = FALSE

\* _refresh_entry_index
Refresh(list) == ApplySearch(text, list, list, Remaining(category, list))

listVars == <<loaded, index, category, shown, known, typed, partial, unindexed>>

\* _schedule_search: the timer that is known is replaced, another one is added.
AddTimer(is_known) == IF is_known THEN timers ELSE timers + 1

--------------------------------------------------------------------------------

\* _load_entries, for the vault as it now is: the count, then the first page; either may fail.
LoadEntries ==
  \/ total' = Len(rows') /\ behind' = FALSE /\ Refresh(NextPage(rows', << >>))
  \/ total' \in {total, Len(rows')} /\ behind' = TRUE /\ UNCHANGED listVars

\* An entry is in the vault once.
Without(e) ==
  IF e \in ToSet(rows) THEN RemoveAt(rows, CHOOSE n \in DOMAIN rows : rows[n] = e) ELSE rows

\* A handler or an import changes the vault, and loads the list, unless it failed after the
\* change was stored.
ChangeVault(e) ==
  /\ unlocked
  /\ rows' \in {<<e>> \o Without(e), Without(e)} \ {rows}
  /\ UNCHANGED <<text, timers, unlocked>>
  /\ \/ LoadEntries
     \/ behind' = TRUE /\ UNCHANGED <<total, listVars>>

LoadMoreEntries ==
  /\ unlocked /\ Len(loaded) < total
  /\ UNCHANGED <<rows, total, text, timers, unlocked, behind>>
  /\ Refresh(NextPage(rows, loaded))

TypeText(t) ==
  /\ unlocked /\ AddTimer(known) <= MaxTimers
  /\ text' = t /\ typed' = TRUE
  /\ timers' = AddTimer(known) /\ known' = TRUE
  /\ UNCHANGED <<rows, total, loaded, index, category, shown, unlocked, behind, partial, unindexed>>

SearchTimer ==
  /\ timers > 0 /\ timers' = timers - 1
  /\ UNCHANGED <<rows, total, text, unlocked, behind>>
  /\ IF unlocked THEN ApplySearch(text, loaded, index, category)
     ELSE known' = FALSE /\ UNCHANGED <<loaded, index, category, shown, typed, partial, unindexed>>

PickCategory(c) ==
  /\ unlocked /\ c \in Categories(loaded)
  /\ UNCHANGED <<rows, total, text, timers, unlocked, behind>>
  /\ ApplySearch(text, loaded, index, c)

\* The box can be edited, which searches nothing: a category that was only typed is one the
\* next search finds, and it need not be of an entry that is loaded.
TypeCategory(c) ==
  /\ unlocked /\ c # category
  /\ category' = c /\ typed' = TRUE
  /\ UNCHANGED <<rows, total, loaded, index, text, shown, timers, known, unlocked, behind, partial, unindexed>>

\* _highlight_audit_entry: an entry the table does not show is looked for without a text and
\* in all categories.
ShowEntry(e) ==
  /\ unlocked /\ e \notin ToSet(shown) /\ AddTimer(known) <= MaxTimers
  /\ text' = Blank /\ timers' = AddTimer(known)
  /\ UNCHANGED <<rows, total, unlocked, behind>>
  /\ ApplySearch(Blank, loaded, index, All)

\* _start_security_subsystem makes a new index; nothing is indexed in it.
SaveSecurity ==
  /\ unlocked
  /\ index' = << >> /\ unindexed' = (loaded # << >>)
  /\ UNCHANGED <<rows, total, loaded, text, category, shown, timers, known, typed, unlocked, behind, partial>>

\* The end of an unlock: the list is loaded, then text and category of the last session are
\* put back, which schedules a search, and searched for at once.
FinishUnlock ==
  /\ ~unlocked /\ unlocked' = TRUE
  /\ timers < MaxTimers
  /\ UNCHANGED <<rows, text>>
  /\ \/ total' = Len(rows) /\ behind' = FALSE /\ timers' = timers + 1
        /\ LET first == NextPage(rows, << >>) IN ApplySearch(text, first, first, category)
     \/ total' \in {total, Len(rows)} /\ behind' = TRUE /\ timers' = AddTimer(known)
        /\ ApplySearch(text, << >>, << >>, category)

\* _clear_sensitive_data
ClearSensitive ==
  /\ unlocked /\ unlocked' = FALSE
  /\ loaded' = << >> /\ index' = << >> /\ shown' = << >>
  /\ behind' = FALSE /\ partial' = FALSE /\ unindexed' = FALSE
  /\ UNCHANGED <<rows, total, text, category, timers, known, typed>>

SearchNext ==
  \/ \E e \in Items : ChangeVault(e) \/ ShowEntry(e)
  \/ \E t \in DOMAIN Finds \cup {Blank} : TypeText(t)
  \/ \E c \in {CategoryOf[e] : e \in Items} \cup {All} : PickCategory(c) \/ TypeCategory(c)
  \/ LoadMoreEntries \/ SearchTimer \/ SaveSecurity \/ FinishUnlock \/ ClearSensitive

SearchSpec == SearchInit /\ [][SearchNext]_searchVars

--------------------------------------------------------------------------------

\* What the table should show: of the whole vault when a text is searched for, otherwise of
\* what is loaded.
Sought == Search(IF text = Blank THEN loaded ELSE rows, text, category)

\* Once a search has been made and no query has failed, the table shows exactly the entries
\* that match, over all pages and after any change, as long as the index was not replaced;
\* and a locked window shows none.
SearchComplete ==
  /\ ~unlocked => shown = << >> /\ index = << >>
  /\ unlocked /\ ~typed /\ ~behind /\ ~partial /\ ~unindexed =>
       shown = Sought /\ IsPrefix(loaded, rows)

\* The same, whether or not the settings were saved since the list was loaded.
SearchFinds == unlocked /\ ~typed /\ ~behind /\ ~partial /\ text # Blank => shown = Sought
================================================================================
