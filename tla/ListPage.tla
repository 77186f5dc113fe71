------------------------------- MODULE ListPage -------------------------------
(***************************************************************************)
(* The controls of the list of notifications in the web client: the text   *)
(* that is typed, applied after a pause, the filter, the page of the grid, *)
(* and the data that is shown for them.  Data for other choices may be in  *)
(* the query cache from earlier visits; rows come and go at the server, so *)
(* that an answer may have any total.                                      *)
(***************************************************************************)
EXTENDS Naturals

CONSTANTS
    Texts,          \* what may be typed, trimmed
    Filters,        \* choices of status and channel; the order works alike
    RowsPerPage,
    MaxRows         \* bound: matching notifications

ASSUME PageAssumption ==
    "" \in Texts /\ "" \in Filters /\ RowsPerPage \in Nat \ {0} /\ MaxRows \in Nat

VARIABLES
    typed,          \* searchInput
    pause,          \* whether its timer is running
    search,         \* the search in effect
    filter,
    gridPage,       \* paginationModel.page
    view,           \* the data on the screen: its key and its total
    loading,        \* whether a request for the current key is under way
    failed          \* query.isError

pageVars == <<typed, pause, search, filter, gridPage, view, loading, failed>>

LastPage(total) ==
    IF total = 0 THEN 0 ELSE (total - 1) \div RowsPerPage

GridPages == 0 .. LastPage(MaxRows)

Key == [search : Texts, filter : Filters, page : GridPages]

\* shown is FALSE before there is any data.
View == [shown : BOOLEAN, key : Key, total : 0 .. MaxRows]

KeyWithoutSearch(s, f, p) == [search |-> search, filter |-> f, page |-> p]

\* notificationKeys.list of the parameters.
KeyOf(s, f, p) == [search |-> s, filter |-> f, page |-> p]

PageInit ==
    /\ typed \in Texts /\ search = typed /\ pause = TRUE
    /\ filter \in Filters
    /\ gridPage = 0
    /\ view = [shown |-> FALSE, key |-> KeyOf(search, filter, 0), total |-> 0]
    /\ loading = TRUE /\ failed = FALSE

Shown(key, total) == view' = [shown |-> TRUE, key |-> key, total |-> total]

\* Data for a page comes to the screen, and is perhaps asked for again. The grid
\* goes to its last page when it counts fewer rows than the page needs, whose
\* data is asked for or comes from the cache.
Display(s, f, p, total, loads) ==
    /\ gridPage' = IF p <= LastPage(total) THEN p ELSE LastPage(total)
    /\ \/ p <= LastPage(total) /\ Shown(KeyOf(s, f, p), total) /\ loading' \in loads
       \/ p > LastPage(total) /\ Shown(KeyOf(s, f, p), total) /\ loading' = TRUE
       \/ p > LastPage(total) /\ \E n \in 0 .. MaxRows :
            /\ gridPage' <= LastPage(n)
            /\ Shown(KeyOf(s, f, gridPage'), n) /\ loading' \in BOOLEAN

\* The query of the choices that are now made: another key shows what the cache
\* has for it, which may be asked for again, or what was there before until its
\* own data comes.
Choose(s, f, p) ==
    /\ search' = s /\ filter' = f
    /\ IF KeyOf(s, f, p) = KeyOf(search, filter, gridPage)
       THEN gridPage' = p /\ UNCHANGED <<view, loading, failed>>
       ELSE /\ failed' = FALSE
            /\ \/ /\ loading' = TRUE /\ gridPage' = p
                  /\ UNCHANGED view
               \/ \E total \in 0 .. MaxRows : Display(s, f, p, total, BOOLEAN)

-----------------------------------------------------------------------------
(* The user                                                                *)

\* The effect starts the timer anew.
Type(text) ==
    /\ text # typed
    /\ typed' = text /\ pause' = TRUE
    /\ UNCHANGED <<search, filter, gridPage, view, loading, failed>>

\* After 400 ms: the search applies, from the first page, also when the user has
\* turned pages since.
ApplySearch ==
    /\ pause
    /\ pause' = FALSE
    /\ Choose(typed, filter, 0)
    /\ UNCHANGED typed

ChooseFilter(f) ==
    /\ f # filter
    /\ Choose(search, f, 0)
    /\ UNCHANGED <<typed, pause>>

\* clearFilters; the timer starts if a text was typed.
ClearFilters ==
    /\ typed' = "" /\ pause' = (pause \/ typed # "")
    /\ Choose("", "", 0)

\* The grid offers the pages that its row count has.
TurnPage(p) ==
    /\ p # gridPage /\ view.shown /\ p <= LastPage(view.total)
    /\ Choose(search, filter, p)
    /\ UNCHANGED <<typed, pause>>

-----------------------------------------------------------------------------
(* Data                                                                    *)

\* A poll, an invalidation after a deletion, or another try.
Reload ==
    /\ ~loading
    /\ loading' = TRUE
    /\ UNCHANGED <<typed, pause, search, filter, gridPage, view, failed>>

Data ==
    /\ loading
    /\ \E total \in 0 .. MaxRows : Display(search, filter, gridPage, total, {FALSE})
    /\ failed' = FALSE
    /\ UNCHANGED <<typed, pause, search, filter>>

\* An error is shown in place of the grid.
DataFails ==
    /\ loading
    /\ loading' = FALSE /\ failed' = TRUE
    /\ UNCHANGED <<typed, pause, search, filter, gridPage, view>>

PageNext ==
    \/ \E text \in Texts : Type(text)
    \/ ApplySearch
    \/ \E f \in Filters : ChooseFilter(f)
    \/ ClearFilters
    \/ \E p \in GridPages : TurnPage(p)
    \/ Reload \/ Data \/ DataFails

PageSpec == PageInit /\ [][PageNext]_pageVars

-----------------------------------------------------------------------------
(* Properties                                                              *)

\* Choices and data have their types.
PageTypeOK ==
    /\ typed \in Texts /\ search \in Texts /\ pause \in BOOLEAN
    /\ filter \in Filters
    /\ gridPage \in GridPages
    /\ view \in View
    /\ loading \in BOOLEAN /\ failed \in BOOLEAN

\* When nothing is under way the rows on the screen are those of the text in the
\* field, the filter and the page that are shown, and the page is one that the
\* list has: whatever was typed, chosen, turned and deleted in between, and
\* however the timer and the answers were overtaken.
SettledShowsChoice ==
    ~pause /\ ~loading /\ ~failed =>
        /\ view.shown
        /\ view.key = KeyOf(typed, filter, gridPage)
        /\ gridPage <= LastPage(view.total)

\* What holds of the page of the list.
PageInv == PageTypeOK /\ SettledShowsChoice
=============================================================================
