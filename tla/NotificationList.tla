--------------------------- MODULE NotificationList ---------------------------
(***************************************************************************)
(* The queries of the notifications service over rows that change while    *)
(* they run: a client that goes through the pages of a list, the dashboard *)
(* and the delivery history.  Each database query is a step of its own;    *)
(* READ COMMITTED gives every statement its own view, within a transaction *)
(* too.  The rows are those of one user: ownership is part of every query. *)
(* Queries change nothing: a behaviour has one reader at a time.           *)
(***************************************************************************)
EXTENDS Naturals, FiniteSets

CONSTANTS
    Items,          \* bound: the notifications, numbered as they are created
    PageSize,       \* of the list
    Recent          \* how many the dashboard shows

ASSUME ListAssumption ==
    /\ Items \subseteq Nat /\ IsFiniteSet(Items)
    /\ PageSize \in Nat \ {0} /\ Recent \in Nat \ {0}

VARIABLES
    row,            \* the status of each notification, or that there is none
    pass,           \* a client that reads page after page
    dashboard,      \* the two queries of a dashboard, and its answer
    history         \* a request for the deliveries of a notification

listVars == <<row, pass, dashboard, history>>

\* One status that is not counted, and two that are.
Statuses == {"PENDING", "SENT", "FAILED"}

There == {i \in Items : row[i] \in Statuses}

\* Of the filters by status one that rows enter and leave.
StatusFilters == {"all", "SENT"}

\* where: by owner, and by status if one is asked for.
Matching(filter) == {i \in There : filter = "all" \/ row[i] = filter}

PassRecord == [pc : {"idle", "ask", "count", "ended"}, filter : StatusFilters,
               sort : {"createdAt", "channel"}, ascending : BOOLEAN, page : Nat,
               items : SUBSET Items, begin : SUBSET Items, seen : SUBSET Items,
               shrunk : BOOLEAN]

NoPass == [pc |-> "idle", filter |-> "all", sort |-> "createdAt", ascending |-> FALSE,
           page |-> 0, items |-> {}, begin |-> {}, seen |-> {}, shrunk |-> FALSE]

\* quiet: nothing was written between the queries.
Dashboard == [pc : {"idle", "counts", "recent", "answered"}, count : [Statuses -> Nat],
              recent : SUBSET Items, of : [Statuses -> Nat], quiet : BOOLEAN]

NoCount == [s \in Statuses |-> 0]

NoDashboard == [pc |-> "idle", count |-> NoCount, recent |-> {}, of |-> NoCount, quiet |-> TRUE]

History == [pc : {"idle", "found", "answered"}, item : Nat,
            answer : {"none", "not found", "empty", "attempts"}, attempted : BOOLEAN]

NoHistory == [pc |-> "idle", item |-> 0, answer |-> "none", attempted |-> FALSE]

ListInit ==
    /\ row = [i \in Items |-> "none"]
    /\ pass = NoPass /\ dashboard = NoDashboard /\ history = NoHistory

-----------------------------------------------------------------------------
(* Writers                                                                 *)

\* A write, and what it means to the readers: whether the list has lost a row,
\* and that a dashboard is not of one moment.
Write(i, status) ==
    /\ row' = [row EXCEPT ![i] = status]
    /\ pass' = [pass EXCEPT !.shrunk = @ \/ (i \in Matching(pass.filter)
                    /\ status # pass.filter /\ (pass.filter # "all" \/ status = "gone"))]
    /\ dashboard' = [dashboard EXCEPT !.quiet = FALSE]
    /\ UNCHANGED history

\* The next notification is created.
Insert(i) ==
    /\ row[i] = "none"
    /\ \A j \in Items : row[j] = "none" => i <= j
    /\ Write(i, "PENDING")

\* The worker and the webhooks; a notification that was attempted is PENDING
\* no more.
Deliver(i, status) ==
    /\ i \in There /\ status \notin {"PENDING", row[i]}
    /\ Write(i, status)

Delete(i) == i \in There /\ Write(i, "gone")

-----------------------------------------------------------------------------
(* findAllByUser                                                           *)

\* buildOrderBy: creation times differ; another key has ties, and rows with equal
\* keys come in any order, in each query anew.
Key(sort, i) == IF sort = "createdAt" THEN i ELSE i % 2

\* The positions the database may give to the rows.
Orders(S, sort, ascending) ==
    {o \in [S -> 0 .. Cardinality(S) - 1] :
        /\ \A i, j \in S : o[i] = o[j] => i = j
        /\ \A i, j \in S : Key(sort, i) < Key(sort, j) =>
                IF ascending THEN o[i] < o[j] ELSE o[j] < o[i]}

\* skip and take.
Page(o, page) ==
    {i \in DOMAIN o : (page - 1) * PageSize <= o[i] /\ o[i] < page * PageSize}

FullPages(total) == total \div PageSize

TotalPages(total) == (total + PageSize - 1) \div PageSize

HasNextPage(page, total) == page < TotalPages(total)

Free == pass.pc = "idle" /\ dashboard.pc = "idle" /\ history.pc = "idle"

SetPass(p) == pass' = p /\ UNCHANGED <<row, dashboard, history>>

StartPass(filter, sort, ascending) ==
    /\ Free
    /\ SetPass([NoPass EXCEPT !.pc = "ask", !.filter = filter, !.sort = sort,
                    !.ascending = ascending, !.page = 1, !.begin = Matching(filter)])

\* findMany.
FindPage ==
    /\ pass.pc = "ask"
    /\ \E o \in Orders(Matching(pass.filter), pass.sort, pass.ascending) :
            SetPass([pass EXCEPT !.pc = "count", !.items = Page(o, pass.page)])

\* count, the answer, and the client, who goes on while there is a next page.
Count ==
    LET total == Cardinality(Matching(pass.filter)) IN
    /\ pass.pc = "count"
    /\ SetPass([pass EXCEPT !.seen = @ \cup pass.items, !.items = {},
                    !.pc = IF HasNextPage(pass.page, total) THEN "ask" ELSE "ended",
                    !.page = IF HasNextPage(pass.page, total) THEN @ + 1 ELSE @])

EndPass == pass.pc = "ended" /\ SetPass(NoPass)

-----------------------------------------------------------------------------
(* getDashboardByUser                                                      *)

CountOf(S) == [s \in Statuses |-> Cardinality({i \in S : row[i] = s})]

OldestFirst == {i \in There : Cardinality({j \in There : j < i}) < Recent}

Newest == {i \in There : Cardinality({j \in There : j > i}) < Recent}

SetDashboard(d) == dashboard' = d /\ UNCHANGED <<row, pass, history>>

\* The two queries run side by side, each on a connection of its own.
CountStatuses ==
    \/ /\ Free
       /\ SetDashboard([NoDashboard EXCEPT !.pc = "counts", !.count = CountOf(There)])
    \/ /\ dashboard.pc = "recent"
       /\ SetDashboard([dashboard EXCEPT !.pc = "answered", !.count = CountOf(There)])

FindRecent ==
    \/ /\ Free
       /\ SetDashboard([NoDashboard EXCEPT !.pc = "recent", !.recent = Newest,
                                           !.of = CountOf(Newest)])
    \/ /\ dashboard.pc = "counts"
       /\ SetDashboard([dashboard EXCEPT !.pc = "answered", !.recent = Newest,
                                         !.of = CountOf(Newest)])

EndDashboard == dashboard.pc = "answered" /\ SetDashboard(NoDashboard)

-----------------------------------------------------------------------------
(* findForUser of the delivery history                                     *)

SetHistory(h) == history' = h /\ UNCHANGED <<row, pass, dashboard>>

\* The notification is looked up: 404 without it.
FindOwner(i) ==
    /\ Free
    /\ SetHistory([pc |-> IF i \in There THEN "found" ELSE "answered", item |-> i,
                   answer |-> IF i \in There THEN "none" ELSE "not found",
                   attempted |-> row[i] \in Statuses \ {"PENDING"}])

\* Its deliveries are, which a deletion has taken along.
FindDeliveries ==
    /\ history.pc = "found"
    /\ SetHistory([history EXCEPT !.pc = "answered",
            !.answer = IF row[history.item] \in Statuses \ {"PENDING"} THEN "attempts" ELSE "empty"])

EndHistory == history.pc = "answered" /\ SetHistory(NoHistory)

ListNext ==
    \/ \E i \in Items : Insert(i) \/ Delete(i) \/ \E s \in Statuses : Deliver(i, s)
    \/ \E f \in StatusFilters, s \in {"createdAt", "channel"}, a \in BOOLEAN : StartPass(f, s, a)
    \/ FindPage \/ Count \/ EndPass
    \/ CountStatuses \/ FindRecent \/ EndDashboard
    \/ (\E i \in Items : FindOwner(i)) \/ FindDeliveries \/ EndHistory

ListSpec == ListInit /\ [][ListNext]_listVars

-----------------------------------------------------------------------------
(* Properties                                                              *)

\* Rows and readers have their types.
ListTypeOK ==
    /\ row \in [Items -> Statuses \cup {"none", "gone"}]
    /\ pass \in PassRecord
    /\ dashboard \in Dashboard
    /\ history \in History

\* In the order of creation a client that turns the pages to the end has seen
\* all that was there when it began, although rows are added, and counted by
\* another statement than they are read by: only rows that leave the list hide
\* others (comment of findAllByUser: "Offset pagination is intentionally used").
PassSeesAll ==
    pass.pc = "ended" /\ pass.sort = "createdAt" /\ ~pass.shrunk =>
        pass.begin \subseteq pass.seen

\* A dashboard between whose queries nothing was written shows no more in its
\* list than in its counters, and all there is if that is little (comment of
\* getDashboardByUser: "Status counts and recent notifications are fetched
\* concurrently").
DashboardAddsUp ==
    LET total == Cardinality(There) IN
    dashboard.pc = "answered" /\ dashboard.quiet =>
        /\ \A s \in Statuses : dashboard.of[s] <= dashboard.count[s]
        /\ total <= Recent => dashboard.of = dashboard.count
        /\ \A i \in dashboard.recent, j \in There \ dashboard.recent : j < i

\* An empty history is that of a notification which was not attempted when it was
\* looked up, or which has gone since.
HistoryIsHonest ==
    history.pc = "answered" /\ history.answer = "empty" /\ history.attempted =>
        row[history.item] = "gone"

\* What the three queries promise their readers.
ListInv == ListTypeOK /\ PassSeesAll /\ DashboardAddsUp /\ HistoryIsHonest
=============================================================================
