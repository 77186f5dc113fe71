-------------------------- MODULE NotificationViews --------------------------
(***************************************************************************)
(* What the pages of the web client show of a notification: the query      *)
(* cache, filled by requests that are sent, served and received in steps   *)
(* of their own, the rules by which a query polls, and the mutations,      *)
(* which invalidate queries when they succeed.  Queries do not depend on   *)
(* each other: a behaviour follows one of them, through all pages and      *)
(* mutations.  Of the notification a version number and the status matter, *)
(* which decides about polling.                                            *)
(***************************************************************************)
EXTENDS Naturals

CONSTANTS
    MaxVersion,     \* bound: changes of the notification
    MaxRuns         \* attempts of one job

ASSUME ViewsAssumption == MaxVersion \in Nat \ {0} /\ MaxRuns \in Nat \ {0}

VARIABLES
    server,         \* the notification as the API returns it, and its job
    page,           \* the page the user looks at
    q,              \* the query that is followed
    cache,          \* its entry in the query cache
    mutation,       \* the mutation under way
    due             \* history: the version it must show after a mutation

viewVars == <<server, page, q, cache, mutation, due>>

Queries == {"list", "dashboard", "detail", "deliveries"}

QueriesOn == [list |-> {"list"}, dashboard |-> {"dashboard"}, edit |-> {"detail"},
              detail |-> {"detail", "deliveries"}]

Pages == DOMAIN QueriesOn

Active == q \in QueriesOn[page]

Terminal == {"DELIVERED", "FAILED"}

Statuses == Terminal \cup {"PENDING", "PROCESSING", "SENT", "GONE"}

Versions == 0 .. MaxVersion

Snapshot == [version : Versions, status : Statuses \cup {"NONE"}]

NoData == [version |-> 0, status |-> "NONE"]

Current == [version |-> server.version, status |-> server.status]

Entry == [data : Snapshot, stale : BOOLEAN, error : BOOLEAN,
          fetch : {"idle", "asked", "answered"}, answer : Snapshot]

Empty == [data |-> NoData, stale |-> FALSE, error |-> FALSE, fetch |-> "idle",
          answer |-> NoData]

Mutations == {"none", "send", "update", "remove"}

ViewsInit ==
    /\ server = [version |-> 1, status |-> "PENDING", runs |-> MaxRuns]
    /\ page = "list"
    /\ q \in Queries
    /\ cache = IF q = "list" THEN [Empty EXCEPT !.fetch = "asked"] ELSE Empty
    /\ mutation = [kind |-> "none", state |-> "idle"]
    /\ due = 0

-----------------------------------------------------------------------------
(* The server                                                              *)

Change(status, runs) ==
    /\ server.version < MaxVersion
    /\ server' = [version |-> server.version + 1, status |-> status, runs |-> runs]

\* The worker and the webhooks, as DeliveryWorker and DeliveryTracking have them:
\* a FAILED notification is attempted again as long as its job has retries.
Deliver ==
    /\ \/ server.runs > 0 /\ server.status \notin {"PROCESSING", "GONE"}
          /\ Change("PROCESSING", server.runs)
       \/ server.status = "PROCESSING" /\ Change("SENT", 0)
       \/ server.status = "PROCESSING" /\ Change("FAILED", server.runs - 1)
       \/ server.status = "SENT" /\ \E s \in Terminal : Change(s, server.runs)
    /\ UNCHANGED <<page, q, cache, mutation, due>>

-----------------------------------------------------------------------------
(* Queries                                                                 *)

NonTerminal(status) == status \notin Terminal \cup {"NONE", "GONE"}

PollsWhileUndecided == NonTerminal(cache.data.status)

\* refetchInterval: list and detail while what they show is not terminal, the
\* deliveries always, the dashboard never.
Polls ==
    \/ q = "deliveries"
    \/ q \in {"list", "detail"} /\ NonTerminal(cache.data.status)

\* A fetch that is needed when a page is mounted: no data, or invalidated or old.
Mounted ==
    IF cache.fetch = "idle" /\ (cache.data = NoData \/ cache.stale)
    THEN [cache EXCEPT !.fetch = "asked"]
    ELSE cache

\* The user, or a handler at its end, goes to another page.
Navigate(p) ==
    /\ p # page
    /\ page' = p
    /\ cache' = IF q \in QueriesOn[p] \ QueriesOn[page] THEN Mounted ELSE cache
    /\ UNCHANGED <<server, q, mutation, due>>

Ask ==
    /\ Active /\ cache.fetch = "idle"
    /\ cache' = [cache EXCEPT !.fetch = "asked"]
    /\ UNCHANGED <<server, page, q, mutation, due>>

Poll == Polls /\ Ask

\* The window gets the focus and the data is stale, or the user retries.
Refetch == (cache.stale \/ cache.error) /\ Ask

\* The data is older than staleTime.
Age ==
    /\ ~cache.stale
    /\ cache' = [cache EXCEPT !.stale = TRUE]
    /\ UNCHANGED <<server, page, q, mutation, due>>

\* The API reads the rows; a notification that is gone is 404.
Serve ==
    /\ cache.fetch = "asked"
    /\ cache' = IF server.status = "GONE" /\ q \in {"detail", "deliveries"}
                THEN [cache EXCEPT !.fetch = "idle", !.error = TRUE]
                ELSE [cache EXCEPT !.fetch = "answered", !.answer = Current]
    /\ UNCHANGED <<server, page, q, mutation, due>>

\* The answer becomes the data, fresh whatever has happened since it was read.
Land ==
    /\ cache.fetch = "answered"
    /\ cache' = [Empty EXCEPT !.data = cache.answer]
    /\ UNCHANGED <<server, page, q, mutation, due>>

\* Timeout or network error, the retry included: the old data stays, with an error.
Lose ==
    /\ cache.fetch # "idle"
    /\ cache' = [cache EXCEPT !.fetch = "idle", !.answer = NoData, !.error = TRUE]
    /\ UNCHANGED <<server, page, q, mutation, due>>

-----------------------------------------------------------------------------
(* Mutations                                                               *)

\* Where the button is, and on what data.
Offered(kind) ==
    \/ kind = "send" /\ page = "detail" /\ (q = "detail" => cache.data # NoData)
    \/ kind = "update" /\ page = "edit" /\ (q = "detail" => cache.data # NoData)
    \/ kind = "remove" /\ page = "list"
       /\ (q = "list" => cache.data.status \notin {"NONE", "GONE"})

Mutate(kind) ==
    /\ mutation.state = "idle"
    /\ Offered(kind)
    /\ mutation' = [kind |-> kind, state |-> "asked"]
    /\ UNCHANGED <<server, page, q, cache, due>>

\* The handlers of the API: send queues a job unless one is pending, update
\* changes the text, remove deletes; or the request fails.
ServeMutation ==
    /\ mutation.state = "asked"
    /\ \/ /\ server.status # "GONE"
          /\ \/ mutation.kind = "send"
                /\ server' = [server EXCEPT !.runs = IF server.runs > 0 THEN server.runs
                                                     ELSE MaxRuns]
             \/ mutation.kind = "update" /\ Change(server.status, server.runs)
             \/ mutation.kind = "remove" /\ Change("GONE", 0)
          /\ mutation' = [mutation EXCEPT !.state = "done"]
       \/ /\ mutation' = [kind |-> "none", state |-> "idle"]
          /\ UNCHANGED server
    /\ UNCHANGED <<page, q, cache, due>>

\* What onSuccess of each mutation invalidates; a key stands for all it begins.
Invalidates(kind) ==
    IF kind = "remove" THEN {"list", "dashboard"} ELSE Queries

InvalidatedWhenIdle ==
    IF Active /\ cache.fetch = "idle"
    THEN [cache EXCEPT !.stale = TRUE, !.fetch = "asked"]
    ELSE [cache EXCEPT !.stale = TRUE]

\* invalidateQueries: what is on the page is fetched again, and an older request
\* for data that is shown is dropped; a first load is not.
Invalidated ==
    IF Active /\ (cache.fetch = "idle" \/ cache.data # NoData)
    THEN [cache EXCEPT !.stale = TRUE, !.fetch = "asked", !.answer = NoData]
    ELSE [cache EXCEPT !.stale = TRUE]

\* onSuccess: remove first drops the queries of the notification.
Settle ==
    LET kind == mutation.kind IN
    /\ mutation.state = "done"
    /\ cache' = IF q \in Invalidates(kind) THEN Invalidated ELSE Empty
    /\ due' = IF q \in Invalidates(kind) /\ Active /\ cache.data # NoData
              THEN server.version ELSE 0
    /\ mutation' = [kind |-> "none", state |-> "idle"]
    /\ UNCHANGED <<server, page, q>>

-----------------------------------------------------------------------------

ViewsNext ==
    \/ Deliver \/ ServeMutation \/ Settle
    \/ \E p \in Pages : Navigate(p)
    \/ \E kind \in Mutations \ {"none"} : Mutate(kind)
    \/ Poll \/ Refetch \/ Age \/ Serve \/ Land \/ Lose

\* Timers run as long as the tab is visible and online (TanStack Query pauses the
\* intervals of a hidden or disconnected one), and every request is answered, fails or
\* times out. Nobody has to look, to press a button or to come back to the window.
ViewsFairness ==
    /\ WF_viewVars(ServeMutation) /\ WF_viewVars(Settle)
    /\ WF_viewVars(Poll) /\ WF_viewVars(Serve) /\ WF_viewVars(Land \/ Lose)

ViewsSpec == ViewsInit /\ [][ViewsNext]_viewVars /\ ViewsFairness

-----------------------------------------------------------------------------
(* Properties                                                              *)

\* Server, cache and mutation have their types, and nothing shown is from the
\* future.
ViewsTypeOK ==
    /\ server \in [version : Versions, status : Statuses, runs : 0 .. MaxRuns]
    /\ page \in Pages
    /\ q \in Queries
    /\ cache \in Entry
    /\ mutation \in [kind : Mutations, state : {"idle", "asked", "done"}]
    /\ due \in Versions
    /\ cache.data.version <= server.version

\* Answers never take the screen back: not to a version older than the one it
\* shows, nor to one from before a mutation that has been reported as done.
NeverBackwards ==
    cache.fetch = "answered" =>
        cache.answer.version >= due /\ cache.answer.version >= cache.data.version

\* What holds of a query and its page.
ViewsInv == ViewsTypeOK /\ NeverBackwards

UpToDate == cache.error \/ cache.data.version = server.version

\* A page that stays open in a visible tab and polls gets to what the server has, or
\* says that it cannot; the list of deliveries does so whatever the status above it says, so
\* that a retry after FAILED is seen there.
PolledViewsCatchUp ==
    <>[](Active /\ (q = "deliveries" \/ (q # "dashboard" /\ NonTerminal(cache.data.status))))
        => []<>UpToDate

\* Who has changed a notification sees on the same page what he has done: no
\* answer that was under way hides it.
MutationIsSeen ==
    Active /\ cache.data.version < due ~>
        ~Active \/ cache.error \/ cache.data.version >= due
=============================================================================
