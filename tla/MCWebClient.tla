----------------------------- MODULE MCWebClient -----------------------------
(***************************************************************************)
(* An instance of the parts of the web client for TLC.  The parts share no *)
(* state, so a behaviour moves one of them, and the others stay where they *)
(* begin.                                                                  *)
(***************************************************************************)
EXTENDS ClientSession, NotificationViews, PushRegistration, ListPage

VARIABLE part

Parts == {"session", "views", "push", "list"}

\* The parts that rest begin in one of their initial states, in which no
\* fairness condition asks for a step.
ClientInit ==
    /\ part \in Parts
    /\ SessionInit /\ ViewsInit /\ PushInit /\ PageInit
    /\ part # "views" => q = "dashboard"
    /\ part # "list" => search = "" /\ filter = ""

ClientNext ==
    /\ UNCHANGED part
    /\ \/ part = "session" /\ SessionNext /\ UNCHANGED <<viewVars, pushVars, pageVars>>
       \/ part = "views" /\ ViewsNext /\ UNCHANGED <<sessionVars, pushVars, pageVars>>
       \/ part = "push" /\ PushNext /\ UNCHANGED <<sessionVars, viewVars, pageVars>>
       \/ part = "list" /\ PageNext /\ UNCHANGED <<sessionVars, viewVars, pushVars>>

ClientSpec ==
    /\ ClientInit
    /\ [][ClientNext]_<<part, sessionVars, viewVars, pushVars, pageVars>>
    /\ SessionFairness /\ ViewsFairness /\ PushFairness

\* An answer that does not come keeps the client neither behind the loading
\* indicator of the start-up nor, once Firebase has been called, on the button of
\* the push registration.
NothingLoadsForEver == LoadingEnds /\ ButtonComesBack
=============================================================================
