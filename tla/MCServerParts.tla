---------------------------- MODULE MCServerParts ----------------------------
(***************************************************************************)
(* An instance of the server's smaller parts for TLC: providers, OAuth     *)
(* state, configuration and queries.  They share no state, so a behaviour  *)
(* moves one of them, and the others stay where they begin.                *)
(***************************************************************************)
EXTENDS ProviderCalls, OAuthState, Configuration, NotificationList

VARIABLE part

Parts == {"calls", "state", "config", "list"}

\* Complete but for one setting at most, with everything at the console or with
\* every real provider, behind two base URLs or none.
AllSettings == Mandatory \cup Credentials

AnyEnvironment ==
    {[given |-> AllSettings \ {lacking}, base |-> base, google |-> google,
      email |-> IF real THEN "resend" ELSE "console", sms |-> IF real THEN "twilio" ELSE "console",
      push |-> IF real THEN "firebase" ELSE "console"] :
        lacking \in AllSettings \cup {"nothing"}, google \in BOOLEAN, real \in BOOLEAN,
        base \in {NoURL, [host |-> "api", slashes |-> 2], [host |-> "old", slashes |-> 0]}}

SomeProcess == CHOOSE p \in Processes : TRUE

\* The parts that rest begin in one initial state each.
ServerInit ==
    /\ part \in Parts
    /\ CallsInit /\ StateInit /\ ConfigInit /\ ListInit
    /\ part # "state" => /\ clock = [p \in Processes |-> 0]
                         /\ \A p \in Processes : secret[p] = secret[SomeProcess]
                         /\ secret[SomeProcess] = CHOOSE k \in Secrets : TRUE
    /\ part # "config" => env = CHOOSE e \in Environments : Valid(e)

ServerNext ==
    /\ UNCHANGED part
    /\ \/ part = "calls" /\ CallsNext /\ UNCHANGED <<stateVars, configVars, listVars>>
       \/ part = "state" /\ StateNext /\ UNCHANGED <<callVars, configVars, listVars>>
       \/ part = "config" /\ ConfigNext /\ UNCHANGED <<callVars, stateVars, listVars>>
       \/ part = "list" /\ ListNext /\ UNCHANGED <<callVars, stateVars, configVars>>

ServerSpec ==
    ServerInit /\ [][ServerNext]_<<part, callVars, stateVars, configVars, listVars>>
=============================================================================
