------------------------------ MODULE OAuthState ------------------------------
(***************************************************************************)
(* The stateless OAuth state store: a login with Google is sent out with a *)
(* signed time, and whichever process handles the callback judges it by    *)
(* its own clock and secret.  Nothing is kept between the two requests, so *)
(* restarts and clocks that differ are all that can come between them.     *)
(* Logins do not meet: a behaviour follows one after the other.            *)
(***************************************************************************)
EXTENDS Integers

CONSTANTS
    Processes,      \* the processes of the API, one after the other or together
    Secrets,        \* values of JWT_SECRET
    MaxAge,         \* MAX_AGE_MS
    Ahead,          \* how far ahead of the clock a state may be dated
    Skew,           \* how far a clock is from the true time at most
    LastMoment      \* bound: the true time

ASSUME StateAssumption ==
    MaxAge \in Nat /\ Ahead \in Nat /\ Skew \in Nat /\ LastMoment \in Nat

VARIABLES
    time,           \* the true time
    clock,          \* the error of each process's clock
    secret,         \* the secret each process runs with
    logins,         \* the login under way: its state, and when it began
    verdict         \* the last callback: its login, when, and the answer

stateVars == <<time, clock, secret, logins, verdict>>

Errors == (0 - Skew) .. Skew

\* A state, as store encodes it, and the true time it was made at.
Login == [issuedAt : (0 - Skew) .. (LastMoment + Skew), signedWith : Secrets, began : 0 .. LastMoment]

Verdict == [answer : {"none", "accepted", "invalid", "expired"}, age : 0 .. LastMoment,
            ours : BOOLEAN]

StateInit ==
    /\ time = 0
    /\ clock \in [Processes -> Errors]
    /\ secret \in [Processes -> Secrets]
    /\ logins = {}
    /\ verdict = [answer |-> "none", age |-> 0, ours |-> FALSE]

Now(p) == time + clock[p]

\* store: the redirect to Google.
Store(p) ==
    /\ logins = {}
    /\ logins' = {[issuedAt |-> Now(p), signedWith |-> secret[p], began |-> time]}
    /\ UNCHANGED <<time, clock, secret, verdict>>

Signed(p, l) == l.signedWith = secret[p]

WithoutAllowance(p, l) == Now(p) - l.issuedAt <= MaxAge /\ l.issuedAt <= Now(p)

\* The age by this clock, and a state from the future only by a little.
Timely(p, l) ==
    /\ Now(p) - l.issuedAt <= MaxAge
    /\ l.issuedAt <= Now(p) + Ahead

\* verify: the callback. A state is not used up: the callback may come twice.
Verify(p, l) ==
    /\ verdict' = [answer |-> IF ~Signed(p, l) THEN "invalid"
                              ELSE IF Timely(p, l) THEN "accepted" ELSE "expired",
                   age |-> time - l.began, ours |-> Signed(p, l)]
    /\ UNCHANGED <<time, clock, secret, logins>>

\* A callback with a state that no process has made.
VerifyForeign ==
    /\ verdict' = [answer |-> "invalid", age |-> 0, ours |-> FALSE]
    /\ UNCHANGED <<time, clock, secret, logins>>

\* A new process, with its own clock and perhaps a new secret.
Restart(p) ==
    /\ \E e \in Errors, k \in Secrets :
            clock' = [clock EXCEPT ![p] = e] /\ secret' = [secret EXCEPT ![p] = k]
    /\ UNCHANGED <<time, logins, verdict>>

\* Time passes; a login nobody comes back to is forgotten by the user.
TimePasses == time < LastMoment /\ time' = time + 1 /\ UNCHANGED <<clock, secret, logins, verdict>>

Abandon(l) == logins' = logins \ {l} /\ UNCHANGED <<time, clock, secret, verdict>>

StateNext ==
    \/ TimePasses \/ VerifyForeign
    \/ \E p \in Processes : Store(p) \/ Restart(p) \/ \E l \in logins : Verify(p, l)
    \/ \E l \in logins : Abandon(l)

StateSpec == StateInit /\ [][StateNext]_stateVars

-----------------------------------------------------------------------------
(* Properties                                                              *)

\* Clocks, secrets, logins and the verdict have their types, and a state is dated
\* no further from the true time than the clocks are.
StateTypeOK ==
    /\ time \in 0 .. LastMoment
    /\ clock \in [Processes -> Errors]
    /\ secret \in [Processes -> Secrets]
    /\ logins \subseteq Login
    /\ \A l \in logins : l.began <= time /\ l.issuedAt - l.began \in Errors
    /\ verdict \in Verdict

\* Whatever process made a state and whichever judges it, through restarts: one
\* that is accepted is not older than the limit and twice the clocks' error, and
\* with the right secret it is refused only near the limit, or when clocks differ
\* by more than the store allows for (comment of GoogleOAuthStateStore: "Stateless
\* OAuth state store").
StatesLiveAsLong ==
    /\ verdict.answer = "accepted" => verdict.ours /\ verdict.age <= MaxAge + 2 * Skew
    /\ verdict.answer = "expired" => verdict.age > MaxAge - 2 * Skew \/ 2 * Skew > Ahead

\* What holds of a login with Google on its way.
StateInv == StateTypeOK /\ StatesLiveAsLong
=============================================================================
