-------------------------- MODULE PushRegistration --------------------------
(***************************************************************************)
(* Browser push in the web client. A registration is a promise that three  *)
(* callbacks race to settle: the id that Firebase reports, the error of    *)
(* the call, and a timer; what is left of an earlier one may call back     *)
(* during the next. A subscription to foreground messages may arrive after *)
(* the component that asked for it has been unmounted.                     *)
(***************************************************************************)
EXTENDS Naturals

CONSTANTS
    Registrations,  \* bound: registrations with something outstanding
    MaxMounts       \* bound: mounts of the listener with something outstanding

ASSUME MountAssumption == MaxMounts \in Nat

VARIABLES
    reg,        \* each registration
    button,     \* the registration the button of the form waits for, if any
    recipient,  \* what the recipient field holds: typed, or an installation id
    listening   \* each mount of PushForegroundListener

pushVars == <<reg, button, recipient, listening>>

Mounts == 1 .. MaxMounts

\* What is outstanding, besides the state of the promise.
Registration == [state : {"new", "preparing", "waiting", "id", "error"},
                 timer : BOOLEAN, listener : BOOLEAN, call : BOOLEAN]

Fresh == [state |-> "new", timer |-> FALSE, listener |-> FALSE, call |-> FALSE]

Settled(g) == reg[g].state \in {"id", "error"}

\* active and unsubscribe of the effect, the request for the subscription and
\* the subscription itself.
Listening == [active : BOOLEAN, asking : BOOLEAN, kept : BOOLEAN, live : BOOLEAN]

NotListening == [active |-> FALSE, asking |-> FALSE, kept |-> FALSE, live |-> FALSE]

PushInit ==
    /\ reg = [g \in Registrations |-> Fresh]
    /\ button = {}
    /\ recipient = "typed"
    /\ listening = [m \in Mounts |-> NotListening]

SetReg(g, r) == reg' = [reg EXCEPT ![g] = r] /\ UNCHANGED <<button, recipient, listening>>

-----------------------------------------------------------------------------
(* registerForPushNotifications                                            *)

\* The button of the form; it is loading until the promise is settled.
Press(g) ==
    /\ button = {}
    /\ reg[g] = Fresh
    /\ reg' = [reg EXCEPT ![g].state = "preparing"]
    /\ button' = {g}
    /\ UNCHANGED <<recipient, listening>>

\* The form is left, and perhaps opened again with a button of its own.
LeaveForm ==
    /\ button # {}
    /\ button' = {} /\ recipient' = "typed"
    /\ UNCHANGED <<reg, listening>>

\* No support, no permission or no key: nothing has been started. The user may
\* leave the question for the permission open, and the service worker may never be
\* ready.
Refuse(g) ==
    /\ reg[g].state = "preparing"
    /\ SetReg(g, [Fresh EXCEPT !.state = "error"])

StartWithoutTimer(g) ==
    /\ reg[g].state = "preparing"
    /\ SetReg(g, [state |-> "waiting", timer |-> FALSE, listener |-> TRUE, call |-> TRUE])

\* The executor of the promise starts timer, listener and call.
Start(g) ==
    /\ reg[g].state = "preparing"
    /\ SetReg(g, [state |-> "waiting", timer |-> TRUE, listener |-> TRUE, call |-> TRUE])

OutcomeOnly(g, outcome) == [reg[g] EXCEPT !.state = outcome, !.listener = FALSE]

\* Whoever is first settles the promise, and stops the timer and the listener.
Outcome(g, outcome) ==
    [reg[g] EXCEPT !.state = outcome, !.timer = FALSE, !.listener = FALSE]

\* 15 seconds are over.
TimeOut(g) ==
    /\ reg[g].timer
    /\ SetReg(g, IF Settled(g) THEN [reg[g] EXCEPT !.timer = FALSE] ELSE Outcome(g, "error"))

\* onRegistered reports the installation id.
Registered(g) ==
    /\ reg[g].listener
    /\ ~Settled(g)
    /\ SetReg(g, Outcome(g, "id"))

\* register() succeeds, which settles nothing, or fails, before or after the
\* promise is settled.
CallEnds(g) ==
    /\ reg[g].call
    /\ \/ SetReg(g, [reg[g] EXCEPT !.call = FALSE])
       \/ ~Settled(g) /\ SetReg(g, [Outcome(g, "error") EXCEPT !.call = FALSE])

\* registerCurrentBrowser: the id goes into the form, if that is still there,
\* and the button is given back.
Finish(g) ==
    /\ g \in button /\ Settled(g)
    /\ button' = {}
    /\ recipient' = IF reg[g].state = "id" THEN "id" ELSE recipient
    /\ UNCHANGED <<reg, listening>>

\* Nothing is left of a registration.
Forget(g) ==
    /\ Settled(g) /\ g \notin button
    /\ ~reg[g].timer /\ ~reg[g].listener /\ ~reg[g].call
    /\ SetReg(g, Fresh)

-----------------------------------------------------------------------------
(* PushForegroundListener                                                  *)

SetMount(m, l) == listening' = [listening EXCEPT ![m] = l] /\ UNCHANGED <<reg, button, recipient>>

\* The effect; only one mount is active at a time.
Mount(m) ==
    /\ \A k \in Mounts : ~listening[k].active
    /\ listening[m] = NotListening
    /\ SetMount(m, [NotListening EXCEPT !.active = TRUE, !.asking = TRUE])

ArrivesForGood(m) ==
    /\ listening[m].asking
    /\ SetMount(m, [listening[m] EXCEPT !.asking = FALSE, !.live = TRUE, !.kept = TRUE])

\* The subscription arrives: it is kept, or given back at once when the effect
\* has been cleaned up; or push is not available.
Arrives(m) ==
    /\ listening[m].asking
    /\ \/ SetMount(m, [listening[m] EXCEPT !.asking = FALSE,
                            !.live = listening[m].active, !.kept = listening[m].active])
       \/ SetMount(m, [listening[m] EXCEPT !.asking = FALSE])

\* The cleanup of the effect.
Unmount(m) ==
    /\ listening[m].active
    /\ SetMount(m, [listening[m] EXCEPT !.active = FALSE, !.kept = FALSE,
                        !.live = IF listening[m].kept THEN FALSE ELSE @])

PushNext ==
    \/ LeaveForm
    \/ \E g \in Registrations :
            \/ Press(g) \/ Refuse(g) \/ Start(g) \/ TimeOut(g) \/ Registered(g)
            \/ CallEnds(g) \/ Finish(g) \/ Forget(g)
    \/ \E m \in Mounts : Mount(m) \/ Arrives(m) \/ Unmount(m)

\* The timer fires and continuations run; Firebase may never answer, and what is
\* awaited before the timer is set (permission, service worker) may never end.
PushFairness ==
    \A g \in Registrations : WF_pushVars(TimeOut(g)) /\ WF_pushVars(Finish(g))

PushSpec == PushInit /\ [][PushNext]_pushVars /\ PushFairness

-----------------------------------------------------------------------------
(* Properties                                                              *)

\* Registrations and mounts have their types.
PushTypeOK ==
    /\ reg \in [Registrations -> Registration]
    /\ button \subseteq Registrations
    /\ recipient \in {"typed", "id"}
    /\ listening \in [Mounts -> Listening]

\* Whichever callback wins, a settled registration leaves no timer and no
\* listener behind, and no foreground subscription outlives its component: a
\* message is not shown twice after a remount.
NothingLeftBehind ==
    /\ \A g \in Registrations : Settled(g) => ~reg[g].timer /\ ~reg[g].listener
    /\ \A m, k \in Mounts : listening[m].live /\ listening[k].live => m = k

\* What holds of registrations and listeners.
PushInv == PushTypeOK /\ NothingLeftBehind

\* Once the call to Firebase has begun, the button does not load for ever, although
\* Firebase may never answer. Before that it may: nothing limits the wait for the
\* permission and for the service worker.
ButtonComesBack ==
    \A g \in Registrations :
        (g \in button /\ reg[g].state # "preparing") ~> (g \notin button)
=============================================================================
