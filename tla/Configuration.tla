---------------------------- MODULE Configuration ----------------------------
(***************************************************************************)
(* The settings of the API over several deployments: what validateEnv lets *)
(* start, what the providers and the webhooks read when they run, and the  *)
(* callbacks of messages sent by this deployment or an earlier one.  A     *)
(* setting is given, with a valid value, or not; an empty one is not.      *)
(***************************************************************************)
EXTENDS Naturals

CONSTANTS
    Environments,   \* the environments the program is started with
    Hosts,          \* values of PUBLIC_API_BASE_URL, and of a request's host
    None

Mandatory == {"PORT", "ALLOWED_ORIGINS", "DATABASE_URL", "REDIS_URL", "PASSWORD_PEPPER",
              "JWT_SECRET", "JWT_EXPIRES_IN_SECONDS"}

Google == {"GOOGLE_CLIENT_ID", "GOOGLE_CLIENT_SECRET", "GOOGLE_CALLBACK_URL"}

Resend == {"RESEND_API_KEY", "EMAIL_FROM", "RESEND_WEBHOOK_SECRET"}

Twilio == {"TWILIO_ACCOUNT_SID", "TWILIO_API_KEY_SID", "TWILIO_API_KEY_SECRET",
           "TWILIO_FROM_NUMBER", "TWILIO_AUTH_TOKEN"}

Firebase == {"FIREBASE_PROJECT_ID", "FIREBASE_CLIENT_EMAIL", "FIREBASE_PRIVATE_KEY"}

Credentials == Google \cup Resend \cup Twilio \cup Firebase

NoURL == [host |-> None, slashes |-> 0]

\* A base URL, if there is one: its host, and how many slashes are at its end.
URL == {NoURL} \cup [host : Hosts, slashes : 0 .. 2]

Environment == [given : SUBSET (Mandatory \cup Credentials), base : URL,
                google : BOOLEAN, email : {"console", "resend"},
                sms : {"console", "twilio"}, push : {"console", "firebase"}]

ASSUME ConfigurationAssumption == None \notin Hosts /\ Environments \subseteq Environment

VARIABLES
    state,          \* of the deployment
    env,            \* its settings, as validateEnv returns them
    message,        \* a message whose provider will call back
    heard,          \* the last callback, and the answer to it
    missing         \* whether a setting was read that is not given

configVars == <<state, env, message, heard, missing>>

Message == [provider : {"none", "resend", "twilio"}, url : URL, current : BOOLEAN]

NoMessage == [provider |-> "none", url |-> NoURL, current |-> FALSE]

Answers == {"none", "handled", "unavailable", "unauthorized"}

ConfigInit ==
    /\ state = "down"
    /\ env \in Environments
    /\ message = NoMessage
    /\ heard = [answer |-> "none", current |-> FALSE]
    /\ missing = FALSE

-----------------------------------------------------------------------------
(* Start                                                                   *)

NeedsOne(e, on, keys) == on => keys \cap e.given # {}

\* addRequiredIssue, for the settings of what is switched on.
Needs(e, on, keys) == on => keys \subseteq e.given

Valid(e) ==
    /\ Mandatory \subseteq e.given
    /\ Needs(e, e.google, Google)
    /\ Needs(e, e.email = "resend", Resend)
    /\ Needs(e, e.sms = "twilio", Twilio)
    /\ e.sms = "twilio" => e.base # NoURL
    /\ Needs(e, e.push = "firebase", Firebase)

\* The schema takes the slashes off the base URL.
Trimmed(url) == [url EXCEPT !.slashes = 0]

Normalised(e) == [e EXCEPT !.base = Trimmed(e.base)]

\* bootstrap: the constructors read the mandatory settings, and the program ends
\* when the environment is not valid.
Start ==
    /\ state = "down"
    /\ IF Valid(env)
       THEN state' = "up" /\ env' = Normalised(env)
       ELSE state' = "refused" /\ UNCHANGED env
    /\ UNCHANGED <<message, heard, missing>>

\* Another deployment, with its own settings.
Deploy(e) ==
    /\ state' = "down" /\ env' = e
    /\ message' = [message EXCEPT !.current = FALSE]
    /\ heard' = [heard EXCEPT !.current = FALSE]
    /\ UNCHANGED missing

-----------------------------------------------------------------------------
(* Sending                                                                 *)

\* getOrThrow, or for Google a placeholder.
Reads(keys) == missing' = (missing \/ ~(keys \subseteq env.given))

\* The selected email provider; a message of Resend has webhooks.
SendEmail ==
    /\ state = "up"
    /\ IF env.email = "resend"
       THEN /\ Reads({"RESEND_API_KEY", "EMAIL_FROM"})
            /\ message' = [provider |-> "resend", url |-> NoURL, current |-> TRUE]
       ELSE UNCHANGED <<missing, message>>
    /\ UNCHANGED <<state, env, heard>>

\* Twilio is given the URL to call, made from the base without its slashes.
SendSms ==
    /\ state = "up"
    /\ IF env.sms = "twilio"
       THEN /\ missing' = (missing \/ env.base = NoURL \/ ~({"TWILIO_FROM_NUMBER",
                    "TWILIO_ACCOUNT_SID", "TWILIO_API_KEY_SID", "TWILIO_API_KEY_SECRET"}
                        \subseteq env.given))
            /\ message' = [provider |-> "twilio", url |-> Trimmed(env.base), current |-> TRUE]
       ELSE UNCHANGED <<missing, message>>
    /\ UNCHANGED <<state, env, heard>>

SendPush ==
    /\ state = "up"
    /\ IF env.push = "firebase" THEN Reads(Firebase) ELSE UNCHANGED missing
    /\ UNCHANGED <<state, env, message, heard>>

\* GoogleAuthGuard: 503 unless it is switched on.
GoogleLogin ==
    /\ state = "up"
    /\ IF env.google THEN Reads(Google) ELSE UNCHANGED missing
    /\ UNCHANGED <<state, env, message, heard>>

-----------------------------------------------------------------------------
(* Callbacks                                                               *)

Hear(answer) ==
    /\ heard' = [answer |-> answer, current |-> message.current]
    /\ UNCHANGED <<state, env, message, missing>>

\* The signature is judged by a client that needs the API key; without it every
\* webhook looks forged.
ResendWebhook ==
    /\ state = "up" /\ message.provider = "resend"
    /\ Hear(IF "RESEND_WEBHOOK_SECRET" \notin env.given THEN "unavailable"
            ELSE IF "RESEND_API_KEY" \in env.given THEN "handled" ELSE "unauthorized")

SignedURLOfRequest(host) == [host |-> host, slashes |-> 0]

\* resolveSignatureUrl: the base URL less one slash, or else the host of the
\* request, which a proxy may have changed.
SignedURL(host) ==
    IF env.base # NoURL
    THEN [env.base EXCEPT !.slashes = IF @ = 0 THEN 0 ELSE @ - 1]
    ELSE [host |-> host, slashes |-> 0]

\* Twilio signs the URL it was given when the message was sent.
TwilioCallback(host) ==
    /\ state = "up" /\ message.provider = "twilio"
    /\ Hear(IF "TWILIO_AUTH_TOKEN" \notin env.given THEN "unavailable"
            ELSE IF SignedURL(host) = message.url THEN "handled" ELSE "unauthorized")

\* A callback that its provider has not signed.
Forged ==
    /\ state = "up"
    /\ heard' = [answer |-> "unauthorized", current |-> FALSE]
    /\ UNCHANGED <<state, env, message, missing>>

ConfigNext ==
    \/ Start \/ \E e \in Environments : Deploy(e)
    \/ SendEmail \/ SendSms \/ SendPush \/ GoogleLogin
    \/ ResendWebhook \/ \E host \in Hosts : TwilioCallback(host)
    \/ Forged

ConfigSpec == ConfigInit /\ [][ConfigNext]_configVars

-----------------------------------------------------------------------------
(* Properties                                                              *)

\* Settings, message and answer have their types.
ConfigTypeOK ==
    /\ state \in {"down", "up", "refused"}
    /\ env \in Environment
    /\ message \in Message
    /\ heard \in [answer : Answers, current : BOOLEAN]
    /\ missing \in BOOLEAN

\* What has started never lacks a setting, whatever is sent or logged in with
\* (backend_notifications/README.md: "Invalid selected-provider configuration
\* prevents startup instead of silently substituting a console provider").
NeverMissing == ~missing

\* The callbacks of a message that this deployment has sent are heard: its
\* secrets are there, and the URL that was signed is the one that is checked.
\* Those of an earlier deployment may be lost.
OwnCallbacksAreHeard == heard.current => heard.answer = "handled"

\* What holds of a deployment and its callbacks.
ConfigInv == ConfigTypeOK /\ NeverMissing /\ OwnCallbacksAreHeard
=============================================================================
