------------------------------ MODULE Sessions ------------------------------
(***************************************************************************)
(* Access tokens and who renews them.  The server issues one that lives    *)
(* fifteen minutes (backend accounts/tokens.py); a terminal asks for it    *)
(* once, as it starts (desktop bootstrap.py), a browser when somebody      *)
(* signs in (frontend stores/auth.ts), and each has its own idea of what   *)
(* to do when it is refused.                                               *)
(***************************************************************************)
EXTENDS Integers

CONSTANTS
    Terminals, Browsers,
    MaxWork             \* bound: operations in an outbox

Clients == Terminals \cup Browsers

VARIABLES
    link,       \* whether the server can be reached
    token,      \* ApiClient.access_token, localStorage caesar.access
    refresh,    \* browsers: caesar.refresh; the family lives for a week
    running,    \* terminals whose program runs
    work,       \* outbox rows of a terminal; the request of a browser
    refused,    \* clients whose last request got a 401
    retried     \* browsers: config._retried

sessionVars == <<link, token, refresh, running, work, refused, retried>>

SessionsTypeOK ==
    /\ link \in BOOLEAN
    /\ token \in [Clients -> {"none", "fresh", "expired"}]
    /\ refresh \subseteq Browsers /\ running \subseteq Terminals
    /\ work \in [Clients -> 0 .. MaxWork]
    /\ refused \subseteq Clients /\ retried \subseteq Browsers

SessionsInit ==
    /\ link = TRUE
    /\ token = [c \in Clients |-> "none"]
    /\ refresh = {} /\ running = {}
    /\ work = [c \in Clients |-> 0]
    /\ refused = {} /\ retried = {}

-----------------------------------------------------------------------------
(* The server.                                                             *)

\* AuthContextMiddleware._resolve: decode's TOKEN_EXPIRED is caught, the caller
\* is ANONYMOUS, and the permission layer answers what it answers everybody.
answer(c) == IF token[c] = "fresh" THEN "OK" ELSE "NOT_AUTHENTICATED"

\* exp of an access token, a device's like a person's.
Expires(c) ==
    /\ token[c] = "fresh"
    /\ token' = [token EXCEPT ![c] = "expired"]
    /\ UNCHANGED <<link, refresh, running, work, refused, retried>>

-----------------------------------------------------------------------------
(* The terminal.                                                           *)

\* bootstrap.start; without the server it starts on the cached licence.
Start(t) ==
    /\ t \notin running
    /\ running' = running \cup {t}
    /\ token' = [token EXCEPT ![t] = IF link THEN "fresh" ELSE "none"]
    /\ UNCHANGED <<link, refresh, work, refused, retried>>

Quit(t) ==
    /\ t \in running
    /\ running' = running \ {t}
    /\ UNCHANGED <<link, token, refresh, work, refused, retried>>

Sell(t) ==
    /\ t \in running /\ work[t] < MaxWork
    /\ work' = [work EXCEPT ![t] = @ + 1]
    /\ UNCHANGED <<link, token, refresh, running, refused, retried>>

\* SyncEngine.tick: drain_once pushes what is due; _handle_batch_error defers a
\* 401 to the next tick.
Tick(t) ==
    /\ t \in running /\ work[t] > 0 /\ link
    /\ IF answer(t) = "OK"
       THEN work' = [work EXCEPT ![t] = 0] /\ refused' = refused \ {t}
       ELSE refused' = refused \cup {t} /\ UNCHANGED work
    /\ UNCHANGED <<link, token, refresh, running, retried>>

-----------------------------------------------------------------------------
(* The browser.                                                            *)

\* auth.login, terminal.signIn.
SignIn(b) ==
    /\ link /\ b \notin refresh
    /\ token' = [token EXCEPT ![b] = "fresh"]
    /\ refresh' = refresh \cup {b}
    /\ UNCHANGED <<link, running, work, refused, retried>>

SignOut(b) ==
    /\ b \in refresh /\ work[b] = 0
    /\ token' = [token EXCEPT ![b] = "none"]
    /\ refresh' = refresh \ {b}
    /\ UNCHANGED <<link, running, work, refused, retried>>

\* A tap becomes a request, and one that was refused is forgotten.
Tap(b) ==
    /\ b \in refresh /\ link /\ work[b] = 0
    /\ work' = [work EXCEPT ![b] = 1]
    /\ refused' = refused \ {b}
    /\ retried' = retried \ {b}
    /\ UNCHANGED <<link, token, refresh, running>>

\* isExpired of the response interceptor: rotate, and send the request again.
Expired(b) == answer(b) = "TOKEN_EXPIRED" /\ b \notin retried

Renew(b) ==
    /\ work[b] > 0 /\ link /\ Expired(b)
    /\ token' = [token EXCEPT ![b] = "fresh"]
    /\ retried' = retried \cup {b}
    /\ UNCHANGED <<link, refresh, running, work, refused>>

\* The response, or the rejection that the screen shows.
Answered(b) ==
    /\ work[b] > 0 /\ link /\ ~Expired(b)
    /\ work' = [work EXCEPT ![b] = 0]
    /\ refused' = IF answer(b) = "OK" THEN refused \ {b} ELSE refused \cup {b}
    /\ UNCHANGED <<link, token, refresh, running, retried>>

-----------------------------------------------------------------------------

LinkFails ==
    /\ link /\ link' = FALSE
    /\ UNCHANGED <<token, refresh, running, work, refused, retried>>

LinkReturns ==
    /\ ~link /\ link' = TRUE
    /\ UNCHANGED <<token, refresh, running, work, refused, retried>>

SessionsNext ==
    \/ LinkFails \/ LinkReturns
    \/ \E c \in Clients : Expires(c)
    \/ \E t \in Terminals : Start(t) \/ Quit(t) \/ Sell(t) \/ Tick(t)
    \/ \E b \in Browsers : SignIn(b) \/ SignOut(b) \/ Tap(b) \/ Renew(b) \/ Answered(b)

\* The timer of a program that runs ticks on, a browser reads what comes back,
\* and the network, down or up again for a while, is up often enough.
SessionsFairness ==
    /\ WF_sessionVars(LinkReturns)
    /\ \A t \in Terminals : SF_sessionVars(Tick(t))
    /\ \A b \in Browsers : SF_sessionVars(Renew(b)) /\ SF_sessionVars(Answered(b))

FairSessions == SessionsInit /\ [][SessionsNext]_sessionVars /\ SessionsFairness

-----------------------------------------------------------------------------

\* pusher.py:151 "A 401 is a token that expired mid-shift - ordinary, and the
\* engine refreshes and retries": refuted.  Nothing in a terminal that goes on
\* running asks for another token, and what it sold stays in its outbox.
RefusedGetsThrough ==
    \A t \in Terminals : t \in refused ~> (t \notin refused \/ t \notin running)

\* client.ts:83 "Several requests can 401 at once when an access token expires"
\* and the interceptor sends each again: refuted, the code it waits for never
\* comes, and a browser with a good refresh token is turned away.
NobodyIsTurnedAway == refused \cap refresh = {}
=============================================================================
