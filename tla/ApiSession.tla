----------------------------- MODULE ApiSession -----------------------------
(***************************************************************************)
(* The dashboard's calls of the API and the session they share:            *)
(* dashboard/src/lib/api.ts (retries, one refresh for all, deduplication   *)
(* of GETs), the refreshes of components/auth-guard.tsx and of             *)
(* hooks/use-console-websocket.ts, and the store of the session.           *)
(*                                                                         *)
(* Access tokens expire at any time, so a token is only present or absent, *)
(* and whether it is refused is the server's choice per request.  All GETs *)
(* are for one path: the map of requests in flight has one key.            *)
(***************************************************************************)
EXTENDS Naturals

CONSTANTS
    Calls,         \* calls the pages make, each once
    Gets,          \* those that are GETs of the one path; the others write
    NoCall,        \* the map of requests in flight is empty
    MaxAttempts    \* MAX_RETRIES (3 in the code)

ASSUME CallAssumption == Gets \subseteq Calls /\ NoCall \notin Calls
ASSUME AttemptAssumption == MaxAttempts \in Nat \ {0}

\* Who refreshes the session: api.ts, the guard, the console's socket.
Refreshers == {"api", "guard", "socket"}

VARIABLES
    session,      \* the store holds a token and a refresh token
    refreshing,   \* the refreshers whose request is under way
    expired,      \* sessionExpiredHandled
    leaving,      \* window.location.href is set, the page still runs
    owner,        \* the call that inFlightRequests holds for the path
    calls,        \* the state of each call
    sends,        \* history: requests sent for each call
    done          \* history: how often the server carried out each write

vars == <<session, refreshing, expired, leaving, owner, calls, sends, done>>

\* With its headers there an answer is "refused" (401) or "answered", and its
\* body is being read.
Call == [at : {"unmade", "sent", "taken", "refused", "answered", "backoff",
               "waiting", "joined", "over"},
         token : BOOLEAN,            \* made with a token
         again : BOOLEAN,            \* _retry
         attempt : 1..MaxAttempts]   \* the loop of requestWithRetry

TypeOK ==
    /\ session \in BOOLEAN
    /\ refreshing \in SUBSET Refreshers
    /\ expired \in BOOLEAN
    /\ leaving \in BOOLEAN
    /\ owner \in Gets \cup {NoCall}
    /\ calls \in [Calls -> Call]
    /\ sends \in [Calls -> Nat]
    /\ done \in [Calls \ Gets -> Nat]

\* A call without a request of its own.
Fresh(at) == [at |-> at, token |-> FALSE, again |-> FALSE, attempt |-> 1]

Init ==
    /\ session \in BOOLEAN /\ refreshing = {}
    /\ expired = FALSE /\ leaving = FALSE /\ owner = NoCall
    /\ calls = [c \in Calls |-> Fresh("unmade")]
    /\ sends = [c \in Calls |-> 0] /\ done = [c \in Calls \ Gets |-> 0]

-----------------------------------------------------------------------------
\* The promises of the calls in S are settled, and with one that the map
\* holds also those that joined it; finally() takes it out of the map.
Settled(S) ==
    [c \in Calls |-> IF c \in S \/ (owner \in S /\ calls[c].at = "joined")
                     THEN Fresh("over") ELSE calls[c]]

OwnerAfter(S) == IF owner \in S THEN NoCall ELSE owner

\* Variant: only a success takes the entry out of the map.
SettleKeeping(S) == calls' = [c \in Calls |-> IF c \in S
                                  THEN Fresh("over") ELSE calls[c]]
                    /\ UNCHANGED owner

Settle(S) == calls' = Settled(S) /\ owner' = OwnerAfter(S)

\* handleSessionExpired(): sign out and leave, once per page.
SessionExpired ==
    IF expired THEN UNCHANGED <<session, expired, leaving>>
    ELSE session' = FALSE /\ expired' = TRUE /\ leaving' = TRUE

\* fetch() is called for c, which goes on as the record r.
Send(c, r) ==
    /\ calls' = [calls EXCEPT ![c] = [r EXCEPT !.at = "sent"]]
    /\ sends' = [sends EXCEPT ![c] = @ + 1]

-----------------------------------------------------------------------------
\* apiGet, apiPost and the like take the token from the store.  A GET joins
\* the one in flight, or becomes it.
Make(c) ==
    /\ calls[c].at = "unmade"
    /\ IF c \in Gets /\ owner # NoCall
       THEN /\ calls' = [calls EXCEPT ![c].at = "joined"]
            /\ UNCHANGED <<owner, sends>>
       ELSE /\ Send(c, [calls[c] EXCEPT !.token = session])
            /\ owner' = IF c \in Gets THEN c ELSE owner
    /\ UNCHANGED <<session, refreshing, expired, leaving, done>>

\* The server accepts the token and carries the call out.
Perform(c) ==
    /\ calls[c].at = "sent"
    /\ calls' = [calls EXCEPT ![c].at = "taken"]
    /\ done' = [d \in Calls \ Gets |-> done[d] + (IF d = c THEN 1 ELSE 0)]
    /\ UNCHANGED <<session, refreshing, expired, leaving, owner, sends>>

\* The headers of its answer arrive: fetch() returns and its timer is
\* cleared.  The server refuses the token, or has carried the call out.
Respond(c) ==
    /\ calls[c].at \in {"sent", "taken"}
    /\ calls' = [calls EXCEPT ![c].at = IF @ = "sent" THEN "refused" ELSE "answered"]
    /\ UNCHANGED <<session, refreshing, expired, leaving, owner, sends, done>>

\* The body is read: a result, or an error that is thrown on.  For a
\* deleted account the page is left as well, with the session kept.
Answer(c) ==
    /\ calls[c].at = "answered"
    /\ Settle({c})
    /\ leaving' \in {leaving, TRUE}
    /\ UNCHANGED <<session, refreshing, expired, sends, done>>

\* 401 without a token, or with one that is not merely expired, or that was
\* refreshed already, or with a body that breaks off.
Deny(c) ==
    /\ calls[c].at = "refused"
    /\ Settle({c})
    /\ IF calls[c].token THEN SessionExpired ELSE UNCHANGED <<session, expired, leaving>>
    /\ UNCHANGED <<refreshing, sends, done>>

\* 401 token_expired: wait for the refresh under way, or start it; without a
\* refresh token attemptTokenRefresh() gives up at once.
Expire(c) ==
    /\ calls[c].at = "refused" /\ calls[c].token /\ ~calls[c].again
    /\ IF session \/ "api" \in refreshing
       THEN /\ calls' = [calls EXCEPT ![c].at = "waiting"]
            /\ refreshing' = refreshing \cup {"api"}
            /\ UNCHANGED <<session, expired, leaving, owner>>
       ELSE Settle({c}) /\ SessionExpired /\ UNCHANGED refreshing
    /\ UNCHANGED <<sends, done>>

\* Variant: writes are tried again too.
FailWriting(c) ==
    /\ IF calls[c].attempt < MaxAttempts
       THEN calls' = [calls EXCEPT ![c].at = "backoff"] /\ UNCHANGED owner
       ELSE Settle({c})
    /\ UNCHANGED <<session, refreshing, expired, leaving, sends, done>>

\* Variant: one attempt too many.
FailLate(c) ==
    /\ IF c \in Gets /\ calls[c].attempt <= MaxAttempts
       THEN calls' = [calls EXCEPT ![c].at = "backoff"] /\ UNCHANGED owner
       ELSE Settle({c})
    /\ UNCHANGED <<session, refreshing, expired, leaving, sends, done>>

\* An attempt throws something other than an APIError.  Only GETs are tried
\* again.
Fail(c) ==
    /\ IF c \in Gets /\ calls[c].attempt < MaxAttempts
       THEN calls' = [calls EXCEPT ![c].at = "backoff"] /\ UNCHANGED owner
       ELSE Settle({c})
    /\ UNCHANGED <<session, refreshing, expired, leaving, sends, done>>

\* The network fails or the request is aborted before the headers are there,
\* before or after the server carried it out.
Lose(c) == calls[c].at \in {"sent", "taken"} /\ Fail(c)

\* The body of a result breaks off or does not parse.
BreakOff(c) == calls[c].at = "answered" /\ Fail(c)

\* The backoff of a GET is over.
Resend(c) ==
    /\ calls[c].at = "backoff"
    /\ Send(c, [calls[c] EXCEPT !.attempt = @ + 1])
    /\ UNCHANGED <<session, refreshing, expired, leaving, owner, done>>

-----------------------------------------------------------------------------
Waiting == {c \in Calls : calls[c].at = "waiting"}

\* Variant: a repeated GET goes through the map and finds itself.
RepeatJoining ==
    /\ calls' = [c \in Calls |-> IF c \notin Waiting THEN calls[c] ELSE
                   IF c = owner THEN [calls[c] EXCEPT !.at = "joined"] ELSE
                   [at |-> "sent", token |-> TRUE, again |-> TRUE, attempt |-> 1]]
    /\ sends' = [c \in Calls |-> sends[c] + (IF c \in Waiting \ {owner} THEN 1 ELSE 0)]

\* Every call that waited repeats its request with the new token, in a loop
\* of its own that does not look into the map.
Repeat ==
    /\ calls' = [c \in Calls |-> IF c \notin Waiting THEN calls[c] ELSE
                   [at |-> "sent", token |-> TRUE, again |-> TRUE, attempt |-> 1]]
    /\ sends' = [c \in Calls |-> sends[c] + (IF c \in Waiting THEN 1 ELSE 0)]

\* attemptTokenRefresh() of api.ts succeeds, or fails in whatever way.
ApiRefreshed ==
    /\ "api" \in refreshing /\ refreshing' = refreshing \ {"api"}
    /\ \/ session' = TRUE /\ Repeat /\ UNCHANGED <<expired, leaving, owner>>
       \/ Settle(Waiting) /\ SessionExpired /\ UNCHANGED sends
    /\ UNCHANGED done

\* Variant: the timer uses the refresh token it was set with.
RefreshAnyway(r) ==
    /\ r \in {"guard", "socket"} \ refreshing
    /\ refreshing' = refreshing \cup {r}
    /\ UNCHANGED <<session, expired, leaving, owner, calls, sends, done>>

\* The guard's timer fires, or the console's socket finds an expired token:
\* each reads the refresh token from the store and asks on its own.
Refresh(r) ==
    /\ r \in {"guard", "socket"} \ refreshing /\ session
    /\ refreshing' = refreshing \cup {r}
    /\ UNCHANGED <<session, expired, leaving, owner, calls, sends, done>>

\* What comes back goes into the store, whoever is signed in by now.  The
\* guard signs out on any error, the socket tries again later.
Refreshed(r) ==
    /\ r \in refreshing \ {"api"} /\ refreshing' = refreshing \ {r}
    /\ session' \in {TRUE, IF r = "guard" THEN FALSE ELSE session}
    /\ UNCHANGED <<expired, leaving, owner, calls, sends, done>>

\* The login pages store a session.
Login ==
    /\ ~session /\ session' = TRUE
    /\ UNCHANGED <<refreshing, expired, leaving, owner, calls, sends, done>>

\* The user signs out: the store is cleared and the server is not told.
Logout ==
    /\ session /\ session' = FALSE
    /\ UNCHANGED <<refreshing, expired, leaving, owner, calls, sends, done>>

\* The page is loaded anew: the store persists, the module's state does not.
Reload ==
    /\ calls' = [c \in Calls |-> IF calls[c].at = "unmade" THEN calls[c]
                                 ELSE Fresh("over")]
    /\ refreshing' = {} /\ owner' = NoCall /\ expired' = FALSE /\ leaving' = FALSE
    /\ UNCHANGED <<session, sends, done>>

-----------------------------------------------------------------------------
\* The headers arrive, or the request ends without them.
Ends(c) == Respond(c) \/ Lose(c)

\* The body has been read, or cannot be.
Reads(c) == Answer(c) \/ Deny(c) \/ Expire(c) \/ BreakOff(c)

Next ==
    \/ \E c \in Calls : Make(c) \/ Perform(c) \/ Ends(c) \/ Reads(c) \/ Resend(c)
    \/ ApiRefreshed \/ \E r \in Refreshers : Refresh(r) \/ Refreshed(r)
    \/ Login \/ Logout \/ Reload

\* executeFetch() aborts a request without headers after 30 seconds, and its
\* timers fire.  Nothing bounds the reading of a body, or the refresh, which
\* has no timer: for them there is no fairness.
Fairness == \A c \in Calls : WF_vars(Ends(c)) /\ WF_vars(Resend(c))

Spec == Init /\ [][Next]_vars /\ Fairness

-----------------------------------------------------------------------------
\* Properties.

\* Whatever mixture of lost requests, expired tokens and repeats it meets, a
\* write is carried out at most once, and no call is sent more often than one
\* loop before and one loop after a refresh can send it.
CallsAreBounded ==
    \A c \in Calls :
        /\ sends[c] <= 2 * MaxAttempts
        /\ c \notin Gets => done[c] <= 1

\* No call waits for something that is not under way: a call that joined
\* another has it in the map, alive, and a call that waits for a refresh has
\* one.  The map holds no call that is over, so no later call gets its result.
WaitersAreServed ==
    /\ \A c \in Calls : calls[c].at = "joined" => owner # NoCall
    /\ owner # NoCall => calls[owner].at \in
           {"sent", "taken", "refused", "answered", "backoff", "waiting"}
    /\ Waiting # {} => "api" \in refreshing

\* Signed out and with no refresh under way, the dashboard stays signed out
\* until somebody logs in: no timer, late answer or repeat starts a refresh.
QuietSignOut ==
    [][~session /\ refreshing = {} => (~session' /\ refreshing' = {}) \/ Login]_vars

\* What no timer bounds: c, or the call it joined, reads a body or waits for
\* the refresh.
Held(c) ==
    \E d \in Calls : /\ d = c \/ (calls[c].at = "joined" /\ d = owner)
                     /\ calls[d].at \in {"refused", "answered", "waiting"}

\* Every call settles, also those that joined or wait behind others, unless a
\* body or the refresh it hangs on never ends.
EveryCallSettles ==
    \A c \in Calls : \/ calls[c].at # "unmade" ~> calls[c].at = "over"
                     \/ <>[]Held(c)
=============================================================================
