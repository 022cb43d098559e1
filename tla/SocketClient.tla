---------------------------- MODULE SocketClient ----------------------------
(***************************************************************************)
(* How a browser tab keeps its socket: WebSocketClient (webui/js/          *)
(* websocket.js), the token cache of webui/js/api.js, the part of          *)
(* sync-store.js that forces a reconnect, and the server that accepts a    *)
(* socket only with the token of its own run (run_ui.py).                  *)
(*                                                                         *)
(* Two mechanisms reconnect at once, the manager of the Socket.IO library  *)
(* and the retry timer of WebSocketClient; both, and every API call, wait  *)
(* for one shared token request. JavaScript is single-threaded: a step is  *)
(* the code between two awaits. The library (socketConnect and below,      *)
(* vendor/socket.io.esm.min.js) is modelled from how the client uses it: a *)
(* refusal by the server stops its own reconnection, a broken transport    *)
(* starts it.                                                              *)
(*                                                                         *)
(* A restart of the server is a new run, with a new token that the server  *)
(* gives to whoever asks. Delays are left out, and so are subscriptions,   *)
(* payloads and a second CONNECT on a transport that has one under way.    *)
(***************************************************************************)
EXTENDS Naturals

CONSTANTS
    MaxFetches,   \* bound: token requests under way at the same time
    MaxRuns,      \* bound: the runs of the server are 1..MaxRuns
    MaxForces,    \* bound: forced reconnects
    MaxBreaks     \* bound: connections and token requests that break while the
                  \*   server is up

ASSUME SocketAssumption ==
    /\ MaxFetches \in Nat \ {0}
    /\ MaxRuns \in Nat \ {0} /\ MaxForces \in Nat /\ MaxBreaks \in Nat

Runs == 1..MaxRuns
NoRun == 0
Fetches == 1..MaxFetches
NoFetch == 0

VARIABLES
    up, run,      \* the server is up; its current (or last) run
    token,        \* csrfToken: the run that gave it
    promise,      \* csrfTokenPromise
    runtime,      \* runtimeIdCache
    fetches,      \* token requests under way, with the run that has answered
    cookies,      \* the runs whose session and token cookies the browser has
    connected, manual, invalidated, retry,   \* _manualDisconnect,
                  \*   _csrfInvalidatedForConnectError, _connectErrorRetryTimer
    pending,      \* connectPromise, with the token request it waits for
    last,         \* _lastRuntimeId
    active, reconnecting,  \* the library's socket and its manager
    engine,       \* the transport
    api,          \* an API call of the page
    forces, breaks

server == <<up, run>>
cache == <<token, promise, runtime, fetches, cookies>>
client == <<connected, manual, invalidated, retry, pending, last>>
library == <<active, reconnecting, engine>>
bounds == <<forces, breaks>>
vars == <<server, cache, client, library, api, bounds>>

Closed == [at |-> "closed", run |-> NoRun, cookies |-> {}, on |-> NoFetch, token |-> NoRun]
Idle == [at |-> "idle", on |-> NoFetch, token |-> NoRun, again |-> FALSE]
NotPending == [at |-> "none", on |-> NoFetch]
Pending(f) == [at |-> IF f = NoFetch THEN "events" ELSE "token", on |-> f]

Init ==
    /\ up = TRUE /\ run = 1
    /\ token = NoRun /\ promise = NoFetch /\ runtime = NoRun /\ fetches = {} /\ cookies = {}
    /\ connected = FALSE /\ manual = FALSE /\ invalidated = FALSE /\ retry = FALSE
    /\ pending = NotPending /\ last = NoRun
    /\ active = FALSE /\ reconnecting = FALSE /\ engine = Closed
    /\ api = Idle /\ forces = 0 /\ breaks = 0

-----------------------------------------------------------------------------
(* api.js: the token and the one promise for it.                           *)

FreeFetch == CHOOSE f \in Fetches : /\ \A r \in fetches : r.id # f
                                    /\ \A g \in Fetches : g < f => \E r \in fetches : r.id = g

\* The caller has the token at once (f = NoFetch), joins the request under way, or
\* starts one. tok and prom are what the step has made of the cache before.
GetCsrfToken(tok, prom, f) ==
    /\ token' = tok
    /\ \/ tok # NoRun /\ f = NoFetch /\ promise' = prom /\ UNCHANGED fetches
       \/ tok = NoRun /\ prom # NoFetch /\ f = prom /\ promise' = prom /\ UNCHANGED fetches
       \/ /\ tok = NoRun /\ prom = NoFetch
          /\ \E g \in Fetches : \A r \in fetches : r.id # g
          /\ f \in Fetches /\ f = FreeFetch /\ promise' = f
          /\ fetches' = fetches \cup {[id |-> f, answer |-> NoRun]}
    /\ UNCHANGED <<runtime, cookies>>

ServerAnswersFetch ==
    /\ up
    /\ \E r \in fetches :
          /\ r.answer = NoRun
          /\ fetches' = (fetches \ {r}) \cup {[r EXCEPT !.answer = run]}
    /\ UNCHANGED <<server, token, promise, runtime, cookies, client, library, api, bounds>>

-----------------------------------------------------------------------------
(* The library, and what the client does on its events.                    *)

\* socket.connect(): the manager opens a transport unless it is about to anyway.
Dial(e) == IF ~reconnecting /\ e.at = "closed" THEN [Closed EXCEPT !.at = "opening"] ELSE e

\* Mutant: no retry is scheduled.
NoRetryOnConnectError ==
    /\ IF invalidated THEN UNCHANGED <<token, promise>> ELSE token' = NoRun /\ promise' = NoFetch
    /\ invalidated' = TRUE
    /\ pending' = IF pending.at = "events" THEN NotPending ELSE pending
    /\ UNCHANGED <<runtime, fetches, cookies, connected, manual, retry, last>>

\* The handler of connect_error: the token is thrown away once, the retry timer is
\* set, and connect() is rejected if it waits for events.
OnConnectError ==
    /\ IF invalidated THEN UNCHANGED <<token, promise>> ELSE token' = NoRun /\ promise' = NoFetch
    /\ invalidated' = TRUE
    /\ retry' = (retry \/ (~manual /\ ~connected))
    /\ pending' = IF pending.at = "events" THEN NotPending ELSE pending
    /\ UNCHANGED <<runtime, fetches, cookies, connected, manual, last>>

\* connect(): nothing to do, or one is under way, or the token comes first.
Connect(tok, prom, isPending, man) ==
    IF isPending
    THEN /\ token' = tok /\ promise' = prom /\ manual' = man
         /\ UNCHANGED <<runtime, fetches, cookies, pending, library>>
    ELSE \E f \in Fetches \cup {NoFetch} :
            /\ GetCsrfToken(tok, prom, f)
            /\ manual' = FALSE
            /\ pending' = Pending(f)
            /\ IF f = NoFetch
               THEN active' = TRUE /\ engine' = Dial(engine) /\ UNCHANGED reconnecting
               ELSE UNCHANGED library

\* Somebody sends or subscribes.
CallConnect ==
    /\ ~connected /\ pending.at = "none"
    /\ Connect(token, promise, FALSE, manual)
    /\ UNCHANGED <<server, connected, invalidated, retry, last, api, bounds>>

RetryTimer ==
    /\ retry
    /\ retry' = FALSE
    /\ IF manual \/ connected
       THEN UNCHANGED <<cache, manual, pending, library>>
       ELSE Connect(token, promise, pending.at # "none", manual)
    /\ UNCHANGED <<server, connected, invalidated, last, api, bounds>>

\* Mutant: connect() is rejected when its token request fails.
ResumeOrReject(f, tok) ==
    LET there == IF engine.on = f THEN [engine EXCEPT !.at = "packet", !.on = NoFetch, !.token = tok] ELSE engine
        dials == pending.on = f /\ tok # NoRun
    IN  /\ engine' = IF dials THEN Dial(there) ELSE there
        /\ active' = (active \/ dials)
        /\ pending' = IF dials THEN Pending(NoFetch) ELSE IF pending.on = f THEN NotPending ELSE pending
        /\ api' = IF api.on # f THEN api
                  ELSE IF tok = NoRun THEN Idle
                  ELSE [api EXCEPT !.at = "sent", !.on = NoFetch, !.token = tok]
        /\ UNCHANGED <<reconnecting, connected, manual, invalidated, retry, last>>

\* A token request ends. Everybody who waits for it goes on: connect() with or
\* without a token, the transport with a CONNECT packet, the API call.
Resume(f, tok) ==
    LET there == IF engine.on = f THEN [engine EXCEPT !.at = "packet", !.on = NoFetch, !.token = tok] ELSE engine
        dials == pending.on = f
    IN  /\ engine' = IF dials THEN Dial(there) ELSE there
        /\ active' = (active \/ dials)
        /\ pending' = IF dials THEN Pending(NoFetch) ELSE pending
        /\ api' = IF api.on # f THEN api
                  ELSE IF tok = NoRun THEN Idle
                  ELSE [api EXCEPT !.at = "sent", !.on = NoFetch, !.token = tok]
        /\ UNCHANGED <<reconnecting, connected, manual, invalidated, retry, last>>

\* An answer that is on its way when the server goes is lost with its connection.
OnItsWay(r) == up /\ r.answer = run

\* Mutant: the page keeps the first run it was given.
FetchReturnsKeepsRuntime ==
    \E r \in fetches :
        /\ OnItsWay(r)
        /\ token' = r.answer /\ cookies' = cookies \cup {r.answer}
        /\ runtime' = IF runtime = NoRun THEN r.answer ELSE runtime
        /\ promise' = NoFetch
        /\ fetches' = fetches \ {r}
        /\ Resume(r.id, r.answer)
        /\ UNCHANGED <<server, bounds>>

\* Whoever asked for it also ends the promise, be it another one by now.
FetchReturns ==
    \E r \in fetches :
        /\ OnItsWay(r)
        /\ token' = r.answer /\ runtime' = r.answer /\ cookies' = cookies \cup {r.answer}
        /\ promise' = NoFetch
        /\ fetches' = fetches \ {r}
        /\ Resume(r.id, r.answer)
        /\ UNCHANGED <<server, bounds>>

FetchLost(r) ==
    /\ promise' = NoFetch
    /\ fetches' = fetches \ {r}
    /\ Resume(r.id, NoRun)
    /\ UNCHANGED <<server, token, runtime, cookies, forces>>

FetchFails ==
    /\ \E r \in fetches : (r.answer # NoRun \/ ~up) /\ ~OnItsWay(r) /\ FetchLost(r)
    /\ UNCHANGED breaks

FetchTimesOut ==
    /\ breaks < MaxBreaks /\ breaks' = breaks + 1
    /\ \E r \in fetches : FetchLost(r)

ManagerTimer ==
    /\ reconnecting /\ engine.at = "closed"
    /\ engine' = [Closed EXCEPT !.at = "opening"]
    /\ UNCHANGED <<server, cache, client, active, reconnecting, api, bounds>>

\* The transport carries the cookies of the moment it is opened; the callback auth
\* of the client asks for the token after that.
TransportOpens ==
    /\ engine.at = "opening" /\ up
    /\ \E f \in Fetches \cup {NoFetch} :
          /\ GetCsrfToken(token, promise, f)
          /\ engine' = [at |-> IF f = NoFetch THEN "packet" ELSE "auth", run |-> run, cookies |-> cookies,
                        on |-> f, token |-> token]
    /\ reconnecting' = FALSE
    /\ UNCHANGED <<server, client, active, api, bounds>>

TransportFails ==
    /\ engine.at = "opening" /\ ~up
    /\ engine' = Closed /\ reconnecting' = TRUE
    /\ OnConnectError
    /\ UNCHANGED <<server, active, api, bounds>>

Alive == up /\ engine.run = run

\* The server accepts the socket: the token fits its session and its cookie.
Accept ==
    /\ engine.at = "packet" /\ Alive
    /\ engine.token = run /\ run \in engine.cookies
    /\ engine' = [engine EXCEPT !.at = "open"]
    /\ connected' = TRUE /\ invalidated' = FALSE /\ retry' = FALSE
    /\ last' = runtime
    /\ pending' = IF pending.at = "events" THEN NotPending ELSE pending
    /\ UNCHANGED <<server, cache, manual, active, reconnecting, api, bounds>>

\* It refuses it: the library closes the transport and does not come back by itself.
Refuse ==
    /\ engine.at = "packet" /\ Alive
    /\ ~(engine.token = run /\ run \in engine.cookies)
    /\ active' = FALSE /\ engine' = Closed /\ reconnecting' = FALSE
    /\ OnConnectError
    /\ UNCHANGED <<server, api, bounds>>

TransportLost ==
    /\ engine' = Closed /\ reconnecting' = TRUE /\ connected' = FALSE
    /\ UNCHANGED <<server, cache, manual, invalidated, retry, pending, last, active, api>>

TransportCloses ==
    /\ engine.at \in {"auth", "packet", "open"} /\ ~Alive
    /\ TransportLost
    /\ UNCHANGED bounds

TransportBreaks ==
    /\ engine.at \in {"auth", "packet", "open"} /\ Alive
    /\ breaks < MaxBreaks /\ breaks' = breaks + 1
    /\ TransportLost
    /\ UNCHANGED forces

\* sync-store after failed handshakes on a socket that looks connected: throw away
\* the token, disconnect, connect.
ForceReconnect ==
    /\ connected
    /\ forces < MaxForces /\ forces' = forces + 1
    /\ connected' = FALSE
    /\ IF pending.at # "none"
       THEN /\ token' = NoRun /\ promise' = NoFetch /\ manual' = TRUE
            /\ active' = FALSE /\ engine' = Closed /\ reconnecting' = FALSE
            /\ UNCHANGED <<runtime, fetches, cookies, pending>>
       ELSE \E f \in Fetches :
            /\ GetCsrfToken(NoRun, NoFetch, f)
            /\ manual' = FALSE /\ pending' = Pending(f)
            /\ active' = FALSE /\ engine' = Closed /\ reconnecting' = FALSE
    /\ UNCHANGED <<server, invalidated, retry, last, api, breaks>>

-----------------------------------------------------------------------------
(* API calls and the server.                                               *)

SendApi(tok, again) ==
    \E f \in Fetches \cup {NoFetch} :
        /\ GetCsrfToken(tok, promise, f)
        /\ api' = [at |-> IF f = NoFetch THEN "sent" ELSE "token", on |-> f, token |-> tok, again |-> again]

ApiCall ==
    /\ api.at = "idle"
    /\ SendApi(token, FALSE)
    /\ UNCHANGED <<server, client, library, bounds>>

\* A call with a token of another run is repeated once, with a new one.
ApiAnswered ==
    /\ api.at = "sent" /\ up
    /\ IF api.token = run \/ api.again
       THEN api' = Idle /\ UNCHANGED cache
       ELSE SendApi(NoRun, TRUE)
    /\ UNCHANGED <<server, client, library, bounds>>

ApiFails ==
    /\ api.at = "sent" /\ ~up
    /\ api' = Idle
    /\ UNCHANGED <<server, cache, client, library, bounds>>

Crash ==
    /\ up /\ run < MaxRuns
    /\ up' = FALSE
    /\ UNCHANGED <<run, cache, client, library, api, bounds>>

\* Mutant: a run follows another that still serves.
StartUpTwice ==
    /\ up' = TRUE /\ run' = run + 1
    /\ UNCHANGED <<cache, client, library, api, bounds>>

StartUp ==
    /\ ~up
    /\ up' = TRUE /\ run' = run + 1
    /\ UNCHANGED <<cache, client, library, api, bounds>>

\* What the program and the library do by themselves.
Runtime ==
    \/ ServerAnswersFetch \/ FetchReturns \/ FetchFails
    \/ RetryTimer \/ ManagerTimer
    \/ TransportOpens \/ TransportFails \/ TransportCloses \/ Accept \/ Refuse
    \/ ApiAnswered \/ ApiFails

Next ==
    \/ Runtime
    \/ CallConnect \/ ApiCall \/ ForceReconnect
    \/ TransportBreaks \/ FetchTimesOut \/ Crash \/ StartUp

Spec == Init /\ [][Next]_vars

FairSpec ==
    /\ Spec /\ WF_vars(StartUp) /\ WF_vars(CallConnect /\ last = NoRun)
    /\ WF_vars(ServerAnswersFetch) /\ WF_vars(FetchReturns) /\ WF_vars(FetchFails)
    /\ WF_vars(RetryTimer) /\ WF_vars(ManagerTimer)
    /\ WF_vars(TransportOpens) /\ WF_vars(TransportFails) /\ WF_vars(TransportCloses)
    /\ WF_vars(Accept) /\ WF_vars(Refuse)
    /\ WF_vars(ApiAnswered) /\ WF_vars(ApiFails)

-----------------------------------------------------------------------------
TypeOK ==
    /\ up \in BOOLEAN /\ run \in Runs
    /\ token \in Runs \cup {NoRun} /\ runtime \in Runs \cup {NoRun} /\ last \in Runs \cup {NoRun}
    /\ promise \in Fetches \cup {NoFetch}
    /\ fetches \subseteq [id : Fetches, answer : Runs \cup {NoRun}]
    /\ cookies \subseteq Runs
    /\ connected \in BOOLEAN /\ manual \in BOOLEAN /\ invalidated \in BOOLEAN /\ retry \in BOOLEAN
    /\ pending \in [at : {"none", "token", "events"}, on : Fetches \cup {NoFetch}]
    /\ active \in BOOLEAN /\ reconnecting \in BOOLEAN
    /\ engine \in [at : {"closed", "opening", "auth", "packet", "open"}, run : Runs \cup {NoRun},
                   cookies : SUBSET Runs, on : Fetches \cup {NoFetch}, token : Runs \cup {NoRun}]
    /\ api \in [at : {"idle", "token", "sent"}, on : Fetches \cup {NoFetch},
                token : Runs \cup {NoRun}, again : BOOLEAN]
    /\ forces \in 0..MaxForces /\ breaks \in 0..MaxBreaks

\* When the server stays up, the tab connects for good, but for two ways to stay away:
\* a token refused in an outage that has thrown one away already, which nobody throws
\* away again, and a forced reconnect that met a pending connect().
Refused == invalidated /\ token \notin {NoRun, run}
ReconnectsUnlessStuck == <>[](connected \/ manual \/ Refused)

\* While the tab is not connected, something that will try is under way: a timer, a
\* transport, a token request, or the manager of the library.
SomebodyTries ==
    last # NoRun /\ ~connected /\ ~manual =>
        retry \/ reconnecting \/ engine.at # "closed" \/ pending.at = "token"

\* connect() is pending on events only while the socket can still send one.
NobodyHangs == pending.at = "events" => active \/ reconnecting

\* The run that a new connection announces to the page, from which it tells a restart
\* from a reconnection, is the run of the server.
RestartIsNoticed == [][~connected /\ connected' => last' = run]_vars
=============================================================================
