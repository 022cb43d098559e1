------------------------- MODULE SocketClientProofs -------------------------
(***************************************************************************)
(* Theorems about SocketClient, for any number of runs of the server,      *)
(* token requests, broken connections and forced reconnects.               *)
(***************************************************************************)
EXTENDS SocketClient, TLAPS

\* TypeOK, by who writes the variables.
ServerTyped == up \in BOOLEAN /\ run \in Runs

CacheTyped ==
    /\ token \in Runs \cup {NoRun} /\ runtime \in Runs \cup {NoRun}
    /\ promise \in Fetches \cup {NoFetch}
    /\ fetches \subseteq [id : Fetches, answer : Runs \cup {NoRun}]
    /\ cookies \subseteq Runs

ClientTyped ==
    /\ last \in Runs \cup {NoRun}
    /\ connected \in BOOLEAN /\ manual \in BOOLEAN /\ invalidated \in BOOLEAN /\ retry \in BOOLEAN
    /\ pending \in [at : {"none", "token", "events"}, on : Fetches \cup {NoFetch}]

Engines == [at : {"closed", "opening", "auth", "packet", "open"}, run : Runs \cup {NoRun},
            cookies : SUBSET Runs, on : Fetches \cup {NoFetch}, token : Runs \cup {NoRun}]

LibraryTyped == active \in BOOLEAN /\ reconnecting \in BOOLEAN /\ engine \in Engines

ApiTyped ==
    api \in [at : {"idle", "token", "sent"}, on : Fetches \cup {NoFetch},
             token : Runs \cup {NoRun}, again : BOOLEAN]

BoundsTyped == forces \in 0..MaxForces /\ breaks \in 0..MaxBreaks

\* A server that is down will start another run.
RoomForRun == ~up => run < MaxRuns

\* Runs only follow each other: the page knows the run of every token it holds or has
\* presented, and no run that has not begun.
KnownRuns == runtime <= run /\ token <= runtime /\ engine.token <= runtime

\* connect() waits for events only if a transport is there or will be, unless the page
\* has disconnected by itself.
EventsWillCome ==
    pending.at = "events" /\ ~manual => reconnecting \/ engine.at # "closed"

Typed ==
    /\ ServerTyped /\ CacheTyped /\ ClientTyped /\ LibraryTyped /\ ApiTyped /\ BoundsTyped
    /\ RoomForRun

Inv == Typed /\ KnownRuns /\ EventsWillCome /\ SomebodyTries

LEMMA TypedParts == Typed <=> TypeOK /\ RoomForRun
BY Zenon DEF Typed, TypeOK, ServerTyped, CacheTyped, ClientTyped, LibraryTyped, Engines, ApiTyped, BoundsTyped

LEMMA RunFacts ==
    /\ Runs \subseteq Nat \ {0} /\ Fetches \subseteq Nat \ {0}
    /\ NoRun = 0 /\ NoRun \notin Runs /\ NoFetch \notin Fetches
BY SocketAssumption DEF Runs, Fetches, NoRun, NoFetch

-----------------------------------------------------------------------------
(* What the operators do to their part of the state.                       *)

LEMMA RecordFacts ==
    /\ Closed \in Engines /\ Closed.at = "closed" /\ Closed.token = NoRun
    /\ \A f \in Fetches \cup {NoFetch} :
          /\ Pending(f) \in [at : {"none", "token", "events"}, on : Fetches \cup {NoFetch}]
          /\ Pending(f).at = IF f = NoFetch THEN "events" ELSE "token"
    /\ NotPending \in [at : {"none", "token", "events"}, on : Fetches \cup {NoFetch}]
    /\ NotPending.at = "none"
BY DEF Closed, Engines, Pending, NotPending

\* The engine while it dials: there is a transport, or the manager opens one.
LEMMA DialFacts ==
    ASSUME NEW e \in Engines
    PROVE  /\ Dial(e) \in Engines
           /\ reconnecting \/ Dial(e).at # "closed"
           /\ e.at # "closed" => Dial(e).at # "closed"
           /\ Dial(e).token \in {e.token, NoRun}
BY DEF Dial, Engines, Closed

\* Asking for the token changes nothing but who waits for it.
LEMMA GetCsrfTokenFacts ==
    ASSUME CacheTyped,
           NEW tok \in Runs \cup {NoRun}, NEW prom \in Fetches \cup {NoFetch},
           NEW f \in Fetches \cup {NoFetch},
           GetCsrfToken(tok, prom, f)
    PROVE  /\ CacheTyped'
           /\ token' = tok /\ runtime' = runtime /\ cookies' = cookies
<1>1. token' = tok /\ runtime' = runtime /\ cookies' = cookies
  BY DEF GetCsrfToken
<1>2. promise' \in Fetches \cup {NoFetch}
  BY DEF GetCsrfToken
<1>3. fetches' \subseteq [id : Fetches, answer : Runs \cup {NoRun}]
  <2>1. CASE UNCHANGED fetches
    BY <2>1 DEF CacheTyped
  <2>2. CASE f \in Fetches /\ fetches' = fetches \cup {[id |-> f, answer |-> NoRun]}
    BY <2>2 DEF CacheTyped
  <2> QED
    BY <2>1, <2>2 DEF GetCsrfToken
<1> QED
  BY <1>1, <1>2, <1>3 DEF CacheTyped

\* connect() dials, or waits for a token.
LEMMA ConnectFacts ==
    ASSUME CacheTyped, ClientTyped, LibraryTyped,
           NEW tok \in Runs \cup {NoRun}, NEW prom \in Fetches \cup {NoFetch},
           NEW isPending \in BOOLEAN, NEW man \in BOOLEAN,
           Connect(tok, prom, isPending, man)
    PROVE  /\ CacheTyped' /\ LibraryTyped'
           /\ manual' \in BOOLEAN
           /\ pending' \in [at : {"none", "token", "events"}, on : Fetches \cup {NoFetch}]
           /\ token' = tok /\ runtime' = runtime
           /\ engine'.token \in {engine.token, NoRun}
           /\ isPending => /\ pending' = pending /\ manual' = man
                           /\ engine' = engine /\ reconnecting' = reconnecting
           /\ ~isPending => \/ pending'.at = "token"
                            \/ /\ pending'.at = "events"
                               /\ reconnecting' \/ engine'.at # "closed"
<1>1. CASE isPending
  BY <1>1 DEF Connect, CacheTyped, ClientTyped, LibraryTyped, library
<1>2. CASE ~isPending
  <2>1. PICK f \in Fetches \cup {NoFetch} :
            /\ GetCsrfToken(tok, prom, f)
            /\ manual' = FALSE
            /\ pending' = Pending(f)
            /\ IF f = NoFetch
               THEN active' = TRUE /\ engine' = Dial(engine) /\ UNCHANGED reconnecting
               ELSE UNCHANGED library
    BY <1>2 DEF Connect
  <2>2. CacheTyped' /\ token' = tok /\ runtime' = runtime
    BY <2>1, GetCsrfTokenFacts
  <2>3. CASE f = NoFetch
    <3>1. active' = TRUE /\ engine' = Dial(engine) /\ reconnecting' = reconnecting
      BY <2>1, <2>3
    <3>2. /\ engine' \in Engines
          /\ reconnecting' \/ engine'.at # "closed"
          /\ engine'.token \in {engine.token, NoRun}
      BY <3>1, DialFacts DEF LibraryTyped
    <3>3. LibraryTyped'
      BY <3>1, <3>2 DEF LibraryTyped
    <3> QED
      BY <1>2, <2>1, <2>2, <2>3, <3>2, <3>3, RecordFacts
  <2>4. CASE f # NoFetch
    <3>1. UNCHANGED library
      BY <2>1, <2>4
    <3>2. LibraryTyped' /\ engine' = engine
      BY <3>1 DEF LibraryTyped, library
    <3> QED
      BY <1>2, <2>1, <2>2, <2>4, <3>2, RecordFacts
  <2> QED
    BY <2>3, <2>4
<1> QED
  BY <1>1, <1>2

\* A connect_error leaves a retry behind, and nobody waits for events.
LEMMA OnConnectErrorFacts ==
    ASSUME CacheTyped, ClientTyped, OnConnectError
    PROVE  /\ CacheTyped' /\ ClientTyped'
           /\ token' \in {token, NoRun} /\ runtime' = runtime
           /\ connected' = connected /\ manual' = manual /\ last' = last
           /\ ~manual /\ ~connected => retry'
           /\ pending'.at # "events"
<1>1. /\ runtime' = runtime /\ fetches' = fetches /\ cookies' = cookies
      /\ connected' = connected /\ manual' = manual /\ last' = last
      /\ invalidated' = TRUE /\ retry' = (retry \/ (~manual /\ ~connected))
      /\ token' \in {token, NoRun} /\ promise' \in {promise, NoFetch}
  BY DEF OnConnectError
<1>2. /\ pending' \in [at : {"none", "token", "events"}, on : Fetches \cup {NoFetch}]
      /\ pending'.at # "events"
  BY RecordFacts DEF OnConnectError, ClientTyped
<1>3. CacheTyped'
  BY <1>1 DEF CacheTyped
<1>4. ClientTyped'
  BY <1>1, <1>2 DEF ClientTyped
<1> QED
  BY <1>1, <1>2, <1>3, <1>4

\* The end of a token request: connect() dials if it waited for it.
LEMMA ResumeFacts ==
    ASSUME ClientTyped, LibraryTyped, ApiTyped,
           NEW f \in Fetches, NEW tok \in Runs \cup {NoRun},
           Resume(f, tok)
    PROVE  /\ ClientTyped' /\ LibraryTyped' /\ ApiTyped'
           /\ engine'.token \in {engine.token, tok, NoRun}
           /\ engine.at # "closed" => engine'.at # "closed"
           /\ \/ pending' = pending
              \/ reconnecting' \/ engine'.at # "closed"
           /\ UNCHANGED <<reconnecting, connected, manual, invalidated, retry, last>>
<1> DEFINE there == IF engine.on = f THEN [engine EXCEPT !.at = "packet", !.on = NoFetch, !.token = tok]
                                     ELSE engine
<1>1. /\ there \in Engines
      /\ there.token \in {engine.token, tok}
      /\ engine.at # "closed" => there.at # "closed"
  BY DEF LibraryTyped, Engines
<1>2. /\ UNCHANGED <<reconnecting, connected, manual, invalidated, retry, last>>
      /\ engine' = IF pending.on = f THEN Dial(there) ELSE there
      /\ pending' = IF pending.on = f THEN Pending(NoFetch) ELSE pending
      /\ active' = (active \/ pending.on = f)
  BY DEF Resume
<1>3. ApiTyped'
  <2>1. api' = IF api.on # f THEN api
               ELSE IF tok = NoRun THEN Idle
               ELSE [api EXCEPT !.at = "sent", !.on = NoFetch, !.token = tok]
    BY DEF Resume
  <2> QED
    BY <2>1 DEF ApiTyped, Idle
<1> HIDE DEF there
<1>4. /\ engine' \in Engines
      /\ engine'.token \in {engine.token, tok, NoRun}
      /\ engine.at # "closed" => engine'.at # "closed"
      /\ pending' = pending \/ reconnecting' \/ engine'.at # "closed"
  <2>1. CASE pending.on = f
    <3>1. engine' = Dial(there) /\ reconnecting' = reconnecting
      BY <1>2, <2>1
    <3> QED
      BY <1>1, <3>1, DialFacts
  <2>2. CASE pending.on # f
    BY <1>1, <1>2, <2>2
  <2> QED
    BY <2>1, <2>2
<1>5. ClientTyped'
  BY <1>2, RecordFacts DEF ClientTyped
<1>6. LibraryTyped'
  BY <1>2, <1>4 DEF LibraryTyped
<1> QED
  BY <1>2, <1>3, <1>4, <1>5, <1>6

-----------------------------------------------------------------------------
(* The invariant.                                                          *)

LEMMA InvInit == Init => Inv
<1> SUFFICES ASSUME Init PROVE Inv
  OBVIOUS
<1>1. ServerTyped /\ RoomForRun
  BY SocketAssumption DEF Init, ServerTyped, RoomForRun, Runs
<1>2. CacheTyped /\ ClientTyped
  BY RecordFacts DEF Init, CacheTyped, ClientTyped
<1>3. LibraryTyped /\ BoundsTyped
  <2>1. LibraryTyped
    BY RecordFacts DEF Init, LibraryTyped
  <2>2. BoundsTyped
    BY SocketAssumption DEF Init, BoundsTyped
  <2> QED
    BY <2>1, <2>2
<1>4. ApiTyped
  BY DEF Init, ApiTyped, Idle
<1>5. KnownRuns /\ EventsWillCome /\ SomebodyTries
  BY RecordFacts DEF Init, KnownRuns, EventsWillCome, SomebodyTries, NoRun
<1> QED
  BY <1>1, <1>2, <1>3, <1>4, <1>5 DEF Inv, Typed

LEMMA TokensAreNumbers ==
    ASSUME Inv
    PROVE  run \in Nat /\ runtime \in Nat /\ token \in Nat /\ engine.token \in Nat
<1>1. run \in Runs /\ runtime \in Runs \cup {NoRun} /\ token \in Runs \cup {NoRun}
  BY DEF Inv, Typed, ServerTyped, CacheTyped
<1>2. engine.token \in Runs \cup {NoRun}
  BY DEF Inv, Typed, LibraryTyped, Engines
<1>3. Runs \cup {NoRun} \subseteq Nat
  BY RunFacts
<1> QED
  BY <1>1, <1>2, <1>3

\* A token that is the one before, or none, is known as before.
LEMMA StillKnown ==
    ASSUME Inv, run' = run, runtime' = runtime,
           token' \in {token, NoRun},
           engine'.token \in {engine.token, token, NoRun}
    PROVE  KnownRuns'
BY RunFacts DEF Inv, Typed, CacheTyped, LibraryTyped, Engines, ServerTyped, KnownRuns

\* What keeps the transport and what waits for it keeps the rest.
LEMMA NobodyLeaves ==
    ASSUME Inv, UNCHANGED <<connected, manual, retry, last>>,
           reconnecting => reconnecting' \/ engine'.at # "closed",
           engine.at # "closed" => reconnecting' \/ engine'.at # "closed",
           \/ pending' = pending
           \/ reconnecting' \/ engine'.at # "closed"
    PROVE  EventsWillCome' /\ SomebodyTries'
BY DEF Inv, EventsWillCome, SomebodyTries

LEMMA InvServer ==
    ASSUME Inv, Crash \/ StartUp PROVE Inv'
<1>1. UNCHANGED <<cache, client, library, api, bounds>>
  BY DEF Crash, StartUp
<1>2. CacheTyped' /\ ClientTyped' /\ LibraryTyped' /\ ApiTyped' /\ BoundsTyped'
  BY <1>1 DEF Inv, Typed, CacheTyped, ClientTyped, LibraryTyped, ApiTyped, BoundsTyped,
              cache, client, library, bounds
<1>3. ServerTyped' /\ RoomForRun' /\ run <= run'
  <2>1. up \in BOOLEAN /\ run \in 1..MaxRuns /\ MaxRuns \in Nat /\ (~up => run < MaxRuns)
    BY SocketAssumption DEF Inv, Typed, ServerTyped, RoomForRun, Runs
  <2>2. CASE Crash
    <3>1. up' = FALSE /\ run' = run /\ run < MaxRuns
      BY <2>2 DEF Crash
    <3>2. run' \in 1..MaxRuns /\ run <= run' /\ run' < MaxRuns
      BY <2>1, <3>1
    <3> QED
      BY <3>1, <3>2 DEF ServerTyped, RoomForRun, Runs
  <2>3. CASE StartUp
    <3>1. up' = TRUE /\ run' = run + 1 /\ run < MaxRuns
      BY <2>1, <2>3 DEF StartUp
    <3>2. run + 1 \in 1..MaxRuns /\ run <= run + 1
      BY <2>1, <3>1
    <3> QED
      BY <3>1, <3>2 DEF ServerTyped, RoomForRun, Runs
  <2> QED
    BY <2>2, <2>3
<1>4. EventsWillCome' /\ SomebodyTries'
  BY <1>1 DEF Inv, EventsWillCome, SomebodyTries, client, library
<1>5. KnownRuns'
  BY <1>1, <1>3, RunFacts DEF Inv, Typed, KnownRuns, CacheTyped, LibraryTyped, Engines,
                              ServerTyped, cache, library
<1> QED
  BY <1>2, <1>3, <1>4, <1>5 DEF Inv, Typed

\* The server answers, or the page calls it and hears from it.
LEMMA InvCalls ==
    ASSUME Inv, ServerAnswersFetch \/ ApiCall \/ ApiAnswered \/ ApiFails PROVE Inv'
<1>1. UNCHANGED <<server, client, library, bounds>>
  BY DEF ServerAnswersFetch, ApiCall, ApiAnswered, ApiFails
<1>2. ServerTyped' /\ ClientTyped' /\ LibraryTyped' /\ BoundsTyped' /\ RoomForRun'
  BY <1>1 DEF Inv, Typed, ServerTyped, ClientTyped, LibraryTyped, BoundsTyped, RoomForRun,
              server, client, library, bounds
<1>3. CacheTyped' /\ ApiTyped' /\ token' \in {token, NoRun} /\ runtime' = runtime
  <2>1. CASE ServerAnswersFetch
    <3>1. PICK r \in fetches : fetches' = (fetches \ {r}) \cup {[r EXCEPT !.answer = run]}
      BY <2>1 DEF ServerAnswersFetch
    <3>2. [r EXCEPT !.answer = run] \in [id : Fetches, answer : Runs \cup {NoRun}]
      BY DEF Inv, Typed, CacheTyped, ServerTyped
    <3>3. UNCHANGED <<token, promise, runtime, cookies, api>>
      BY <2>1 DEF ServerAnswersFetch
    <3> QED
      BY <3>1, <3>2, <3>3 DEF Inv, Typed, CacheTyped, ApiTyped
  <2>2. ASSUME NEW tok \in {token, NoRun}, NEW again \in BOOLEAN, SendApi(tok, again)
        PROVE  CacheTyped' /\ ApiTyped' /\ token' \in {token, NoRun} /\ runtime' = runtime
    <3>1. PICK f \in Fetches \cup {NoFetch} :
              /\ GetCsrfToken(tok, promise, f)
              /\ api' = [at |-> IF f = NoFetch THEN "sent" ELSE "token", on |-> f,
                         token |-> tok, again |-> again]
      BY <2>2 DEF SendApi
    <3>2. tok \in Runs \cup {NoRun} /\ promise \in Fetches \cup {NoFetch} /\ CacheTyped
      BY DEF Inv, Typed, CacheTyped
    <3>3. CacheTyped' /\ token' = tok /\ runtime' = runtime
      BY <3>1, <3>2, GetCsrfTokenFacts
    <3>4. ApiTyped'
      BY <3>1, <3>2 DEF ApiTyped
    <3> QED
      BY <3>3, <3>4
  <2>3. CASE ApiCall
    BY <2>2, <2>3 DEF ApiCall
  <2>4. CASE (ApiAnswered \/ ApiFails) /\ api' = Idle /\ UNCHANGED cache
    BY <2>4 DEF Inv, Typed, CacheTyped, ApiTyped, Idle, cache
  <2>5. CASE ApiAnswered
    BY <2>2, <2>4, <2>5 DEF ApiAnswered
  <2>6. CASE ApiFails
    BY <2>4, <2>6 DEF ApiFails
  <2> QED
    BY <2>1, <2>3, <2>5, <2>6
<1>4. EventsWillCome' /\ SomebodyTries'
  BY <1>1 DEF Inv, EventsWillCome, SomebodyTries, client, library
<1>5. KnownRuns'
  BY <1>1, <1>3, StillKnown DEF server, library
<1> QED
  BY <1>2, <1>3, <1>4, <1>5 DEF Inv, Typed

LEMMA InvFetchReturns ==
    ASSUME Inv, FetchReturns PROVE Inv'
<1>1. PICK r \in fetches :
        /\ OnItsWay(r)
        /\ token' = r.answer /\ runtime' = r.answer /\ cookies' = cookies \cup {r.answer}
        /\ promise' = NoFetch
        /\ fetches' = fetches \ {r}
        /\ Resume(r.id, r.answer)
        /\ UNCHANGED <<server, bounds>>
  BY DEF FetchReturns
<1>2. r.id \in Fetches /\ r.answer = run /\ run \in Runs
  BY <1>1 DEF OnItsWay, Inv, Typed, CacheTyped, ServerTyped
<1>3. ClientTyped /\ LibraryTyped /\ ApiTyped
  BY DEF Inv, Typed
<1>4. /\ ClientTyped' /\ LibraryTyped' /\ ApiTyped'
      /\ engine'.token \in {engine.token, r.answer, NoRun}
      /\ engine.at # "closed" => engine'.at # "closed"
      /\ \/ pending' = pending
         \/ reconnecting' \/ engine'.at # "closed"
      /\ UNCHANGED <<reconnecting, connected, manual, invalidated, retry, last>>
  BY <1>1, <1>2, <1>3, ResumeFacts
<1>5. ServerTyped' /\ CacheTyped' /\ BoundsTyped' /\ RoomForRun'
  BY <1>1, <1>2 DEF Inv, Typed, ServerTyped, CacheTyped, BoundsTyped, RoomForRun, server, bounds
<1>6. EventsWillCome' /\ SomebodyTries'
  BY <1>4, NobodyLeaves
<1>7. KnownRuns'
  <2>1. run' = run /\ runtime' = run /\ token' = run
    BY <1>1, <1>2 DEF server
  <2>2. engine.token <= run /\ engine'.token \in {engine.token, run, NoRun}
    <3>1. engine.token \in Nat /\ runtime \in Nat /\ run \in Nat
      BY TokensAreNumbers
    <3>2. engine.token <= runtime /\ runtime <= run
      BY DEF Inv, KnownRuns
    <3> QED
      BY <1>2, <1>4, <3>1, <3>2, RunFacts
  <2> QED
    BY <1>2, <2>1, <2>2, RunFacts DEF KnownRuns
<1> QED
  BY <1>4, <1>5, <1>6, <1>7 DEF Inv, Typed

\* A token request that fails, or that breaks.
LEMMA InvFetchLost ==
    ASSUME Inv, FetchFails \/ FetchTimesOut PROVE Inv'
<1>1. PICK r \in fetches : FetchLost(r)
  BY DEF FetchFails, FetchTimesOut
<1>2. r.id \in Fetches /\ ClientTyped /\ LibraryTyped /\ ApiTyped
  BY DEF Inv, Typed, CacheTyped
<1>3. /\ promise' = NoFetch /\ fetches' = fetches \ {r} /\ Resume(r.id, NoRun)
      /\ UNCHANGED <<server, token, runtime, cookies, forces>>
  BY <1>1 DEF FetchLost
<1>4. /\ ClientTyped' /\ LibraryTyped' /\ ApiTyped'
      /\ engine'.token \in {engine.token, NoRun}
      /\ engine.at # "closed" => engine'.at # "closed"
      /\ \/ pending' = pending
         \/ reconnecting' \/ engine'.at # "closed"
      /\ UNCHANGED <<reconnecting, connected, manual, invalidated, retry, last>>
  BY <1>2, <1>3, ResumeFacts
<1>5. ServerTyped' /\ CacheTyped' /\ RoomForRun'
  BY <1>3 DEF Inv, Typed, ServerTyped, CacheTyped, RoomForRun, server
<1>6. BoundsTyped'
  BY <1>3, SocketAssumption DEF FetchFails, FetchTimesOut, Inv, Typed, BoundsTyped
<1>7. EventsWillCome' /\ SomebodyTries'
  BY <1>4, NobodyLeaves
<1>8. KnownRuns'
  BY <1>3, <1>4, StillKnown DEF server
<1> QED
  BY <1>4, <1>5, <1>6, <1>7, <1>8 DEF Inv, Typed

\* The retry timer, and whoever calls connect().
LEMMA InvConnect ==
    ASSUME Inv, CallConnect \/ RetryTimer PROVE Inv'
<1>1. CacheTyped /\ ClientTyped /\ LibraryTyped
  BY DEF Inv, Typed
<1>2. ServerTyped' /\ ApiTyped' /\ BoundsTyped' /\ RoomForRun'
  BY DEF CallConnect, RetryTimer, Inv, Typed, ServerTyped, ApiTyped, BoundsTyped, RoomForRun, server, bounds
<1>3. UNCHANGED <<run, connected, invalidated, last>>
  BY DEF CallConnect, RetryTimer, server
<1>4. retry' \in BOOLEAN
  BY <1>1 DEF CallConnect, RetryTimer, ClientTyped
<1>5. CASE RetryTimer /\ (manual \/ connected)
  <2>1. UNCHANGED <<cache, manual, pending, library>>
    BY <1>5 DEF RetryTimer
  <2>2. CacheTyped' /\ ClientTyped' /\ LibraryTyped'
    BY <1>1, <1>3, <1>4, <2>1 DEF CacheTyped, ClientTyped, LibraryTyped, cache, library
  <2>3. EventsWillCome' /\ SomebodyTries'
    BY <1>3, <1>5, <2>1 DEF Inv, EventsWillCome, SomebodyTries, library
  <2>4. KnownRuns'
    BY <1>3, <2>1, StillKnown DEF cache, library
  <2> QED
    BY <1>2, <2>2, <2>3, <2>4 DEF Inv, Typed
<1>6. CASE CallConnect \/ (RetryTimer /\ ~manual /\ ~connected)
  <2>1. Connect(token, promise, pending.at # "none", manual) /\ ~connected
    <3>1. CASE CallConnect
      BY <3>1 DEF CallConnect
    <3>2. CASE RetryTimer /\ ~manual /\ ~connected
      BY <3>2 DEF RetryTimer
    <3> QED
      BY <1>6, <3>1, <3>2
  <2>2. /\ token \in Runs \cup {NoRun} /\ promise \in Fetches \cup {NoFetch}
        /\ (pending.at # "none") \in BOOLEAN /\ manual \in BOOLEAN
    BY <1>1 DEF CacheTyped, ClientTyped
  <2>3. /\ CacheTyped' /\ LibraryTyped'
        /\ manual' \in BOOLEAN
        /\ pending' \in [at : {"none", "token", "events"}, on : Fetches \cup {NoFetch}]
        /\ token' = token /\ runtime' = runtime
        /\ engine'.token \in {engine.token, NoRun}
        /\ pending.at # "none" => /\ pending' = pending /\ manual' = manual
                                  /\ engine' = engine /\ reconnecting' = reconnecting
        /\ pending.at = "none" => \/ pending'.at = "token"
                                  \/ /\ pending'.at = "events"
                                     /\ reconnecting' \/ engine'.at # "closed"
    BY <1>1, <2>1, <2>2, ConnectFacts
  <2>4. ClientTyped'
    BY <1>1, <1>3, <1>4, <2>3 DEF ClientTyped
  <2>5. KnownRuns'
    BY <1>3, <2>3, StillKnown
  <2>6. CASE pending.at = "none"
    <3>1. EventsWillCome' /\ SomebodyTries'
      BY <2>3, <2>6 DEF EventsWillCome, SomebodyTries
    <3> QED
      BY <1>2, <2>3, <2>4, <2>5, <3>1 DEF Inv, Typed
  <2>7. CASE pending.at # "none"
    <3>1. pending' = pending /\ manual' = manual /\ engine' = engine /\ reconnecting' = reconnecting
      BY <2>3, <2>7
    <3>2. EventsWillCome'
      BY <3>1 DEF Inv, EventsWillCome
    <3>3. pending.at \in {"token", "events"}
      BY <1>1, <2>7 DEF ClientTyped
    <3>4. SomebodyTries'
      BY <3>1, <3>2, <3>3 DEF EventsWillCome, SomebodyTries
    <3> QED
      BY <1>2, <2>3, <2>4, <2>5, <3>2, <3>4 DEF Inv, Typed
  <2> QED
    BY <2>6, <2>7
<1> QED
  BY <1>5, <1>6

\* The timer of the library's manager.
LEMMA InvManagerTimer ==
    ASSUME Inv, ManagerTimer PROVE Inv'
<1>1. UNCHANGED <<server, cache, client, active, reconnecting, api, bounds>>
  BY DEF ManagerTimer
<1>2. engine' = [Closed EXCEPT !.at = "opening"] /\ engine' \in Engines /\ engine'.at = "opening"
      /\ engine'.token = NoRun
  BY DEF ManagerTimer, Closed, Engines
<1>3. ServerTyped' /\ CacheTyped' /\ ClientTyped' /\ ApiTyped' /\ BoundsTyped' /\ RoomForRun'
  BY <1>1 DEF Inv, Typed, ServerTyped, CacheTyped, ClientTyped, ApiTyped, BoundsTyped, RoomForRun,
              server, cache, client, bounds
<1>4. LibraryTyped'
  BY <1>1, <1>2 DEF Inv, Typed, LibraryTyped
<1>5. EventsWillCome' /\ SomebodyTries'
  BY <1>2 DEF EventsWillCome, SomebodyTries
<1>6. KnownRuns'
  BY <1>1, <1>2, StillKnown DEF server, cache
<1> QED
  BY <1>3, <1>4, <1>5, <1>6 DEF Inv, Typed

LEMMA InvTransportOpens ==
    ASSUME Inv, TransportOpens PROVE Inv'
<1>1. PICK f \in Fetches \cup {NoFetch} :
          /\ GetCsrfToken(token, promise, f)
          /\ engine' = [at |-> IF f = NoFetch THEN "packet" ELSE "auth", run |-> run,
                        cookies |-> cookies, on |-> f, token |-> token]
  BY DEF TransportOpens
<1>2. CacheTyped /\ token \in Runs \cup {NoRun} /\ promise \in Fetches \cup {NoFetch}
      /\ run \in Runs /\ cookies \subseteq Runs
  BY DEF Inv, Typed, CacheTyped, ServerTyped
<1>3. CacheTyped' /\ token' = token /\ runtime' = runtime
  BY <1>1, <1>2, GetCsrfTokenFacts
<1>4. engine' \in Engines /\ engine'.at # "closed" /\ engine'.token = token
  BY <1>1, <1>2 DEF Engines
<1>5. reconnecting' = FALSE /\ UNCHANGED <<server, client, active, api, bounds>>
  BY DEF TransportOpens
<1>6. ServerTyped' /\ ClientTyped' /\ LibraryTyped' /\ ApiTyped' /\ BoundsTyped' /\ RoomForRun'
  <2>1. ServerTyped' /\ ClientTyped' /\ ApiTyped' /\ BoundsTyped' /\ RoomForRun'
    BY <1>5 DEF Inv, Typed, ServerTyped, ClientTyped, ApiTyped, BoundsTyped, RoomForRun,
                server, client, bounds
  <2>2. LibraryTyped'
    BY <1>4, <1>5 DEF Inv, Typed, LibraryTyped
  <2> QED
    BY <2>1, <2>2
<1>7. EventsWillCome' /\ SomebodyTries'
  BY <1>4 DEF EventsWillCome, SomebodyTries
<1>8. KnownRuns'
  BY <1>3, <1>4, <1>5, StillKnown DEF server
<1> QED
  BY <1>3, <1>6, <1>7, <1>8 DEF Inv, Typed

\* The transport fails, or the server refuses the socket.
LEMMA InvConnectError ==
    ASSUME Inv, TransportFails \/ Refuse PROVE Inv'
<1>1. /\ OnConnectError /\ engine' = Closed /\ UNCHANGED <<server, api, bounds>>
      /\ active' \in {active, FALSE} /\ reconnecting' \in BOOLEAN
  BY DEF TransportFails, Refuse
<1>2. CacheTyped /\ ClientTyped
  BY DEF Inv, Typed
<1>3. /\ CacheTyped' /\ ClientTyped'
      /\ token' \in {token, NoRun} /\ runtime' = runtime
      /\ connected' = connected /\ manual' = manual /\ last' = last
      /\ ~manual /\ ~connected => retry'
      /\ pending'.at # "events"
  BY <1>1, <1>2, OnConnectErrorFacts
<1>4. ServerTyped' /\ LibraryTyped' /\ ApiTyped' /\ BoundsTyped' /\ RoomForRun'
  BY <1>1, RecordFacts DEF Inv, Typed, ServerTyped, LibraryTyped, ApiTyped, BoundsTyped, RoomForRun,
                           server, bounds
<1>5. EventsWillCome' /\ SomebodyTries'
  BY <1>3 DEF EventsWillCome, SomebodyTries
<1>6. KnownRuns'
  BY <1>1, <1>3, StillKnown, RecordFacts DEF server
<1> QED
  BY <1>3, <1>4, <1>5, <1>6 DEF Inv, Typed

LEMMA InvTransportLost ==
    ASSUME Inv, TransportCloses \/ TransportBreaks PROVE Inv'
<1>1. /\ engine' = Closed /\ reconnecting' = TRUE /\ connected' = FALSE
      /\ UNCHANGED <<server, cache, manual, invalidated, retry, pending, last, active, api>>
  BY DEF TransportCloses, TransportBreaks, TransportLost
<1>2. ServerTyped' /\ CacheTyped' /\ ClientTyped' /\ LibraryTyped' /\ ApiTyped' /\ RoomForRun'
  <2>1. ServerTyped' /\ CacheTyped' /\ RoomForRun'
    BY <1>1 DEF Inv, Typed, ServerTyped, CacheTyped, RoomForRun, server, cache
  <2>2. ClientTyped' /\ ApiTyped'
    BY <1>1 DEF Inv, Typed, ClientTyped, ApiTyped
  <2>3. LibraryTyped'
    BY <1>1, RecordFacts DEF Inv, Typed, LibraryTyped
  <2> QED
    BY <2>1, <2>2, <2>3
<1>3. BoundsTyped'
  BY SocketAssumption DEF TransportCloses, TransportBreaks, Inv, Typed, BoundsTyped, bounds
<1>4. EventsWillCome' /\ SomebodyTries'
  BY <1>1 DEF EventsWillCome, SomebodyTries
<1>5. KnownRuns'
  BY <1>1, StillKnown, RecordFacts DEF server, cache
<1> QED
  BY <1>2, <1>3, <1>4, <1>5 DEF Inv, Typed

LEMMA InvAccept ==
    ASSUME Inv, Accept PROVE Inv'
<1>1. /\ engine' = [engine EXCEPT !.at = "open"]
      /\ connected' = TRUE /\ invalidated' = FALSE /\ retry' = FALSE
      /\ last' = runtime
      /\ pending' = IF pending.at = "events" THEN NotPending ELSE pending
      /\ UNCHANGED <<server, cache, manual, active, reconnecting, api, bounds>>
  BY DEF Accept
<1>2. engine' \in Engines /\ engine'.at = "open" /\ engine'.token = engine.token
  BY <1>1 DEF Inv, Typed, LibraryTyped, Engines
<1>3. ServerTyped' /\ CacheTyped' /\ LibraryTyped' /\ ApiTyped' /\ BoundsTyped' /\ RoomForRun'
  BY <1>1, <1>2 DEF Inv, Typed, ServerTyped, CacheTyped, LibraryTyped, ApiTyped, BoundsTyped,
                    RoomForRun, server, cache, bounds
<1>4. ClientTyped'
  BY <1>1, RecordFacts DEF Inv, Typed, ClientTyped, CacheTyped
<1>5. EventsWillCome' /\ SomebodyTries'
  BY <1>1, <1>2 DEF EventsWillCome, SomebodyTries
<1>6. KnownRuns'
  BY <1>1, <1>2, StillKnown DEF server, cache
<1> QED
  BY <1>3, <1>4, <1>5, <1>6 DEF Inv, Typed

LEMMA InvForceReconnect ==
    ASSUME Inv, ForceReconnect PROVE Inv'
<1>1. /\ connected' = FALSE /\ active' = FALSE /\ engine' = Closed /\ reconnecting' = FALSE
      /\ UNCHANGED <<server, invalidated, retry, last, api, breaks>>
      /\ forces < MaxForces /\ forces' = forces + 1
  BY DEF ForceReconnect
<1>2. ServerTyped' /\ LibraryTyped' /\ ApiTyped' /\ BoundsTyped' /\ RoomForRun'
  <2>1. ServerTyped' /\ ApiTyped' /\ RoomForRun'
    BY <1>1 DEF Inv, Typed, ServerTyped, ApiTyped, RoomForRun, server
  <2>2. LibraryTyped'
    BY <1>1, RecordFacts DEF LibraryTyped
  <2>3. BoundsTyped'
    BY <1>1, SocketAssumption DEF Inv, Typed, BoundsTyped
  <2> QED
    BY <2>1, <2>2, <2>3
<1>3. /\ CacheTyped' /\ token' = NoRun /\ runtime' = runtime
      /\ manual' \in BOOLEAN
      /\ pending' \in [at : {"none", "token", "events"}, on : Fetches \cup {NoFetch}]
      /\ manual' \/ pending'.at = "token"
  <2>1. CASE pending.at # "none"
    <3>1. /\ token' = NoRun /\ promise' = NoFetch /\ manual' = TRUE
          /\ UNCHANGED <<runtime, fetches, cookies, pending>>
      BY <2>1 DEF ForceReconnect
    <3> QED
      BY <3>1 DEF Inv, Typed, CacheTyped, ClientTyped
  <2>2. CASE pending.at = "none"
    <3>1. PICK f \in Fetches :
            GetCsrfToken(NoRun, NoFetch, f) /\ manual' = FALSE /\ pending' = Pending(f)
      BY <2>2 DEF ForceReconnect
    <3>2. CacheTyped' /\ token' = NoRun /\ runtime' = runtime
      BY <3>1, GetCsrfTokenFacts DEF Inv, Typed
    <3>3. f # NoFetch
      BY RunFacts
    <3> QED
      BY <3>1, <3>2, <3>3, RecordFacts
  <2> QED
    BY <2>1, <2>2
<1>4. ClientTyped'
  BY <1>1, <1>3 DEF Inv, Typed, ClientTyped
<1>5. EventsWillCome' /\ SomebodyTries'
  BY <1>3 DEF EventsWillCome, SomebodyTries
<1>6. KnownRuns'
  BY <1>1, <1>3, StillKnown, RecordFacts DEF server
<1> QED
  BY <1>2, <1>3, <1>4, <1>5, <1>6 DEF Inv, Typed

LEMMA InvStutter ==
    ASSUME Inv, UNCHANGED vars PROVE Inv'
<1>1. Typed'
  BY DEF Inv, Typed, ServerTyped, CacheTyped, ClientTyped, LibraryTyped, ApiTyped, BoundsTyped,
         RoomForRun, vars, server, cache, client, library, bounds
<1>2. KnownRuns' /\ EventsWillCome' /\ SomebodyTries'
  BY DEF Inv, KnownRuns, EventsWillCome, SomebodyTries, vars, server, cache, client, library
<1> QED
  BY <1>1, <1>2 DEF Inv

LEMMA InvNext == Inv /\ [Next]_vars => Inv'
BY InvServer, InvCalls, InvFetchReturns, InvFetchLost, InvConnect, InvManagerTimer,
   InvTransportOpens, InvConnectError, InvTransportLost, InvAccept, InvForceReconnect, InvStutter
   DEF Next, Runtime

THEOREM SocketInvariant == Spec => []Inv
BY InvInit, InvNext, PTL DEF Spec

-----------------------------------------------------------------------------
\* Every variable keeps its type: in particular the tab never holds a token or a run
\* that no server has had.
THEOREM TypeCorrect == Spec => []TypeOK
<1>1. Inv => TypeOK
  BY TypedParts DEF Inv
<1> QED
  BY <1>1, SocketInvariant, PTL

\* websocket.js and the library: a tab that has once been connected, is not now, and has
\* not disconnected by itself, has a timer, a transport, a token request or the manager
\* under way.
THEOREM SomebodyAlwaysTries == Spec => []SomebodyTries
<1>1. Inv => SomebodyTries
  BY DEF Inv
<1> QED
  BY <1>1, SocketInvariant, PTL

\* A connection announces the run of the server that accepted it, although the page
\* learns of runs only from the answers to its token requests.
THEOREM RestartsAreNoticed == Spec => RestartIsNoticed
<1>1. ASSUME Inv, [Next]_vars
      PROVE  ~connected /\ connected' => last' = run
  <2>1. CASE Accept
    <3>1. engine.token = run /\ last' = runtime
      BY <2>1 DEF Accept
    <3>2. engine.token <= runtime /\ runtime <= run
      BY <1>1 DEF Inv, KnownRuns
    <3> QED
      BY <1>1, <3>1, <3>2, TokensAreNumbers
  <2>2. CASE TransportFails \/ Refuse
    BY <2>2 DEF TransportFails, Refuse, OnConnectError
  <2>3. CASE FetchReturns \/ FetchFails \/ FetchTimesOut
    BY <2>3 DEF FetchReturns, FetchFails, FetchTimesOut, FetchLost, Resume
  <2>4. CASE CallConnect \/ RetryTimer
    BY <2>4 DEF CallConnect, RetryTimer
  <2>5. CASE TransportCloses \/ TransportBreaks \/ ForceReconnect
    BY <2>5 DEF TransportCloses, TransportBreaks, TransportLost, ForceReconnect
  <2>6. CASE UNCHANGED client
    BY <2>6 DEF client
  <2>7. CASE ServerAnswersFetch \/ ManagerTimer \/ TransportOpens \/ ApiAnswered \/ ApiFails
             \/ ApiCall \/ Crash \/ StartUp \/ UNCHANGED vars
    BY <2>6, <2>7 DEF ServerAnswersFetch, ManagerTimer, TransportOpens, ApiAnswered, ApiFails,
                      ApiCall, Crash, StartUp, vars
  <2> QED
    BY <1>1, <2>1, <2>2, <2>3, <2>4, <2>5, <2>7 DEF Next, Runtime
<1> QED
  BY <1>1, SocketInvariant, PTL DEF Spec, RestartIsNoticed
=============================================================================
