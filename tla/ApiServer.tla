----------------------------- MODULE ApiServer ------------------------------
(***************************************************************************)
(* The REST and WebSocket server of rust_core/crates/api (server.rs and    *)
(* websocket.rs): its shared AppState behind one mutex, the handlers of    *)
(* REST requests, and the sessions of WebSocket connections that step the  *)
(* engines.                                                                *)
(*                                                                         *)
(* A handler that holds the mutex without an await is one action, taken    *)
(* when the mutex is free.  A session keeps the mutex while it sends its   *)
(* messages, one action for each.  Of an engine only the number of bars it *)
(* has consumed matters here; module Engine models the rest.               *)
(***************************************************************************)
EXTENDS Integers, Sequences, FiniteSetsExt, Functions

CONSTANTS Clients,       \* callers of the REST interface
          Sessions,      \* WebSocket connections
          Nobody,        \* who holds the mutex when it is free
          NoId,          \* Option<String>::None for a backtest id
          NumBars,       \* bars of a backtest
          Exchanges,     \* EXCHANGE_PRIORITY
          Providers,     \* what the server may start with: {"none"}, {"unknown"} or both
          HasDatabase,   \* DATABASE_URL is set
          ClientMessages, \* what the clients send over their connections
          OutBuffer,     \* messages a connection takes before a send waits
          MaxSignals,    \* signals of a step (bounds the model)
          MaxTrades,     \* trades of a step (bounds the model)
          MaxStarts,     \* backtests started (bounds the model)
          MaxMessages,   \* messages of a client over its connection (bounds the model)
          MaxDrops       \* requests whose client disconnects (bounds the model)

ASSUME ServerAssumption ==
  /\ Nobody \notin Sessions /\ NoId \notin 1 .. MaxStarts
  /\ NumBars \in Nat /\ OutBuffer \in Nat \ {0} /\ HasDatabase \in BOOLEAN
  /\ {MaxSignals, MaxTrades, MaxStarts, MaxMessages, MaxDrops} \subseteq Nat
  /\ Providers \subseteq {"none", "unknown"} /\ Exchanges \cap {"none", "unknown"} = {}

VARIABLES engines,    \* AppState.engines: id -> bars consumed
          provider,   \* AppState.data_provider: "none", or the exchange it is for
          lock,       \* the session that holds the mutex over an await, or Nobody
          rest,       \* client -> its request: [at, op, id, provider]
          session,    \* session -> its connection and its loop
          started,    \* ids drawn for start requests
          told,       \* ids a start request was answered with (history)
          lost,       \* a start lost its provider, and none succeeded since (history)
          results,    \* id -> results returned over REST (history)
          sent,       \* id -> the bars sent in bar_update messages, in order (history)
          drops       \* requests dropped

state   == <<engines, provider, lock>>
history == <<started, told, lost, results, sent, drops>>
vars    == <<state, rest, session, history>>

Ids == 1 .. MaxStarts
Idle == [at |-> "idle", op |-> "none", id |-> NoId, provider |-> "none"]

\* What a client sends over its connection.
Subscribe(id) == [type |-> "subscribe", id |-> id]
Control(action, id) == [type |-> action, id |-> id]
Invalid == [type |-> "invalid", id |-> NoId]
Close == [type |-> "close", id |-> NoId]

\* What the server sends; bar is the number of bars the engine had consumed.
Message(type, id, bar) == [type |-> type, id |-> id, bar |-> bar]

Init ==
  /\ engines = << >> /\ provider \in Providers /\ lock = Nobody
  /\ rest = [c \in Clients |-> Idle]
  /\ session = [k \in Sessions |-> [open |-> TRUE, ended |-> FALSE, current |-> NoId,
                                    inbox |-> << >>, todo |-> << >>, out |-> 0,
                                    written |-> 0]]
  /\ started = 0 /\ told = {} /\ lost = FALSE /\ drops = 0
  /\ results = [id \in Ids |-> 0] /\ sent = [id \in Ids |-> << >>]

-----------------------------------------------------------------------------
\* REST requests

\* A start draws the id of the backtest.
Request(c) ==
  /\ rest[c].at = "idle"
  /\ \/ \E op \in {"state", "result"}, id \in 1 .. started :
          /\ rest' = [rest EXCEPT ![c] = [Idle EXCEPT !.at = "asking", !.op = op, !.id = id]]
          /\ UNCHANGED started
     \/ /\ started < MaxStarts
        /\ started' = started + 1
        /\ rest' = [rest EXCEPT ![c] = [Idle EXCEPT !.at = "asking", !.op = "start",
                                                    !.id = started + 1]]
  /\ UNCHANGED <<state, session, told, lost, results, sent, drops>>

Answered(c) == rest' = [rest EXCEPT ![c] = Idle]

Asks(c, op) == rest[c].at = "asking" /\ rest[c].op = op

\* A slip for the mutants: the mutex is kept while the bars are fetched.
StartTakesLock(c) ==
  /\ Asks(c, "start") /\ lock = Nobody
  /\ rest' = [rest EXCEPT ![c].at = "fetching", ![c].provider = provider]
  /\ provider' = "none" /\ lock' = c
  /\ UNCHANGED <<engines, session, history>>

\* start_backtest takes the provider out of the state and lets the mutex go.
StartTakes(c) ==
  /\ Asks(c, "start") /\ lock = Nobody
  /\ rest' = [rest EXCEPT ![c].at = "fetching", ![c].provider = provider]
  /\ provider' = "none"
  /\ UNCHANGED <<engines, lock, session, history>>

\* fetch_bars_with_fallback: with the provider at hand, or with a new one for an
\* exchange, but not the one that has just failed.
Obtainable(held) ==
  (IF held = "none" THEN {} ELSE {held}) \cup
  (IF HasDatabase THEN Exchanges \ {held} ELSE {})

Fetched(c) ==
  /\ rest[c].at = "fetching"
  /\ \E p \in Obtainable(rest[c].provider) :
       rest' = [rest EXCEPT ![c].at = "inserting", ![c].provider = p]
  /\ UNCHANGED <<state, session, history>>

\* All exchanges failed: the reply is 503, and the provider that was taken is gone.
FetchFailed(c) ==
  /\ rest[c].at = "fetching"
  /\ Answered(c)
  /\ lost' = TRUE
  /\ UNCHANGED <<state, session, started, told, results, sent, drops>>

\* engines.insert of an engine that has not consumed a bar.
WithEngine(new) == [id \in DOMAIN engines \cup {new} |-> IF id = new THEN 0 ELSE engines[id]]

\* A slip for the mutants: the provider is not put back.
StartInsertsEngine(c) ==
  /\ rest[c].at = "inserting" /\ lock = Nobody
  /\ engines' = WithEngine(rest[c].id)
  /\ lost' = FALSE /\ told' = told \cup {rest[c].id}
  /\ Answered(c)
  /\ UNCHANGED <<provider, lock, session, started, results, sent, drops>>

\* The rest of start_backtest: the provider is put back and the engine inserted.
StartInserts(c) ==
  /\ rest[c].at = "inserting" /\ lock = Nobody
  /\ engines' = WithEngine(rest[c].id)
  /\ provider' = rest[c].provider
  /\ lost' = FALSE /\ told' = told \cup {rest[c].id}
  /\ Answered(c)
  /\ UNCHANGED <<lock, session, started, results, sent, drops>>

\* get_backtest_state, and pause_backtest and resume_backtest, which change nothing.
GetState(c) ==
  /\ Asks(c, "state") /\ lock = Nobody
  /\ Answered(c)
  /\ UNCHANGED <<state, session, history>>

\* A slip for the mutants: the engine is run where it is, and stays.
RunInPlace(c) ==
  /\ Asks(c, "result") /\ lock = Nobody
  /\ rest[c].id \in DOMAIN engines
  /\ rest' = [rest EXCEPT ![c].at = "running"]
  /\ UNCHANGED <<state, session, history>>

\* get_backtest_result removes the engine under the mutex and runs it outside.
TakeEngine(c) ==
  /\ Asks(c, "result") /\ lock = Nobody
  /\ rest[c].id \in DOMAIN engines
  /\ engines' = Restrict(engines, DOMAIN engines \ {rest[c].id})
  /\ rest' = [rest EXCEPT ![c].at = "running"]
  /\ UNCHANGED <<provider, lock, session, history>>

ResultNotFound(c) ==
  /\ Asks(c, "result") /\ lock = Nobody
  /\ rest[c].id \notin DOMAIN engines
  /\ Answered(c)
  /\ UNCHANGED <<state, session, history>>

ResultReady(c) ==
  /\ rest[c].at = "running"
  /\ results' = [results EXCEPT ![rest[c].id] = @ + 1]
  /\ Answered(c)
  /\ UNCHANGED <<state, session, started, told, lost, sent, drops>>

\* The client of a start disconnects: the handler's future is dropped at an await.
DropStart(c) ==
  /\ rest[c].at \in {"fetching", "inserting"} /\ drops < MaxDrops
  /\ drops' = drops + 1
  /\ lost' = TRUE
  /\ rest' = [rest EXCEPT ![c] = Idle]
  /\ UNCHANGED <<state, session, started, told, results, sent>>

-----------------------------------------------------------------------------
\* WebSocket sessions

\* The client's side of a connection: it writes, reads and closes.  (It writes when its
\* last message was received, a bound: a session sees but the first message there is.)
Write(k) ==
  /\ session[k].open /\ session[k].written < MaxMessages /\ session[k].inbox = << >>
  /\ \E m \in ClientMessages :
       session' = [session EXCEPT ![k].inbox = Append(@, m), ![k].written = @ + 1]
  /\ UNCHANGED <<state, rest, history>>

Read(k) ==
  /\ session[k].out > 0
  /\ session' = [session EXCEPT ![k].out = @ - 1]
  /\ UNCHANGED <<state, rest, history>>

Hangup(k) ==
  /\ session[k].open
  /\ session' = [session EXCEPT ![k].open = FALSE, ![k].out = 0,
                                ![k].inbox = Append(@, Close)]
  /\ UNCHANGED <<state, rest, history>>

\* The loop of handle_socket receives a message when the one before it is handled.
Receives(k, types) ==
  /\ ~session[k].ended /\ session[k].todo = << >>
  /\ session[k].inbox # << >> /\ Head(session[k].inbox).type \in types

\* The message is handled: the session goes on with what is to be sent, if anything, and
\* keeps the mutex while it sends.
Handled(k, current, todo) ==
  /\ session' = [session EXCEPT ![k].inbox = Tail(@), ![k].current = current, ![k].todo = todo]
  /\ lock' = IF todo = << >> THEN lock ELSE k

OnSubscribe(k) ==
  /\ Receives(k, {"subscribe"}) /\ lock = Nobody
  /\ LET id == Head(session[k].inbox).id
     IN  Handled(k, id, IF id \in DOMAIN engines
                        THEN << Message("snapshot", id, engines[id]) >> ELSE << >>)
  /\ UNCHANGED <<engines, provider, rest, history>>

\* The backtest a control is for: the one it names, or the one subscribed to.
Target(k) ==
  LET id == Head(session[k].inbox).id
  IN  IF id = NoId THEN session[k].current ELSE id

\* What play sends after a step: the snapshot, the bar, a message for each of the snapshot's
\* signals, and one for each of its recent trades.
Several(type, id, bar, n) == [i \in 1 .. n |-> Message(type, id, bar)]

Updates(id, bar) ==
  {<< Message("snapshot", id, bar), Message("bar_update", id, bar) >>
     \o Several("signal", id, bar, new.signals) \o Several("trade", id, bar, new.trades) :
       new \in [signals : 0 .. MaxSignals, trades : 0 .. MaxTrades]}

\* A slip for the mutants: the mutex is released before the messages are sent.
OnPlayUnlocks(k) ==
  /\ Receives(k, {"play"}) /\ lock = Nobody
  /\ Target(k) \in DOMAIN engines /\ engines[Target(k)] < NumBars
  /\ engines' = [engines EXCEPT ![Target(k)] = @ + 1]
  /\ \E todo \in Updates(Target(k), engines'[Target(k)]) :
       session' = [session EXCEPT ![k].inbox = Tail(@), ![k].todo = todo]
  /\ UNCHANGED <<provider, lock, rest, history>>

\* "play" and "step_forward": one step of an engine that has bars left, ...
OnPlay(k) ==
  /\ Receives(k, {"play"}) /\ lock = Nobody
  /\ Target(k) \in DOMAIN engines /\ engines[Target(k)] < NumBars
  /\ engines' = [engines EXCEPT ![Target(k)] = @ + 1]
  /\ \E todo \in Updates(Target(k), engines'[Target(k)]) :
       Handled(k, session[k].current, todo)
  /\ UNCHANGED <<provider, rest, history>>

\* A slip for the mutants: an engine at its last bar is taken for a complete one.
OnPlayCompleteEarly(k) ==
  /\ Receives(k, {"play"}) /\ lock = Nobody
  /\ Target(k) \in DOMAIN engines /\ engines[Target(k)] >= NumBars - 1
  /\ Handled(k, session[k].current, << Message("complete", Target(k), NumBars) >>)
  /\ UNCHANGED <<engines, provider, rest, history>>

\* ... and the result of one that has none.
OnPlayComplete(k) ==
  /\ Receives(k, {"play"}) /\ lock = Nobody
  /\ Target(k) \in DOMAIN engines /\ engines[Target(k)] = NumBars
  /\ Handled(k, session[k].current, << Message("complete", Target(k), NumBars) >>)
  /\ UNCHANGED <<engines, provider, rest, history>>

\* A control for no engine, and any other action, changes nothing and is not answered.
OnIgnored(k) ==
  /\ \/ Receives(k, {"pause"})
     \/ Receives(k, {"play"}) /\ Target(k) \notin DOMAIN engines
  /\ Target(k) = NoId \/ lock = Nobody
  /\ Handled(k, session[k].current, << >>)
  /\ UNCHANGED <<engines, provider, rest, history>>

\* A message that cannot be parsed is answered with an error, without the mutex.
OnInvalid(k) ==
  /\ Receives(k, {"invalid"})
  /\ session' = [session EXCEPT ![k].inbox = Tail(@),
                                ![k].todo = << Message("error", NoId, 0) >>]
  /\ UNCHANGED <<state, rest, history>>

\* Close ends the session.
OnClose(k) ==
  /\ Receives(k, {"close"})
  /\ session' = [session EXCEPT ![k].inbox = << >>, ![k].ended = TRUE]
  /\ UNCHANGED <<state, rest, history>>

\* One send: it waits while the connection is full, and fails when it is closed, which
\* is ignored.  The mutex is released after the last.
Send(k) ==
  /\ session[k].todo # << >>
  /\ session[k].open => session[k].out < OutBuffer
  /\ LET m == Head(session[k].todo)
     IN  /\ session' = [session EXCEPT ![k].todo = Tail(@),
                                       ![k].out = IF session[k].open THEN @ + 1 ELSE 0]
         /\ sent' = IF m.type = "bar_update" THEN [sent EXCEPT ![m.id] = Append(@, m.bar)]
                    ELSE sent
  /\ lock' = IF Len(session[k].todo) = 1 /\ lock = k THEN Nobody ELSE lock
  /\ UNCHANGED <<engines, provider, rest, started, told, lost, results, drops>>

-----------------------------------------------------------------------------
\* What the server does on its own for a request, but for the bars' arrival.
Serve(c) ==
  \/ StartTakes(c) \/ StartInserts(c) \/ GetState(c)
  \/ TakeEngine(c) \/ ResultNotFound(c) \/ ResultReady(c)

Handle(k) ==
  \/ OnSubscribe(k) \/ OnPlay(k) \/ OnPlayComplete(k) \/ OnIgnored(k) \/ OnInvalid(k)
  \/ OnClose(k) \/ Send(k)

Next ==
  \/ \E c \in Clients : Request(c) \/ Serve(c) \/ Fetched(c) \/ FetchFailed(c) \/ DropStart(c)
  \/ \E k \in Sessions : Write(k) \/ Hangup(k) \/ Read(k) \/ Handle(k)

Spec == Init /\ [][Next]_vars

\* tokio's mutex queues its waiters, so that no handler is passed over for ever, and a
\* client reads what its connection holds.  Nothing is assumed of the exchanges.
FairSpec ==
  /\ Spec
  /\ \A c \in Clients : SF_vars(Serve(c))
  /\ \A k \in Sessions : SF_vars(Handle(k)) /\ WF_vars(Read(k))

-----------------------------------------------------------------------------
\* Properties

Pending == {"asking", "inserting", "running"}

\* Types of the server's state and of what is under way.
TypeOK ==
  /\ DOMAIN engines \subseteq Ids /\ \A id \in DOMAIN engines : engines[id] \in 0 .. NumBars
  /\ provider \in Exchanges \cup {"none", "unknown"}
  /\ lock \in Sessions \cup {Nobody}
  /\ \A c \in Clients : /\ rest[c].at \in Pending \cup {"idle", "fetching"}
                       /\ rest[c].provider \in Exchanges \cup {"none", "unknown"}
  /\ \A k \in Sessions : session[k].out \in 0 .. OutBuffer

\* start_backtest, get_backtest_result and the sessions, in any order: a backtest whose
\* start was answered is in the map, or with the one request that takes its result, or
\* its result was returned, once.
EnginesAccountedFor ==
  \A id \in Ids :
    (IF id \in DOMAIN engines THEN 1 ELSE 0)
      + Cardinality({c \in Clients : rest[c].at = "running" /\ rest[c].id = id})
      + results[id]
      = (IF id \in told THEN 1 ELSE 0)

\* The sessions that play one backtest share its engine: over all of them, every bar is
\* sent once and in order, and no step's bar is missing when the mutex is free.
BarsInOrder ==
  \A id \in Ids :
    /\ sent[id] = [i \in 1 .. Len(sent[id]) |-> i]
    /\ lock = Nobody /\ id \in DOMAIN engines => Len(sent[id]) = engines[id]

\* When a session sends that a backtest is complete, every bar of it was sent before,
\* by this session or another.
CompleteComesLast ==
  \A k \in Sessions : \A i \in DOMAIN session[k].todo :
    session[k].todo[i].type = "complete" => Len(sent[session[k].todo[i].id]) = NumBars

\* The provider is taken out of the state for the time of a fetch: once a backtest was
\* started, it is gone only while a start is under way or after one that failed.
ProviderComesBack ==
  provider = "none" /\ told # {} =>
    lost \/ \E c \in Clients : rest[c].at \in {"fetching", "inserting"}

\* No request waits for ever, and every message over a connection is handled, however
\* long the exchanges take to answer others.
EverythingAnswered ==
  /\ \A c \in Clients : rest[c].at \in Pending ~> rest[c].at \notin Pending
  /\ \A k \in Sessions : []<>(session[k].inbox = << >> /\ session[k].todo = << >>)
=============================================================================
