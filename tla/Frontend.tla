------------------------------ MODULE Frontend ------------------------------
(***************************************************************************)
(* The page that plays a backtest: EngineWebSocket of                      *)
(* frontend/src/stores/websocket.ts with its connections and timers, the   *)
(* store of stores/useAppStore.ts as far as playing needs it, and the      *)
(* playback panel, the reset and the start of a backtest of                *)
(* frontend/src/components.  The other side of a connection is the session *)
(* of the server that module ApiServer models, one step for each message.  *)
(* Handlers of the page run to their end: each is one action.              *)
(***************************************************************************)
EXTENDS Integers, SequencesExt, FiniteSetsExt

CONSTANTS Sockets,      \* 1 .. the most that are in use at a time
          NumBars,      \* bars of a backtest
          Time,         \* <<id, bar>> -> the timestamp of that bar
          MaxAttempts,  \* maxReconnectAttempts: 5
          MaxInFlight,  \* messages on their way over a connection (bounds the model)
          MaxStarts,    \* backtests started (bounds the model)
          MaxResets,    \* resets by the user (bounds the model)
          MaxFaults     \* connections that fail or are lost (bounds the model)

ASSUME FrontendAssumption ==
  /\ Sockets # {} /\ Sockets \subseteq Nat \ {0}
  /\ {NumBars, MaxAttempts, MaxInFlight} \subseteq Nat \ {0}
  /\ {MaxStarts, MaxResets, MaxFaults} \subseteq Nat

VARIABLES socket,         \* socket -> [state, up, down]: its readyState, and what is on its way
          ws,             \* this.ws, 0 for null
          reconnectTimer, \* the timer it names is pending
          loose,          \* timers still pending that it does not name any more
          resets,         \* setTimeout(connect, 100) of handleReset, pending
          reconnectAttempts, isManualClose,
          backtestId,     \* of EngineWebSocket, 0 for null
          status, index, totalBars, \* of store.playback
          bars,           \* store.bars: [id, bar]
          result,         \* store.backtestResult is there
          interval,       \* intervalRef of the playback panel is set
          starting,       \* handleStart waits for its response
          engines,        \* id -> bars consumed by the server's engine (external)
          spent,          \* no attempt was left since the page's connection opened (history)
          faults, made    \* faults, and resets made, so far

timers   == <<reconnectTimer, loose, resets>>
client   == <<ws, reconnectAttempts, isManualClose, backtestId>>
playback == <<status, index, totalBars>>
store    == <<playback, bars, result>>
panel    == <<interval, starting>>
counts   == <<spent, faults, made>>
vars     == <<socket, client, timers, store, panel, engines, counts>>

Closed == [state |-> "closed", up |-> << >>, down |-> << >>]
Connecting == [Closed EXCEPT !.state = "connecting"]

\* current_bar of get_state: the last bar the engine has consumed, the first one before any.
StateBar(n) == IF n = 0 THEN 1 ELSE n

\* A message about the backtest id, after n bars.
Message(type, id, n) == [type |-> type, id |-> id, index |-> n, bar |-> StateBar(n)]

IsOpen(s) == s # 0 /\ socket[s].state = "open"

\* A socket that is closed and whose session has come to its end may be used anew.
Free == {s \in Sockets : socket[s] = Closed}

Init ==
  /\ socket = [s \in Sockets |-> IF s = Min(Sockets) THEN Connecting ELSE Closed]
  /\ ws = Min(Sockets) /\ reconnectAttempts = 0 /\ isManualClose = FALSE /\ backtestId = 0
  /\ reconnectTimer = FALSE /\ loose = 0 /\ resets = 0
  /\ status = "idle" /\ index = 0 /\ totalBars = 0
  /\ bars = << >> /\ result = FALSE
  /\ interval = FALSE /\ starting = FALSE
  /\ engines = << >> /\ spent = FALSE /\ faults = 0 /\ made = 0

-----------------------------------------------------------------------------
\* EngineWebSocket

\* A slip for the mutants: the connection there is, is not looked at.
ConnectAnyway ==
  /\ Free # {}
  /\ isManualClose' = FALSE
  /\ ws' = Min(Free) /\ socket' = [socket EXCEPT ![Min(Free)] = Connecting]
  /\ UNCHANGED <<reconnectAttempts, backtestId>>

\* connect: a connection that is open is kept, any other is left behind.
Connect ==
  \/ IsOpen(ws) /\ UNCHANGED <<socket, client>>
  \/ /\ ~IsOpen(ws) /\ Free # {}
     /\ isManualClose' = FALSE
     /\ ws' = Min(Free) /\ socket' = [socket EXCEPT ![Min(Free)] = Connecting]
     /\ UNCHANGED <<reconnectAttempts, backtestId>>

\* send: over the connection this.ws names, or not at all.
Sending(m) ==
  IF IsOpen(ws) THEN [socket EXCEPT ![ws].up = Append(@, m)] ELSE socket

\* onopen, of whichever socket.
Opens(s) ==
  /\ socket[s].state = "connecting"
  /\ \E opened \in {[socket EXCEPT ![s].state = "open"]} :
       socket' = IF backtestId # 0 /\ ws # 0 /\ opened[ws].state = "open"
                 THEN [opened EXCEPT ![ws].up = Append(@, Message("subscribe", backtestId, 0))]
                 ELSE opened
  /\ reconnectAttempts' = 0
  /\ spent' = IF s = ws THEN FALSE ELSE spent
  /\ UNCHANGED <<ws, isManualClose, backtestId, timers, store, panel, engines, faults, made>>

\* A slip for the mutants: a timer that has fired is taken for one that is pending.
AttemptReconnectOnce ==
  IF isManualClose \/ reconnectAttempts > 0
  THEN UNCHANGED <<reconnectAttempts, reconnectTimer, loose, spent>>
  ELSE /\ reconnectAttempts' = reconnectAttempts + 1
       /\ reconnectTimer' = TRUE
       /\ UNCHANGED <<loose, spent>>

\* attemptReconnect: the timer is set whatever other one is pending.
AttemptReconnect ==
  IF isManualClose \/ reconnectAttempts >= MaxAttempts
  THEN /\ spent' = (spent \/ ~isManualClose)
       /\ UNCHANGED <<reconnectAttempts, reconnectTimer, loose>>
  ELSE /\ reconnectAttempts' = reconnectAttempts + 1
       /\ reconnectTimer' = TRUE
       /\ loose' = IF reconnectTimer THEN loose + 1 ELSE loose
       /\ UNCHANGED spent

\* onclose.  What is on its way to the page is lost; the server has yet to handle what is on
\* its way there.
OnClose(s) ==
  /\ socket' = [socket EXCEPT ![s].state = "closed", ![s].down = << >>]
  /\ AttemptReconnect
  /\ UNCHANGED <<ws, isManualClose, backtestId, resets, store, panel, engines, made>>

\* The server or the network ends a connection, or it does not come about.
Lost(s) ==
  /\ socket[s].state \in {"connecting", "open"} /\ faults < MaxFaults
  /\ faults' = faults + 1
  /\ OnClose(s)

\* close of disconnect comes to its end, perhaps long after.
Closes(s) ==
  /\ socket[s].state = "closing"
  /\ OnClose(s) /\ UNCHANGED faults

\* disconnect clears the timer it knows of.
Disconnect ==
  /\ isManualClose' = TRUE /\ reconnectTimer' = FALSE
  /\ socket' = IF ws # 0 /\ socket[ws].state \in {"connecting", "open"}
               THEN [socket EXCEPT ![ws].state = "closing", ![ws].down = << >>] ELSE socket
  /\ ws' = 0
  /\ UNCHANGED <<reconnectAttempts, backtestId, loose>>

\* A timer of attemptReconnect fires, or one of handleReset.
TimerFires ==
  /\ \/ reconnectTimer /\ reconnectTimer' = FALSE /\ UNCHANGED <<loose, resets>>
     \/ loose > 0 /\ loose' = loose - 1 /\ UNCHANGED <<reconnectTimer, resets>>
     \/ resets > 0 /\ resets' = resets - 1 /\ UNCHANGED <<reconnectTimer, loose>>
  /\ Connect
  /\ UNCHANGED <<store, panel, engines, counts>>

-----------------------------------------------------------------------------
\* What the page makes of a message, and appendBar: a bar at the time of the last one
\* takes its place.
TimeOf(b) == Time[b.id, b.bar]

Appended(b) == IF bars # << >> /\ TimeOf(Last(bars)) = TimeOf(b)
               THEN Append(Front(bars), b) ELSE Append(bars, b)

\* handleMessage; a socket that is not open gives no messages.
Receive(s) ==
  /\ socket[s].state = "open" /\ socket[s].down # << >>
  /\ socket' = [socket EXCEPT ![s].down = Tail(@)]
  /\ LET m == Head(socket[s].down)
         b == [id |-> m.id, bar |-> m.bar]
     IN  \/ /\ m.type = "snapshot"
            /\ index' = m.index /\ bars' = Appended(b)
            /\ UNCHANGED <<status, result>>
         \/ /\ m.type = "bar_update"
            /\ bars' = Appended(b)
            /\ UNCHANGED <<status, index, result>>
         \/ /\ m.type = "complete"
            /\ status' = "complete" /\ result' = TRUE
            /\ UNCHANGED <<index, bars>>
  /\ UNCHANGED <<client, timers, totalBars, panel, engines, counts>>

AtEnd == totalBars > 0 /\ index >= totalBars

\* The effects of the panel: at the end, the playback is complete and the interval over.
Effect ==
  /\ status # "idle"
  /\ status = "complete" \/ AtEnd
  /\ status # "complete" \/ interval
  /\ status' = "complete" /\ interval' = FALSE
  /\ UNCHANGED <<socket, client, timers, index, totalBars, bars, result, starting, engines,
                 counts>>

Room == IsOpen(ws) => Len(socket[ws].up) < MaxInFlight

\* sendControl, and send when there is a connection.
SendControl ==
  socket' = IF backtestId = 0 THEN socket ELSE Sending(Message("play", backtestId, 0))

\* handlePlay.
Play ==
  /\ status \in {"paused"} /\ ~interval /\ Room
  /\ IF AtEnd THEN status' = "complete" /\ UNCHANGED <<interval, socket>>
     ELSE status' = "playing" /\ interval' = TRUE /\ SendControl
  /\ UNCHANGED <<client, timers, index, totalBars, bars, result, starting, engines, counts>>

\* playStep of the interval, when the one before is on its way no more.
Tick ==
  /\ interval /\ Room /\ SendControl
  /\ UNCHANGED <<client, timers, store, panel, engines, counts>>

\* handleStepForward; the server does the same for it as for play.
StepForward ==
  /\ status \in {"paused", "playing"} /\ Room
  /\ IF AtEnd THEN status' = "complete" /\ UNCHANGED socket
     ELSE SendControl /\ UNCHANGED status
  /\ UNCHANGED <<client, timers, index, totalBars, bars, result, panel, engines, counts>>

\* handlePause; the server ignores its message.
Pause ==
  /\ status = "playing"
  /\ status' = "paused" /\ interval' = FALSE
  /\ UNCHANGED <<socket, client, timers, index, totalBars, bars, result, starting, engines,
                 counts>>

\* handleReset: the store is as at first and the panel is gone, but EngineWebSocket keeps
\* the backtest.
Reset ==
  /\ made < MaxResets /\ made' = made + 1
  /\ Disconnect
  /\ resets' = resets + 1
  /\ status' = "idle" /\ index' = 0 /\ totalBars' = 0 /\ bars' = << >> /\ result' = FALSE
  /\ interval' = FALSE
  /\ UNCHANGED <<starting, engines, spent, faults>>

\* handleStart, of a form that is there while nothing is played.
Start ==
  /\ status = "idle" /\ ~result /\ ~starting /\ Len(engines) < MaxStarts
  /\ starting' = TRUE
  /\ UNCHANGED <<socket, client, timers, store, interval, engines, counts>>

Started ==
  /\ starting /\ Room
  /\ engines' = Append(engines, 0)
  /\ backtestId' = Len(engines) + 1
  /\ socket' = Sending(Message("subscribe", Len(engines) + 1, 0))
  /\ status' = "paused" /\ index' = 0 /\ totalBars' = NumBars
  /\ starting' = FALSE
  /\ UNCHANGED <<ws, reconnectAttempts, isManualClose, timers, bars, result, interval, counts>>

StartFails ==
  /\ starting /\ starting' = FALSE
  /\ UNCHANGED <<socket, client, timers, store, interval, engines, counts>>

-----------------------------------------------------------------------------
\* The server's session handles a message, and answers if the page still listens.
Answering(s, messages) ==
  socket' = [socket EXCEPT ![s].up = Tail(@),
                           ![s].down = IF socket[s].state = "open" THEN @ \o messages ELSE @]

Handle(s) ==
  /\ socket[s].up # << >>
  /\ Len(socket[s].down) < MaxInFlight
  /\ LET m == Head(socket[s].up)
         n == engines[m.id]
     IN  \/ /\ m.type = "subscribe"
            /\ Answering(s, << Message("snapshot", m.id, n) >>) /\ UNCHANGED engines
         \/ /\ m.type = "play" /\ n < NumBars
            /\ engines' = [engines EXCEPT ![m.id] = n + 1]
            /\ Answering(s, << Message("snapshot", m.id, n + 1),
                               Message("bar_update", m.id, n + 1) >>)
         \/ /\ m.type = "play" /\ n = NumBars
            /\ Answering(s, << Message("complete", m.id, n) >>) /\ UNCHANGED engines
  /\ UNCHANGED <<client, timers, store, panel, counts>>

Next ==
  \/ \E s \in Sockets : Opens(s) \/ Lost(s) \/ Closes(s) \/ Receive(s) \/ Handle(s)
  \/ TimerFires \/ Effect \/ Tick
  \/ Play \/ StepForward \/ Pause \/ Reset \/ Start \/ Started \/ StartFails

Spec == Init /\ [][Next]_vars

\* Timers and effects run, an attempt to connect comes to an end, messages arrive, and the
\* server handles them.  Nothing is assumed of the user.
FairSpec ==
  /\ Spec
  /\ WF_vars(TimerFires) /\ WF_vars(Effect) /\ WF_vars(Tick)
  /\ \A s \in Sockets : /\ WF_vars(Opens(s)) /\ WF_vars(Closes(s))
                        /\ WF_vars(Receive(s)) /\ WF_vars(Handle(s))

-----------------------------------------------------------------------------
\* Properties

\* handleMessage and appendBar, over connections that are lost, replaced and left behind:
\* of one backtest, the chart never shows a bar a second time or after a later one, although
\* every snapshot brings the bar that was drawn last once more, the first one already before
\* anything is played.
ChartInOrder ==
  \A i, j \in DOMAIN bars : i < j /\ bars[i].id = bars[j].id => bars[i].bar < bars[j].bar

\* connect, onclose and attemptReconnect with the panel's interval: a backtest that is
\* played comes to its end, or the user stops it, through every loss that leaves an attempt
\* to connect.
PlayEnds == status = "playing" ~> status # "playing" \/ spent
=============================================================================
