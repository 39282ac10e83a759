----------------------------- MODULE ApiProofs ------------------------------
(***************************************************************************)
(* The order of the messages of the sessions, and what the REST handlers   *)
(* do to the shared state, proved for every number of clients, sessions,   *)
(* exchanges, backtests and bars.                                          *)
(*                                                                         *)
(* A session keeps the mutex from its step of an engine to its last send.  *)
(* Inv says what that is good for: a bar that is yet to be sent belongs to *)
(* the session that holds the mutex and is the last one its engine         *)
(* consumed; and a start's id is new, so that an engine put in the map has *)
(* sent nothing.                                                           *)
(*                                                                         *)
(* RestInv counts an engine where it is: in the map, with the requests     *)
(* that run it, or in the results returned.  The count is right because a  *)
(* start that is under way has an id of its own which no answer has told   *)
(* yet.                                                                    *)
(***************************************************************************)
EXTENDS ApiServer, FiniteSetTheorems, TLAPS

AllTypes == {"snapshot", "bar_update", "signal", "trade", "complete", "error"}
ToSend == [type : AllTypes, id : Ids \cup {NoId}, bar : Nat]

SessionFields == {"open", "ended", "current", "inbox", "todo", "out", "written"}
RequestFields == {"at", "op", "id", "provider"}

Shape ==
  /\ DOMAIN engines \subseteq Ids
  /\ \A id \in DOMAIN engines : engines[id] \in Nat
  /\ sent \in [Ids -> Seq(Nat)]
  /\ started \in Nat /\ started <= MaxStarts
  /\ DOMAIN rest = Clients /\ \A c \in Clients : DOMAIN rest[c] = RequestFields
  /\ DOMAIN session = Sessions
  /\ \A k \in Sessions : DOMAIN session[k] = SessionFields /\ session[k].todo \in Seq(ToSend)

\* A start under way, with its id.
Starting(c) ==
  (rest[c].at = "asking" /\ rest[c].op = "start") \/ rest[c].at \in {"fetching", "inserting"}

\* Ids of starts under way are new and different, and so are those not drawn yet.
IdsAreNew ==
  /\ \A c \in Clients :
       Starting(c) => /\ rest[c].id \in 1 .. started
                      /\ rest[c].id \notin DOMAIN engines /\ sent[rest[c].id] = << >>
  /\ \A c, d \in Clients : Starting(c) /\ Starting(d) /\ rest[c].id = rest[d].id => c = d
  /\ \A id \in Ids : id > started => id \notin DOMAIN engines /\ sent[id] = << >>

Types == {"bar_update", "complete"}

Has(k, i, type) == i \in DOMAIN session[k].todo /\ session[k].todo[i].type = type

\* What the sessions have yet to send.
Unsent ==
  \A k \in Sessions, i \in Nat :
    /\ Has(k, i, "bar_update") =>
         LET m == session[k].todo[i]
         IN  /\ lock = k
             /\ m.id \in DOMAIN engines
             /\ m.bar = engines[m.id] /\ m.bar = Len(sent[m.id]) + 1
             /\ \A j \in Nat : Has(k, j, "bar_update") => i = j
             /\ \A j \in Nat : ~Has(k, j, "complete")
    /\ Has(k, i, "complete") =>
         LET m == session[k].todo[i]
         IN  lock = k /\ m.id \in Ids /\ Len(sent[m.id]) = NumBars

\* An engine has sent all its bars, or a session is about to send the last.
AllSent ==
  \A id \in DOMAIN engines :
    \/ Len(sent[id]) = engines[id]
    \/ \E k \in Sessions, i \in Nat :
         Has(k, i, "bar_update") /\ session[k].todo[i].id = id

Counted == \A id \in Ids : \A i \in 1 .. Len(sent[id]) : sent[id][i] = i

Inv == Shape /\ IdsAreNew /\ Unsent /\ AllSent /\ Counted

-----------------------------------------------------------------------------
\* The invariant gives the properties.
LEMMA InvImplies == Inv => BarsInOrder /\ CompleteComesLast
<1> SUFFICES ASSUME Inv PROVE BarsInOrder /\ CompleteComesLast
  OBVIOUS
<1>1. BarsInOrder
  <2> SUFFICES ASSUME NEW id \in Ids
               PROVE  /\ sent[id] = [i \in 1 .. Len(sent[id]) |-> i]
                      /\ lock = Nobody /\ id \in DOMAIN engines => Len(sent[id]) = engines[id]
    BY DEF BarsInOrder
  <2>1. sent[id] \in Seq(Nat)
    BY DEF Inv, Shape
  <2>2. \A i \in 1 .. Len(sent[id]) : sent[id][i] = i
    BY DEF Inv, Counted
  <2>3. sent[id] = [i \in 1 .. Len(sent[id]) |-> i]
    BY <2>1, <2>2
  <2>4. ASSUME lock = Nobody, id \in DOMAIN engines PROVE Len(sent[id]) = engines[id]
    <3>1. \A k \in Sessions, i \in Nat : ~Has(k, i, "bar_update")
      BY <2>4, ServerAssumption DEF Inv, Unsent
    <3>2. QED
      BY <2>4, <3>1 DEF Inv, AllSent
  <2>5. QED
    BY <2>3, <2>4
<1>2. CompleteComesLast
  <2> SUFFICES ASSUME NEW k \in Sessions, NEW i \in DOMAIN session[k].todo,
                      session[k].todo[i].type = "complete"
               PROVE  Len(sent[session[k].todo[i].id]) = NumBars
    BY DEF CompleteComesLast
  <2>1. i \in Nat
    BY DEF Inv, Shape
  <2>2. QED
    BY <2>1 DEF Inv, Unsent, Has
<1>3. QED
  BY <1>1, <1>2

LEMMA InvInit == Init => Inv
<1> SUFFICES ASSUME Init PROVE Inv
  OBVIOUS
<1>1. Shape
  <2>1. DOMAIN engines = {}
    BY DEF Init
  <2>2. sent \in [Ids -> Seq(Nat)]
    BY DEF Init
  <2>3. started \in Nat /\ started <= MaxStarts
    BY ServerAssumption DEF Init
  <2>4. DOMAIN rest = Clients /\ \A c \in Clients : DOMAIN rest[c] = RequestFields
    BY DEF Init, Idle, RequestFields
  <2>5. DOMAIN session = Sessions /\ \A k \in Sessions : DOMAIN session[k] = SessionFields
    BY DEF Init, SessionFields
  <2>6. \A k \in Sessions : session[k].todo = << >>
    BY DEF Init
  <2>7. << >> \in Seq(ToSend)
    OBVIOUS
  <2>8. \A k \in Sessions : session[k].todo \in Seq(ToSend)
    BY <2>6, <2>7
  <2>9. QED
    BY <2>1, <2>2, <2>3, <2>4, <2>5, <2>8 DEF Shape
<1>2. IdsAreNew /\ AllSent /\ Counted
  BY DEF Init, IdsAreNew, Starting, Idle, AllSent, Counted, Ids
<1>3. Unsent
  BY DEF Init, Unsent, Has
<1>4. QED
  BY <1>1, <1>2, <1>3 DEF Inv

-----------------------------------------------------------------------------
\* Steps that leave most of the state alone.

\* A session whose messages to send do not change, with nothing else that the invariant
\* speaks of.
LEMMA SessionsUntouched ==
  ASSUME Inv, UNCHANGED <<engines, lock, rest, started, sent>>,
         DOMAIN session' = Sessions,
         \A k \in Sessions : DOMAIN session'[k] = SessionFields /\ session'[k].todo = session[k].todo
  PROVE  Inv'
<1>1. Shape' /\ IdsAreNew' /\ Counted'
  BY DEF Inv, Shape, IdsAreNew, Starting, Counted
<1>2. \A k \in Sessions, i \in Nat, type \in Types : Has(k, i, type)' <=> Has(k, i, type)
  BY DEF Has
<1>3. Unsent'
  <2>1. \A k \in Sessions, i \in Nat :
          /\ Has(k, i, "bar_update")' <=> Has(k, i, "bar_update")
          /\ Has(k, i, "complete")' <=> Has(k, i, "complete")
          /\ session'[k].todo[i] = session[k].todo[i]
    BY <1>2 DEF Types
  <2>2. ASSUME NEW k \in Sessions, NEW i \in Nat, Has(k, i, "bar_update")'
        PROVE  LET m == session'[k].todo[i]
               IN  /\ lock' = k
                   /\ m.id \in DOMAIN engines'
                   /\ m.bar = engines'[m.id] /\ m.bar = Len(sent'[m.id]) + 1
                   /\ \A j \in Nat : Has(k, j, "bar_update")' => i = j
                   /\ \A j \in Nat : ~Has(k, j, "complete")'
    <3>1. LET m == session[k].todo[i]
          IN  /\ lock = k
              /\ m.id \in DOMAIN engines
              /\ m.bar = engines[m.id] /\ m.bar = Len(sent[m.id]) + 1
              /\ \A j \in Nat : Has(k, j, "bar_update") => i = j
              /\ \A j \in Nat : ~Has(k, j, "complete")
      BY <2>1, <2>2 DEF Inv, Unsent
    <3>2. QED
      BY <2>1, <3>1
  <2>3. ASSUME NEW k \in Sessions, NEW i \in Nat, Has(k, i, "complete")'
        PROVE  LET m == session'[k].todo[i]
               IN  lock' = k /\ m.id \in Ids /\ Len(sent'[m.id]) = NumBars
    <3>1. LET m == session[k].todo[i]
          IN  lock = k /\ m.id \in Ids /\ Len(sent[m.id]) = NumBars
      BY <2>1, <2>3 DEF Inv, Unsent
    <3>2. QED
      BY <2>1, <3>1
  <2>4. QED
    BY <2>2, <2>3 DEF Unsent
<1>4. AllSent'
  BY <1>2 DEF Inv, AllSent, Types
<1>5. QED
  BY <1>1, <1>3, <1>4 DEF Inv

\* A request that goes on or ends, with nothing else, keeps its id as long as it starts.
LEMMA RequestsOnly ==
  ASSUME Inv, UNCHANGED <<engines, lock, session, started, sent>>,
         NEW c \in Clients, NEW new, DOMAIN new = RequestFields, rest' = [rest EXCEPT ![c] = new],
         Starting(c)' => Starting(c) /\ new.id = rest[c].id
  PROVE  Inv'
<1>1. Shape' /\ Counted'
  BY DEF Inv, Shape, Counted
<1>2. \A d \in Clients : Starting(d)' => Starting(d) /\ rest'[d].id = rest[d].id
  BY DEF Inv, Shape, Starting
<1>3. IdsAreNew'
  BY <1>2 DEF Inv, IdsAreNew
<1>4. \A k \in Sessions, i \in Nat, type \in Types : Has(k, i, type)' <=> Has(k, i, type)
  BY DEF Has
<1>5. Unsent' /\ AllSent'
  BY <1>4 DEF Inv, Unsent, AllSent, Types
<1>6. QED
  BY <1>1, <1>3, <1>5 DEF Inv

-----------------------------------------------------------------------------
\* REST requests.

\* The id of a new start is the next one, which nobody has.
NewRequest(op, id) == [Idle EXCEPT !.at = "asking", !.op = op, !.id = id]

LEMMA RequestStep == ASSUME Inv, NEW c \in Clients, Request(c) PROVE Inv'
<1>0. /\ UNCHANGED <<engines, lock, session, sent>>
      /\ \/ \E op \in {"state", "result"}, id \in 1 .. started :
              rest' = [rest EXCEPT ![c] = NewRequest(op, id)] /\ UNCHANGED started
         \/ /\ started < MaxStarts /\ started' = started + 1
            /\ rest' = [rest EXCEPT ![c] = NewRequest("start", started + 1)]
  BY DEF Request, NewRequest, state
<1>1. ASSUME NEW op \in {"state", "result"}, NEW id \in 1 .. started,
             rest' = [rest EXCEPT ![c] = NewRequest(op, id)], UNCHANGED started
      PROVE  Inv'
  <2>1. DOMAIN NewRequest(op, id) = RequestFields
    BY DEF NewRequest, Idle, RequestFields
  <2>2. ~Starting(c)'
    BY <1>1 DEF Starting, Inv, Shape, NewRequest, Idle
  <2>3. QED
    BY <1>0, <1>1, <2>1, <2>2, RequestsOnly
<1>2. CASE /\ started < MaxStarts /\ started' = started + 1
           /\ rest' = [rest EXCEPT ![c] = NewRequest("start", started + 1)]
  <2>1. rest'[c] = NewRequest("start", started + 1) /\ DOMAIN rest' = Clients
    BY <1>2 DEF Inv, Shape
  <2>2. /\ started < MaxStarts
        /\ UNCHANGED <<engines, lock, session, sent>>
    BY <1>0, <1>2
  <2>3. started + 1 \in Ids
    BY <2>2, ServerAssumption DEF Ids, Inv, Shape
  <2>4. DOMAIN rest'[c] = RequestFields /\ rest'[c].id = started + 1
    BY <2>1 DEF NewRequest, Idle, RequestFields
  <2>5. \A d \in Clients : d # c => rest'[d] = rest[d]
    BY <1>2 DEF Inv, Shape
  <2>6. Shape' /\ Counted'
    BY <1>2, <2>1, <2>2, <2>4, <2>5, ServerAssumption DEF Inv, Shape, Counted
  <2>7. started + 1 \notin DOMAIN engines /\ sent[started + 1] = << >>
    BY <2>3 DEF Inv, Shape, IdsAreNew
  <2>8. \A d \in Clients : d # c /\ Starting(d)' => Starting(d) /\ rest[d].id \in 1 .. started
    BY <2>5 DEF Starting, Inv, IdsAreNew
  <2>9. IdsAreNew'
    BY <1>2, <2>2, <2>4, <2>5, <2>7, <2>8 DEF Inv, Shape, IdsAreNew, Ids
  <2>10. \A k \in Sessions, i \in Nat, type \in Types : Has(k, i, type)' <=> Has(k, i, type)
    BY <2>2 DEF Has
  <2>11. Unsent' /\ AllSent'
    BY <2>2, <2>10 DEF Inv, Unsent, AllSent, Types
  <2>12. QED
    BY <2>6, <2>9, <2>11 DEF Inv
<1>3. QED
  BY <1>0, <1>1, <1>2

\* A request that starts and goes on starting.
LEMMA StartingOn ==
  ASSUME Inv, NEW c \in Clients, Starting(c), DOMAIN rest' = Clients,
         \A d \in Clients : d # c => rest'[d] = rest[d],
         DOMAIN rest'[c] = RequestFields, rest'[c].id = rest[c].id,
         UNCHANGED <<engines, lock, session, started, sent>>
  PROVE  Inv'
<1>1. Shape' /\ Counted'
  BY DEF Inv, Shape, Counted
<1>2. \A d \in Clients : Starting(d)' => Starting(d) /\ rest'[d].id = rest[d].id
  BY DEF Starting
<1>3. IdsAreNew'
  BY <1>2 DEF Inv, IdsAreNew
<1>4. \A k \in Sessions, i \in Nat, type \in Types : Has(k, i, type)' <=> Has(k, i, type)
  BY DEF Has
<1>5. Unsent' /\ AllSent'
  BY <1>4 DEF Inv, Unsent, AllSent, Types
<1>6. QED
  BY <1>1, <1>3, <1>5 DEF Inv

LEMMA StartTakesStep == ASSUME Inv, NEW c \in Clients, StartTakes(c) PROVE Inv'
<1>1. /\ Starting(c) /\ UNCHANGED <<engines, lock, session, started, sent>>
  BY DEF StartTakes, Asks, Starting, history
<1>2. /\ DOMAIN rest' = Clients /\ \A d \in Clients : d # c => rest'[d] = rest[d]
      /\ DOMAIN rest'[c] = RequestFields /\ rest'[c].id = rest[c].id
  BY DEF StartTakes, Inv, Shape, RequestFields
<1>3. QED
  BY <1>1, <1>2, StartingOn

LEMMA FetchedStep == ASSUME Inv, NEW c \in Clients, Fetched(c) PROVE Inv'
<1>1. /\ Starting(c) /\ UNCHANGED <<engines, lock, session, started, sent>>
  BY DEF Fetched, Starting, state, history
<1>2. /\ DOMAIN rest' = Clients /\ \A d \in Clients : d # c => rest'[d] = rest[d]
      /\ DOMAIN rest'[c] = RequestFields /\ rest'[c].id = rest[c].id
  BY DEF Fetched, Inv, Shape, RequestFields
<1>3. QED
  BY <1>1, <1>2, StartingOn

\* A request that is answered, or dropped, does not start.
LEMMA AnsweredStep ==
  ASSUME Inv, NEW c \in Clients, rest' = [rest EXCEPT ![c] = Idle],
         UNCHANGED <<engines, lock, session, started, sent>>
  PROVE  Inv'
<1>1. DOMAIN Idle = RequestFields /\ Idle.at = "idle"
  BY DEF Idle, RequestFields
<1>2. ~Starting(c)'
  BY <1>1 DEF Starting, Inv, Shape
<1>3. QED
  BY <1>1, <1>2, RequestsOnly

\* While the mutex is free, no session has a bar or a result to send.
LEMMA FreeMutex ==
  ASSUME Inv, lock = Nobody
  PROVE  /\ \A k \in Sessions, i \in Nat, type \in Types : ~Has(k, i, type)
         /\ \A id \in DOMAIN engines : Len(sent[id]) = engines[id]
<1>1. \A k \in Sessions, i \in Nat, type \in Types : ~Has(k, i, type)
  BY ServerAssumption DEF Inv, Unsent, Types
<1>2. QED
  BY <1>1 DEF Inv, AllSent, Types

\* The engine that is put in is new and has sent nothing.
LEMMA StartInsertsStep == ASSUME Inv, NEW c \in Clients, StartInserts(c) PROVE Inv'
<1> DEFINE new == rest[c].id
<1>1. /\ Starting(c) /\ lock = Nobody /\ engines' = WithEngine(new)
      /\ rest' = [rest EXCEPT ![c] = Idle]
      /\ UNCHANGED <<lock, session, started, sent>>
  BY DEF StartInserts, Starting, Answered
<1>2. new \in Ids /\ new \in 1 .. started /\ new \notin DOMAIN engines /\ sent[new] = << >>
  BY <1>1, ServerAssumption DEF Inv, IdsAreNew, Shape, Ids
<1>3. /\ DOMAIN engines' = DOMAIN engines \cup {new} /\ engines'[new] = 0
      /\ \A id \in DOMAIN engines : engines'[id] = engines[id]
  BY <1>1, <1>2 DEF WithEngine
<1>4. /\ \A d \in Clients : d # c => rest'[d] = rest[d]
      /\ DOMAIN rest' = Clients /\ rest'[c] = Idle
  BY <1>1 DEF Inv, Shape
<1>5. DOMAIN Idle = RequestFields /\ ~Starting(c)'
  BY <1>4 DEF Idle, RequestFields, Starting
<1>6. Shape' /\ Counted'
  BY <1>1, <1>2, <1>3, <1>4, <1>5 DEF Inv, Shape, Counted
<1>7. \A d \in Clients : Starting(d)' => d # c /\ Starting(d) /\ rest'[d].id = rest[d].id
  BY <1>4, <1>5 DEF Starting
<1>8. \A d \in Clients : Starting(d)' => rest[d].id # new
  BY <1>1, <1>7 DEF Inv, IdsAreNew
<1>9. \A id \in Ids : id > started => id # new
  BY <1>2 DEF Inv, Shape, Ids
<1>10. IdsAreNew'
  BY <1>1, <1>3, <1>7, <1>8, <1>9 DEF Inv, IdsAreNew
<1>11. \A k \in Sessions, i \in Nat, type \in Types : ~Has(k, i, type)'
  BY <1>1, FreeMutex DEF Has
<1>12. Unsent'
  BY <1>11 DEF Unsent, Types
<1>13. \A id \in DOMAIN engines' : Len(sent'[id]) = engines'[id]
  BY <1>1, <1>2, <1>3, FreeMutex
<1>14. AllSent'
  BY <1>13 DEF AllSent
<1>15. QED
  BY <1>6, <1>10, <1>12, <1>14 DEF Inv

\* An engine is taken out while nobody steps it.
LEMMA TakeEngineStep == ASSUME Inv, NEW c \in Clients, TakeEngine(c) PROVE Inv'
<1>1. /\ lock = Nobody /\ engines' = Restrict(engines, DOMAIN engines \ {rest[c].id})
      /\ rest' = [rest EXCEPT ![c].at = "running"]
      /\ UNCHANGED <<lock, session, started, sent>>
  BY DEF TakeEngine, Asks, history
<1>2. /\ DOMAIN engines' \subseteq DOMAIN engines
      /\ \A id \in DOMAIN engines' : engines'[id] = engines[id]
  BY <1>1 DEF Restrict
<1>3. /\ DOMAIN rest' = Clients /\ \A d \in Clients : d # c => rest'[d] = rest[d]
      /\ DOMAIN rest'[c] = RequestFields /\ rest'[c].at = "running"
  BY <1>1 DEF Inv, Shape, RequestFields
<1>4. Shape' /\ Counted'
  BY <1>1, <1>2, <1>3 DEF Inv, Shape, Counted
<1>5. \A d \in Clients : Starting(d)' => Starting(d) /\ rest'[d].id = rest[d].id
  BY <1>3 DEF Starting
<1>6. IdsAreNew'
  BY <1>1, <1>2, <1>5 DEF Inv, IdsAreNew
<1>7. \A k \in Sessions, i \in Nat, type \in Types : ~Has(k, i, type)'
  BY <1>1, FreeMutex DEF Has
<1>8. Unsent'
  BY <1>7 DEF Unsent, Types
<1>9. \A id \in DOMAIN engines' : Len(sent'[id]) = engines'[id]
  BY <1>1, <1>2, FreeMutex
<1>10. AllSent'
  BY <1>9 DEF AllSent
<1>11. QED
  BY <1>4, <1>6, <1>8, <1>10 DEF Inv

-----------------------------------------------------------------------------
\* Sessions.

\* What one session does to the sessions.
Acts(k) ==
  /\ DOMAIN session' = Sessions
  /\ \A other \in Sessions : DOMAIN session'[other] = SessionFields
  /\ \A other \in Sessions \ {k} : session'[other] = session[other]

LEMMA HandledActs ==
  ASSUME Inv, NEW k \in Sessions, NEW current, NEW todo, Handled(k, current, todo)
  PROVE  Acts(k) /\ session'[k].todo = todo
BY DEF Handled, Acts, Inv, Shape, SessionFields

\* A session that had nothing to send handles a message, steps no engine and has no
\* result to send.
LEMMA PlainStep ==
  ASSUME Inv, NEW k \in Sessions, Acts(k), session[k].todo = << >>,
         session'[k].todo \in Seq(ToSend),
         \A i \in DOMAIN session'[k].todo : session'[k].todo[i].type \notin Types,
         lock' = lock \/ lock = Nobody,
         UNCHANGED <<engines, rest, started, sent>>
  PROVE  Inv'
<1>1. \A other \in Sessions \ {k}, i \in Nat, type \in Types :
        Has(other, i, type)' <=> Has(other, i, type)
  BY DEF Has, Acts
<1>2. \A i \in Nat, type \in Types : ~Has(k, i, type)' /\ ~Has(k, i, type)
  BY DEF Has
<1>3. Shape' /\ Counted' /\ IdsAreNew'
  <2>1. \A other \in Sessions : session'[other].todo \in Seq(ToSend)
    BY DEF Acts, Inv, Shape
  <2>2. QED
    BY <2>1 DEF Acts, Inv, Shape, Counted, IdsAreNew, Starting
<1>4. ASSUME NEW other \in Sessions, NEW i \in Nat, NEW type \in Types, Has(other, i, type)'
      PROVE  /\ other # k /\ Has(other, i, type) /\ lock' = lock
             /\ session'[other] = session[other]
  BY <1>1, <1>2, <1>4, FreeMutex DEF Acts
<1>5. Unsent'
  <2> SUFFICES ASSUME NEW other \in Sessions, NEW i \in Nat
               PROVE  /\ Has(other, i, "bar_update")' =>
                           LET m == session'[other].todo[i]
                           IN  /\ lock' = other
                               /\ m.id \in DOMAIN engines'
                               /\ m.bar = engines'[m.id] /\ m.bar = Len(sent'[m.id]) + 1
                               /\ \A j \in Nat : Has(other, j, "bar_update")' => i = j
                               /\ \A j \in Nat : ~Has(other, j, "complete")'
                      /\ Has(other, i, "complete")' =>
                           LET m == session'[other].todo[i]
                           IN  lock' = other /\ m.id \in Ids /\ Len(sent'[m.id]) = NumBars
    BY DEF Unsent
  <2>1. CASE Has(other, i, "bar_update")'
    <3>1. /\ other # k /\ Has(other, i, "bar_update") /\ lock' = lock
          /\ session'[other] = session[other]
      BY <2>1, <1>4 DEF Types
    <3>2. \A j \in Nat, type \in Types : Has(other, j, type)' <=> Has(other, j, type)
      BY <3>1, <1>1
    <3>3. \A j \in Nat : /\ Has(other, j, "bar_update")' <=> Has(other, j, "bar_update")
                         /\ Has(other, j, "complete")' <=> Has(other, j, "complete")
      BY <3>2 DEF Types
    <3>4. LET m == session[other].todo[i]
          IN  /\ lock = other
              /\ m.id \in DOMAIN engines
              /\ m.bar = engines[m.id] /\ m.bar = Len(sent[m.id]) + 1
              /\ \A j \in Nat : Has(other, j, "bar_update") => i = j
              /\ \A j \in Nat : ~Has(other, j, "complete")
      BY <3>1 DEF Inv, Unsent
    <3>5. ~Has(other, i, "complete")'
      BY <3>3, <3>4
    <3>6. QED
      BY <3>1, <3>3, <3>4, <3>5
  <2>2. CASE Has(other, i, "complete")'
    BY <2>2, <1>1, <1>4 DEF Inv, Unsent, Types
  <2>3. QED
    BY <2>1, <2>2
<1>6. AllSent'
  BY <1>1, <1>2 DEF Inv, AllSent, Types, Acts
<1>7. QED
  BY <1>3, <1>5, <1>6 DEF Inv

\* What the handlers that step no engine have to send.
LEMMA NothingToSend ==
  /\ << >> \in Seq(ToSend) /\ DOMAIN << >> = {}
  /\ \A m \in ToSend : << m >> \in Seq(ToSend) /\ DOMAIN << m >> = {1} /\ << m >>[1] = m
OBVIOUS

LEMMA MessageFields ==
  ASSUME NEW type \in AllTypes, NEW id \in Ids \cup {NoId}, NEW bar \in Nat
  PROVE  /\ Message(type, id, bar) \in ToSend
         /\ Message(type, id, bar).type = type
         /\ Message(type, id, bar).id = id
         /\ Message(type, id, bar).bar = bar
BY DEF Message, ToSend

LEMMA OnIgnoredStep == ASSUME Inv, NEW k \in Sessions, OnIgnored(k) PROVE Inv'
<1>1. /\ Handled(k, session[k].current, << >>) /\ session[k].todo = << >>
      /\ UNCHANGED <<engines, rest, started, sent>>
  BY DEF OnIgnored, Receives, history
<1>2. Acts(k) /\ session'[k].todo = << >> /\ lock' = lock
  BY <1>1, HandledActs DEF Handled
<1>3. QED
  BY <1>1, <1>2, NothingToSend, PlainStep

LEMMA OnInvalidStep == ASSUME Inv, NEW k \in Sessions, OnInvalid(k) PROVE Inv'
<1> DEFINE m == Message("error", NoId, 0)
<1>1. /\ session' = [session EXCEPT ![k].inbox = Tail(@), ![k].todo = << m >>]
      /\ session[k].todo = << >> /\ UNCHANGED <<engines, lock, rest, started, sent>>
  BY DEF OnInvalid, Receives, state, history
<1>2. Acts(k) /\ session'[k].todo = << m >>
  BY <1>1 DEF Acts, Inv, Shape, SessionFields
<1>3. m \in ToSend /\ m.type \notin Types
  BY MessageFields DEF Types, AllTypes
<1> HIDE DEF m
<1>4. session'[k].todo \in Seq(ToSend)
  BY <1>2, <1>3, NothingToSend
<1>5. \A i \in DOMAIN session'[k].todo : session'[k].todo[i].type \notin Types
  BY <1>2, <1>3, NothingToSend
<1>6. QED
  BY <1>1, <1>2, <1>4, <1>5, PlainStep

LEMMA OnSubscribeStep == ASSUME Inv, NEW k \in Sessions, OnSubscribe(k) PROVE Inv'
<1> DEFINE id == Head(session[k].inbox).id
           todo == IF id \in DOMAIN engines
                   THEN << Message("snapshot", id, engines[id]) >> ELSE << >>
<1>1. /\ Handled(k, id, todo) /\ session[k].todo = << >> /\ lock = Nobody
      /\ UNCHANGED <<engines, rest, started, sent>>
  BY DEF OnSubscribe, Receives, history
<1>2. Acts(k) /\ session'[k].todo = todo
  BY <1>1, HandledActs
<1>3. ASSUME id \in DOMAIN engines
      PROVE  /\ Message("snapshot", id, engines[id]) \in ToSend
             /\ Message("snapshot", id, engines[id]).type \notin Types
  <2>1. id \in Ids /\ engines[id] \in Nat
    BY <1>3 DEF Inv, Shape
  <2>2. "snapshot" \in AllTypes \ Types
    BY DEF Types, AllTypes
  <2>3. QED
    BY <2>1, <2>2, MessageFields
<1>4. todo \in Seq(ToSend) /\ \A i \in DOMAIN todo : todo[i].type \notin Types
  BY <1>3, NothingToSend
<1>5. QED
  BY <1>1, <1>2, <1>4, PlainStep

LEMMA OnCloseStep == ASSUME Inv, NEW k \in Sessions, OnClose(k) PROVE Inv'
<1>1. /\ session' = [session EXCEPT ![k].inbox = << >>, ![k].ended = TRUE]
      /\ UNCHANGED <<engines, lock, rest, started, sent>>
  BY DEF OnClose, state, history
<1>2. /\ DOMAIN session' = Sessions
      /\ \A o \in Sessions : DOMAIN session'[o] = SessionFields /\ session'[o].todo = session[o].todo
  BY <1>1 DEF Inv, Shape, SessionFields
<1>3. QED
  BY <1>1, <1>2, SessionsUntouched

\* What the other side of a connection does.
LEMMA ConnectionStep ==
  ASSUME Inv, NEW k \in Sessions, Write(k) \/ Read(k) \/ Hangup(k) PROVE Inv'
<1>1. UNCHANGED <<engines, lock, rest, started, sent>>
  BY DEF Write, Read, Hangup, state, history
<1>2. /\ DOMAIN session' = Sessions
      /\ \A o \in Sessions : DOMAIN session'[o] = SessionFields /\ session'[o].todo = session[o].todo
  <2>1. CASE Write(k)
    <3>1. PICK m \in ClientMessages :
            session' = [session EXCEPT ![k].inbox = Append(@, m), ![k].written = @ + 1]
      BY <2>1 DEF Write
    <3>2. QED
      BY <3>1 DEF Inv, Shape, SessionFields
  <2>2. CASE Read(k)
    BY <2>2 DEF Read, Inv, Shape, SessionFields
  <2>3. CASE Hangup(k)
    BY <2>3 DEF Hangup, Inv, Shape, SessionFields
  <2>4. QED
    BY <2>1, <2>2, <2>3
<1>3. QED
  BY <1>1, <1>2, SessionsUntouched

\* A session that holds the mutex from its message on: it is the only one with a bar or
\* a result to send.
LEMMA LockingStep ==
  ASSUME Inv, NEW k \in Sessions, Acts(k), lock = Nobody, lock' = k,
         session'[k].todo \in Seq(ToSend),
         \A i \in Nat : Has(k, i, "bar_update")' =>
           LET m == session'[k].todo[i]
           IN  /\ m.id \in DOMAIN engines'
               /\ m.bar = engines'[m.id] /\ m.bar = Len(sent[m.id]) + 1
               /\ \A j \in Nat : Has(k, j, "bar_update")' => i = j
               /\ \A j \in Nat : ~Has(k, j, "complete")',
         \A i \in Nat : Has(k, i, "complete")' =>
           LET m == session'[k].todo[i]
           IN  m.id \in Ids /\ Len(sent[m.id]) = NumBars,
         UNCHANGED sent
  PROVE  Unsent' /\ \A other \in Sessions : session'[other].todo \in Seq(ToSend)
<1>1. \A other \in Sessions \ {k}, i \in Nat, type \in Types : ~Has(other, i, type)'
  BY FreeMutex DEF Has, Acts
<1>2. \A other \in Sessions \ {k}, i \in Nat :
        ~Has(other, i, "bar_update")' /\ ~Has(other, i, "complete")'
  BY <1>1 DEF Types
<1>3. Unsent'
  BY <1>2 DEF Unsent
<1>4. \A other \in Sessions : session'[other].todo \in Seq(ToSend)
  BY DEF Acts, Inv, Shape
<1>5. QED
  BY <1>3, <1>4

LEMMA OnPlayCompleteStep == ASSUME Inv, NEW k \in Sessions, OnPlayComplete(k) PROVE Inv'
<1> DEFINE id == Target(k)
           m == Message("complete", id, NumBars)
<1>1. /\ Handled(k, session[k].current, << m >>) /\ lock = Nobody
      /\ id \in DOMAIN engines /\ engines[id] = NumBars
      /\ UNCHANGED <<engines, rest, started, sent>>
  BY DEF OnPlayComplete, history
<1>2. id \in Ids /\ Len(sent[id]) = NumBars
  BY <1>1, FreeMutex DEF Inv, Shape
<1>3. m \in ToSend /\ m.id = id /\ m.type = "complete"
  BY <1>2, ServerAssumption, MessageFields DEF AllTypes
<1> HIDE DEF m, id
<1>4. << m >> \in Seq(ToSend) /\ DOMAIN << m >> = {1} /\ << m >>[1] = m /\ << m >> # << >>
  BY <1>3, NothingToSend
<1>5. Acts(k) /\ session'[k].todo = << m >> /\ lock' = k
  BY <1>1, <1>4, HandledActs DEF Handled
<1>6. \A i \in Nat : ~Has(k, i, "bar_update")'
  BY <1>3, <1>4, <1>5 DEF Has
<1>7. \A i \in Nat : Has(k, i, "complete")' => session'[k].todo[i] = m
  BY <1>4, <1>5 DEF Has
<1>8. Unsent' /\ \A other \in Sessions : session'[other].todo \in Seq(ToSend)
  BY <1>1, <1>2, <1>3, <1>4, <1>5, <1>6, <1>7, LockingStep
<1>9. Shape' /\ Counted' /\ IdsAreNew'
  BY <1>1, <1>5, <1>8 DEF Acts, Inv, Shape, Counted, IdsAreNew, Starting
<1>10. AllSent'
  BY <1>1, FreeMutex DEF AllSent
<1>11. QED
  BY <1>8, <1>9, <1>10 DEF Inv

Joins(u, S, s, t) ==
  /\ u \in Seq(S) /\ Len(u) = Len(s) + Len(t)
  /\ \A i \in 1 .. Len(s) : u[i] = s[i]
  /\ \A i \in 1 .. Len(t) : u[Len(s) + i] = t[i]

LEMMA Joined ==
  ASSUME NEW S, NEW s \in Seq(S), NEW t \in Seq(S) PROVE Joins(s \o t, S, s, t)
BY DEF Joins

\* One bar_update among the updates of a step, the second of them.
LEMMA UpdatesShape ==
  ASSUME NEW id \in Ids, NEW bar \in Nat, NEW todo \in Updates(id, bar)
  PROVE  /\ todo \in Seq(ToSend) /\ todo # << >> /\ 2 \in DOMAIN todo
         /\ todo[2] = Message("bar_update", id, bar)
         /\ \A i \in DOMAIN todo : todo[i].type # "complete"
         /\ \A i \in DOMAIN todo : todo[i].type = "bar_update" => i = 2
<1> DEFINE a == Message("snapshot", id, bar)
           b == Message("bar_update", id, bar)
           c == Message("signal", id, bar)
           d == Message("trade", id, bar)
<1>1. /\ {a, b, c, d} \subseteq ToSend
      /\ a.type = "snapshot" /\ b.type = "bar_update" /\ c.type = "signal" /\ d.type = "trade"
  BY MessageFields DEF AllTypes
<1>2. \E signals \in Nat, trades \in Nat :
        todo = << a, b >> \o Several("signal", id, bar, signals) \o Several("trade", id, bar, trades)
  <2>1. PICK new \in [signals : 0 .. MaxSignals, trades : 0 .. MaxTrades] :
          todo = << a, b >> \o Several("signal", id, bar, new.signals)
                            \o Several("trade", id, bar, new.trades)
    BY Zenon DEF Updates
  <2>2. new.signals \in Nat /\ new.trades \in Nat
    BY ServerAssumption
  <2>3. QED
    BY <2>1, <2>2, Zenon
<1>3. PICK signals, trades, some, others :
        /\ signals \in Nat /\ trades \in Nat
        /\ some = Several("signal", id, bar, signals) /\ others = Several("trade", id, bar, trades)
        /\ todo = << a, b >> \o some \o others
  BY <1>2, Zenon
<1>4. /\ some = [i \in 1 .. signals |-> c] /\ others = [i \in 1 .. trades |-> d]
      /\ signals \in Nat /\ trades \in Nat
  BY <1>3 DEF Several
<1> HIDE DEF a, b, c, d
<1>5. some \in Seq(ToSend) /\ others \in Seq(ToSend)
  BY <1>1, <1>4
<1>6. /\ Len(some) = signals /\ \A i \in 1 .. signals : some[i] = c
      /\ Len(others) = trades /\ \A i \in 1 .. trades : others[i] = d
  BY <1>4
<1>7. PICK both : both = << a, b >>
  OBVIOUS
<1>8. both \in Seq(ToSend) /\ Len(both) = 2 /\ both[1] = a /\ both[2] = b
  BY <1>1, <1>7
<1>9. PICK first : first = both \o some
  OBVIOUS
<1>10. /\ first \in Seq(ToSend) /\ Len(first) = 2 + signals
       /\ first[1] = a /\ first[2] = b /\ \A i \in 1 .. signals : first[2 + i] = c
  <2>1. Joins(first, ToSend, both, some)
    BY <1>5, <1>8, <1>9, Joined, Zenon
  <2>2. 1 \in 1 .. Len(both) /\ 2 \in 1 .. Len(both) /\ signals \in Nat
    BY <1>3, <1>8
  <2>3. QED
    BY <1>6, <1>8, <2>1, <2>2 DEF Joins
<1>11. todo = first \o others
  BY <1>3, <1>7, <1>9
<1>12. /\ todo \in Seq(ToSend) /\ Len(todo) = Len(first) + trades /\ Len(first) \in Nat
       /\ \A i \in 1 .. Len(first) : todo[i] = first[i]
       /\ \A i \in 1 .. trades : todo[Len(first) + i] = d
  <2>1. Joins(todo, ToSend, first, others)
    BY <1>5, <1>10, <1>11, Joined, Zenon
  <2>2. Len(first) \in Nat /\ trades \in Nat
    BY <1>3, <1>10
  <2>3. QED
    BY <1>6, <2>1, <2>2 DEF Joins
<1>13. todo[1] = a /\ todo[2] = b /\ \A i \in 3 .. Len(todo) : todo[i] \in {c, d}
  <2>1. todo[1] = a /\ todo[2] = b
    BY <1>3, <1>10, <1>12
  <2>2. ASSUME NEW i \in 3 .. Len(todo) PROVE todo[i] \in {c, d}
    <3>1. CASE i <= Len(first)
      <4>1. PICK j \in 1 .. signals : i = 2 + j
        <5>1. i - 2 \in 1 .. signals /\ i = 2 + (i - 2)
          BY <1>3, <1>10, <1>12, <2>2, <3>1
        <5>2. QED
          BY <5>1, Zenon
      <4>2. QED
        <5>1. i \in 1 .. Len(first)
          BY <1>12, <2>2, <3>1
        <5>2. todo[i] = first[i]
          BY <1>12, <5>1
        <5>3. first[i] = c
          BY <1>10, <4>1
        <5>4. QED
          BY <5>2, <5>3
    <3>2. CASE i > Len(first)
      <4>1. PICK j \in 1 .. trades : i = Len(first) + j
        <5>1. i - Len(first) \in 1 .. trades /\ i = Len(first) + (i - Len(first))
          BY <1>3, <1>12, <2>2, <3>2
        <5>2. QED
          BY <5>1, Zenon
      <4>2. QED
        BY <1>12, <4>1
    <3>3. QED
      BY <1>12, <2>2, <3>1, <3>2
  <2>3. QED
    BY <2>1, <2>2
<1>14. DOMAIN todo = 1 .. Len(todo) /\ 2 \in DOMAIN todo
  BY <1>3, <1>10, <1>12
<1>15. todo # << >>
  BY <1>14, NothingToSend
<1>16. ASSUME NEW i \in DOMAIN todo
       PROVE  todo[i].type # "complete" /\ (todo[i].type = "bar_update" => i = 2)
  <2>1. i = 1 \/ i = 2 \/ i \in 3 .. Len(todo)
    BY <1>12, <1>14
  <2>2. QED
    BY <1>1, <1>13, <2>1
<1>17. QED
  BY <1>12, <1>13, <1>14, <1>15, <1>16 DEF b

\* The bar that is to be sent is the next one: all bars before it are sent.
LEMMA OnPlayStep == ASSUME Inv, NEW k \in Sessions, OnPlay(k) PROVE Inv'
<1> DEFINE id == Target(k)
           bar == engines[id] + 1
<1>1. /\ lock = Nobody /\ id \in DOMAIN engines
      /\ engines' = [engines EXCEPT ![id] = bar]
      /\ UNCHANGED <<rest, started, sent>>
      /\ \E todo \in Updates(id, engines'[id]) : Handled(k, session[k].current, todo)
  BY DEF OnPlay, history
<1>2. /\ id \in Ids /\ bar \in Nat /\ Len(sent[id]) + 1 = bar
      /\ DOMAIN engines' = DOMAIN engines /\ engines'[id] = bar
      /\ \A other \in DOMAIN engines \ {id} : engines'[other] = engines[other]
  BY <1>1, FreeMutex DEF Inv, Shape
<1> HIDE DEF id, bar
<1>3. PICK todo \in Updates(id, bar) : Handled(k, session[k].current, todo)
  BY <1>1, <1>2
<1>4. /\ todo \in Seq(ToSend) /\ todo # << >> /\ 2 \in DOMAIN todo
      /\ todo[2].id = id /\ todo[2].bar = bar /\ todo[2].type = "bar_update"
      /\ \A i \in DOMAIN todo : todo[i].type # "complete"
      /\ \A i \in DOMAIN todo : todo[i].type = "bar_update" => i = 2
  BY <1>2, UpdatesShape, MessageFields DEF AllTypes
<1>5. Acts(k) /\ session'[k].todo = todo /\ lock' = k
  BY <1>3, <1>4, HandledActs DEF Handled
<1>6. \A i \in Nat : ~Has(k, i, "complete")' /\ (Has(k, i, "bar_update")' <=> i = 2)
  BY <1>4, <1>5 DEF Has
<1>7. Unsent' /\ \A other \in Sessions : session'[other].todo \in Seq(ToSend)
  BY <1>1, <1>2, <1>4, <1>5, <1>6, LockingStep
<1>8. Shape' /\ Counted'
  BY <1>1, <1>2, <1>5, <1>7 DEF Acts, Inv, Shape, Counted
<1>9. IdsAreNew'
  BY <1>1, <1>2 DEF Inv, IdsAreNew, Starting
<1>10. AllSent'
  BY <1>1, <1>2, <1>4, <1>5, <1>6, FreeMutex DEF AllSent
<1>11. QED
  BY <1>7, <1>8, <1>9, <1>10 DEF Inv

\* A bar that is sent was the last one its engine consumed, and nothing is left to send
\* that the invariant speaks of.
LEMMA SendBarStep ==
  ASSUME Inv, NEW k \in Sessions, Send(k), session[k].todo[1].type = "bar_update"
  PROVE  Inv'
<1> DEFINE m == session[k].todo[1]
<1>1. /\ session[k].todo # << >>
      /\ UNCHANGED <<engines, rest, started>>
      /\ session' = [session EXCEPT ![k].todo = Tail(@),
                                    ![k].out = IF session[k].open THEN @ + 1 ELSE 0]
      /\ Head(session[k].todo) = m
      /\ sent' = [sent EXCEPT ![m.id] = Append(@, m.bar)]
  <2>1. PICK todo \in Seq(ToSend) : todo = session[k].todo
    BY DEF Inv, Shape
  <2>2. todo # << >> /\ UNCHANGED <<engines, rest, started>>
    BY <2>1 DEF Send
  <2>3. Head(todo) = todo[1]
    BY <2>2
  <2>4. Head(session[k].todo) = m
    BY <2>1, <2>3
  <2>5. /\ session' = [session EXCEPT ![k].todo = Tail(@),
                                      ![k].out = IF session[k].open THEN @ + 1 ELSE 0]
        /\ sent' = [sent EXCEPT ![m.id] = Append(@, m.bar)]
    BY <2>4 DEF Send
  <2>6. QED
    BY <2>1, <2>2, <2>4, <2>5
<1>2. /\ Acts(k) /\ session'[k].todo = Tail(session[k].todo)
  BY <1>1 DEF Acts, Inv, Shape, SessionFields
<1>3. Has(k, 1, "bar_update")
  BY <1>1 DEF Has, Inv, Shape
<1>4. /\ lock = k /\ m.id \in DOMAIN engines /\ m.id \in Ids
      /\ m.bar = engines[m.id] /\ m.bar = Len(sent[m.id]) + 1 /\ m.bar \in Nat
      /\ \A j \in Nat : Has(k, j, "bar_update") => 1 = j
      /\ \A j \in Nat : ~Has(k, j, "complete")
  BY <1>3 DEF Inv, Unsent, Shape
<1> HIDE DEF m
<1>5. \A other \in Sessions : session'[other].todo \in Seq(ToSend)
  BY <1>1, <1>2 DEF Acts, Inv, Shape
<1>6. \A i \in Nat, type \in Types : Has(k, i, type)' => i # 0 /\ Has(k, i + 1, type)
  BY <1>1, <1>2 DEF Has, Inv, Shape
<1>7. \A i \in Nat, type \in Types : ~Has(k, i, type)'
  BY <1>4, <1>6 DEF Types
<1>8. \A other \in Sessions \ {k}, i \in Nat, type \in Types : ~Has(other, i, type)
  BY <1>4 DEF Inv, Unsent, Types
<1>9. \A other \in Sessions \ {k}, i \in Nat, type \in Types : ~Has(other, i, type)'
  BY <1>2, <1>8 DEF Acts, Has
<1>10. Unsent'
  BY <1>7, <1>9 DEF Unsent, Types
<1>11. /\ sent' \in [Ids -> Seq(Nat)] /\ sent'[m.id] = Append(sent[m.id], m.bar)
       /\ \A id \in Ids \ {m.id} : sent'[id] = sent[id]
  BY <1>1, <1>4 DEF Inv, Shape
<1>12. Shape'
  BY <1>1, <1>2, <1>5, <1>11 DEF Acts, Inv, Shape
<1>13. sent[m.id] \in Seq(Nat)
  BY <1>4 DEF Inv, Shape
<1>14. Counted'
  <2>1. \A i \in 1 .. Len(sent'[m.id]) : sent'[m.id][i] = i
    BY <1>4, <1>11, <1>13 DEF Inv, Counted
  <2>2. QED
    BY <2>1, <1>11 DEF Inv, Counted
<1>15. \A c \in Clients : Starting(c)' <=> Starting(c)
  BY <1>1 DEF Starting
<1>16. \A id \in Ids : id \notin DOMAIN engines => sent'[id] = sent[id]
  BY <1>4, <1>11
<1>17. \A c \in Clients : Starting(c) => rest[c].id \in Ids
  BY ServerAssumption DEF Inv, IdsAreNew, Shape, Ids
<1>18. IdsAreNew'
  BY <1>1, <1>15, <1>16, <1>17 DEF Inv, IdsAreNew
<1>19. \A id \in DOMAIN engines : Len(sent'[id]) = engines[id]
  <2>1. Len(sent'[m.id]) = engines[m.id]
    BY <1>4, <1>11, <1>13
  <2>2. \A id \in DOMAIN engines \ {m.id} : Len(sent[id]) = engines[id]
    BY <1>4, <1>8 DEF Inv, AllSent, Types, m
  <2>3. QED
    BY <2>1, <2>2, <1>11 DEF Inv, Shape
<1>20. AllSent'
  BY <1>1, <1>19 DEF AllSent
<1>21. QED
  BY <1>10, <1>12, <1>14, <1>18, <1>20 DEF Inv

\* Any other message leaves the bars alone; a bar or a result behind it is still to be
\* sent, under the mutex.
LEMMA SendOtherStep ==
  ASSUME Inv, NEW k \in Sessions, Send(k), session[k].todo[1].type # "bar_update"
  PROVE  Inv'
<1>1. /\ session[k].todo # << >>
      /\ UNCHANGED <<engines, rest, started>>
      /\ session' = [session EXCEPT ![k].todo = Tail(@),
                                    ![k].out = IF session[k].open THEN @ + 1 ELSE 0]
      /\ lock' = IF Len(session[k].todo) = 1 /\ lock = k THEN Nobody ELSE lock
      /\ Head(session[k].todo) = session[k].todo[1]
      /\ UNCHANGED sent
  BY DEF Send, Inv, Shape
<1>2. /\ Acts(k) /\ session'[k].todo = Tail(session[k].todo)
  BY <1>1 DEF Acts, Inv, Shape, SessionFields
<1>3. \A other \in Sessions : session'[other].todo \in Seq(ToSend)
  BY <1>1, <1>2 DEF Acts, Inv, Shape
<1>4. \A i \in Nat, type \in Types :
        Has(k, i, type)' => /\ Has(k, i + 1, type) /\ lock' = lock
                            /\ session'[k].todo[i] = session[k].todo[i + 1]
  BY <1>1, <1>2 DEF Has, Inv, Shape
<1>5. \A other \in Sessions \ {k}, i \in Nat, type \in Types :
        Has(other, i, type)' <=> Has(other, i, type)
  BY <1>2 DEF Acts, Has
<1>6. \A other \in Sessions \ {k}, i \in Nat, type \in Types :
        Has(other, i, type)' => lock = other
  BY <1>5 DEF Inv, Unsent, Types
<1>7. ASSUME NEW other \in Sessions, NEW i \in Nat, Has(other, i, "bar_update")'
      PROVE  LET m == session'[other].todo[i]
             IN  /\ lock' = other
                 /\ m.id \in DOMAIN engines'
                 /\ m.bar = engines'[m.id] /\ m.bar = Len(sent'[m.id]) + 1
                 /\ \A j \in Nat : Has(other, j, "bar_update")' => i = j
                 /\ \A j \in Nat : ~Has(other, j, "complete")'
  <2>1. CASE other = k
    <3>1. Has(k, i + 1, "bar_update") /\ lock' = lock /\ session'[k].todo[i] = session[k].todo[i + 1]
      BY <1>4, <1>7, <2>1 DEF Types
    <3>2. LET m == session[k].todo[i + 1]
          IN  /\ lock = k
              /\ m.id \in DOMAIN engines
              /\ m.bar = engines[m.id] /\ m.bar = Len(sent[m.id]) + 1
              /\ \A j \in Nat : Has(k, j, "bar_update") => i + 1 = j
              /\ \A j \in Nat : ~Has(k, j, "complete")
      BY <3>1 DEF Inv, Unsent
    <3>3. \A j \in Nat : Has(k, j, "bar_update")' => i = j
      BY <1>4, <3>2 DEF Types
    <3>4. \A j \in Nat : ~Has(k, j, "complete")'
      BY <1>4, <3>2 DEF Types
    <3>5. QED
      BY <1>1, <2>1, <3>1, <3>2, <3>3, <3>4
  <2>2. CASE other # k
    <3>1. Has(other, i, "bar_update") /\ session'[other] = session[other]
      BY <1>2, <1>5, <1>7, <2>2 DEF Types, Acts
    <3>2. LET m == session[other].todo[i]
          IN  /\ lock = other
              /\ m.id \in DOMAIN engines
              /\ m.bar = engines[m.id] /\ m.bar = Len(sent[m.id]) + 1
              /\ \A j \in Nat : Has(other, j, "bar_update") => i = j
              /\ \A j \in Nat : ~Has(other, j, "complete")
      BY <3>1 DEF Inv, Unsent
    <3>3. \A j \in Nat : /\ Has(other, j, "bar_update")' <=> Has(other, j, "bar_update")
                         /\ Has(other, j, "complete")' <=> Has(other, j, "complete")
      BY <1>5, <2>2 DEF Types
    <3>4. QED
      BY <1>1, <2>2, <3>1, <3>2, <3>3
  <2>3. QED
    BY <2>1, <2>2
<1>8. ASSUME NEW other \in Sessions, NEW i \in Nat, Has(other, i, "complete")'
      PROVE  LET m == session'[other].todo[i]
             IN  lock' = other /\ m.id \in Ids /\ Len(sent'[m.id]) = NumBars
  <2>1. CASE other = k
    <3>1. Has(k, i + 1, "complete") /\ lock' = lock /\ session'[k].todo[i] = session[k].todo[i + 1]
      BY <1>4, <1>8, <2>1 DEF Types
    <3>2. LET m == session[k].todo[i + 1]
          IN  lock = k /\ m.id \in Ids /\ Len(sent[m.id]) = NumBars
      BY <3>1 DEF Inv, Unsent
    <3>3. QED
      BY <1>1, <2>1, <3>1, <3>2
  <2>2. CASE other # k
    <3>1. Has(other, i, "complete") /\ session'[other] = session[other]
      BY <1>2, <1>5, <1>8, <2>2 DEF Types, Acts
    <3>2. QED
      BY <1>1, <2>2, <3>1 DEF Inv, Unsent
  <2>3. QED
    BY <2>1, <2>2
<1>9. Unsent'
  BY <1>7, <1>8 DEF Unsent
<1>10. AllSent'
  <2> SUFFICES ASSUME NEW id \in DOMAIN engines, Len(sent[id]) # engines[id]
               PROVE  \E other \in Sessions, i \in Nat :
                        Has(other, i, "bar_update")' /\ session'[other].todo[i].id = id
    BY <1>1 DEF AllSent
  <2>1. PICK other \in Sessions, i \in Nat :
          Has(other, i, "bar_update") /\ session[other].todo[i].id = id
    BY DEF Inv, AllSent
  <2>2. CASE other # k
    BY <1>2, <1>5, <2>1, <2>2 DEF Types, Acts
  <2>3. CASE other = k
    <3>1. i # 1 /\ i \in DOMAIN session[k].todo /\ i - 1 \in Nat
      BY <2>1, <2>3 DEF Has, Inv, Shape
    <3>2. i - 1 \in DOMAIN session'[k].todo /\ session'[k].todo[i - 1] = session[k].todo[i]
      <4>1. PICK todo \in Seq(ToSend) : todo = session[k].todo
        BY DEF Inv, Shape
      <4>2. /\ todo # << >> /\ i # 1 /\ i \in DOMAIN todo
            /\ session'[k].todo = Tail(todo)
        BY <1>1, <1>2, <3>1, <4>1
      <4>3. i - 1 \in DOMAIN Tail(todo) /\ Tail(todo)[i - 1] = todo[i]
        BY <4>2
      <4>4. QED
        BY <4>1, <4>2, <4>3
    <3>3. QED
      BY <2>1, <2>3, <3>1, <3>2 DEF Has
  <2>4. QED
    BY <2>2, <2>3
<1>11. Shape' /\ Counted' /\ IdsAreNew'
  BY <1>1, <1>2, <1>3 DEF Acts, Inv, Shape, Counted, IdsAreNew, Starting
<1>12. QED
  BY <1>9, <1>10, <1>11 DEF Inv

-----------------------------------------------------------------------------
\* Every step keeps the invariant.
LEMMA RestStep ==
  ASSUME Inv, NEW c \in Clients,
         Request(c) \/ Serve(c) \/ Fetched(c) \/ FetchFailed(c) \/ DropStart(c)
  PROVE  Inv'
<1>1. ASSUME FetchFailed(c) \/ GetState(c) \/ ResultNotFound(c) \/ ResultReady(c) \/ DropStart(c)
      PROVE  Inv'
  <2>1. /\ rest' = [rest EXCEPT ![c] = Idle]
        /\ UNCHANGED <<engines, lock, session, started, sent>>
    BY <1>1 DEF FetchFailed, GetState, ResultNotFound, ResultReady, DropStart, Answered, state,
                history
  <2>2. QED
    BY <2>1, AnsweredStep
<1>2. QED
  BY <1>1, RequestStep, StartTakesStep, StartInsertsStep, TakeEngineStep, FetchedStep DEF Serve

LEMMA SessionStep ==
  ASSUME Inv, NEW k \in Sessions, Write(k) \/ Hangup(k) \/ Read(k) \/ Handle(k)
  PROVE  Inv'
BY ConnectionStep, OnSubscribeStep, OnPlayStep, OnPlayCompleteStep, OnIgnoredStep, OnInvalidStep,
   OnCloseStep, SendBarStep, SendOtherStep DEF Handle

LEMMA InvNext == Inv /\ [Next]_vars => Inv'
<1> SUFFICES ASSUME Inv, [Next]_vars PROVE Inv'
  OBVIOUS
<1>1. CASE Next
  BY <1>1, RestStep, SessionStep DEF Next
<1>2. CASE UNCHANGED vars
  <2>1. UNCHANGED <<engines, lock, rest, session, started, sent>>
    BY <1>2 DEF vars, state, history
  <2>2. Shape' /\ IdsAreNew' /\ Counted'
    BY <2>1 DEF Inv, Shape, IdsAreNew, Starting, Counted
  <2>3. \A k \in Sessions : DOMAIN session'[k] = SessionFields /\ session'[k].todo = session[k].todo
    BY <2>1 DEF Inv, Shape
  <2>4. QED
    BY <2>1, <2>3, SessionsUntouched DEF Inv, Shape
<1>3. QED
  BY <1>1, <1>2

\* However many sessions play one backtest: over all of them every bar is sent once and
\* in order, and none is missing when the mutex is free (websocket.rs, the play control).
THEOREM BarsAreSentInOrder == Spec => []BarsInOrder
<1>1. Inv => BarsInOrder
  BY InvImplies
<1>2. QED
  BY <1>1, InvInit, InvNext, PTL DEF Spec

\* A session sends that a backtest is complete when all its bars were sent, and never
\* before (websocket.rs, the complete branch of play).
THEOREM CompleteIsLast == Spec => []CompleteComesLast
<1>1. Inv => CompleteComesLast
  BY InvImplies
<1>2. QED
  BY <1>1, InvInit, InvNext, PTL DEF Spec

-----------------------------------------------------------------------------
\* What the REST handlers do to the shared state.

States == {"idle", "asking", "fetching", "inserting", "running"}
Operations == {"none", "start", "state", "result"}
Held == Exchanges \cup {"none", "unknown"}
Requests == [at : States, op : Operations, id : Ids \cup {NoId}, provider : Held]

RestShape ==
  /\ rest \in [Clients -> Requests]
  /\ results \in [Ids -> Nat]
  /\ started \in 0 .. MaxStarts
  /\ provider \in Held
  /\ DOMAIN engines \subseteq Ids

\* The ids of starts under way were drawn, are different and were told to nobody.
IdsAreUntold ==
  /\ told \subseteq 1 .. started
  /\ \A c \in Clients : Starting(c) => rest[c].id \in (1 .. started) \ told
  /\ \A c, d \in Clients : Starting(c) /\ Starting(d) /\ rest[c].id = rest[d].id => c = d

\* A start that has its bars has a provider, which it puts into the state.
HoldsProvider == \A c \in Clients : rest[c].at = "inserting" => rest[c].provider # "none"

Running(id) == {c \in Clients : rest[c].at = "running" /\ rest[c].id = id}

InMap(id) == IF id \in DOMAIN engines THEN 1 ELSE 0

Told(id) == IF id \in told THEN 1 ELSE 0

EnginesCounted ==
  \A id \in Ids :
    /\ IsFiniteSet(Running(id))
    /\ InMap(id) + Cardinality(Running(id)) + results[id] = Told(id)

RestInv == RestShape /\ IdsAreUntold /\ HoldsProvider /\ ProviderComesBack /\ EnginesCounted

LEMMA CountedIsTheProperty == EnginesCounted => EnginesAccountedFor
BY DEF EnginesCounted, EnginesAccountedFor, InMap, Told, Running

LEMMA RestInvInit == Init => RestInv
<1> SUFFICES ASSUME Init PROVE RestInv
  OBVIOUS
<1>1. RestShape
  <2>1. Idle \in Requests
    BY DEF Idle, Requests, States, Operations, Held
  <2>2. provider \in Held
    BY ServerAssumption DEF Init, Held
  <2>3. rest \in [Clients -> Requests]
    BY <2>1 DEF Init
  <2>4. MaxStarts \in Nat
    BY ServerAssumption
  <2>5. DOMAIN engines = {}
    BY DEF Init
  <2>6. QED
    BY <2>2, <2>3, <2>4, <2>5 DEF Init, RestShape
<1>2. IdsAreUntold /\ HoldsProvider /\ ProviderComesBack
  BY DEF Init, IdsAreUntold, HoldsProvider, ProviderComesBack, Starting, Idle
<1>3. EnginesCounted
  <2>1. \A id \in Ids : Running(id) = {}
    BY DEF Init, Running, Idle
  <2>2. DOMAIN engines = {}
    BY DEF Init
  <2>3. \A id \in Ids : InMap(id) = 0 /\ results[id] = 0 /\ Told(id) = 0
    BY <2>2 DEF Init, InMap, Told
  <2>4. IsFiniteSet({}) /\ Cardinality({}) = 0
    BY FS_EmptySet
  <2>5. QED
    BY <2>1, <2>3, <2>4 DEF EnginesCounted
<1>4. QED
  BY <1>1, <1>2, <1>3 DEF RestInv

-----------------------------------------------------------------------------
\* Steps that change the requests, and no engine's place.

\* A step of the sessions: engines advance, but none comes or goes.
LEMMA SessionsOnly ==
  ASSUME RestInv, DOMAIN engines' = DOMAIN engines,
         UNCHANGED <<provider, rest, started, told, lost, results>>
  PROVE  RestInv'
<1>1. RestShape' /\ HoldsProvider' /\ ProviderComesBack'
  BY DEF RestInv, RestShape, HoldsProvider, ProviderComesBack
<1> \A c \in Clients : Starting(c)' = Starting(c)
  BY DEF Starting
<1> IdsAreUntold'
  BY DEF RestInv, IdsAreUntold
<1>2. \A id \in Ids : Running(id)' = Running(id) /\ InMap(id)' = InMap(id) /\ Told(id)' = Told(id)
  BY DEF Running, InMap, Told
<1>3. EnginesCounted'
  BY <1>2 DEF RestInv, EnginesCounted
<1>4. QED
  BY <1>1, <1>3 DEF RestInv

\* A client's request changes, without running an engine before or after.
LEMMA NotRunning ==
  ASSUME RestInv, NEW c \in Clients, rest[c].at # "running",
         rest' \in [Clients -> Requests],
         rest'[c].at # "running", \A d \in Clients \ {c} : rest'[d] = rest[d],
         UNCHANGED <<engines, told, results>>
  PROVE  EnginesCounted'
<1>1. \A id \in Ids : Running(id)' = Running(id) /\ InMap(id)' = InMap(id) /\ Told(id)' = Told(id)
  BY DEF Running, InMap, Told
<1>2. QED
  BY <1>1 DEF RestInv, EnginesCounted

LEMMA RequestKeeps ==
  ASSUME RestInv, NEW c \in Clients, Request(c)
  PROVE  RestInv'
<1>1. /\ rest[c].at = "idle"
      /\ UNCHANGED <<engines, provider, told, lost, results>>
  BY DEF Request, state
<1>2. CASE \E op \in {"state", "result"}, id \in 1 .. started :
             /\ rest' = [rest EXCEPT ![c] = [Idle EXCEPT !.at = "asking", !.op = op, !.id = id]]
             /\ UNCHANGED started
  <2>1. PICK op \in {"state", "result"}, id \in 1 .. started :
             /\ rest' = [rest EXCEPT ![c] = [Idle EXCEPT !.at = "asking", !.op = op, !.id = id]]
             /\ UNCHANGED started
    BY <1>2
  <2> DEFINE r == [Idle EXCEPT !.at = "asking", !.op = op, !.id = id]
  <2>2. id \in Ids
    BY ServerAssumption DEF RestInv, RestShape, Ids
  <2>3. r \in Requests /\ r.at = "asking" /\ r.op # "start"
    BY <2>2 DEF Idle, Requests, States, Operations, Held
  <2>4. /\ rest' \in [Clients -> Requests] /\ rest'[c] = r
        /\ \A d \in Clients \ {c} : rest'[d] = rest[d]
    BY <2>1, <2>3 DEF RestInv, RestShape
  <2>5. RestShape' /\ IdsAreUntold' /\ HoldsProvider' /\ ProviderComesBack'
    BY <1>1, <2>1, <2>3, <2>4 DEF RestInv, RestShape, IdsAreUntold, HoldsProvider, ProviderComesBack,
       Starting
  <2>6. EnginesCounted'
    BY <1>1, <2>3, <2>4, NotRunning
  <2>7. QED
    BY <2>5, <2>6 DEF RestInv
<1>3. CASE /\ started < MaxStarts
           /\ started' = started + 1
           /\ rest' = [rest EXCEPT ![c] = [Idle EXCEPT !.at = "asking", !.op = "start",
                                                       !.id = started + 1]]
  <2> DEFINE r == [Idle EXCEPT !.at = "asking", !.op = "start", !.id = started + 1]
  <2>1. started \in Nat /\ MaxStarts \in Nat /\ started + 1 \in Ids
    BY <1>3, ServerAssumption DEF RestInv, RestShape, Ids
  <2>2. r \in Requests /\ r.at = "asking" /\ r.op = "start" /\ r.id = started + 1
    BY <2>1 DEF Idle, Requests, States, Operations, Held
  <2>3. /\ rest' \in [Clients -> Requests] /\ rest'[c] = r
        /\ \A d \in Clients \ {c} : rest'[d] = rest[d]
    BY <1>3, <2>2 DEF RestInv, RestShape
  <2>4. RestShape' /\ HoldsProvider' /\ ProviderComesBack'
    BY <1>1, <1>3, <2>1, <2>2, <2>3 DEF RestInv, RestShape, HoldsProvider, ProviderComesBack
  <2>5. \A d \in Clients \ {c} : Starting(d)' = Starting(d)
    BY <2>3 DEF Starting
  <2>6. \A d \in Clients \ {c} : Starting(d) => rest[d].id \in (1 .. started) \ told
    BY DEF RestInv, IdsAreUntold
  <2>7. started + 1 \in (1 .. started') \ told' /\ told' \subseteq 1 .. started'
    BY <1>1, <1>3, <2>1 DEF RestInv, IdsAreUntold
  <2>8. \A d \in Clients : Starting(d)' => rest'[d].id \in (1 .. started') \ told'
    BY <1>1, <1>3, <2>1, <2>2, <2>3, <2>5, <2>6, <2>7
  <2>9. \A d, e \in Clients :
           Starting(d)' /\ Starting(e)' /\ rest'[d].id = rest'[e].id => d = e
    <3>1. \A d \in Clients \ {c} : Starting(d)' => rest'[d].id # started + 1
      BY <2>1, <2>3, <2>5, <2>6
    <3>2. \A d, e \in Clients \ {c} :
             Starting(d)' /\ Starting(e)' /\ rest'[d].id = rest'[e].id => d = e
      BY <2>3, <2>5 DEF RestInv, IdsAreUntold
    <3>3. rest'[c].id = started + 1
      BY <2>2, <2>3
    <3> HIDE DEF r
    <3> SUFFICES ASSUME NEW d \in Clients, NEW e \in Clients,
                        Starting(d)', Starting(e)', rest'[d].id = rest'[e].id
                 PROVE  d = e
      OBVIOUS
    <3>4. CASE d = c
      BY <3>1, <3>3, <3>4
    <3>5. CASE e = c
      BY <3>1, <3>3, <3>5
    <3>6. CASE d # c /\ e # c
      BY <3>2, <3>6
    <3>7. QED
      BY <3>4, <3>5, <3>6
  <2>10. EnginesCounted'
    BY <1>1, <2>2, <2>3, NotRunning
  <2>11. QED
    BY <2>4, <2>7, <2>8, <2>9, <2>10 DEF RestInv, IdsAreUntold
<1>4. QED
  BY <1>2, <1>3 DEF Request

\* A request is answered without an engine: the client is idle again.
LEMMA IdleIsARequest ==
  ASSUME RestInv, NEW c \in Clients, rest' = [rest EXCEPT ![c] = Idle]
  PROVE  /\ rest' \in [Clients -> Requests]
         /\ rest'[c].at = "idle"
         /\ \A d \in Clients \ {c} : rest'[d] = rest[d]
<1>1. Idle \in Requests /\ Idle.at = "idle"
  BY DEF Idle, Requests, States, Operations, Held
<1>2. QED
  BY <1>1 DEF RestInv, RestShape

LEMMA AnsweredKeeps ==
  ASSUME RestInv, NEW c \in Clients, rest' = [rest EXCEPT ![c] = Idle],
         \/ rest[c].at = "asking" /\ lost' = lost
         \/ rest[c].at \in {"fetching", "inserting"} /\ lost' = TRUE,
         UNCHANGED <<engines, provider, started, told, results>>
  PROVE  RestInv'
<1>1. /\ rest' \in [Clients -> Requests]
      /\ rest'[c].at = "idle"
      /\ \A d \in Clients \ {c} : rest'[d] = rest[d]
  BY IdleIsARequest
<1>2. RestShape' /\ HoldsProvider'
  BY <1>1 DEF RestInv, RestShape, HoldsProvider
<1>3. ~Starting(c)' /\ \A d \in Clients \ {c} : Starting(d)' = Starting(d)
  BY <1>1 DEF Starting
<1>4. IdsAreUntold'
  BY <1>1, <1>3 DEF RestInv, IdsAreUntold
<1>5. ProviderComesBack'
  BY <1>1 DEF RestInv, ProviderComesBack
<1>6. EnginesCounted'
  BY <1>1, NotRunning
<1>7. QED
  BY <1>2, <1>4, <1>5, <1>6 DEF RestInv

\* A start goes on to its next await: it takes the provider, or has its bars.
LEMMA StartTakesKeeps ==
  ASSUME RestInv, NEW c \in Clients, StartTakes(c)
  PROVE  RestInv'
<1> DEFINE r == [rest[c] EXCEPT !.at = "fetching", !.provider = provider]
<1>1. /\ rest[c].at = "asking" /\ rest[c].op = "start"
      /\ rest' = [rest EXCEPT ![c] = r] /\ provider' = "none"
      /\ UNCHANGED <<engines, started, told, lost, results>>
  BY DEF StartTakes, Asks, history, RestInv, RestShape
<1>2. rest[c] \in Requests /\ provider \in Held
  BY DEF RestInv, RestShape
<1>3. r \in Requests /\ r.at = "fetching" /\ r.id = rest[c].id
  BY <1>2 DEF Requests, States
<1>4. /\ rest' \in [Clients -> Requests] /\ rest'[c] = r
      /\ \A d \in Clients \ {c} : rest'[d] = rest[d]
  BY <1>1, <1>3 DEF RestInv, RestShape
<1>5. RestShape' /\ HoldsProvider' /\ ProviderComesBack'
  BY <1>1, <1>3, <1>4 DEF RestInv, RestShape, HoldsProvider, ProviderComesBack, Held
<1>6. \A d \in Clients : Starting(d)' = Starting(d) /\ rest'[d].id = rest[d].id
  BY <1>1, <1>3, <1>4 DEF Starting
<1>7. IdsAreUntold'
  BY <1>1, <1>6 DEF RestInv, IdsAreUntold
<1>8. EnginesCounted'
  BY <1>1, <1>3, <1>4, NotRunning
<1>9. QED
  BY <1>5, <1>7, <1>8 DEF RestInv

LEMMA FetchedKeeps ==
  ASSUME RestInv, NEW c \in Clients, Fetched(c)
  PROVE  RestInv'
<1>1. PICK p \in Obtainable(rest[c].provider) :
        rest' = [rest EXCEPT ![c].at = "inserting", ![c].provider = p]
  BY DEF Fetched
<1> DEFINE r == [rest[c] EXCEPT !.at = "inserting", !.provider = p]
<1>2. /\ rest[c].at = "fetching" /\ rest' = [rest EXCEPT ![c] = r]
      /\ UNCHANGED <<engines, provider, started, told, lost, results>>
  BY <1>1 DEF Fetched, state, history, RestInv, RestShape
<1>3. rest[c] \in Requests
  BY DEF RestInv, RestShape
<1>4. p \in Held /\ p # "none"
  BY <1>3, ServerAssumption DEF Obtainable, Requests, Held
<1>5. r \in Requests /\ r.at = "inserting" /\ r.id = rest[c].id /\ r.provider = p
  BY <1>3, <1>4 DEF Requests, States
<1>6. /\ rest' \in [Clients -> Requests] /\ rest'[c] = r
      /\ \A d \in Clients \ {c} : rest'[d] = rest[d]
  BY <1>2, <1>5 DEF RestInv, RestShape
<1>7. RestShape' /\ HoldsProvider'
  BY <1>2, <1>4, <1>5, <1>6 DEF RestInv, RestShape, HoldsProvider
<1>8. ProviderComesBack'
  BY <1>2, <1>5, <1>6 DEF RestInv, ProviderComesBack
<1>9. \A d \in Clients : Starting(d)' = Starting(d) /\ rest'[d].id = rest[d].id
  BY <1>2, <1>5, <1>6 DEF Starting
<1>10. IdsAreUntold'
  BY <1>2, <1>9 DEF RestInv, IdsAreUntold
<1>11. EnginesCounted'
  BY <1>2, <1>5, <1>6, NotRunning
<1>12. QED
  BY <1>7, <1>8, <1>10, <1>11 DEF RestInv

-----------------------------------------------------------------------------
\* Steps that move an engine.

\* An engine that is not there yet goes into the map: its id was told to nobody before.
LEMMA StartInsertsKeeps ==
  ASSUME RestInv, NEW c \in Clients, StartInserts(c)
  PROVE  RestInv'
<1>0. Starting(c) /\ rest[c].id \in Ids
  BY ServerAssumption DEF RestInv, IdsAreUntold, RestShape, StartInserts, Starting, Ids
<1> PICK new \in Ids : new = rest[c].id
  BY <1>0
<1>1. /\ rest[c].at = "inserting" /\ rest' = [rest EXCEPT ![c] = Idle]
      /\ engines' = WithEngine(new) /\ provider' = rest[c].provider
      /\ told' = told \cup {new}
      /\ UNCHANGED <<started, results>>
  BY DEF StartInserts, Answered
<1>2. /\ rest' \in [Clients -> Requests]
      /\ rest'[c].at = "idle"
      /\ \A d \in Clients \ {c} : rest'[d] = rest[d]
  BY <1>1, IdleIsARequest
<1>3. Starting(c) /\ new \in (1 .. started) \ told /\ rest[c] \in Requests
  BY <1>1 DEF RestInv, IdsAreUntold, Starting, RestShape
<1>4. new \in Ids
  BY <1>3, ServerAssumption DEF RestInv, RestShape, Ids
<1>5. DOMAIN engines' = DOMAIN engines \cup {new}
  BY <1>1 DEF WithEngine
<1>6. RestShape' /\ HoldsProvider'
  BY <1>1, <1>2, <1>3, <1>4, <1>5 DEF RestInv, RestShape, HoldsProvider, Requests
<1>7. ProviderComesBack'
  BY <1>1 DEF RestInv, HoldsProvider, ProviderComesBack
<1>8. ~Starting(c)' /\ \A d \in Clients \ {c} : Starting(d)' = Starting(d)
  BY <1>2 DEF Starting
<1>9. IdsAreUntold'
  BY <1>1, <1>2, <1>3, <1>8 DEF RestInv, IdsAreUntold
<1>10. \A id \in Ids : Running(id)' = Running(id)
  BY <1>1, <1>2 DEF Running
<1>11. InMap(new) = 0 /\ Told(new) = 0
  <2>1. /\ IsFiniteSet(Running(new)) /\ results[new] \in Nat
        /\ InMap(new) + Cardinality(Running(new)) + results[new] = Told(new)
    BY DEF RestInv, EnginesCounted, RestShape
  <2>2. Cardinality(Running(new)) \in Nat
    BY <2>1, FS_CardinalityType
  <2>3. InMap(new) \in Nat /\ Told(new) = 0
    BY <1>1, <1>3 DEF InMap, Told
  <2>4. QED
    BY <2>1, <2>2, <2>3
<1>12. \A id \in Ids : /\ InMap(id)' = IF id = new THEN 1 ELSE InMap(id)
                       /\ Told(id)' = IF id = new THEN 1 ELSE Told(id)
  BY <1>1, <1>5 DEF InMap, Told
<1>13. EnginesCounted'
  <2> SUFFICES ASSUME NEW id \in Ids
               PROVE  /\ IsFiniteSet(Running(id))'
                      /\ (InMap(id) + Cardinality(Running(id)) + results[id] = Told(id))'
    BY DEF EnginesCounted
  <2>1. /\ IsFiniteSet(Running(id)) /\ results[id] \in Nat
        /\ InMap(id) + Cardinality(Running(id)) + results[id] = Told(id)
    BY DEF RestInv, EnginesCounted, RestShape
  <2>2. Cardinality(Running(id)) \in Nat
    BY <2>1, FS_CardinalityType
  <2>3. InMap(id)' - InMap(id) = Told(id)' - Told(id)
    <3>1. CASE id = new
      BY <1>11, <1>12, <3>1 DEF InMap, Told
    <3>2. CASE id # new
      BY <1>12, <3>2 DEF InMap, Told
    <3>3. QED
      BY <3>1, <3>2
  <2>4. QED
    BY <1>1, <1>10, <2>1, <2>2, <2>3 DEF InMap, Told
<1>14. QED
  BY <1>6, <1>7, <1>9, <1>13 DEF RestInv

\* A request for the result takes the engine out of the map and runs it.
LEMMA TakeEngineKeeps ==
  ASSUME RestInv, NEW c \in Clients, TakeEngine(c)
  PROVE  RestInv'
<1>0. rest[c].id \in Ids
  BY DEF TakeEngine, RestInv, RestShape
<1> PICK taken \in Ids : taken = rest[c].id
  BY <1>0
<1> DEFINE r == [rest[c] EXCEPT !.at = "running"]
<1>1. /\ rest[c].at = "asking" /\ rest[c].op = "result" /\ taken \in DOMAIN engines
      /\ rest' = [rest EXCEPT ![c] = r]
      /\ engines' = Restrict(engines, DOMAIN engines \ {taken})
      /\ UNCHANGED <<provider, started, told, lost, results>>
  BY DEF TakeEngine, Asks, history, RestInv, RestShape
<1>2. rest[c] \in Requests /\ taken \in Ids
  BY <1>1 DEF RestInv, RestShape
<1>3. r \in Requests /\ r.at = "running" /\ r.id = taken
  BY <1>2 DEF Requests, States
<1>4. /\ rest' \in [Clients -> Requests] /\ rest'[c] = r
      /\ \A d \in Clients \ {c} : rest'[d] = rest[d]
  BY <1>1, <1>3 DEF RestInv, RestShape
<1>5. DOMAIN engines' = DOMAIN engines \ {taken}
  BY <1>1 DEF Restrict
<1>6. RestShape' /\ HoldsProvider'
  BY <1>1, <1>3, <1>4, <1>5 DEF RestInv, RestShape, HoldsProvider
<1>7. ProviderComesBack'
  BY <1>1, <1>4 DEF RestInv, ProviderComesBack
<1>8. ~Starting(c)' /\ \A d \in Clients \ {c} : Starting(d)' = Starting(d)
  BY <1>3, <1>4 DEF Starting
<1>9. IdsAreUntold'
  BY <1>1, <1>4, <1>8 DEF RestInv, IdsAreUntold
<1>10. \A id \in Ids : Running(id)' = IF id = taken THEN Running(id) \cup {c} ELSE Running(id)
  BY <1>1, <1>3, <1>4 DEF Running
<1>11. \A id \in Ids : c \notin Running(id)
  BY <1>1 DEF Running
<1>12. \A id \in Ids : /\ InMap(id)' = IF id = taken THEN 0 ELSE InMap(id)
                       /\ id = taken => InMap(id) = 1
                       /\ Told(id)' = Told(id)
  BY <1>1, <1>5 DEF InMap, Told
<1>13. EnginesCounted'
  <2> SUFFICES ASSUME NEW id \in Ids
               PROVE  /\ IsFiniteSet(Running(id))'
                      /\ (InMap(id) + Cardinality(Running(id)) + results[id] = Told(id))'
    BY DEF EnginesCounted
  <2>1. /\ IsFiniteSet(Running(id)) /\ results[id] \in Nat
        /\ InMap(id) + Cardinality(Running(id)) + results[id] = Told(id)
    BY DEF RestInv, EnginesCounted, RestShape
  <2>2. Cardinality(Running(id)) \in Nat
    BY <2>1, FS_CardinalityType
  <2>3. CASE id = taken
    <3>1. /\ IsFiniteSet(Running(id) \cup {c})
          /\ Cardinality(Running(id) \cup {c}) = Cardinality(Running(id)) + 1
      BY <1>11, <2>1, FS_AddElement
    <3>2. Running(id)' = Running(id) \cup {c} /\ InMap(id)' = 0 /\ InMap(id) = 1
      BY <1>10, <1>12, <2>3
    <3>3. QED
      BY <1>1, <1>12, <2>1, <2>2, <3>1, <3>2 DEF Told
  <2>4. CASE id # taken
    BY <1>1, <1>10, <1>12, <2>1, <2>4
  <2>5. QED
    BY <2>3, <2>4
<1>14. QED
  BY <1>6, <1>7, <1>9, <1>13 DEF RestInv

\* The engine that ran is gone, and its result was returned.
LEMMA ResultReadyKeeps ==
  ASSUME RestInv, NEW c \in Clients, ResultReady(c)
  PROVE  RestInv'
<1> PICK ran : ran = rest[c].id
  OBVIOUS
<1>1. /\ rest[c].at = "running" /\ rest' = [rest EXCEPT ![c] = Idle]
      /\ results' = [results EXCEPT ![ran] = @ + 1]
      /\ UNCHANGED <<engines, provider, started, told, lost>>
  BY DEF ResultReady, Answered, state
<1>2. /\ rest' \in [Clients -> Requests]
      /\ rest'[c].at = "idle"
      /\ \A d \in Clients \ {c} : rest'[d] = rest[d]
  BY <1>1, IdleIsARequest
<1>3. /\ results' \in [Ids -> Nat]
      /\ \A id \in Ids : results'[id] = IF id = ran THEN results[id] + 1 ELSE results[id]
  <2>1. results \in [Ids -> Nat]
    BY DEF RestInv, RestShape
  <2>2. results' = [id \in Ids |-> IF id = ran THEN results[id] + 1 ELSE results[id]]
    BY <1>1, <2>1
  <2>3. QED
    BY <2>1, <2>2
<1>4. RestShape' /\ HoldsProvider'
  BY <1>1, <1>2, <1>3 DEF RestInv, RestShape, HoldsProvider
<1>5. ProviderComesBack'
  BY <1>1, <1>2 DEF RestInv, ProviderComesBack
<1>6. ~Starting(c)' /\ \A d \in Clients \ {c} : Starting(d)' = Starting(d)
  BY <1>2 DEF Starting
<1>7. IdsAreUntold'
  BY <1>1, <1>2, <1>6 DEF RestInv, IdsAreUntold
<1>8. \A id \in Ids : Running(id)' = IF id = ran THEN Running(id) \ {c} ELSE Running(id)
  BY <1>1, <1>2 DEF Running
<1>9. \A id \in Ids : id = ran => c \in Running(id)
  BY <1>1 DEF Running
<1>10. \A id \in Ids : InMap(id)' = InMap(id) /\ Told(id)' = Told(id)
  BY <1>1 DEF InMap, Told
<1>11. EnginesCounted'
  <2> SUFFICES ASSUME NEW id \in Ids
               PROVE  /\ IsFiniteSet(Running(id))'
                      /\ (InMap(id) + Cardinality(Running(id)) + results[id] = Told(id))'
    BY DEF EnginesCounted
  <2>1. /\ IsFiniteSet(Running(id)) /\ results[id] \in Nat
        /\ InMap(id) + Cardinality(Running(id)) + results[id] = Told(id)
    BY DEF RestInv, EnginesCounted, RestShape
  <2>2. Cardinality(Running(id)) \in Nat
    BY <2>1, FS_CardinalityType
  <2>3. CASE id = ran
    <3>1. /\ IsFiniteSet(Running(id) \ {c})
          /\ Cardinality(Running(id) \ {c}) = Cardinality(Running(id)) - 1
      BY <1>9, <2>1, <2>3, FS_RemoveElement
    <3>2. Running(id)' = Running(id) \ {c} /\ results'[id] = results[id] + 1
      BY <1>3, <1>8, <2>3
    <3>3. QED
      BY <1>10, <2>1, <2>2, <3>1, <3>2 DEF InMap
  <2>4. CASE id # ran
    BY <1>3, <1>8, <1>10, <2>1, <2>4
  <2>5. QED
    BY <2>3, <2>4
<1>12. QED
  BY <1>4, <1>5, <1>7, <1>11 DEF RestInv

-----------------------------------------------------------------------------
LEMMA RestKeeps ==
  ASSUME RestInv, NEW c \in Clients,
         Request(c) \/ Serve(c) \/ Fetched(c) \/ FetchFailed(c) \/ DropStart(c)
  PROVE  RestInv'
<1>1. CASE GetState(c) \/ ResultNotFound(c)
  BY <1>1, AnsweredKeeps DEF GetState, ResultNotFound, Asks, Answered, state, history
<1>2. CASE FetchFailed(c) \/ DropStart(c)
  BY <1>2, AnsweredKeeps DEF FetchFailed, DropStart, Answered, state
<1>3. QED
  BY <1>1, <1>2, RequestKeeps, StartTakesKeeps, FetchedKeeps, StartInsertsKeeps, TakeEngineKeeps,
     ResultReadyKeeps DEF Serve

LEMMA SessionKeeps ==
  ASSUME RestInv, NEW k \in Sessions, Write(k) \/ Hangup(k) \/ Read(k) \/ Handle(k)
  PROVE  RestInv'
<1>1. UNCHANGED <<provider, rest, started, told, lost, results>>
  BY DEF Write, Hangup, Read, Handle, OnSubscribe, OnPlay, OnPlayComplete, OnIgnored, OnInvalid,
         OnClose, Send, state, history
<1>2. CASE OnPlay(k)
  <2>1. DOMAIN engines' = DOMAIN engines
    BY <1>2 DEF OnPlay
  <2>2. QED
    BY <1>1, <2>1, SessionsOnly
<1>3. CASE ~OnPlay(k)
  <2>1. engines' = engines
    BY <1>3 DEF Write, Hangup, Read, Handle, OnSubscribe, OnPlayComplete, OnIgnored, OnInvalid,
                OnClose, Send, state
  <2>2. QED
    BY <1>1, <2>1, SessionsOnly
<1>4. QED
  BY <1>2, <1>3

LEMMA RestInvNext == RestInv /\ [Next]_vars => RestInv'
<1> SUFFICES ASSUME RestInv, [Next]_vars PROVE RestInv'
  OBVIOUS
<1>1. CASE Next
  BY <1>1, RestKeeps, SessionKeeps DEF Next
<1>2. CASE UNCHANGED vars
  BY <1>2, SessionsOnly DEF vars, state, history
<1>3. QED
  BY <1>1, <1>2

\* Whatever is started, asked for and dropped: a backtest whose start was answered is in
\* the map, with the one request that runs it, or was returned once (start_backtest and
\* get_backtest_result in server.rs).
THEOREM EnginesAreAccountedFor == Spec => []EnginesAccountedFor
<1>1. RestInv => EnginesAccountedFor
  BY CountedIsTheProperty DEF RestInv
<1>2. QED
  BY <1>1, RestInvInit, RestInvNext, PTL DEF Spec

\* start_backtest takes the data provider out of the state and puts one back: it is gone
\* only while a start is under way or after one that failed.
THEOREM ProviderIsReturned == Spec => []ProviderComesBack
<1>1. RestInv => ProviderComesBack
  BY DEF RestInv
<1>2. QED
  BY <1>1, RestInvInit, RestInvNext, PTL DEF Spec
=============================================================================
