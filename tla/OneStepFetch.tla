---------------------------- MODULE OneStepFetch ----------------------------
(***************************************************************************)
(* What fetch_ohlcv of an exchange adapter promises: the answer is an      *)
(* error, or the bars that open in the range asked for, its end included,  *)
(* as the exchange has them at one moment of the call.                     *)
(***************************************************************************)
EXTENDS Integers, SortedSets

CONSTANTS Tasks,      \* callers of the adapter
          Opens,      \* when the exchange's bars open
          Ranges      \* what may be asked for: [start, end]

VARIABLES now,        \* the exchange's clock
          asking,     \* task -> the range it waits for, or NoRange
          answered    \* task -> its last answer: [kind, times]

fetchVars == <<now, asking, answered>>

NoRange == [start |-> 0, end |-> 0]
Gives(kind, times) == [kind |-> kind, times |-> times]
InOpens(range, moment) ==
  {t \in Opens : range.start <= t /\ t <= range.end /\ t <= moment}

FetchInit ==
  /\ now = 0
  /\ asking = [c \in Tasks |-> NoRange]
  /\ answered = [c \in Tasks |-> Gives("none", << >>)]

\* A range without an inside is answered with no bars; any call may fail at once.
Request(c) ==
  /\ asking[c] = NoRange
  /\ \/ \E range \in Ranges :
          /\ asking' = [asking EXCEPT ![c] = range]
          /\ answered' = [answered EXCEPT ![c] = Gives("none", << >>)]
     \/ /\ \E range \in Ranges : range.start >= range.end
        /\ answered' = [answered EXCEPT ![c] = Gives("Ok", << >>)]
        /\ UNCHANGED asking
     \/ /\ answered' = [answered EXCEPT ![c] = Gives("Err", << >>)]
        /\ UNCHANGED asking
  /\ UNCHANGED now

Reply(c) ==
  /\ asking[c] # NoRange
  /\ \/ \E times \in {Ascending(InOpens(asking[c], now))} :
          answered' = [answered EXCEPT ![c] = Gives("Ok", times)]
     \/ answered' = [answered EXCEPT ![c] = Gives("Err", << >>)]
  /\ asking' = [asking EXCEPT ![c] = NoRange]
  /\ UNCHANGED now

\* The caller is dropped.
Forget(c) ==
  /\ asking' = [asking EXCEPT ![c] = NoRange]
  /\ answered' = [answered EXCEPT ![c] = Gives("none", << >>)]
  /\ UNCHANGED now

Pass == now' > now /\ UNCHANGED <<asking, answered>>

FetchNext == Pass \/ \E c \in Tasks : Request(c) \/ Reply(c) \/ Forget(c)

FetchSpec == FetchInit /\ [][FetchNext]_fetchVars
=============================================================================
