---------------------------- MODULE EventStream ----------------------------
(***************************************************************************)
(* What event_logs promises the clients of a SKU: one stream of events     *)
(* that only grows at its end, in the order of time.  Nothing is announced *)
(* on the SKU's channel before it is in the stream, and a client that asks *)
(* for what it has missed gets all of it, up to some length the stream had *)
(* while it was asking.                                                    *)
(***************************************************************************)
EXTENDS Naturals, Sequences

CONSTANTS SKUs, NoSKU

VARIABLES
  stream,   \* the events of each SKU, by sequence number
  channel,  \* the sequence numbers announced to the clients of each SKU
  answer    \* what a client that saw a gap has been told so far

streamVars == <<stream, channel, answer>>

NoAnswer == [sku |-> NoSKU, since |-> 0, events |-> {}, latest |-> 0]

Init ==
  /\ stream = [s \in SKUs |-> <<>>]
  /\ channel = [s \in SKUs |-> <<>>]
  /\ answer = NoAnswer

\* Any number of events, all at the end.
Extend(s) ==
  /\ Len(stream'[s]) > Len(stream[s])
  /\ \A n \in 1..Len(stream[s]) : stream'[s][n] = stream[s][n]
  /\ \A m, n \in 1..Len(stream'[s]) : m < n => stream'[s][m].at <= stream'[s][n].at
  /\ \A t \in SKUs \ {s} : stream'[t] = stream[t]
  /\ UNCHANGED <<channel, answer>>

Announce(s) ==
  /\ \E n \in 1..Len(stream[s]) : channel' = [channel EXCEPT ![s] = Append(@, n)]
  /\ UNCHANGED <<stream, answer>>

\* The client names the last number it knows.
ReadEvents(s) ==
  /\ answer = NoAnswer
  /\ answer' = [sku    |-> s,
                since  |-> answer'.since,
                events |-> (answer'.since + 1)..Len(stream[s]),
                latest |-> 0]
  /\ answer'.since \in Nat
  /\ UNCHANGED <<stream, channel>>

ReadLatest ==
  /\ answer.sku # NoSKU
  /\ answer' = [answer EXCEPT !.latest = Len(stream[answer.sku])]
  /\ UNCHANGED <<stream, channel>>

Reply ==
  /\ answer' = NoAnswer
  /\ UNCHANGED <<stream, channel>>

Next ==
  \/ \E s \in SKUs : Extend(s) \/ Announce(s) \/ ReadEvents(s)
  \/ ReadLatest
  \/ Reply

Spec == Init /\ [][Next]_streamVars
=============================================================================
