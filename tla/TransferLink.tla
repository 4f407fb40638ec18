---------------------------- MODULE TransferLink -----------------------------
(* What push, pull, remote-exec and a proxied handshake run over: the client's *)
(* process, its event stream and the events dispatched from it to the one      *)
(* conn_id of the session.  The stream itself is modelled in full in Tunnel    *)
(* and Reconnect.                                                              *)
EXTENDS Integers, Sequences

CONSTANTS DownCap,    \* what the session's channel and the socket hold
          EventCap,   \* CONN_CHANNEL_CAPACITY
          MaxBreaks   \* bound: streams that end with events in them, and restarts

ASSUME LinkAssumption == /\ DownCap \in Nat \ {0} /\ EventCap \in Nat \ {0}
                         /\ MaxBreaks \in Nat

VARIABLES
  alive,      \* the client's process runs
  session,    \* the server has the session
  attached,   \* the session's sse_tx has its receiver
  down,       \* events on the current stream
  registered, \* the conn_id is in response_channels
  events,     \* dispatched and not received
  breaks

linkVars == <<alive, session, attached, down, registered, events, breaks>>

Data(k) == [kind |-> "Data", n |-> k]
Exit(n) == [kind |-> "Exit", n |-> n]
Exit0   == Exit(0)
Close   == [kind |-> "Close", n |-> 0]
Error   == [kind |-> "Error", n |-> 0]
Reset   == [kind |-> "Reset", n |-> 0]

StreamInit ==
  /\ alive = TRUE /\ session = TRUE /\ attached = TRUE
  /\ down = <<>> /\ events = <<>> /\ breaks = 0
LinkInit == StreamInit /\ registered = TRUE

\* An archive's chunks in order, or anything else: what an unpacker was given.
Spoilt == -1
Given(fed, k, chunks) ==
  CASE fed \in {Spoilt, chunks} -> fed
    [] fed \notin {Spoilt, chunks} /\ k = fed + 1 -> k
    [] OTHER -> Spoilt

\* send_to_client returned true, or spent its attempts, 30s, on a stream nobody
\* reads.  A client that lives leaves no stream full for that long: dispatch is
\* held up for at most DISPATCH_STALL_TIMEOUT, 15s.
Delivered(e) == /\ attached /\ Len(down) < DownCap
                /\ down' = Append(down, e)
                /\ UNCHANGED <<alive, session, attached, registered, events, breaks>>
Undelivered == /\ ~attached \/ (~alive /\ Len(down) = DownCap)
               /\ UNCHANGED linkVars

\* Mutant: the queue is not bounded.
DispatchUnbounded ==
  /\ alive /\ down # <<>>
  /\ down' = Tail(down)
  /\ events' = IF registered THEN Append(events, Head(down)) ELSE events
  /\ registered' = (registered /\ Head(down) # Reset)
  /\ UNCHANGED <<alive, session, attached, breaks>>

\* Reset drops the registration, and so does a consumer that has not taken
\* anything for DISPATCH_STALL_TIMEOUT; a stalled Close is handed off, and may
\* arrive or not.
Dispatch ==
  /\ alive /\ down # <<>>
  /\ down' = Tail(down)
  /\ LET e == Head(down) IN
       CASE e = Reset \/ ~registered ->
              registered' = (registered /\ e # Reset) /\ UNCHANGED events
         [] OTHER ->
              \/ /\ Len(events) < EventCap
                 /\ events' = Append(events, e) /\ UNCHANGED registered
              \/ /\ Len(events) = EventCap
                 /\ registered' = FALSE /\ UNCHANGED events
  /\ UNCHANGED <<alive, session, attached, breaks>>

\* event_rx.recv(): what was queued, then None once the sender is gone.
Receive(e) == events # <<>> /\ e = Head(events) /\ events' = Tail(events)
              /\ UNCHANGED <<alive, session, attached, down, registered, breaks>>
ReceiveNone == events = <<>> /\ ~registered /\ UNCHANGED linkVars

\* The stream ends, with the events in it; the server notices.
Break ==
  /\ attached /\ alive /\ breaks < MaxBreaks
  /\ breaks' = breaks + 1
  /\ attached' = FALSE /\ down' = <<>>
  /\ UNCHANGED <<alive, session, registered, events>>

Reattach ==
  /\ ~attached /\ alive
  /\ attached' = TRUE /\ session' = TRUE
  /\ down' = IF session THEN <<>> ELSE <<Reset>>
  /\ UNCHANGED <<alive, registered, events, breaks>>

\* The process ends, when its command returns or at any point before; what it was
\* sent goes nowhere.
Vanish ==
  /\ alive
  /\ alive' = FALSE /\ registered' = FALSE /\ events' = <<>>
  /\ UNCHANGED <<session, attached, down, breaks>>

ServerNotices ==
  /\ ~alive /\ attached
  /\ attached' = FALSE /\ down' = <<>>
  /\ UNCHANGED <<alive, session, registered, events, breaks>>

\* The server restarts.  Bound: while there is a client to see it.
Restarted ==
  /\ alive /\ session /\ breaks < MaxBreaks
  /\ breaks' = breaks + 1
  /\ session' = FALSE /\ attached' = FALSE /\ down' = <<>>
  /\ UNCHANGED <<alive, registered, events>>

LinkTypeOK ==
  LET Events == [kind : {"Data"}, n : Nat] \cup {Exit(0), Exit(1), Close, Error} IN
  /\ alive \in BOOLEAN /\ session \in BOOLEAN /\ attached \in BOOLEAN
  /\ down \in Seq(Events \cup {Reset}) /\ Len(down) <= DownCap
  /\ registered \in BOOLEAN
  /\ events \in Seq(Events) /\ Len(events) <= EventCap
  /\ breaks \in 0..MaxBreaks
==============================================================================
