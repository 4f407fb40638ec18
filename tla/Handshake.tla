------------------------------ MODULE Handshake ------------------------------
(* A proxied connection up to its relay: proxy.rs dispatch, socks5.rs and       *)
(* http_proxy.rs, send_connect, and the Connect arm of handle_send.  The relays *)
(* of the two sides, ClientRelay and ServerRelay in full, are here only what    *)
(* holds a target and what lets it go.                                         *)
EXTENDS TransferLink

Relays == {1, 2}
None   == 0

VARIABLES
  client,   \* "greet", "first", "second" (Connect), "refuse", "reply", "request",
            \* "relay", "done"
  plain,    \* a plain HTTP request, to be forwarded before the relay
  failed,   \* an attempt to post Connect or the request has failed
  left,     \* the app had gone when it was to be answered
  (* the server *)
  late,     \* a failed Connect may still be served
  writer,   \* the target that the conn_id's tcp_writers and aborts belong to
  target    \* per Connect served: "none", "up", "eof" (it sends no more), "down"

clientVars == <<client, plain, failed, left>>
serverVars == <<writer, target>>
vars == <<linkVars, clientVars, late, serverVars>>

Init ==
  /\ StreamInit /\ registered = FALSE
  /\ client = "greet" /\ plain = FALSE /\ failed = FALSE /\ left = FALSE
  /\ late = FALSE
  /\ writer = None /\ target = [t \in Relays |-> "none"]

-----------------------------------------------------------------------------
(* handle_send. *)

\* A Connect that the target accepts takes the conn_id's entries from an earlier one.
ServeConnect ==
  /\ session
  /\ \E t \in Relays :
       /\ target[t] = "none" /\ \A u \in Relays : u < t => target[u] # "none"
       /\ target' = [target EXCEPT ![t] = "up"]
       /\ writer' = t

ServeLate ==
  /\ late /\ late' = FALSE
  /\ ServeConnect \/ UNCHANGED serverVars
  /\ UNCHANGED <<linkVars, clientVars>>

-----------------------------------------------------------------------------
(* The client. *)

To(pc) == client' = pc /\ UNCHANGED <<plain, failed, left>>

\* Unknown protocols, no acceptable method, unsupported commands, bad requests, or an
\* app that goes: nothing of the tunnel is touched.
Reject == /\ alive /\ client = "greet" /\ To("done")
          /\ UNCHANGED <<linkVars, late, serverVars>>

Accept == /\ alive /\ client = "greet"
          /\ client' = "first" /\ plain' \in BOOLEAN /\ registered' = TRUE
          /\ UNCHANGED <<alive, session, attached, down, events, breaks,
                         failed, left, late, serverVars>>

Connecting == alive /\ client \in {"first", "second"}
Answered   == IF plain THEN "request" ELSE "reply"

\* The ACK is empty Data.  Mutant: any ACK will do.
AnyAck     == Connecting /\ session /\ (ServeConnect \/ UNCHANGED serverVars)
GoodAck    == Connecting /\ ServeConnect
Connected  == GoodAck /\ To(Answered) /\ UNCHANGED <<linkVars, late>>

\* An Error, "decrypt error", or no ACK at all.
Refused == /\ Connecting /\ session /\ To("refuse")
           /\ UNCHANGED <<linkVars, late, serverVars>>

\* An attempt fails, served or not or not yet.
ConnectFails ==
  /\ Connecting
  /\ client' = IF client = "first" THEN "second" ELSE "refuse"
  /\ failed' = TRUE
  /\ \/ ServeConnect /\ UNCHANGED late
     \/ UNCHANGED <<serverVars, late>>
     \/ late' = TRUE /\ UNCHANGED serverVars
  /\ UNCHANGED <<linkVars, plain, left>>

Unregister == registered' = FALSE /\ events' = <<>>
              /\ UNCHANGED <<alive, session, attached, down, breaks>>

\* The `?` of the reply returns before what follows it.
AppGone == /\ client' = "done" /\ left' = TRUE
           /\ UNCHANGED <<linkVars, plain, failed>>

Refuse == /\ alive /\ client = "refuse"
          /\ AppGone \/ (To("done") /\ Unregister)
          /\ UNCHANGED <<late, serverVars>>

Reply == /\ alive /\ client = "reply"
         /\ AppGone \/ (To("relay") /\ UNCHANGED linkVars)
         /\ UNCHANGED <<late, serverVars>>

\* The request is posted as Data, or fails twice.
Request == /\ alive /\ client = "request"
           /\ \/ session /\ To("relay")
              \/ client' = "done" /\ failed' = TRUE /\ UNCHANGED <<plain, left>>
           /\ UNCHANGED <<linkVars, late, serverVars>>

\* The relay is over: both directions were closed, or it posts an Abort, which frees
\* what the conn_id's entries belong to, if it is served.
RelayOver ==
  /\ alive /\ client = "relay"
  /\ client' = "done" /\ Unregister /\ UNCHANGED <<plain, left>>
  /\ \/ /\ session /\ UNCHANGED failed
        /\ target' = [t \in Relays |-> IF t = writer THEN "down" ELSE target[t]]
        /\ writer' = None
     \/ failed' = TRUE /\ UNCHANGED serverVars
  /\ UNCHANGED late

\* The process of the proxy ends.
ClientEnds ==
  /\ Vanish
  /\ client' = "done" /\ plain' = FALSE /\ failed' = FALSE /\ left' = FALSE
  /\ UNCHANGED <<late, serverVars>>

-----------------------------------------------------------------------------
(* The server's relay of a target. *)

\* A relay ends and removes the conn_id's entries, whosever they are: so does one that
\* has only been waiting for its writer to go.
Ends(t) == /\ writer' = None
           /\ target' = [u \in Relays |-> IF u = t \/ target[u] = "eof" THEN "down" ELSE target[u]]
           /\ UNCHANGED <<linkVars, clientVars, late>>

\* After the target's EOF the relay stays for the client's upload, unless a later
\* Connect has taken its writer; a target that fails ends it.
TargetEof(t) ==
  /\ target[t] = "up"
  /\ IF writer = t
     THEN target' = [target EXCEPT ![t] = "eof"] /\ UNCHANGED <<linkVars, clientVars, late, writer>>
     ELSE Ends(t)
TargetFails(t) == target[t] \in {"up", "eof"} /\ Ends(t)

\* The stream was closed for SSE_DEAD_GRACE.
Watchdog(t) == target[t] \in {"up", "eof"} /\ ~attached /\ Ends(t)

Restart ==
  /\ Restarted
  /\ writer' = None
  /\ target' = [t \in Relays |-> IF target[t] = "none" THEN "none" ELSE "down"]
  /\ UNCHANGED <<clientVars, late>>

Client == Accept \/ Reject \/ Connected \/ Refused \/ ConnectFails \/ Refuse \/ Reply \/ Request
Link == (Break \/ Reattach \/ ServerNotices) /\ UNCHANGED <<clientVars, late, serverVars>>
\* The Reset of a new session, which is all that this model puts on the stream.
Arrive == Dispatch /\ UNCHANGED <<clientVars, late, serverVars>>

Next == Client \/ RelayOver \/ ServeLate \/ Link \/ Arrive \/ ClientEnds \/ Restart
        \/ \E t \in Relays : TargetEof(t) \/ TargetFails(t) \/ Watchdog(t)

\* What goes on by itself, which none of it can for ever: the app, the target and the
\* network are free to do nothing more.
Works == Client \/ Arrive \/ (\E t \in Relays : Watchdog(t))
         \/ ((Reattach \/ ServerNotices) /\ UNCHANGED <<clientVars, late, serverVars>>)

Spec == Init /\ [][Next]_vars

-----------------------------------------------------------------------------
(* Properties. *)

\* Every variable stays in its range.
TypeOK ==
  /\ LinkTypeOK
  /\ client \in {"greet", "first", "second", "refuse", "reply", "request", "relay", "done"}
  /\ plain \in BOOLEAN /\ failed \in BOOLEAN /\ left \in BOOLEAN /\ late \in BOOLEAN
  /\ writer \in Relays \cup {None}
  /\ target \in [Relays -> {"none", "up", "eof", "down"}]

\* socks5.rs, http_proxy.rs: the app is told that it is connected, and its bytes are
\* relayed, only once the server has connected to its target, and it is told of a
\* failure only when the server has not, unless a post had failed.
AnswerIsTrue ==
  LET Served == \E t \in Relays : target[t] # "none" IN
  /\ client \in {"reply", "request", "relay"} => Served
  /\ client = "refuse" /\ ~failed => ~Served

\* A target is held for no longer than its connection, unless a post has failed or the
\* app had left before it was answered: then for no longer than the client.
Held  == \E t \in Relays : target[t] \in {"up", "eof"}
Quiet == Held => alive /\ (client # "done" \/ failed \/ left)

\* Whatever the tunnel does, the app gets its relay or its connection is closed.
Returned == client \in {"relay", "done"}
==============================================================================
