------------------------------- MODULE Tunnel --------------------------------
(****************************************************************************)
(* The tunnel itself, carrying one proxied connection: tunnel.rs            *)
(* send_message / try_post and sse_read_loop on the client, handle_send,    *)
(* handle_stream and send_to_client on the server, over HTTP requests that  *)
(* may be lost, answered too late, or cut off, and a server that restarts.  *)
(*                                                                          *)
(* Chunk k of a direction is the number k.  The relays at both ends         *)
(* (ClientRelay, ServerRelay) are reduced to what they hand to the tunnel,   *)
(* and to how they end: a server's relay may give up, fail or go silent     *)
(* while the server lives, and what is posted to it then is thrown away.    *)
(****************************************************************************)
EXTENDS Naturals, Sequences, FiniteSets

CONSTANTS MaxUp,          \* bound: Data messages the client posts before its Close
          MaxDown,        \* bound: Data events the server sends
          MaxReopens,     \* bound: streams opened after the first
          MaxRestarts     \* bound: server restarts

ASSUME BoundAssumption == /\ MaxUp \in Nat /\ MaxDown \in Nat
                          /\ MaxReopens \in Nat /\ MaxRestarts \in Nat

VARIABLES
  (* the client *)
  conn,       \* its relay: "open", "failed" by itself or by a Reset, "reported"
              \* failed by the server's Error, "done" with both directions
  closed,     \* the relay was handed Close: the response ended cleanly
  finished,   \* the app's end was read: Close is, or was, what send_message has
  stream,     \* the SSE loop: "up" (reading) or "down"
  signal,     \* the permit of reconnect_signal
  post,       \* send_message: "idle", "first", "wait", "second"
  posted,     \* Data messages handed to send_message
  acked,      \* of those, the ones it returned Ok for
  rcvd,       \* chunks dispatched to the open relay
  (* the server *)
  session,    \* the session id is in the sessions map
  attached,   \* the session's stream still has its receiver
  writer,     \* the conn_id's entry in tcp_writers: "kept", removed by the client's
              \* Close ("closed"), or "dropped" by anything else
  reading,    \* the read task: "relay", "aborted" with the Abort's permit stored,
              \* "failing" with an Error to send, "closed" with its Close sent, "over",
              \* or "mute": ended by what it could not tell the client
  writing,    \* the write task: "relay", "failing", "over" or "mute"
  out,        \* chunks the relay got true for from send_to_client
  upGot,      \* chunks queued for the target
  (* the network *)
  pipe,       \* what the current stream carries and has not delivered
  reqs,       \* attempts <<message, number>> on their way to the server
  served,     \* the current message's attempts that were answered 200
  reopens, restarts,
  lossy       \* what this network does: "stream", a stream may end with events in
              \* it; "post", a request that failed may be, or may yet be, served

callVars   == <<finished, post, posted, acked>>
clientVars == <<conn, closed, stream, signal, rcvd, callVars>>
relayVars  == <<writer, reading, writing>>
serverVars == <<session, attached, out, upGot, relayVars>>
netVars    == <<pipe, reqs, served, reopens, restarts, lossy>>
vars == <<clientVars, serverVars, netVars>>

Init ==
  /\ conn = "open" /\ closed = FALSE /\ finished = FALSE /\ stream = "up" /\ signal = FALSE
  /\ post = "idle" /\ posted = 0 /\ acked = 0 /\ rcvd = <<>>
  /\ session = TRUE /\ attached = TRUE
  /\ writer = "kept" /\ reading = "relay" /\ writing = "relay"
  /\ out = 0 /\ upGot = <<>>
  /\ pipe = <<>> /\ reqs = {} /\ served = {} /\ reopens = 0 /\ restarts = 0
  /\ lossy \in SUBSET {"stream", "post"}

LossyStream == "stream" \in lossy
LossyPost   == "post" \in lossy

-----------------------------------------------------------------------------
(* Events to the client. *)

Data(k) == [kind |-> "Data", n |-> k]
Close   == [kind |-> "Close", n |-> 0]
Error   == [kind |-> "Error", n |-> 0]
Reset   == [kind |-> "Reset", n |-> 0]

\* The read task is in its loop.
Reads == reading \in {"relay", "aborted"}

\* true from send_to_client: the event is in the channel of a stream, which the
\* client may already have left.
Sends(e) ==
  /\ attached
  /\ LossyStream \/ stream = "up"
  /\ pipe' = Append(pipe, e)

\* Mutant: a chunk that finds no stream is dropped instead of kept for a retry.
SendDataDropsDetached ==
  /\ Reads /\ out < MaxDown
  /\ LossyStream \/ ~attached \/ stream = "up"
  /\ out' = out + 1
  /\ pipe' = IF attached THEN Append(pipe, Data(out + 1)) ELSE pipe
  /\ UNCHANGED <<clientVars, session, attached, upGot, relayVars, reqs, served, reopens,
                 restarts, lossy>>

\* Mutant: an attempt that did queue the chunk may count as failed.
SendDataQueuedButRetried ==
  /\ Reads /\ out < MaxDown
  /\ Sends(Data(out + 1)) /\ Len(pipe') <= MaxDown + 1
  /\ out' \in {out, out + 1}
  /\ UNCHANGED <<clientVars, session, attached, upGot, relayVars, reqs, served, reopens,
                 restarts, lossy>>

SendData ==
  /\ Reads /\ out < MaxDown
  /\ Sends(Data(out + 1))
  /\ out' = out + 1
  /\ UNCHANGED <<clientVars, session, attached, upGot, relayVars, reqs, served, reopens,
                 restarts, lossy>>

\* The target's clean end.  The writer stays for the rest of the upload.
SendClose ==
  /\ Reads
  /\ Sends(Close)
  /\ reading' = "closed"
  /\ UNCHANGED <<clientVars, session, attached, out, upGot, writer, writing, reqs,
                 served, reopens, restarts, lossy>>

-----------------------------------------------------------------------------
(* The ends of a relay on a server that lives. *)

Released == IF writer = "kept" THEN "dropped" ELSE writer

\* Mutant: a read task that gives up tells nobody.
GiveUpSilently ==
  /\ Reads
  /\ reading' = "over" /\ writer' = Released
  /\ UNCHANGED <<clientVars, session, attached, out, upGot, writing, netVars>>

\* A chunk has exhausted its attempts, the watchdog has found no stream for its
\* grace, or the target's socket has failed: the writer goes, and an Error is due.
GiveUp ==
  /\ Reads
  /\ reading' = "failing" /\ writer' = Released
  /\ UNCHANGED <<clientVars, session, attached, out, upGot, writing, netVars>>

\* The Close has exhausted its attempts: the writer goes without a word.
CloseFails ==
  /\ Reads
  /\ reading' = "mute" /\ writer' = Released
  /\ UNCHANGED <<clientVars, session, attached, out, upGot, writing, netVars>>

\* The target does not take a chunk that was queued.
WriteFails ==
  /\ writing = "relay" /\ upGot # <<>>
  /\ writing' = "failing" /\ writer' = Released
  /\ UNCHANGED <<clientVars, session, attached, out, upGot, reading, netVars>>

\* The read task has delivered its Close, and the client has had no stream for the
\* grace since: the write task ends, and the relay with it.
WriteWatchdog ==
  /\ writing = "relay" /\ writer = "kept" /\ reading = "closed" /\ ~attached
  /\ writing' = "mute" /\ writer' = "dropped"
  /\ UNCHANGED <<clientVars, session, attached, out, upGot, reading, netVars>>

\* The Error of either task: handed to a stream, or given up with its attempts.
Tells(t, t2) ==
  /\ t = "failing"
  /\ \/ t2 = "over" /\ Sends(Error)
     \/ t2 = "mute" /\ UNCHANGED pipe
  /\ UNCHANGED <<clientVars, session, attached, out, upGot, writer, reqs, served,
                 reopens, restarts, lossy>>
ReadError  == Tells(reading, reading') /\ UNCHANGED writing
WriteError == Tells(writing, writing') /\ UNCHANGED reading

\* A client that has failed by itself before its end posts Abort: the writer goes
\* with it, and the read task sees it in its loop, if it is still there.
ServeAbort ==
  /\ conn = "failed" /\ ~finished /\ post = "idle" /\ session
  /\ writer' = Released
  /\ reading' = IF reading = "relay" THEN "aborted" ELSE reading
  /\ UNCHANGED <<clientVars, session, attached, out, upGot, writing, netVars>>

TakeAbort ==
  /\ reading = "aborted"
  /\ reading' = "over"
  /\ UNCHANGED <<clientVars, session, attached, out, upGot, writer, writing, netVars>>

-----------------------------------------------------------------------------
(* The client's stream. *)

\* handle_sse_message: an event goes to the connection if it is registered, and a
\* Reset drops every registration, which fails the relay.
Dispatch ==
  /\ stream = "up" /\ pipe # <<>>
  /\ pipe' = Tail(pipe)
  /\ LET e == Head(pipe) IN
       /\ rcvd' = IF e.kind = "Data" /\ conn = "open" THEN Append(rcvd, e.n) ELSE rcvd
       /\ closed' = (closed \/ (e.kind = "Close" /\ conn = "open"))
       /\ conn' = CASE conn = "open" /\ e.kind = "Error" -> "reported"
                    [] conn = "open" /\ e.kind = "Reset" -> "failed"
                    [] OTHER -> conn
  /\ UNCHANGED <<stream, signal, callVars, serverVars, reqs, served, reopens, restarts,
                 lossy>>

\* Both directions have ended cleanly: the relay unregisters.
Finish ==
  /\ conn = "open" /\ closed /\ finished /\ post = "idle"
  /\ conn' = "done"
  /\ UNCHANGED <<closed, stream, signal, rcvd, callVars, serverVars, netVars>>

\* The stream ends for the client: the network, a proxy, or 30s of silence.
\* The server may notice only later.
StreamBreaks ==
  /\ stream = "up"
  /\ LossyStream \/ pipe = <<>>
  /\ stream' = "down"
  /\ UNCHANGED <<conn, closed, signal, rcvd, callVars, serverVars, netVars>>

\* reconnect_signal.notified(): the stream is given up, whatever it carries.
ForcedReconnect ==
  /\ stream = "up" /\ signal
  /\ LossyStream \/ pipe = <<>>
  /\ signal' = FALSE
  /\ stream' = "down"
  /\ UNCHANGED <<conn, closed, rcvd, callVars, serverVars, netVars>>

ServerNotices ==
  /\ stream = "down" /\ attached
  /\ attached' = FALSE
  /\ UNCHANGED <<clientVars, session, out, upGot, relayVars, netVars>>

\* Mutant: the session is created without a word to the client.
ReopenSilently ==
  /\ stream = "down" /\ reopens < MaxReopens
  /\ reopens' = reopens + 1
  /\ stream' = "up" /\ signal' = FALSE
  /\ attached' = TRUE /\ session' = TRUE
  /\ pipe' = <<>>
  /\ UNCHANGED <<conn, closed, rcvd, callVars, out, upGot, relayVars, reqs, served,
                 restarts, lossy>>

\* A new GET /stream/{sid} gets a new channel.  A session the server had to
\* create for it announces itself with Reset.
Reopen ==
  /\ stream = "down" /\ reopens < MaxReopens
  /\ reopens' = reopens + 1
  /\ stream' = "up" /\ signal' = FALSE
  /\ attached' = TRUE /\ session' = TRUE
  /\ pipe' = IF session THEN <<>> ELSE <<Reset>>
  /\ UNCHANGED <<conn, closed, rcvd, callVars, out, upGot, relayVars, reqs, served,
                 restarts, lossy>>

-----------------------------------------------------------------------------
(* Messages to the server: Data numbered from 1, and Close behind the last. *)

Message    == IF finished THEN posted + 1 ELSE posted
Attempt(n) == <<Message, n>>
Current    == IF post = "first" THEN Attempt(1) ELSE Attempt(2)

Post ==
  /\ conn = "open" /\ post = "idle" /\ ~finished /\ posted < MaxUp
  /\ posted' = posted + 1
  /\ post' = "first"
  /\ reqs' = reqs \cup {<<posted + 1, 1>>} /\ served' = {}
  /\ UNCHANGED <<conn, closed, finished, stream, signal, acked, rcvd, serverVars, pipe,
                 reopens, restarts, lossy>>

\* The app's end is read: the upload closes.
PostClose ==
  /\ conn = "open" /\ post = "idle" /\ ~finished
  /\ finished' = TRUE
  /\ post' = "first"
  /\ reqs' = reqs \cup {<<posted + 1, 1>>} /\ served' = {}
  /\ UNCHANGED <<conn, closed, stream, signal, posted, acked, rcvd, serverVars, pipe,
                 reopens, restarts, lossy>>

\* handle_send: a chunk whose conn_id has no writer, or a writer whose queue is
\* gone, is dropped, and answered 200 like any other.  Close removes the writer.
Serve(r) ==
  /\ r \in reqs /\ session
  /\ reqs' = reqs \ {r}
  /\ served' = IF r[1] = Message THEN served \cup {r} ELSE served
  /\ upGot' = IF r[1] <= posted /\ writer = "kept" THEN Append(upGot, r[1]) ELSE upGot
  /\ writer' = IF r[1] > posted /\ writer = "kept" THEN "closed" ELSE writer
  /\ UNCHANGED <<clientVars, session, attached, reading, writing, out, pipe,
                 reopens, restarts, lossy>>

\* Mutant: the answer is taken without ending the call.
PostOkAgain ==
  /\ post \in {"first", "second"} /\ Current \in served
  /\ acked' = acked + 1 /\ acked' <= MaxUp
  /\ UNCHANGED <<conn, closed, finished, stream, signal, post, posted, rcvd, serverVars,
                 netVars>>

PostOk ==
  /\ post \in {"first", "second"} /\ Current \in served
  /\ acked' = IF finished THEN acked ELSE acked + 1
  /\ post' = "idle"
  /\ UNCHANGED <<conn, closed, finished, stream, signal, posted, rcvd, serverVars, netVars>>

\* Mutant: the second failure is reported as a success.
PostFailsQuietly ==
  /\ post \in {"first", "second"}
  /\ LossyPost \/ Current \notin served
  /\ \/ reqs' = reqs \ {Current}
     \/ LossyPost /\ UNCHANGED reqs
  /\ IF post = "first"
     THEN post' = "wait" /\ signal' = TRUE /\ UNCHANGED acked
     ELSE /\ post' = "idle" /\ UNCHANGED signal
          /\ acked' = IF finished THEN acked ELSE acked + 1
  /\ UNCHANGED <<conn, closed, finished, stream, posted, rcvd, serverVars, pipe, served,
                 reopens, restarts, lossy>>

\* Mutant: the call is retried while its first attempt can still be served.
PostFailsEarly ==
  /\ post = "first"
  /\ post' = "wait" /\ signal' = TRUE
  /\ UNCHANGED <<conn, closed, finished, stream, posted, acked, rcvd, serverVars, netVars>>

\* The client saw an error: no connection, a 503, or an answer that was lost.
\* The first failure forces a reconnect and waits for the stream; the second
\* ends the relay, unless the message was the upload's Close.
PostFails ==
  /\ post \in {"first", "second"}
  /\ LossyPost \/ Current \notin served
  /\ \/ reqs' = reqs \ {Current}
     \/ LossyPost /\ UNCHANGED reqs
  /\ IF post = "first"
     THEN /\ post' = "wait" /\ signal' = TRUE
          /\ UNCHANGED conn
     ELSE /\ post' = "idle"
          /\ conn' = IF finished THEN conn ELSE "failed"
          /\ UNCHANGED signal
  /\ UNCHANGED <<closed, finished, stream, posted, acked, rcvd, serverVars, pipe, served,
                 reopens, restarts, lossy>>

\* The stream is ready again, or RECONNECT_WAIT passed; the same bytes go out.
RetryPost ==
  /\ post = "wait"
  /\ post' = "second"
  /\ reqs' = reqs \cup {Attempt(2)}
  /\ UNCHANGED <<conn, closed, finished, stream, signal, posted, acked, rcvd, serverVars,
                 pipe, served, reopens, restarts, lossy>>

\* The server process is replaced: nothing it knew survives.
Restart ==
  /\ restarts < MaxRestarts
  /\ restarts' = restarts + 1
  /\ session' = FALSE /\ attached' = FALSE
  /\ writer' = Released /\ writing' = "over"
  /\ reading' = IF reading = "closed" THEN "closed" ELSE "over"
  /\ pipe' = <<>> /\ reqs' = {}
  /\ stream' = "down"
  /\ UNCHANGED <<conn, closed, signal, rcvd, callVars, out, upGot, served, reopens, lossy>>

Next == \/ SendData \/ SendClose
        \/ GiveUp \/ CloseFails \/ WriteFails \/ WriteWatchdog \/ ReadError \/ WriteError
        \/ ServeAbort \/ TakeAbort
        \/ Dispatch \/ Finish \/ StreamBreaks \/ ForcedReconnect
        \/ ServerNotices \/ Reopen \/ Restart
        \/ Post \/ PostClose \/ PostOk \/ PostFails \/ RetryPost
        \/ \E r \in reqs : Serve(r)

Spec == Init /\ [][Next]_vars

-----------------------------------------------------------------------------
(* Properties. *)

Events   == [kind : {"Data"}, n : 1..MaxDown] \cup {Close, Error, Reset}
Attempts == (1..(MaxUp + 1)) \X {1, 2}
Elems(q) == {q[i] : i \in DOMAIN q}

\* Every variable stays in its range.
TypeOK ==
  /\ conn \in {"open", "failed", "reported", "done"}
  /\ closed \in BOOLEAN /\ finished \in BOOLEAN
  /\ stream \in {"up", "down"} /\ signal \in BOOLEAN
  /\ post \in {"idle", "first", "wait", "second"}
  /\ posted \in 0..MaxUp /\ acked \in 0..MaxUp /\ acked <= posted
  /\ rcvd \in Seq(1..MaxDown)
  /\ session \in BOOLEAN /\ attached \in BOOLEAN
  /\ writer \in {"kept", "closed", "dropped"}
  /\ reading \in {"relay", "aborted", "failing", "closed", "over", "mute"}
  /\ writing \in {"relay", "failing", "over", "mute"}
  /\ out \in 0..MaxDown /\ upGot \in Seq(1..MaxUp)
  /\ pipe \in Seq(Events)
  /\ reqs \subseteq Attempts /\ served \subseteq Attempts
  /\ reopens \in 0..MaxReopens /\ restarts \in 0..MaxRestarts
  /\ lossy \subseteq {"stream", "post"}

\* Whatever is lost, the relay is never handed a chunk twice or out of order.
DownInOrder == \A i, j \in DOMAIN rcvd : i < j => rcvd[i] < rcvd[j]

\* An upload chunk that send_message returned Ok for has been queued for the
\* target, whichever attempt was served, late or twice, unless the server's relay
\* has let go of its writer (it gave up, failed, was aborted, or its server was
\* replaced).  Then no later chunk is queued either: what the target is given has
\* no gap before its end.
AckedUploadArrives ==
  \A n \in 1..acked : \/ n \in Elems(upGot)
                      \/ /\ writer = "dropped"
                         /\ \A m \in n..posted : m \notin Elems(upGot)

\* Whenever the server has answered 200 for a chunk that it never queued, the
\* client's relay is no longer open, or it will hear of it: the server is in the
\* middle of its Error, or has put it on the stream, or the Reset of a new session
\* is still to come or on the stream.  Exempt are streams that are lost with what
\* they carry, and a server's relay whose last message exhausted its attempts or
\* whose watchdog ended it.
LostUploadIsNoticed ==
  (\E n \in 1..acked : n \notin Elems(upGot)) =>
    \/ conn # "open"
    \/ "failing" \in {reading, writing} \/ Error \in Elems(pipe)
    \/ ~session \/ Reset \in Elems(pipe)
    \/ LossyStream \/ "mute" \in {reading, writing}

\* server.rs, relay_tcp_connection: "Never drop a chunk: a gap would corrupt the
\* proxied TCP byte stream. send_to_client retries across a client reconnect":
\* a response that ended cleanly is whole.
CleanEndIsWhole == closed => Len(rcvd) = out

\* Each direction is the byte stream a TCP connection promises, with its clean end,
\* over a network that does not lose what that direction cannot do without: for
\* uploads, the outcome of a request; for downloads, the tail of a stream.  An
\* upload ends with the Close that takes the writer, and has broken off when the
\* writer went otherwise; a download has when its relay has failed.
UpStream == INSTANCE ByteStream WITH
              sent   <- IF LossyPost THEN 0 ELSE posted,
              closed <- ~LossyPost /\ finished,
              rcvd   <- IF LossyPost THEN <<>> ELSE upGot,
              end    <- IF LossyPost \/ writer = "kept" THEN "none"
                        ELSE IF writer = "closed" THEN "eof" ELSE "reset"
DownStream == INSTANCE ByteStream WITH
                sent   <- IF LossyStream THEN 0 ELSE out,
                closed <- ~LossyStream /\ reading = "closed",
                rcvd   <- IF LossyStream THEN <<>> ELSE rcvd,
                end    <- IF LossyStream THEN "none" ELSE IF closed THEN "eof"
                          ELSE IF conn = "open" THEN "none" ELSE "reset"
UploadIsByteStream   == UpStream!Spec
DownloadIsByteStream == DownStream!Spec
==============================================================================
