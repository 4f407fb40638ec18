----------------------------- MODULE ClientRelay -----------------------------
(****************************************************************************)
(* One proxied TCP connection on the client: the two tasks of relay.rs      *)
(* `relay`, the dispatch side of tunnel.rs that feeds it, and the socket of *)
(* the proxied application.                                                 *)
(*                                                                          *)
(* Data is counted, never inspected: a chunk is one read() of the app's     *)
(* socket or one Data event of the SSE stream.  The server is what the      *)
(* client sees of it, a stream  Data* [ Close [ Error ] | Error ]  for this *)
(* conn_id plus the effect of the messages posted to it; ServerRelay models *)
(* the code that produces that stream.                                      *)
(****************************************************************************)
EXTENDS Naturals, Sequences

CONSTANTS ChanCap,      \* tunnel.rs CONN_CHANNEL_CAPACITY
          SockCap,      \* chunks the kernel buffers from the relay to the app
          MaxUp,        \* bound: chunks the app sends
          MaxDown       \* bound: Data events the server emits

ASSUME ChanCapAssumption == ChanCap \in Nat \ {0}
ASSUME SockCapAssumption == SockCap \in Nat \ {0}
ASSUME MaxUpAssumption   == MaxUp \in Nat
ASSUME MaxDownAssumption == MaxDown \in Nat

VARIABLES
  (* the app and its socket *)
  appUp,          \* the app's sending side: "open", "fin" or "rst"
  upSent,         \* chunks the app has sent
  upBuf,          \* of those, the ones the relay has not read
  downBuf,        \* chunks written by the relay that the app has not read
  downEnd,        \* what follows them: "open" (nothing yet), "fin" or "rst"
  appGot,         \* chunks the app has read
  appSaw,         \* the end the app's reads returned: "none", "eof", "reset"
  (* relay.rs, the read half *)
  readPc,         \* "select", "post" (a Data), "close" (the Close), "done"
  outcome,        \* Upload, once the loop is left
  upSig,          \* the one-shot upload_tx -> upload_rx
  (* relay.rs, the write half *)
  writePc,        \* "select", "write" (in write_all), "done"
  failed, serverReported, responseClosed, uploadEnded,
  stopSig,        \* the one-shot stop_tx -> stop_rx
  relayPc,        \* "running" until the halves are joined, then "finished"
  (* tunnel.rs *)
  registered,     \* the conn_id is in response_channels
  events,         \* the connection's mpsc channel
  dispatch,       \* the event dispatch_event is holding, or "idle"
  handoff,        \* a task holds a stalled Close
  (* the server, as far as this connection goes *)
  srv,            \* "open", "closed" (Close sent), "failed", "gone"
  srvSent,        \* Data events sent
  srvUp,          \* its upload side: "open", "closing" (Close heard), "done"
  abortPost       \* the Abort: "none", "pending" (task spawned), "posted"

appVars      == <<appUp, upSent, upBuf, downBuf, downEnd, appGot, appSaw>>
readVars     == <<readPc, outcome, upSig>>
writeVars    == <<writePc, failed, serverReported, responseClosed,
                  uploadEnded, stopSig>>
dispatchVars == <<registered, events, dispatch, handoff>>
serverVars   == <<srv, srvSent, srvUp, abortPost>>
vars == <<appVars, readVars, writeVars, relayPc, dispatchVars, serverVars>>

Init ==
  /\ appUp = "open" /\ upSent = 0 /\ upBuf = 0
  /\ downBuf = 0 /\ downEnd = "open" /\ appGot = 0 /\ appSaw = "none"
  /\ readPc = "select" /\ outcome = "none" /\ upSig = "none"
  /\ writePc = "select" /\ stopSig = "none"
  /\ failed = FALSE /\ serverReported = FALSE
  /\ responseClosed = FALSE /\ uploadEnded = FALSE
  /\ relayPc = "running"
  /\ registered = TRUE /\ events = <<>> /\ dispatch = "idle" /\ handoff = FALSE
  /\ srv = "open" /\ srvSent = 0 /\ srvUp = "open" /\ abortPost = "none"

-----------------------------------------------------------------------------
(* The application.  It may send, half-close, reset the connection (crash,  *)
(* cancel, or a full close answered by the kernel when the relay writes),   *)
(* read, or do nothing at all.                                              *)

AppSend ==
  /\ appUp = "open" /\ upSent < MaxUp
  /\ relayPc = "running"
  /\ upSent' = upSent + 1 /\ upBuf' = upBuf + 1
  /\ UNCHANGED <<appUp, downBuf, downEnd, appGot, appSaw, readVars, writeVars,
                 relayPc, dispatchVars, serverVars>>

AppShutdown ==
  /\ appUp = "open"
  /\ appUp' = "fin"
  /\ UNCHANGED <<upSent, upBuf, downBuf, downEnd, appGot, appSaw, readVars,
                 writeVars, relayPc, dispatchVars, serverVars>>

\* Bytes not read yet may or may not survive the reset in the relay's kernel.
AppReset ==
  /\ appUp \in {"open", "fin"} /\ downEnd # "rst"
  /\ appUp' = "rst"
  /\ upBuf' \in {0, upBuf}
  /\ UNCHANGED <<upSent, downBuf, downEnd, appGot, appSaw, readVars, writeVars,
                 relayPc, dispatchVars, serverVars>>

AppRead ==
  /\ appUp # "rst" /\ downEnd # "rst" /\ downBuf > 0
  /\ downBuf' = downBuf - 1 /\ appGot' = appGot + 1
  /\ UNCHANGED <<appUp, upSent, upBuf, downEnd, appSaw, readVars, writeVars,
                 relayPc, dispatchVars, serverVars>>

AppReadEnd ==
  /\ appUp # "rst" /\ appSaw = "none"
  /\ \/ downEnd = "fin" /\ downBuf = 0 /\ appSaw' = "eof"
     \/ downEnd = "rst" /\ appSaw' = "reset"
  /\ UNCHANGED <<appUp, upSent, upBuf, downBuf, downEnd, appGot, readVars,
                 writeVars, relayPc, dispatchVars, serverVars>>

-----------------------------------------------------------------------------
(* The read half.  Every way out of its loop runs, with no await before it   *)
(* except the Close's, to the one-shot that tells the write half.            *)

\* Faulty variants: an upload failure sends no Abort; it is reported as an EOF.
LeaveUploadNoAbort(how) ==
  /\ outcome' = how
  /\ readPc' = "done"
  /\ upSig' = IF how = "Failed" THEN "Failed" ELSE "Eof"
  /\ abortPost' = IF how = "StoppedLocally" THEN "pending" ELSE abortPost

LeaveUploadAsEof(how) ==
  /\ outcome' = how
  /\ readPc' = "done"
  /\ upSig' = "Eof"
  /\ abortPost' = IF how = "StoppedByServer" THEN abortPost ELSE "pending"

\* Failed and Stopped(Local) post an Abort on a detached task.
LeaveUpload(how) ==
  /\ outcome' = how
  /\ readPc' = "done"
  /\ upSig' = IF how = "Failed" THEN "Failed" ELSE "Eof"
  /\ abortPost' = IF how = "StoppedByServer" THEN abortPost ELSE "pending"

\* The stop signal is polled first.  A write half that went away without
\* sending one ("dropped") counts as Local.
ReadStopped ==
  /\ readPc = "select" /\ stopSig # "none"
  /\ LeaveUpload(IF stopSig = "ServerReported" THEN "StoppedByServer"
                                               ELSE "StoppedLocally")
  /\ UNCHANGED <<appVars, writeVars, relayPc, dispatchVars, srv, srvSent, srvUp>>

ReadChunk ==
  /\ readPc = "select" /\ stopSig = "none" /\ upBuf > 0
  /\ upBuf' = upBuf - 1
  /\ readPc' = "post"
  /\ UNCHANGED <<appUp, upSent, downBuf, downEnd, appGot, appSaw, outcome,
                 upSig, writeVars, relayPc, dispatchVars, serverVars>>

ReadEof ==
  /\ readPc = "select" /\ stopSig = "none" /\ upBuf = 0 /\ appUp = "fin"
  /\ outcome' = "Eof"
  /\ readPc' = "close"
  /\ UNCHANGED <<appVars, upSig, writeVars, relayPc, dispatchVars, serverVars>>

ReadError ==
  /\ readPc = "select" /\ stopSig = "none" /\ upBuf = 0 /\ appUp = "rst"
  /\ LeaveUpload("Failed")
  /\ UNCHANGED <<appVars, writeVars, relayPc, dispatchVars, srv, srvSent, srvUp>>

\* send_message(Data) returned Ok; a server that does not know the conn_id
\* answers 200 as well.
PostData ==
  /\ readPc = "post"
  /\ readPc' = "select"
  /\ UNCHANGED <<appVars, outcome, upSig, writeVars, relayPc, dispatchVars,
                 serverVars>>

PostDataFails ==
  /\ readPc = "post"
  /\ LeaveUpload("Failed")
  /\ UNCHANGED <<appVars, writeVars, relayPc, dispatchVars, srv, srvSent, srvUp>>

\* send_message(Close): its result is ignored.
PostClose ==
  /\ readPc = "close"
  /\ readPc' = "done" /\ upSig' = "Eof"
  /\ UNCHANGED srvUp \/ (srvUp = "open" /\ srvUp' = "closing")
  /\ UNCHANGED <<appVars, outcome, writeVars, relayPc, dispatchVars, srv,
                 srvSent, abortPost>>

\* The detached task ran: the server heard the Abort, or two POSTs failed.
\* Either way events of this conn_id may still be on their way to the client.
PostAbort ==
  /\ abortPost = "pending"
  /\ abortPost' = "posted"
  /\ UNCHANGED <<appVars, readVars, writeVars, relayPc, dispatchVars, srv,
                 srvSent, srvUp>>

ReadLoop == ReadStopped \/ ReadChunk \/ ReadEof \/ ReadError
Posting  == PostData \/ PostDataFails \/ PostClose
ReadHalf == ReadLoop \/ Posting

-----------------------------------------------------------------------------
(* The write half. *)

\* A sender of the channel is alive: in the map, in dispatch_event, or in the
\* task that took over a stalled Close.
ChanOpen == registered \/ dispatch # "idle" \/ handoff

\* Faulty variant: the read half is not told.
LeaveResponseSilently(isFailure, byServer) ==
  /\ writePc' = "done"
  /\ failed' = isFailure /\ serverReported' = byServer
  /\ UNCHANGED stopSig

\* Leaving the loop drops event_rx and resolves the stop one-shot: with a
\* reason after a failure, by dropping stop_tx otherwise.
LeaveResponse(isFailure, byServer) ==
  /\ writePc' = "done"
  /\ failed' = isFailure /\ serverReported' = byServer
  /\ stopSig' = IF ~isFailure THEN "dropped"
                ELSE IF byServer THEN "ServerReported" ELSE "Local"

RecvData ==
  /\ writePc = "select" /\ events # <<>> /\ Head(events) = "Data"
  /\ events' = Tail(events)
  /\ writePc' = "write"
  /\ UNCHANGED <<appVars, readVars, failed, serverReported, responseClosed,
                 uploadEnded, stopSig, relayPc, registered, dispatch, handoff,
                 serverVars>>

WriteAll ==
  /\ writePc = "write" /\ appUp # "rst" /\ downBuf < SockCap
  /\ downBuf' = downBuf + 1
  /\ writePc' = "select"
  /\ UNCHANGED <<appUp, upSent, upBuf, downEnd, appGot, appSaw, readVars,
                 failed, serverReported, responseClosed, uploadEnded, stopSig,
                 relayPc, dispatchVars, serverVars>>

WriteFails ==
  /\ writePc = "write" /\ appUp = "rst"
  /\ LeaveResponse(TRUE, FALSE)
  /\ UNCHANGED <<appVars, readVars, responseClosed, uploadEnded, relayPc,
                 dispatchVars, serverVars>>

\* Faulty variant: Close ends the relay in both directions.
RecvCloseEndsBoth ==
  /\ writePc = "select" /\ events # <<>> /\ Head(events) = "Close"
  /\ events' = Tail(events)
  /\ responseClosed' = TRUE
  /\ downEnd' = "fin"
  /\ LeaveResponse(FALSE, FALSE)
  /\ UNCHANGED <<appUp, upSent, upBuf, downBuf, appGot, appSaw, readVars,
                 uploadEnded, relayPc, registered, dispatch, handoff, serverVars>>

\* shutdown() sends the FIN; the loop goes on until the upload has ended too.
RecvClose ==
  /\ writePc = "select" /\ events # <<>> /\ Head(events) = "Close"
  /\ events' = Tail(events)
  /\ responseClosed' = TRUE
  /\ downEnd' = "fin"
  /\ IF uploadEnded THEN LeaveResponse(FALSE, FALSE)
     ELSE UNCHANGED <<writePc, failed, serverReported, stopSig>>
  /\ UNCHANGED <<appUp, upSent, upBuf, downBuf, appGot, appSaw, readVars,
                 uploadEnded, relayPc, registered, dispatch, handoff, serverVars>>

RecvError ==
  /\ writePc = "select" /\ events # <<>> /\ Head(events) = "Error"
  /\ events' = Tail(events)
  /\ LeaveResponse(TRUE, TRUE)
  /\ UNCHANGED <<appVars, readVars, responseClosed, uploadEnded, relayPc,
                 registered, dispatch, handoff, serverVars>>

\* recv() returned None: a session Reset, or the dispatcher dropped us.
RecvNone ==
  /\ writePc = "select" /\ events = <<>> /\ ~ChanOpen
  /\ LeaveResponse(TRUE, FALSE)
  /\ UNCHANGED <<appVars, readVars, responseClosed, uploadEnded, relayPc,
                 dispatchVars, serverVars>>

\* Faulty variant: the select is not biased toward the channel.
RecvUploadEndUnbiased ==
  /\ writePc = "select"
  /\ ~uploadEnded /\ upSig # "none"
  /\ uploadEnded' = TRUE
  /\ \/ upSig = "Failed" /\ LeaveResponse(TRUE, FALSE)
     \/ upSig = "Eof" /\ responseClosed /\ LeaveResponse(FALSE, FALSE)
     \/ /\ upSig = "Eof" /\ ~responseClosed
        /\ UNCHANGED <<writePc, failed, serverReported, stopSig>>
  /\ UNCHANGED <<appVars, readVars, responseClosed, relayPc, dispatchVars,
                 serverVars>>

\* The biased select reaches upload_rx only when no event is queued and the
\* channel is open.
RecvUploadEnd ==
  /\ writePc = "select" /\ events = <<>> /\ ChanOpen
  /\ ~uploadEnded /\ upSig # "none"
  /\ uploadEnded' = TRUE
  /\ \/ upSig = "Failed" /\ LeaveResponse(TRUE, FALSE)
     \/ upSig = "Eof" /\ responseClosed /\ LeaveResponse(FALSE, FALSE)
     \/ /\ upSig = "Eof" /\ ~responseClosed
        /\ UNCHANGED <<writePc, failed, serverReported, stopSig>>
  /\ UNCHANGED <<appVars, readVars, responseClosed, relayPc, dispatchVars,
                 serverVars>>

WriteHalf == \/ RecvData \/ WriteAll \/ WriteFails \/ RecvClose \/ RecvError
             \/ RecvNone \/ RecvUploadEnd

\* Both halves joined: unregister, then close the socket.  SO_LINGER 0 makes it
\* a reset when the response was truncated; without it close() sends FIN, or a
\* reset when it throws away bytes of the app that nobody read.
AbortiveNever  == FALSE      \* faulty: the socket is just dropped
Abortive == failed /\ ~responseClosed

Finish ==
  /\ relayPc = "running" /\ readPc = "done" /\ writePc = "done"
  /\ relayPc' = "finished"
  /\ registered' = FALSE
  /\ downEnd' = IF Abortive \/ upBuf > 0 THEN "rst" ELSE "fin"
  /\ UNCHANGED <<appUp, upSent, upBuf, downBuf, appGot, appSaw, readVars,
                 writeVars, events, dispatch, handoff, serverVars>>

-----------------------------------------------------------------------------
(* tunnel.rs: the SSE loop hands each event to dispatch_event and waits for  *)
(* it; an event for a conn_id that is not registered is dropped.             *)

Arrive(e) ==
  /\ dispatch = "idle"
  /\ dispatch' = IF registered THEN e ELSE "idle"
  /\ UNCHANGED <<appVars, readVars, writeVars, relayPc, registered, events,
                 handoff, srvUp, abortPost>>

ArriveData  == srv = "open" /\ srvSent < MaxDown /\ srvSent' = srvSent + 1
               /\ srv' = srv /\ Arrive("Data")
ArriveClose == srv = "open" /\ srv' = "closed" /\ srvSent' = srvSent
               /\ Arrive("Close")

\* The target or the upload failed; after Close only an upload that the server
\* has not finished writing to the target can still fail.
ArriveError == /\ srv = "open" \/ (srv = "closed" /\ srvUp # "done")
               /\ srv' = "failed" /\ srvSent' = srvSent
               /\ Arrive("Error")

\* Faulty variant: the channels survive a Reset.
ArriveResetKeepsChannels ==
  /\ dispatch = "idle" /\ srv # "gone"
  /\ srv' = "gone"
  /\ UNCHANGED <<appVars, readVars, writeVars, relayPc, registered, events,
                 dispatch, handoff, srvSent, srvUp, abortPost>>

\* A server that restarted announces a fresh session: every channel is dropped.
ArriveReset ==
  /\ dispatch = "idle" /\ srv # "gone"
  /\ srv' = "gone"
  /\ registered' = FALSE
  /\ UNCHANGED <<appVars, readVars, writeVars, relayPc, events, dispatch,
                 handoff, srvSent, srvUp, abortPost>>

\* The server wrote the last queued chunk and closed the target's write half.
ServerUploadDone ==
  /\ srvUp = "closing"
  /\ srvUp' = "done"
  /\ UNCHANGED <<appVars, readVars, writeVars, relayPc, dispatchVars, srv,
                 srvSent, abortPost>>

RxAlive == writePc # "done"
Full    == Len(events) = ChanCap

\* Faulty variant: the channel is not bounded.
DispatchPushUnbounded ==
  /\ dispatch # "idle" /\ RxAlive
  /\ events' = Append(events, dispatch)
  /\ dispatch' = "idle"
  /\ UNCHANGED <<appVars, readVars, writeVars, relayPc, registered, handoff,
                 serverVars>>

DispatchPush ==
  /\ dispatch # "idle" /\ RxAlive /\ ~Full
  /\ events' = Append(events, dispatch)
  /\ dispatch' = "idle"
  /\ UNCHANGED <<appVars, readVars, writeVars, relayPc, registered, handoff,
                 serverVars>>

DispatchGone ==
  /\ dispatch # "idle" /\ ~RxAlive
  /\ dispatch' = "idle"
  /\ UNCHANGED <<appVars, readVars, writeVars, relayPc, registered, events,
                 handoff, serverVars>>

\* Faulty variant: the dispatch loop itself waits for a stalled Close.
DispatchStallWaits ==
  /\ dispatch # "idle" /\ dispatch # "Close" /\ RxAlive /\ Full
  /\ dispatch' = "idle"
  /\ registered' = FALSE
  /\ UNCHANGED <<appVars, readVars, writeVars, relayPc, events, handoff,
                 serverVars>>

\* Faulty variant: only the stalled event is dropped, the connection goes on.
DispatchStallDropsEvent ==
  /\ dispatch # "idle" /\ RxAlive /\ Full
  /\ dispatch' = "idle"
  /\ handoff' = (handoff \/ dispatch = "Close")
  /\ UNCHANGED <<appVars, readVars, writeVars, relayPc, registered, events,
                 serverVars>>

\* DISPATCH_STALL_TIMEOUT: a stalled Close moves to a task of its own, anything
\* else drops the connection.
DispatchStall ==
  /\ dispatch # "idle" /\ RxAlive /\ Full
  /\ dispatch' = "idle"
  /\ IF dispatch = "Close" THEN handoff' = TRUE /\ registered' = registered
                           ELSE handoff' = handoff /\ registered' = FALSE
  /\ UNCHANGED <<appVars, readVars, writeVars, relayPc, events, serverVars>>

HandoffPush ==
  /\ handoff /\ RxAlive /\ ~Full
  /\ events' = Append(events, "Close")
  /\ handoff' = FALSE
  /\ UNCHANGED <<appVars, readVars, writeVars, relayPc, registered, dispatch,
                 serverVars>>

\* The receiver is gone, or CLOSE_HANDOFF_TIMEOUT passed on a full channel.
HandoffEnds ==
  /\ handoff /\ (~RxAlive \/ Full)
  /\ handoff' = FALSE
  /\ registered' = IF RxAlive THEN FALSE ELSE registered
  /\ UNCHANGED <<appVars, readVars, writeVars, relayPc, events, dispatch,
                 serverVars>>

Dispatcher == DispatchPush \/ DispatchGone \/ DispatchStall
Handoff    == HandoffPush \/ HandoffEnds
App        == AppSend \/ AppShutdown \/ AppReset \/ AppRead \/ AppReadEnd
Server     == \/ ArriveData \/ ArriveClose \/ ArriveError \/ ArriveReset
              \/ ServerUploadDone

Next == \/ App \/ ReadHalf \/ PostAbort \/ WriteHalf \/ Finish
        \/ Server \/ Dispatcher \/ Handoff

\* Every task of the client keeps being scheduled and its timers fire.  A POST
\* is not timed (tunnel.rs: "http_client has no global timeout"), and the app and
\* the server promise nothing.
Fairness == /\ WF_vars(ReadLoop) /\ WF_vars(WriteHalf) /\ WF_vars(Finish)
            /\ WF_vars(Dispatcher) /\ WF_vars(Handoff)

Spec     == Init /\ [][Next]_vars
FairSpec == Spec /\ Fairness

-----------------------------------------------------------------------------
(* Properties. *)

EventKinds == {"Data", "Close", "Error"}

\* Every variable stays in its range, and the channel within its capacity.
TypeOK ==
  /\ appUp \in {"open", "fin", "rst"}
  /\ upSent \in Nat /\ upBuf \in Nat /\ downBuf \in Nat /\ appGot \in Nat
  /\ downEnd \in {"open", "fin", "rst"}
  /\ appSaw \in {"none", "eof", "reset"}
  /\ readPc \in {"select", "post", "close", "done"}
  /\ outcome \in {"none", "Eof", "Failed", "StoppedByServer", "StoppedLocally"}
  /\ upSig \in {"none", "Eof", "Failed"}
  /\ writePc \in {"select", "write", "done"}
  /\ failed \in BOOLEAN /\ serverReported \in BOOLEAN
  /\ responseClosed \in BOOLEAN /\ uploadEnded \in BOOLEAN
  /\ stopSig \in {"none", "dropped", "ServerReported", "Local"}
  /\ relayPc \in {"running", "finished"}
  /\ registered \in BOOLEAN /\ handoff \in BOOLEAN
  /\ events \in Seq(EventKinds) /\ Len(events) <= ChanCap
  /\ dispatch \in EventKinds \cup {"idle"}
  /\ srv \in {"open", "closed", "failed", "gone"} /\ srvSent \in Nat
  /\ srvUp \in {"open", "closing", "done"}
  /\ abortPost \in {"none", "pending", "posted"}

\* The silent corruption the relay exists to avoid (relay.rs, the comment on
\* `failed`): an app whose reads end in a clean EOF has read every chunk the
\* server sent, and the server did end the response with Close.
CleanEofIsComplete ==
  appSaw = "eof" => appGot = srvSent /\ srv # "open" /\ responseClosed

\* A write half that leaves cleanly finds the read half already finished, so the
\* stop one-shot it drops never turns a good upload into an Abort.
CleanExitStopsNobody ==
  stopSig = "dropped" => readPc = "done" /\ outcome = "Eof"

\* The biased select drains the channel before it hears of the upload: a failure
\* of this client never resets a live app whose complete response, Close
\* included, was already queued.
QueuedResponseSurvives ==
  writePc = "done" /\ Abortive /\ ~serverReported /\ appUp # "rst" =>
    \A i \in DOMAIN events : events[i] # "Close"

\* A relay that ends on its own failure while the server still streams the
\* response has posted an Abort, unless the app had already half-closed.
AbandonedStreamIsAborted ==
  relayPc = "finished" /\ srv = "open" /\ outcome # "Eof" => abortPost # "none"

\* A failed connection is torn down: the stop signal reaches the read half and
\* both socket halves come back to be closed, unless a POST is never answered.
FailureTearsDown ==
  failed ~> relayPc = "finished" \/ readPc \in {"post", "close"}

\* A broken upload never parks the relay behind a terminal event that cannot
\* arrive; it waits at most for an app that has stopped reading.
BrokenUploadNotParked ==
  outcome = "Failed" ~>
    relayPc = "finished" \/ (writePc = "write" /\ downBuf = SockCap)

\* One connection cannot hold the tunnel's dispatch loop: every event it takes
\* is delivered, dropped or handed off.
DispatchReturns == dispatch # "idle" ~> dispatch = "idle"

\* Whatever ends the response, an app that keeps reading for as long as it holds
\* the connection learns of it, when every POST is answered or fails.
ReadingApp == WF_vars(Posting) /\ WF_vars(AppRead) /\ WF_vars(AppReadEnd)
AppLearnsTheEnd ==
  ReadingApp => (srv # "open" ~> appSaw # "none" \/ appUp = "rst")

\* What the app reads is the byte stream of the server's events, which is over when
\* the relay is handed Close.
Response == INSTANCE ByteStream WITH
              sent <- srvSent, closed <- responseClosed,
              rcvd <- [k \in 1..appGot |-> k], end <- appSaw
ResponseIsByteStream == Response!Spec

\* tests/relay_half_close.rs: "An app that *aborts* - as opposed to half-closing -
\* must release the target on the server": no relay ends while the server still
\* streams the response without an Abort on its way.
AbortReleasesTheTarget ==
  relayPc = "finished" /\ srv = "open" => abortPost # "none"
==============================================================================
