-------------------------------- MODULE Push ---------------------------------
(* tunnix push: transfer.rs push / push_session on the client, server.rs       *)
(* relay_push and the arms of handle_send it shares with a proxied connection, *)
(* with the blocking threads of archive.rs at both ends.                       *)
(*                                                                             *)
(* Chunk k of the archive is the number k.  An unpacker that is given anything *)
(* but the archive's chunks in order fails.  A Push that is served twice starts *)
(* two relays, of which the writer of the conn_id feeds the second.            *)
EXTENDS TransferLink, FiniteSets

CONSTANTS Chunks,  \* chunks of the archive
          MaxLate  \* bound: failed attempts that may still be served, at a time

\* What Sessions assumes of them.
PushAssumption == Chunks \in Nat \ {0} /\ MaxLate \in Nat

Relays == {1, 2}
None   == 0

VARIABLES
  (* the client *)
  client,     \* "announce", "stream", "close", "confirm", "done"
  attempt,    \* of the message being posted: "first", "second"
  posted,     \* chunks send_message returned Ok for
  comp,       \* the compressor: "run", "ok", "error"
  failed,     \* stream_result is an error
  result,     \* what push returns: "none", "ok", "error"
  (* the network *)
  late,       \* failed attempts that may still be served
  (* the server *)
  writer,     \* the relay whose unpacker tcp_writers feeds
  relay,      \* per relay: "absent", "wait", "eof", "outcome", "close", "done"
  unpack,     \* "run", "ok", "error"
  fed         \* chunks in the unpacker's channel

clientVars == <<client, attempt, posted, comp, failed, result>>
serverVars == <<writer, relay, unpack, fed>>
vars == <<linkVars, clientVars, late, serverVars>>

Init ==
  /\ LinkInit
  /\ client = "announce" /\ attempt = "first" /\ posted = 0
  /\ comp = "run" /\ failed = FALSE /\ result = "none"
  /\ late = {}
  /\ writer = None /\ relay = [t \in Relays |-> "absent"]
  /\ unpack = [t \in Relays |-> "run"] /\ fed = [t \in Relays |-> 0]

-----------------------------------------------------------------------------
(* handle_send. *)

Announcement == [kind |-> "Push", n |-> 0]

\* A chunk goes to the conn_id's writer, when it has one whose unpacker still
\* reads; either way it is answered 200.
ServeChunk(k) ==
  /\ fed' = IF writer # None /\ unpack[writer] = "run"
            THEN [fed EXCEPT ![writer] = Given(@, k, Chunks)] ELSE fed
  /\ UNCHANGED <<writer, relay, unpack>>

\* A second Push takes the writer from the first, whose unpacker reads EOF.
ServePush ==
  \E t \in Relays :
    /\ relay[t] = "absent" /\ \A u \in Relays : u < t => relay[u] # "absent"
    /\ relay' = [relay EXCEPT ![t] = "wait"]
    /\ writer' = t
    /\ UNCHANGED <<unpack, fed>>

ServeClose == writer' = None /\ UNCHANGED <<relay, unpack, fed>>

Serve(m) == /\ session
            /\ CASE m.kind = "Push"  -> ServePush
                 [] m.kind = "Close" -> ServeClose
                 [] m.kind = "Data"  -> ServeChunk(m.n)

\* An attempt that failed may be served all the same.
ServeLate ==
  /\ \E m \in late : Serve(m[1]) /\ late' = late \ {m}
  /\ UNCHANGED <<linkVars, clientVars>>

-----------------------------------------------------------------------------
(* The client. *)

Message == CASE client = "announce" -> Announcement
             [] client = "close"    -> Close
             [] OTHER               -> Data(posted + 1)

Posting == /\ alive
           /\ client \in {"announce", "close"} \/ (client = "stream" /\ posted < Chunks)

\* The process ends when push returns.
Returns(r) == client' = "done" /\ result' = r /\ Vanish

\* send_message: an answer, of the first or the second attempt.
PostOk ==
  /\ Posting /\ Serve(Message)
  /\ attempt' = "first"
  /\ CASE client = "announce" -> client' = "stream" /\ UNCHANGED <<linkVars, posted, result>>
       [] client = "stream"   -> posted' = posted + 1 /\ UNCHANGED <<linkVars, client, result>>
       [] client = "close"    ->
            /\ IF failed THEN Returns("error")
               ELSE client' = "confirm" /\ UNCHANGED <<linkVars, result>>
            /\ UNCHANGED posted
  /\ UNCHANGED <<comp, failed, late>>

Fails == \/ UNCHANGED late
         \/ Cardinality(late) < MaxLate /\ late' = late \cup {<<Message, attempt>>}

\* The first attempt fails, served or not or not yet; it is retried.
FirstFails ==
  /\ Posting /\ attempt = "first"
  /\ attempt' = "second"
  /\ Fails
  /\ UNCHANGED <<linkVars, client, posted, comp, failed, result, serverVars>>

\* The second fails too.  A failed Close is ignored.
SecondFails ==
  /\ Posting /\ attempt = "second"
  /\ attempt' = "first"
  /\ Fails
  /\ CASE client = "announce" -> Returns("error") /\ UNCHANGED failed
       [] client = "stream"   -> client' = "close" /\ failed' = TRUE /\ UNCHANGED <<linkVars, result>>
       [] client = "close"    ->
            /\ IF failed THEN Returns("error")
               ELSE client' = "confirm" /\ UNCHANGED <<linkVars, result>>
            /\ UNCHANGED failed
  /\ UNCHANGED <<posted, comp, serverVars>>

\* The ACK says that transfers are disabled.
Denied == /\ alive /\ client = "announce" /\ session /\ Returns("error")
          /\ UNCHANGED <<attempt, posted, comp, failed, late, serverVars>>

\* Between two chunks the client may see an Error, a Close or the end of the
\* events; an Exit is ignored.
StreamEvent ==
  /\ alive /\ client = "stream" /\ attempt = "first"
  /\ \/ /\ Receive(Error) \/ Receive(Close) \/ ReceiveNone
        /\ client' = "close" /\ failed' = TRUE
     \/ Receive(Exit0) /\ UNCHANGED <<client, failed>>
  /\ UNCHANGED <<attempt, posted, comp, result, late, serverVars>>

\* The compressor ends: with the archive, or with an error somewhere in it.
CompressEnds ==
  /\ alive /\ client = "stream" /\ attempt = "first"
  /\ \/ posted = Chunks /\ comp' = "ok"
     \/ comp' = "error"
  /\ client' = "close" /\ failed' = (comp' = "error")
  /\ UNCHANGED <<linkVars, attempt, posted, result, late, serverVars>>

\* The server's word, for which there is no timeout.
Confirm ==
  /\ alive /\ client = "confirm"
  /\ events # <<>> \/ ~registered
  /\ Returns(IF events # <<>> /\ Head(events) = Exit0 THEN "ok" ELSE "error")
  /\ UNCHANGED <<attempt, posted, comp, failed, late, serverVars>>

-----------------------------------------------------------------------------
(* The server. *)

Running(t) == relay[t] \notin {"absent", "done"}
Whole(t)   == fed[t] = Chunks

\* The blocking thread ends with the archive, with an error, or at the latest with
\* an EOF, once no writer feeds it.  Assumed of zstd and tar: a truncated archive is
\* an error.
Unpack(t) ==
  /\ Running(t) /\ unpack[t] = "run"
  /\ \E end \in {"ok", "error"} : /\ end = "ok" => Whole(t)
                                 /\ unpack' = [unpack EXCEPT ![t] = end]
  /\ UNCHANGED <<linkVars, clientVars, late, writer, relay, fed>>
UnpackEnds(t) == (Whole(t) \/ writer # t) /\ Unpack(t)

Moves(t, to) == relay' = [relay EXCEPT ![t] = to]

\* Mutant: a stream that is gone ends nothing.
WatchdogKeepsWriter(t) ==
  /\ relay[t] = "wait" /\ ~attached
  /\ Moves(t, "eof")
  /\ UNCHANGED <<linkVars, clientVars, late, writer, unpack, fed>>

\* The stream was closed for SSE_DEAD_GRACE: the writer is dropped, so that the
\* unpacker reads EOF.
Watchdog(t) ==
  /\ relay[t] = "wait" /\ ~attached
  /\ writer' = None
  /\ Moves(t, "eof")
  /\ UNCHANGED <<linkVars, clientVars, late, unpack, fed>>

\* The unpacker was waited for; the conn_id's writer goes, whosever it is.
Collect(t) ==
  /\ relay[t] \in {"wait", "eof"} /\ unpack[t] # "run"
  /\ writer' = None
  /\ Moves(t, "outcome")
  /\ UNCHANGED <<linkVars, clientVars, late, unpack, fed>>

\* Mutants: the unpacker's failure is lost, or is not told to the client.
SendOutcomeBlindly(t) ==
  /\ relay[t] = "outcome"
  /\ \/ Delivered(Exit0) /\ Moves(t, "close")
     \/ Undelivered /\ Moves(t, "done")
  /\ UNCHANGED <<clientVars, late, writer, unpack, fed>>
SendOutcomeSilently(t) ==
  /\ relay[t] = "outcome"
  /\ \/ unpack[t] = "ok" /\ Delivered(Exit0) /\ Moves(t, "close")
     \/ unpack[t] = "error" /\ UNCHANGED linkVars /\ Moves(t, "done")
     \/ Undelivered /\ Moves(t, "done")
  /\ UNCHANGED <<clientVars, late, writer, unpack, fed>>

\* ExitStatus(0), to be followed by Close, or an Error.
SendOutcome(t) ==
  /\ relay[t] = "outcome"
  /\ \/ unpack[t] = "ok" /\ Delivered(Exit0) /\ Moves(t, "close")
     \/ unpack[t] = "error" /\ Delivered(Error) /\ Moves(t, "done")
     \/ Undelivered /\ Moves(t, "done")
  /\ UNCHANGED <<clientVars, late, writer, unpack, fed>>

SendClose(t) ==
  /\ relay[t] = "close"
  /\ Delivered(Close) \/ Undelivered
  /\ Moves(t, "done")
  /\ UNCHANGED <<clientVars, late, writer, unpack, fed>>

Restart ==
  /\ Restarted
  /\ relay' = [t \in Relays |-> IF Running(t) THEN "done" ELSE relay[t]]
  /\ writer' = None
  /\ UNCHANGED <<clientVars, late, unpack, fed>>

\* Nothing of the process is left.
ClientEnds ==
  /\ Vanish
  /\ client' = "done" /\ attempt' = "first" /\ posted' = 0
  /\ comp' = "error" /\ failed' = TRUE /\ result' = "none"
  /\ UNCHANGED <<late, serverVars>>

Client == PostOk \/ FirstFails \/ SecondFails \/ Denied \/ StreamEvent \/ CompressEnds
          \/ Confirm
Relay(t) == Watchdog(t) \/ Collect(t) \/ SendOutcome(t) \/ SendClose(t)
Link == (Dispatch \/ Break \/ Reattach \/ ServerNotices)
        /\ UNCHANGED <<clientVars, late, serverVars>>

Next == Client \/ ServeLate \/ (\E t \in Relays : Relay(t) \/ Unpack(t)) \/ Link
        \/ ClientEnds \/ Restart

Spec == Init /\ [][Next]_vars

\* What goes on by itself: tasks and threads keep being scheduled, blocking I/O
\* ends, and a dead client's connection is noticed.  None of these steps can be
\* repeated for ever, so that one fairness condition gives each of them its turn.
Works == Client \/ (\E t \in Relays : Relay(t) \/ UnpackEnds(t))
         \/ ((Dispatch \/ Reattach \/ ServerNotices)
              /\ UNCHANGED <<clientVars, late, serverVars>>)

-----------------------------------------------------------------------------
(* Properties. *)

\* Every variable stays in its range.
TypeOK ==
  /\ LinkTypeOK
  /\ client \in {"announce", "stream", "close", "confirm", "done"}
  /\ attempt \in {"first", "second"} /\ posted \in 0..Chunks
  /\ comp \in {"run", "ok", "error"} /\ failed \in BOOLEAN
  /\ result \in {"none", "ok", "error"}
  /\ late \subseteq ({Announcement, Close} \cup {Data(k) : k \in 1..Chunks})
                   \X {"first", "second"}
  /\ writer \in Relays \cup {None}
  /\ relay \in [Relays -> {"absent", "wait", "eof", "outcome", "close", "done"}]
  /\ unpack \in [Relays -> {"run", "ok", "error"}]
  /\ fed \in [Relays -> 0..Chunks \cup {Spoilt}]

\* push reports success only when an unpacker was given the whole archive and has
\* written it, however often a message was served and whatever was lost.
OkMeansUnpacked == result = "ok" => \E t \in Relays : unpack[t] = "ok" /\ Whole(t)

\* relay_push: a client that dies mid-push does not leave the unpack "hanging":
\* no relay outlives its client.
Quiet == alive \/ \A t \in Relays : ~Running(t)

\* push has returned, unless an event was lost with its stream, or the relay was
\* left with a spoilt archive and without its Close: it then waits for more.
Returned == \/ client = "done" \/ breaks > 0
            \/ \E t \in Relays : Running(t) /\ ~Whole(t) /\ writer = t
==============================================================================
