-------------------------------- MODULE Pull ---------------------------------
(* tunnix pull: transfer.rs pull / pull_session on the client, server.rs       *)
(* relay_pull, with the blocking threads of archive.rs at both ends.           *)
(*                                                                             *)
(* Chunk k of the archive is the number k.  An unpacker that is given a chunk  *)
(* out of order fails.  A Pull that is posted twice, when its first answer is  *)
(* lost, starts two relays.  The process ends when pull returns.               *)
EXTENDS TransferLink

CONSTANTS Chunks,   \* chunks of the archive
          ChunkCap  \* CHANNEL_CAP of the compressor's channel

\* What Sessions assumes of them.
PullAssumption == Chunks \in Nat \ {0} /\ ChunkCap \in Nat \ {0}

Relays == {1, 2}

VARIABLES
  (* the client *)
  client,     \* "first", "second" (announcing), "receive", "close", "join", "done"
  failed,     \* transfer_err
  fed,        \* chunks given to the unpacker
  unpack,     \* "run", "ok", "error"
  result,     \* what pull returns: "none", "ok", "error"
  (* the server, per relay *)
  relay,      \* "absent", "stream", "gone", "close", "done"
  comp,       \* the compressor: "run", "ok", "error"
  made, taken

clientVars == <<client, failed, fed, unpack, result>>
serverVars == <<relay, comp, made, taken>>
vars == <<linkVars, clientVars, serverVars>>

Init ==
  /\ LinkInit
  /\ client = "first" /\ failed = FALSE
  /\ fed = 0 /\ unpack = "run" /\ result = "none"
  /\ relay = [t \in Relays |-> "absent"] /\ comp = [t \in Relays |-> "run"]
  /\ made = [t \in Relays |-> 0] /\ taken = [t \in Relays |-> 0]

-----------------------------------------------------------------------------
(* The client. *)

\* handle_send: the relay is spawned before the answer is sent.
Spawned(t) == /\ relay[t] = "absent" /\ relay' = [relay EXCEPT ![t] = "stream"]
              /\ UNCHANGED <<comp, made, taken>>

Returns(r) == client' = "done" /\ result' = r /\ Vanish

Announce(t, again, served, answered) ==
  /\ alive
  /\ IF served THEN session /\ Spawned(t) ELSE UNCHANGED serverVars
  /\ IF served /\ answered
     THEN client' = "receive" /\ UNCHANGED <<linkVars, result>>
     ELSE IF again THEN client' = "second" /\ UNCHANGED <<linkVars, result>>
     ELSE Returns("error")
  /\ UNCHANGED <<failed, fed, unpack>>

\* send_connect: denied, answered, or failed and posted once more.
Denied == /\ alive /\ client \in {"first", "second"} /\ Returns("error")
          /\ UNCHANGED <<failed, fed, unpack, serverVars>>
FirstPost  == /\ client = "first"
              /\ \E s, a \in BOOLEAN : Announce(1, TRUE, s, a)
SecondPost == /\ client = "second"
              /\ \E s, a \in BOOLEAN : Announce(2, FALSE, s, a)

\* chunk_tx.send: fails once the unpacker has ended.
Feed ==
  /\ alive /\ client = "receive"
  /\ \E k \in 1..Chunks : Receive(Data(k)) /\
       IF unpack = "run"
       THEN fed' = Given(fed, k, Chunks) /\ UNCHANGED client
       ELSE client' = "close" /\ UNCHANGED fed
  /\ UNCHANGED <<failed, unpack, result, serverVars>>

Confirm ==
  /\ alive /\ client = "receive" /\ Receive(Exit0)
  /\ client' = "close"
  /\ UNCHANGED <<failed, fed, unpack, result, serverVars>>

\* Close, Error, or the end of the events.
Fail ==
  /\ alive /\ client = "receive"
  /\ Receive(Close) \/ Receive(Error) \/ ReceiveNone
  /\ client' = "close" /\ failed' = TRUE
  /\ UNCHANGED <<fed, unpack, result, serverVars>>

\* Its result is ignored.  On the server it removes a writer that Pull never
\* registered.
PostClose ==
  /\ alive /\ client = "close"
  /\ client' = "join"
  /\ UNCHANGED <<linkVars, failed, fed, unpack, result, relay, comp, made, taken>>

Whole == fed = Chunks

Join ==
  /\ alive /\ client = "join" /\ unpack # "run"
  /\ Returns(IF failed \/ unpack = "error" THEN "error" ELSE "ok")
  /\ UNCHANGED <<failed, fed, unpack, serverVars>>

\* The unpacker ends with the archive, on an error, or at the end of its input,
\* where a part of the archive may pass for one ("truncated-but-parseable").
AtEof == client \in {"close", "join"}
Unpack ==
  /\ alive /\ unpack = "run"
  /\ \/ (Whole \/ (AtEof /\ fed # Spoilt)) /\ unpack' = "ok"
     \/ unpack' = "error"
  /\ UNCHANGED <<linkVars, client, failed, fed, result, serverVars>>

-----------------------------------------------------------------------------
(* The server. *)

Running(t) == relay[t] \notin {"absent", "done"}

\* Mutant: the receiver is kept while the compressor is waited for.
HoldsWhileGone(t) == relay[t] \in {"stream", "gone"}

\* The receiver of the compressor's channel is dropped when the client is gone.
Holds(t) == relay[t] = "stream"

\* The blocking thread: blocking_send waits for room, and fails once the receiver
\* is gone.
Compress(t) ==
  /\ Running(t) /\ comp[t] = "run"
  /\ \/ /\ Holds(t) /\ made[t] < Chunks /\ made[t] - taken[t] < ChunkCap
        /\ made' = [made EXCEPT ![t] = @ + 1] /\ UNCHANGED comp
     \/ /\ made[t] = Chunks
        /\ comp' = [comp EXCEPT ![t] = "ok"] /\ UNCHANGED made
     \/ /\ ~Holds(t) \/ made[t] - taken[t] < ChunkCap
        /\ comp' = [comp EXCEPT ![t] = "error"] /\ UNCHANGED made
  /\ UNCHANGED <<linkVars, clientVars, relay, taken>>

Moves(t, to) == relay' = [relay EXCEPT ![t] = to] /\ UNCHANGED <<comp, made, taken>>

\* The relay ends; nothing is kept of it.
Ends(t) == /\ relay' = [relay EXCEPT ![t] = "done"]
           /\ comp' = [comp EXCEPT ![t] = "run"]
           /\ made' = [made EXCEPT ![t] = 0] /\ taken' = [taken EXCEPT ![t] = 0]

StreamChunk(t) ==
  /\ relay[t] = "stream" /\ taken[t] < made[t]
  /\ taken' = [taken EXCEPT ![t] = @ + 1]
  /\ \/ Delivered(Data(taken[t] + 1)) /\ UNCHANGED <<relay, comp, made>>
     \/ Undelivered /\ relay' = [relay EXCEPT ![t] = "gone"] /\ UNCHANGED <<comp, made>>
  /\ UNCHANGED clientVars

\* The compressor is waited for.
ClientGone(t) ==
  /\ relay[t] = "gone" /\ comp[t] # "run"
  /\ Ends(t)
  /\ UNCHANGED <<linkVars, clientVars>>

\* Mutant: the end of the channel is taken for the end of the archive.
SendOutcomeBlindly(t) ==
  /\ relay[t] = "stream" /\ taken[t] = made[t] /\ comp[t] # "run"
  /\ \/ Delivered(Exit0) /\ Moves(t, "close")
     \/ Undelivered /\ Ends(t)
  /\ UNCHANGED clientVars

\* Mutant: a compressor that failed ends the relay without a word.
SendOutcomeSilently(t) ==
  /\ relay[t] = "stream" /\ taken[t] = made[t] /\ comp[t] # "run"
  /\ \/ comp[t] = "ok" /\ Delivered(Exit0) /\ Moves(t, "close")
     \/ comp[t] = "error" /\ UNCHANGED linkVars /\ Ends(t)
     \/ Undelivered /\ Ends(t)
  /\ UNCHANGED clientVars

\* The channel has ended and the compressor was waited for: ExitStatus(0), to be
\* followed by Close, or an Error.
SendOutcome(t) ==
  /\ relay[t] = "stream" /\ taken[t] = made[t] /\ comp[t] # "run"
  /\ \/ comp[t] = "ok" /\ Delivered(Exit0) /\ Moves(t, "close")
     \/ comp[t] = "error" /\ Delivered(Error) /\ Ends(t)
     \/ Undelivered /\ Ends(t)
  /\ UNCHANGED clientVars

SendClose(t) ==
  /\ relay[t] = "close"
  /\ Delivered(Close) \/ Undelivered
  /\ Ends(t)
  /\ UNCHANGED clientVars

Restart ==
  /\ Restarted
  /\ relay' = [t \in Relays |-> IF Running(t) THEN "done" ELSE relay[t]]
  /\ comp' = [t \in Relays |-> "run"]
  /\ made' = [t \in Relays |-> 0] /\ taken' = [t \in Relays |-> 0]
  /\ UNCHANGED clientVars

\* Nothing of the process is left.
ClientEnds ==
  /\ Vanish
  /\ client' = "done" /\ failed' = FALSE
  /\ fed' = 0 /\ unpack' = "error" /\ result' = "none"
  /\ UNCHANGED serverVars

Client == FirstPost \/ SecondPost \/ Denied \/ Feed \/ Confirm \/ Fail
          \/ PostClose \/ Join
Relay(t) == Compress(t) \/ StreamChunk(t) \/ ClientGone(t) \/ SendOutcome(t) \/ SendClose(t)
Link == (Dispatch \/ Break \/ Reattach \/ ServerNotices)
        /\ UNCHANGED <<clientVars, serverVars>>

Next == Client \/ Unpack \/ (\E t \in Relays : Relay(t)) \/ Link
        \/ ClientEnds \/ Restart

Spec == Init /\ [][Next]_vars

\* What goes on by itself: tasks and threads keep being scheduled, blocking I/O
\* ends, and a dead client's connection is noticed.  None of these steps can be
\* repeated for ever, so that one fairness condition gives each of them its turn.
Works == Client \/ Unpack \/ (\E t \in Relays : Relay(t))
         \/ ((Dispatch \/ Reattach \/ ServerNotices) /\ UNCHANGED <<clientVars, serverVars>>)

-----------------------------------------------------------------------------
(* Properties. *)

\* Every variable stays in its range.
TypeOK ==
  /\ LinkTypeOK
  /\ client \in {"first", "second", "receive", "close", "join", "done"}
  /\ failed \in BOOLEAN
  /\ fed \in 0..Chunks \cup {Spoilt}
  /\ unpack \in {"run", "ok", "error"} /\ result \in {"none", "ok", "error"}
  /\ relay \in [Relays -> {"absent", "stream", "gone", "close", "done"}]
  /\ comp \in [Relays -> {"run", "ok", "error"}]
  /\ made \in [Relays -> 0..Chunks] /\ taken \in [Relays -> 0..Chunks]
  /\ \A t \in Relays : taken[t] <= made[t]

\* pull_session: "a truncated-but-parseable archive isn't reported as complete":
\* pull reports success only for the whole archive, however many relays feed it and
\* wherever one of them fails, as long as no event is lost with its stream.
OkMeansWhole == result = "ok" /\ breaks = 0 => Whole

\* server.rs, relay_pull: the compressor does not park "forever on the bounded
\* channel (which would hang comp_handle.await and leak the thread)": whatever
\* becomes of the client, a relay ends.
Quiet == \A t \in Relays : ~Running(t)

\* pull has returned, unless an event was lost with its stream.
Returned == client = "done" \/ breaks > 0
==============================================================================
