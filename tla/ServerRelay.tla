----------------------------- MODULE ServerRelay -----------------------------
(****************************************************************************)
(* One proxied TCP connection on the server: server.rs relay_tcp_connection *)
(* (its read task and its write task), the arms of handle_send that act on  *)
(* it, the SSE stream they report through (handle_stream, send_to_client)   *)
(* and the watchdog await_sse_dead.                                         *)
(*                                                                          *)
(* The target and the client are the environment.  Data is counted: a chunk *)
(* is one read() of the target's socket or one posted Data message.         *)
(****************************************************************************)
EXTENDS Naturals, Sequences

CONSTANTS WriterCap,    \* the writer channel of a connection, 256 in handle_send
          SseCap,       \* the channel of a stream, 1024 in handle_stream
          SockCap,      \* chunks the kernel buffers from the relay to the target
          SendAttempts, \* server.rs SEND_ATTEMPTS
          DeadGrace,    \* server.rs SSE_DEAD_GRACE, in watchdog ticks
          MaxUp,        \* bound: Data messages the client posts
          MaxOut,       \* bound: chunks the target sends
          MaxOpens      \* bound: streams opened after the first one

ASSUME CapAssumption ==
  /\ WriterCap \in Nat \ {0} /\ SseCap \in Nat \ {0} /\ SockCap \in Nat \ {0}
ASSUME BudgetAssumption ==
  SendAttempts \in Nat \ {0} /\ DeadGrace \in Nat \ {0}
ASSUME BoundAssumption ==
  MaxUp \in Nat /\ MaxOut \in Nat /\ MaxOpens \in Nat

Tasks == {"read", "write"}

VARIABLES
  (* the target and its socket *)
  tgtSent,    \* chunks the target has sent
  tgtIn,      \* of those, the ones the relay has not read
  tgtEnd,     \* the target's side: "open", "fin" (output closed), "rst"
  tgtBuf,     \* chunks written to the target that it has not read
  tgtGot,     \* chunks the target has read
  finSent,    \* the write half is dropped: FIN follows tgtBuf
  (* the session's entries for this connection *)
  writer,     \* conn_id is in tcp_writers
  aborts,     \* conn_id is in aborts
  permit,     \* the permit stored in that Notify
  (* the client's messages *)
  posted,     \* Data messages posted
  posting,    \* a Data handler waits in tx.send with a clone of the writer
  discarded,  \* chunks answered 200 that no target will get
  closeHeard, abortHeard,
  (* the session's current SSE stream *)
  live,       \* its receiver exists
  sseQ,       \* messages of this connection in its channel
  opens,      \* streams opened since the connection was made
  (* relay_tcp_connection *)
  relay,      \* "none", "running", "done"
  writeQ,     \* chunks in the writer channel
  rPc,        \* the read task: "select", "send", "done"
  rWhy,       \* why it left its loop: "eof", "failed", "aborted", "gone"
  wPc,        \* the write task: "select", "write", "send", "done"
  wWhy,       \* why it ended: "closed", "failed", "dead"
  ticks,      \* closed_secs of each task's watchdog
  send,       \* the delivery each task is making
  (* what was delivered, for the properties *)
  sentData, closeSent, errorSent, undelivered

tgtVars    == <<tgtSent, tgtIn, tgtEnd, tgtBuf, tgtGot>>
clientVars == <<posted, closeHeard, abortHeard>>
streamVars == <<live, sseQ, opens>>
sentVars   == <<sentData, closeSent, errorSent, undelivered>>
vars == <<tgtVars, finSent, writer, aborts, permit, clientVars, posting,
          discarded, streamVars, relay, writeQ, rPc, rWhy, wPc, wWhy, ticks,
          send, sentVars>>

NoSend == [msg |-> "none", left |-> 0, tx |-> "none"]

Init ==
  /\ tgtSent = 0 /\ tgtIn = 0 /\ tgtEnd = "open" /\ tgtBuf = 0 /\ tgtGot = 0
  /\ finSent = FALSE
  /\ writer = FALSE /\ aborts = FALSE /\ permit = FALSE
  /\ posted = 0 /\ posting = FALSE /\ discarded = 0
  /\ closeHeard = FALSE /\ abortHeard = FALSE
  /\ live = TRUE /\ sseQ = <<>> /\ opens = 0
  /\ relay = "none" /\ writeQ = 0
  /\ rPc = "select" /\ rWhy = "none" /\ wPc = "select" /\ wWhy = "none"
  /\ ticks = [t \in Tasks |-> 0] /\ send = [t \in Tasks |-> NoSend]
  /\ sentData = 0 /\ closeSent = FALSE /\ errorSent = FALSE
  /\ undelivered = FALSE

-----------------------------------------------------------------------------
(* The target. *)

TgtSend ==
  /\ relay = "running" /\ tgtEnd = "open" /\ tgtSent < MaxOut
  /\ tgtSent' = tgtSent + 1 /\ tgtIn' = tgtIn + 1
  /\ UNCHANGED <<tgtEnd, tgtBuf, tgtGot, finSent, writer, aborts, permit,
                 clientVars, posting, discarded, streamVars, relay, writeQ,
                 rPc, rWhy, wPc, wWhy, ticks, send, sentVars>>

TgtFin ==
  /\ relay = "running" /\ tgtEnd = "open"
  /\ tgtEnd' = "fin"
  /\ UNCHANGED <<tgtSent, tgtIn, tgtBuf, tgtGot, finSent, writer, aborts,
                 permit, clientVars, posting, discarded, streamVars, relay,
                 writeQ, rPc, rWhy, wPc, wWhy, ticks, send, sentVars>>

\* The kernel may or may not still hand over what had arrived before.
TgtReset ==
  /\ relay = "running" /\ tgtEnd \in {"open", "fin"}
  /\ tgtEnd' = "rst"
  /\ tgtIn' \in {0, tgtIn}
  /\ UNCHANGED <<tgtSent, tgtBuf, tgtGot, finSent, writer, aborts, permit,
                 clientVars, posting, discarded, streamVars, relay, writeQ,
                 rPc, rWhy, wPc, wWhy, ticks, send, sentVars>>

TgtRead ==
  /\ tgtEnd # "rst" /\ tgtBuf > 0
  /\ tgtBuf' = tgtBuf - 1 /\ tgtGot' = tgtGot + 1
  /\ UNCHANGED <<tgtSent, tgtIn, tgtEnd, finSent, writer, aborts, permit,
                 clientVars, posting, discarded, streamVars, relay, writeQ,
                 rPc, rWhy, wPc, wWhy, ticks, send, sentVars>>

-----------------------------------------------------------------------------
(* handle_send: the messages of the client, one connection's worth.  The      *)
(* client posts one Data at a time, and a Close or an Abort as its last word. *)

\* TcpStream::connect succeeded; a refused Connect leaves no state behind.
Connect ==
  /\ relay = "none"
  /\ relay' = "running"
  /\ writer' = TRUE /\ aborts' = TRUE
  /\ UNCHANGED <<tgtVars, finSent, permit, clientVars, posting, discarded,
                 streamVars, writeQ, rPc, rWhy, wPc, wWhy, ticks, send,
                 sentVars>>

\* The writer is cloned under the lock and awaited outside it.  No writer: the
\* chunk is dropped and answered 200.
PostData ==
  /\ relay # "none" /\ ~posting /\ posted < MaxUp
  /\ ~closeHeard /\ ~abortHeard
  /\ posted' = posted + 1
  /\ posting' = writer
  /\ discarded' = IF writer THEN discarded ELSE discarded + 1
  /\ UNCHANGED <<tgtVars, finSent, writer, aborts, permit, closeHeard,
                 abortHeard, streamVars, relay, writeQ, rPc, rWhy, wPc, wWhy,
                 ticks, send, sentVars>>

\* Faulty variant: the channel is not bounded.
DataQueuedUnbounded ==
  /\ posting /\ wPc # "done"
  /\ posting' = FALSE
  /\ writeQ' = writeQ + 1
  /\ UNCHANGED <<tgtVars, finSent, writer, aborts, permit, clientVars,
                 discarded, streamVars, relay, rPc, rWhy, wPc, wWhy, ticks,
                 send, sentVars>>

DataQueued ==
  /\ posting /\ wPc # "done" /\ writeQ < WriterCap
  /\ posting' = FALSE
  /\ writeQ' = writeQ + 1
  /\ UNCHANGED <<tgtVars, finSent, writer, aborts, permit, clientVars,
                 discarded, streamVars, relay, rPc, rWhy, wPc, wWhy, ticks,
                 send, sentVars>>

\* The write task is gone: tx.send fails, and the answer is 200 all the same.
DataRefused ==
  /\ posting /\ wPc = "done"
  /\ posting' = FALSE
  /\ discarded' = discarded + 1
  /\ UNCHANGED <<tgtVars, finSent, writer, aborts, permit, clientVars,
                 streamVars, relay, writeQ, rPc, rWhy, wPc, wWhy, ticks, send,
                 sentVars>>

\* Faulty variant: Close leaves the writer registered.
PostCloseKeepsWriter ==
  /\ relay # "none" /\ ~posting /\ ~closeHeard /\ ~abortHeard
  /\ closeHeard' = TRUE
  /\ UNCHANGED <<tgtVars, finSent, writer, aborts, permit, posted, abortHeard,
                 posting, discarded, streamVars, relay, writeQ, rPc, rWhy, wPc,
                 wWhy, ticks, send, sentVars>>

PostClose ==
  /\ relay # "none" /\ ~posting /\ ~closeHeard /\ ~abortHeard
  /\ closeHeard' = TRUE
  /\ writer' = FALSE
  /\ UNCHANGED <<tgtVars, finSent, aborts, permit, posted, abortHeard, posting,
                 discarded, streamVars, relay, writeQ, rPc, rWhy, wPc, wWhy,
                 ticks, send, sentVars>>

\* Faulty variant: an Abort handled as a Close.
PostAbortHalfCloses ==
  /\ relay # "none" /\ ~closeHeard /\ ~abortHeard
  /\ abortHeard' = TRUE
  /\ writer' = FALSE
  /\ UNCHANGED <<tgtVars, finSent, aborts, permit, posted, closeHeard, posting,
                 discarded, streamVars, relay, writeQ, rPc, rWhy, wPc, wWhy,
                 ticks, send, sentVars>>

PostAbort ==
  /\ relay # "none" /\ ~closeHeard /\ ~abortHeard
  /\ abortHeard' = TRUE
  /\ writer' = FALSE
  /\ aborts' = FALSE
  /\ permit' = (permit \/ aborts)
  /\ UNCHANGED <<tgtVars, finSent, posted, closeHeard, posting, discarded,
                 streamVars, relay, writeQ, rPc, rWhy, wPc, wWhy, ticks, send,
                 sentVars>>

-----------------------------------------------------------------------------
(* handle_stream and the client's end of the stream. *)

\* A GET replaces sse_tx; what the old channel held never reaches the client,
\* and a delivery in progress goes on with the sender it had fetched.
StreamOpen ==
  /\ opens < MaxOpens
  /\ opens' = opens + 1
  /\ live' = TRUE /\ sseQ' = <<>>
  /\ send' = [t \in Tasks |->
                IF send[t].tx = "current"
                THEN [send[t] EXCEPT !.tx = IF live THEN "old" ELSE "closed"]
                ELSE send[t]]
  /\ UNCHANGED <<tgtVars, finSent, writer, aborts, permit, clientVars, posting,
                 discarded, relay, writeQ, rPc, rWhy, wPc, wWhy, ticks,
                 sentVars>>

\* The client disconnected and the server noticed.
StreamDrop ==
  /\ live
  /\ live' = FALSE /\ sseQ' = <<>>
  /\ UNCHANGED <<tgtVars, finSent, writer, aborts, permit, clientVars, posting,
                 discarded, opens, relay, writeQ, rPc, rWhy, wPc, wWhy, ticks,
                 send, sentVars>>

StreamTake ==
  /\ live /\ sseQ # <<>>
  /\ sseQ' = Tail(sseQ)
  /\ UNCHANGED <<tgtVars, finSent, writer, aborts, permit, clientVars, posting,
                 discarded, live, opens, relay, writeQ, rPc, rWhy, wPc, wWhy,
                 ticks, send, sentVars>>

-----------------------------------------------------------------------------
(* send_to_client_with_attempts: each attempt fetches the current sender under *)
(* the lock, then sends on it for a bounded time outside the lock.             *)

Delivery(msg, attempts) == [msg |-> msg, left |-> attempts, tx |-> "none"]

FetchSender(t) ==
  /\ send[t].msg # "none" /\ send[t].tx = "none"
  /\ send' = [send EXCEPT ![t].tx = "current"]
  /\ UNCHANGED <<tgtVars, finSent, writer, aborts, permit, clientVars, posting,
                 discarded, streamVars, relay, writeQ, rPc, rWhy, wPc, wWhy,
                 ticks, sentVars>>

\* The write task is over: its write half and its receiver are dropped.
EndWrite(why) ==
  /\ wPc' = "done" /\ wWhy' = why
  /\ finSent' = TRUE
  /\ discarded' = discarded + writeQ /\ writeQ' = 0

\* What the caller does with a delivery that returned true.
Resume(t) ==
  /\ send' = [send EXCEPT ![t] = NoSend]
  /\ UNCHANGED <<writer, rWhy>>
  /\ IF t = "read"
     THEN /\ rPc' = IF send[t].msg = "Data" THEN "select" ELSE "done"
          /\ UNCHANGED <<finSent, discarded, writeQ, wPc, wWhy>>
     ELSE EndWrite("failed") /\ UNCHANGED rPc

\* The message is in a channel, which is all that Ok means: "old" is the channel
\* of a stream that was replaced.
Delivered(t) ==
  /\ \/ /\ send[t].tx = "current" /\ live /\ Len(sseQ) < SseCap
        /\ sseQ' = Append(sseQ, send[t].msg)
     \/ /\ send[t].tx = "old"
        /\ UNCHANGED sseQ
  /\ sentData'  = IF send[t].msg = "Data" THEN sentData + 1 ELSE sentData
  /\ closeSent' = (closeSent \/ send[t].msg = "Close")
  /\ errorSent' = (errorSent \/ send[t].msg = "Error")
  /\ Resume(t)
  /\ UNCHANGED <<tgtVars, aborts, permit, clientVars, posting, live, opens,
                 relay, ticks, undelivered>>

AttemptFails(t) ==
  \/ send[t].tx = "current" /\ (~live \/ Len(sseQ) = SseCap)
  \/ send[t].tx \in {"old", "closed"}

\* Faulty variant: an attempt that did queue its message is made again.
RetryQueued(t) ==
  /\ AttemptFails(t) /\ send[t].left > 1
  /\ send' = [send EXCEPT ![t].left = @ - 1, ![t].tx = "none"]
  /\ sentData' = IF send[t].msg = "Data" THEN sentData + 1 ELSE sentData
  /\ UNCHANGED <<tgtVars, finSent, writer, aborts, permit, clientVars, posting,
                 discarded, streamVars, relay, writeQ, rPc, rWhy, wPc, wWhy,
                 ticks, closeSent, errorSent, undelivered>>

Retry(t) ==
  /\ AttemptFails(t) /\ send[t].left > 1
  /\ send' = [send EXCEPT ![t].left = @ - 1, ![t].tx = "none"]
  /\ UNCHANGED <<tgtVars, finSent, writer, aborts, permit, clientVars, posting,
                 discarded, streamVars, relay, writeQ, rPc, rWhy, wPc, wWhy,
                 ticks, sentVars>>

\* An undelivered chunk ends the relay with one attempt at an Error; an
\* undelivered terminal message of the read task releases the writer.
GiveUp(t) ==
  /\ AttemptFails(t) /\ send[t].left = 1
  /\ undelivered' = TRUE
  /\ IF t = "read"
     THEN /\ writer' = FALSE
          /\ IF send[t].msg = "Data"
             THEN /\ rWhy' = "gone"
                  /\ send' = [send EXCEPT ![t] = Delivery("Error", 1)]
                  /\ UNCHANGED rPc
             ELSE /\ rPc' = "done"
                  /\ send' = [send EXCEPT ![t] = NoSend]
                  /\ UNCHANGED rWhy
          /\ UNCHANGED <<finSent, discarded, writeQ, wPc, wWhy>>
     ELSE /\ EndWrite("failed")
          /\ send' = [send EXCEPT ![t] = NoSend]
          /\ UNCHANGED <<writer, rPc, rWhy>>
  /\ UNCHANGED <<tgtVars, aborts, permit, clientVars, posting, streamVars,
                 relay, ticks, sentData, closeSent, errorSent>>

-----------------------------------------------------------------------------
(* The read task.  Its select is not biased. *)

ReadReady == relay = "running" /\ rPc = "select"

\* Leaving the loop for a reason the client is told about.
Report(why, msg, attempts) ==
  /\ rWhy' = why
  /\ rPc' = "send"
  /\ send' = [send EXCEPT !["read"] = Delivery(msg, attempts)]

ReadChunk ==
  /\ ReadReady /\ tgtIn > 0
  /\ tgtIn' = tgtIn - 1
  /\ Report(rWhy, "Data", SendAttempts)
  /\ UNCHANGED <<tgtSent, tgtEnd, tgtBuf, tgtGot, finSent, writer, aborts,
                 permit, clientVars, posting, discarded, streamVars, relay,
                 writeQ, wPc, wWhy, ticks, sentVars>>

\* Faulty variant: the end of the target's output ends the upload too.
ReadEofDropsWriter ==
  /\ ReadReady /\ tgtIn = 0 /\ tgtEnd = "fin"
  /\ writer' = FALSE
  /\ Report("eof", "Close", SendAttempts)
  /\ UNCHANGED <<tgtVars, finSent, aborts, permit, clientVars, posting,
                 discarded, streamVars, relay, writeQ, wPc, wWhy, ticks,
                 sentVars>>

\* The target closed its output: the writer stays for the client's upload.
ReadEof ==
  /\ ReadReady /\ tgtIn = 0 /\ tgtEnd = "fin"
  /\ Report("eof", "Close", SendAttempts)
  /\ UNCHANGED <<tgtVars, finSent, writer, aborts, permit, clientVars, posting,
                 discarded, streamVars, relay, writeQ, wPc, wWhy, ticks,
                 sentVars>>

\* Faulty variant: a target that failed is reported as one that finished.
ReadErrorAsClose ==
  /\ ReadReady /\ tgtIn = 0 /\ tgtEnd = "rst"
  /\ writer' = FALSE
  /\ Report("failed", "Close", SendAttempts)
  /\ UNCHANGED <<tgtVars, finSent, aborts, permit, clientVars, posting,
                 discarded, streamVars, relay, writeQ, wPc, wWhy, ticks,
                 sentVars>>

ReadError ==
  /\ ReadReady /\ tgtIn = 0 /\ tgtEnd = "rst"
  /\ writer' = FALSE
  /\ Report("failed", "Error", SendAttempts)
  /\ UNCHANGED <<tgtVars, finSent, aborts, permit, clientVars, posting,
                 discarded, streamVars, relay, writeQ, wPc, wWhy, ticks,
                 sentVars>>

ReadAborted ==
  /\ ReadReady /\ permit
  /\ permit' = FALSE
  /\ writer' = FALSE
  /\ rWhy' = "aborted" /\ rPc' = "done"
  /\ UNCHANGED <<tgtVars, finSent, aborts, clientVars, posting, discarded,
                 streamVars, relay, writeQ, wPc, wWhy, ticks, send, sentVars>>

\* await_sse_dead counts the ticks that find the stream closed, and forgets
\* them at one that finds it live.  It is polled only while its task selects.
ReadTickLive ==
  /\ ReadReady /\ live /\ ticks["read"] > 0
  /\ ticks' = [ticks EXCEPT !["read"] = 0]
  /\ UNCHANGED <<tgtVars, finSent, writer, aborts, permit, clientVars, posting,
                 discarded, streamVars, relay, writeQ, rPc, rWhy, wPc, wWhy,
                 send, sentVars>>

ReadTick ==
  /\ ReadReady /\ ~live /\ ticks["read"] + 1 < DeadGrace
  /\ ticks' = [ticks EXCEPT !["read"] = @ + 1]
  /\ UNCHANGED <<tgtVars, finSent, writer, aborts, permit, clientVars, posting,
                 discarded, streamVars, relay, writeQ, rPc, rWhy, wPc, wWhy,
                 send, sentVars>>

ReadDead ==
  /\ ReadReady /\ ~live /\ ticks["read"] + 1 = DeadGrace
  /\ writer' = FALSE
  /\ Report("gone", "Error", 1)
  /\ UNCHANGED <<tgtVars, finSent, aborts, permit, clientVars, posting,
                 discarded, streamVars, relay, writeQ, wPc, wWhy, ticks,
                 sentVars>>

-----------------------------------------------------------------------------
(* The write task. *)

WriteReady == relay = "running" /\ wPc = "select"

RecvChunk ==
  /\ WriteReady /\ writeQ > 0
  /\ writeQ' = writeQ - 1
  /\ wPc' = "write"
  /\ UNCHANGED <<tgtVars, finSent, writer, aborts, permit, clientVars, posting,
                 discarded, streamVars, relay, rPc, rWhy, wWhy, ticks, send,
                 sentVars>>

\* Faulty variant: the task ends when its writer is removed, queue or no queue.
RecvNoneEarly ==
  /\ WriteReady /\ ~writer
  /\ EndWrite("closed")
  /\ UNCHANGED <<tgtVars, writer, aborts, permit, clientVars, posting,
                 streamVars, relay, rPc, rWhy, ticks, send, sentVars>>

\* recv() is None only once the channel is drained and every sender dropped.
RecvNone ==
  /\ WriteReady /\ writeQ = 0 /\ ~writer /\ ~posting
  /\ EndWrite("closed")
  /\ UNCHANGED <<tgtVars, writer, aborts, permit, clientVars, posting,
                 streamVars, relay, rPc, rWhy, ticks, send, sentVars>>

WriteAll ==
  /\ wPc = "write" /\ tgtEnd # "rst" /\ tgtBuf < SockCap
  /\ tgtBuf' = tgtBuf + 1
  /\ wPc' = "select"
  /\ UNCHANGED <<tgtSent, tgtIn, tgtEnd, tgtGot, finSent, writer, aborts,
                 permit, clientVars, posting, discarded, streamVars, relay,
                 writeQ, rPc, rWhy, wWhy, ticks, send, sentVars>>

\* Faulty variant: a broken upload is not reported.
WriteFailsQuietly ==
  /\ wPc = "write" /\ tgtEnd = "rst"
  /\ wPc' = "done" /\ wWhy' = "failed" /\ finSent' = TRUE
  /\ writer' = FALSE
  /\ discarded' = discarded + writeQ + 1 /\ writeQ' = 0
  /\ UNCHANGED <<tgtVars, aborts, permit, clientVars, posting, streamVars,
                 relay, rPc, rWhy, ticks, send, sentVars>>

WriteFails ==
  /\ wPc = "write" /\ tgtEnd = "rst"
  /\ writer' = FALSE
  /\ wPc' = "send"
  /\ discarded' = discarded + 1
  /\ send' = [send EXCEPT !["write"] = Delivery("Error", SendAttempts)]
  /\ UNCHANGED <<tgtVars, finSent, aborts, permit, clientVars, posting,
                 streamVars, relay, writeQ, rPc, rWhy, wWhy, ticks, sentVars>>

WatchWriteNever == FALSE     \* faulty: this task has no watchdog

\* The watchdog of this task starts when the read task is gone.
WatchWrite == WriteReady /\ rPc = "done"

WriteTickLive ==
  /\ WatchWrite /\ live /\ ticks["write"] > 0
  /\ ticks' = [ticks EXCEPT !["write"] = 0]
  /\ UNCHANGED <<tgtVars, finSent, writer, aborts, permit, clientVars, posting,
                 discarded, streamVars, relay, writeQ, rPc, rWhy, wPc, wWhy,
                 send, sentVars>>

WriteTick ==
  /\ WatchWrite /\ ~live /\ ticks["write"] + 1 < DeadGrace
  /\ ticks' = [ticks EXCEPT !["write"] = @ + 1]
  /\ UNCHANGED <<tgtVars, finSent, writer, aborts, permit, clientVars, posting,
                 discarded, streamVars, relay, writeQ, rPc, rWhy, wPc, wWhy,
                 send, sentVars>>

WriteDead ==
  /\ WatchWrite /\ ~live /\ ticks["write"] + 1 = DeadGrace
  /\ EndWrite("dead")
  /\ UNCHANGED <<tgtVars, writer, aborts, permit, clientVars, posting,
                 streamVars, relay, rPc, rWhy, ticks, send, sentVars>>

\* Both tasks joined: the session forgets the connection.
Finish ==
  /\ relay = "running" /\ rPc = "done" /\ wPc = "done"
  /\ relay' = "done"
  /\ writer' = FALSE /\ aborts' = FALSE
  /\ UNCHANGED <<tgtVars, finSent, permit, clientVars, posting, discarded,
                 streamVars, writeQ, rPc, rWhy, wPc, wWhy, ticks, send,
                 sentVars>>

-----------------------------------------------------------------------------
Target  == TgtSend \/ TgtFin \/ TgtReset \/ TgtRead
Client  == \/ Connect \/ PostData \/ PostClose \/ PostAbort
           \/ StreamOpen \/ StreamDrop \/ StreamTake
Handler == DataQueued \/ DataRefused
Sending(t) == FetchSender(t) \/ Delivered(t) \/ Retry(t) \/ GiveUp(t)
FromTarget == ReadChunk \/ ReadEof \/ ReadError
ReadWatch  == ReadTick \/ ReadTickLive \/ ReadDead
ToTarget   == RecvChunk \/ RecvNone \/ WriteAll \/ WriteFails
WriteWatch == WriteTick \/ WriteTickLive \/ WriteDead

Next == \/ Target \/ Client \/ Handler \/ Finish
        \/ (\E t \in Tasks : Sending(t))
        \/ FromTarget \/ ReadAborted \/ ReadWatch \/ ToTarget \/ WriteWatch

\* Every handler and task keeps being scheduled and every timer fires.  tokio's
\* select! picks at random among the branches that are ready, so a branch that
\* is ready again and again is taken: SF for the Notify, whose permit waits.
Fairness ==
  /\ WF_vars(Handler) /\ WF_vars(Finish)
  /\ \A t \in Tasks : WF_vars(Sending(t))
  /\ WF_vars(FromTarget) /\ SF_vars(ReadAborted) /\ WF_vars(ReadWatch)
  /\ WF_vars(ToTarget) /\ WF_vars(WriteWatch)

Spec     == Init /\ [][Next]_vars
FairSpec == Spec /\ Fairness

\* A target that reads what it is sent, or resets.
ReadingTargetSpec == FairSpec /\ WF_vars(TgtRead)

-----------------------------------------------------------------------------
(* Properties. *)

Messages == {"Data", "Close", "Error"}

\* Every variable stays in its range, every channel within its capacity.
TypeOK ==
  /\ tgtSent \in Nat /\ tgtIn \in Nat /\ tgtBuf \in Nat /\ tgtGot \in Nat
  /\ tgtEnd \in {"open", "fin", "rst"} /\ finSent \in BOOLEAN
  /\ writer \in BOOLEAN /\ aborts \in BOOLEAN /\ permit \in BOOLEAN
  /\ posted \in Nat /\ posting \in BOOLEAN /\ discarded \in Nat
  /\ closeHeard \in BOOLEAN /\ abortHeard \in BOOLEAN
  /\ live \in BOOLEAN /\ opens \in Nat
  /\ sseQ \in Seq(Messages) /\ Len(sseQ) <= SseCap
  /\ relay \in {"none", "running", "done"}
  /\ writeQ \in 0..WriterCap
  /\ rPc \in {"select", "send", "done"}
  /\ rWhy \in {"none", "eof", "failed", "aborted", "gone"}
  /\ wPc \in {"select", "write", "send", "done"}
  /\ wWhy \in {"none", "closed", "failed", "dead"}
  /\ ticks \in [Tasks -> 0..DeadGrace]
  /\ send \in [Tasks -> [msg : Messages \cup {"none"}, left : 0..SendAttempts,
                         tx : {"none", "current", "old", "closed"}]]
  /\ sentData \in Nat /\ closeSent \in BOOLEAN /\ errorSent \in BOOLEAN
  /\ undelivered \in BOOLEAN

\* The target closing its output does not cost the client its upload: a chunk is
\* answered 200 and thrown away only once the target failed or the client could
\* not be reached.
HalfCloseKeepsUpload ==
  discarded > 0 => \/ rWhy \in {"failed", "gone"}
                   \/ wPc = "send" \/ wWhy \in {"failed", "dead"}
                   \/ undelivered

\* A target that is not told of a failure reads, before the FIN, every chunk the
\* client posted, and the client had said Close.
FinIsEarned ==
  finSent /\ wWhy = "closed" /\ ~abortHeard /\ ~undelivered
          /\ rWhy \notin {"failed", "gone"} =>
    closeHeard /\ tgtBuf + tgtGot = posted

\* Upload bytes thrown away by the read task's teardown or by a failed write
\* are reported: the client was sent an Error, or could not be reached.
DiscardIsReported ==
  relay = "done" /\ discarded > 0 /\ wWhy # "dead" =>
    errorSent \/ undelivered

\* Abort releases a target that reads what it is sent.
AbortReleases == abortHeard ~> relay = "done"

\* A client that vanished for good releases it too.
VanishedReleases == (<>[](~live)) => <>[](relay # "running")

\* When both directions have ended the connection is released, whether or not
\* the client can be told.
BothEndsRelease == closeHeard /\ tgtEnd # "open" ~> relay = "done"

\* What the client is sent is the byte stream of the target, as far as the relay goes
\* on, whichever streams it goes over.  Close is its end: "Close means everything
\* arrived", so it follows the last chunk of a target that ended its output cleanly.
Response == INSTANCE ByteStream WITH
              sent <- tgtSent, closed <- rWhy = "eof",
              rcvd <- [k \in 1..sentData |-> k],
              end  <- IF closeSent THEN "eof" ELSE "none"
ResponseIsByteStream == Response!Spec
==============================================================================
