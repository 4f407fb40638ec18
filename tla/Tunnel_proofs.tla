---------------------------- MODULE Tunnel_proofs ----------------------------
(****************************************************************************)
(* Safety of the tunnel for any number of chunks, streams and restarts, and *)
(* that each direction implements ByteStream.                               *)
(*                                                                          *)
(* The invariants the runs check are not inductive.  What makes them so:    *)
(*   Calls     - how far send_message is with which message;                *)
(*   Lives     - what a server that was replaced can no longer do;          *)
(*   Order     - what is still on the stream follows what was dispatched;   *)
(*   Whole     - where every chunk of the response is, while no stream ends *)
(*               with events in it;                                         *)
(*   Kept      - what was queued of what was answered;                      *)
(*   Announced - a writer that was dropped is, or will be, noticed;         *)
(*   Once      - where every chunk of the upload is, while the client knows *)
(*               the outcome of every request.                              *)
(****************************************************************************)
EXTENDS Tunnel, Integers, SequenceTheorems, TLAPS

\* A call is about the message after the last that was acknowledged, and Close
\* comes behind all chunks.
Calls ==
  /\ acked <= posted
  /\ finished => acked = posted
  /\ ~finished /\ post # "idle" => acked + 1 = posted
  /\ post = "idle" /\ conn = "open" => acked = posted
  /\ \A r \in reqs \cup served : r[1] <= Message
  /\ writer = "closed" => finished

\* A new server has no relay for the connection, and says nothing but Reset.
Lives ==
  /\ restarts > 0 => /\ writer # "kept" /\ writing = "over"
                     /\ reading \in {"closed", "over"}
  /\ restarts = 0 => session
  /\ \A i \in DOMAIN pipe : pipe[i] = Reset <=> restarts > 0

\* Chunks leave the server, and the stream, in order.
Order ==
  /\ DownInOrder
  /\ \A i \in DOMAIN rcvd : rcvd[i] <= out
  /\ \A i \in DOMAIN pipe : pipe[i].kind = "Data" =>
       /\ pipe[i].n <= out
       /\ \A j \in DOMAIN rcvd : rcvd[j] < pipe[i].n
       /\ \A j \in DOMAIN pipe : j < i /\ pipe[j].kind = "Data" => pipe[j].n < pipe[i].n

\* Chunks sent and not dispatched.
Missing == out - Len(rcvd)

\* No Error comes on the stream before this place, or at it.
Clear(i) == \A j \in 1..i : pipe[j] # Error

Whole ==
  ~LossyStream =>
    /\ \A i \in DOMAIN rcvd : rcvd[i] = i
    /\ stream = "down" => pipe = <<>>
    /\ closed => reading = "closed" /\ Len(rcvd) = out
    /\ restarts = 0 /\ conn = "open" /\ ~closed =>
         /\ \A i \in DOMAIN pipe : Clear(i) =>
              \/ i <= Missing /\ pipe[i] = Data(Len(rcvd) + i)
              \/ i = Missing + 1 /\ pipe[i] = Close /\ reading = "closed"
         /\ Clear(Len(pipe)) =>
              Len(pipe) = IF reading = "closed" THEN Missing + 1 ELSE Missing

\* Until the writer is dropped, what was answered was queued; from then on nothing
\* is, so that what was lost is lost with all that follows.
Kept ==
  /\ \A n \in Elems(upGot) : n <= posted
  /\ writer # "dropped" => /\ \A r \in served : r[1] <= posted => r[1] \in Elems(upGot)
                           /\ \A n \in 1..acked : n \in Elems(upGot)
  /\ \A n \in 1..acked : n \in Elems(upGot) \/ \A m \in n..posted : m \notin Elems(upGot)

Announced ==
  writer = "dropped" /\ ~LossyStream =>
    \/ conn # "open"
    \/ "failing" \in {reading, writing} \/ Error \in Elems(pipe)
    \/ ~session \/ Reset \in Elems(pipe)
    \/ "mute" \in {reading, writing}

\* With every outcome known, at most one attempt is on its way, and none once it
\* was given up.
Once ==
  ~LossyPost =>
    /\ post \in {"idle", "wait"} => reqs = {}
    /\ \A r \in reqs : r = Current /\ r \notin served
    /\ post \in {"first", "wait"} => Attempt(2) \notin served
    /\ writer = "kept" =>
         /\ ~finished /\ post \in {"first", "second"} =>
              Len(upGot) = IF Current \in served THEN posted ELSE posted - 1
         /\ ~finished /\ post = "wait" => Len(upGot) = posted - 1
         /\ finished \/ (post = "idle" /\ conn = "open") => Len(upGot) = posted

IInv == TypeOK /\ Calls /\ Lives /\ Order /\ Whole /\ Kept /\ Announced /\ Once
-----------------------------------------------------------------------------
\* A stream, or what was received of it, with one more.
LEMMA Appended ==
  ASSUME NEW S, NEW q \in Seq(S), NEW e \in S
  PROVE  /\ Append(q, e) \in Seq(S) /\ Len(Append(q, e)) = Len(q) + 1
         /\ Append(q, e)[Len(q) + 1] = e /\ \A i \in 1..Len(q) : Append(q, e)[i] = q[i]
         /\ DOMAIN q = 1..Len(q) /\ DOMAIN Append(q, e) = 1..(Len(q) + 1)
  OBVIOUS

\* The stream after its first event is taken.
LEMMA Taken ==
  ASSUME NEW S, NEW q \in Seq(S), q # <<>>
  PROVE  /\ Head(q) \in S /\ Tail(q) \in Seq(S) /\ Len(Tail(q)) = Len(q) - 1 /\ Len(q) \in Nat \ {0}
         /\ Head(q) = q[1] /\ \A i \in 1..(Len(q) - 1) : Tail(q)[i] = q[i + 1]
         /\ DOMAIN q = 1..Len(q) /\ DOMAIN Tail(q) = 1..(Len(q) - 1)
  OBVIOUS

\* The stream of a session that was created, and of one that was found.
LEMMA Alone == ASSUME NEW S, NEW e \in S PROVE <<e>> \in Seq(S) /\ <<>> \in Seq(S)
  OBVIOUS

\* Where and what the elements of a sequence are.
LEMMA Elements ==
  ASSUME NEW S, NEW q \in Seq(S)
  PROVE  Len(q) \in Nat /\ DOMAIN q = 1..Len(q) /\ \A i \in 1..Len(q) : q[i] \in S
  OBVIOUS

\* The elements of a sequence with one more.
LEMMA OneMore ==
  ASSUME NEW S, NEW q \in Seq(S), NEW e \in S
  PROVE  Elems(Append(q, e)) = Elems(q) \cup {e}
<1>1. /\ DOMAIN q = 1..Len(q) /\ DOMAIN Append(q, e) = 1..(Len(q) + 1) /\ Len(q) \in Nat
      /\ Append(q, e)[Len(q) + 1] = e /\ \A i \in 1..Len(q) : Append(q, e)[i] = q[i]
  BY Appended, Elements
<1>. QED
  BY <1>1 DEF Elems

\* The elements of what is left of a stream: all but the first may have been.
LEMMA OneLess ==
  ASSUME NEW S, NEW q \in Seq(S), q # <<>>
  PROVE  \A e \in Elems(q) : e = Head(q) \/ e \in Elems(Tail(q))
<1>1. /\ Head(q) = q[1] /\ \A i \in 1..(Len(q) - 1) : Tail(q)[i] = q[i + 1]
      /\ DOMAIN q = 1..Len(q) /\ DOMAIN Tail(q) = 1..(Len(q) - 1) /\ Len(q) \in Nat
  BY Taken
<1>2. ASSUME NEW i \in 1..Len(q), i # 1 PROVE i - 1 \in DOMAIN Tail(q) /\ Tail(q)[i - 1] = q[i]
  BY <1>1, <1>2
<1>3. ASSUME NEW i \in 1..Len(q), i # 1 PROVE q[i] \in Elems(Tail(q))
  BY <1>2, <1>3, Zenon DEF Elems
<1>. QED
  BY <1>1, <1>3 DEF Elems

\* The four kinds of events differ.
LEMMA Kinds ==
  /\ \A k : Data(k).kind = "Data" /\ Data(k).n = k
  /\ \A k : Data(k) # Reset /\ Data(k) # Close /\ Data(k) # Error
  /\ \A k \in 1..MaxDown : Data(k) \in Events
  /\ Close \in Events /\ Error \in Events /\ Reset \in Events
  /\ Reset # Close /\ Reset # Error /\ Close # Error
  /\ Close.kind = "Close" /\ Error.kind = "Error" /\ Reset.kind = "Reset"
  /\ \A e \in Events : \/ e.kind = "Data" /\ e.n \in 1..MaxDown /\ e = Data(e.n)
                       \/ e = Close \/ e = Error \/ e = Reset
  BY DEF Data, Close, Error, Reset, Events

\* What an event hands the relay.
LEMMA Dispatched ==
  Dispatch /\ TypeOK =>
    /\ stream = "up" /\ pipe # <<>> /\ pipe' = Tail(pipe) /\ Head(pipe) \in Events
    /\ Head(pipe).kind = "Data" /\ conn = "open" => rcvd' = Append(rcvd, Head(pipe).n)
    /\ ~(Head(pipe).kind = "Data" /\ conn = "open") => rcvd' = rcvd
    /\ closed' \in BOOLEAN
    /\ closed' <=> (closed \/ (Head(pipe) = Close /\ conn = "open"))
    /\ conn = "open" /\ Head(pipe) = Error => conn' = "reported"
    /\ conn = "open" /\ Head(pipe) = Reset => conn' = "failed"
    /\ conn # "open" \/ Head(pipe).kind = "Data" \/ Head(pipe) = Close => conn' = conn
    /\ UNCHANGED <<stream, signal, callVars, serverVars, reqs, served, reopens, restarts, lossy>>
<1> SUFFICES ASSUME Dispatch, TypeOK PROVE Dispatched!2
  OBVIOUS
<1>1. pipe # <<>> /\ Head(pipe) \in Events
  BY Taken DEF Dispatch, TypeOK
<1>2. Head(pipe).kind = "Data" \/ Head(pipe) = Close \/ Head(pipe) = Error \/ Head(pipe) = Reset
  BY <1>1, Kinds
<1>3. closed' \in BOOLEAN
  BY Zenon DEF Dispatch
<1>. QED
  BY <1>1, <1>2, <1>3, Kinds DEF Dispatch

\* What the network may do is fixed.
LEMMA SameNetwork == [Next]_vars => lossy' = lossy
  BY DEF Next, vars, clientVars, serverVars, netVars, callVars, relayVars, SendData, SendClose,
     GiveUp, CloseFails, WriteFails, WriteWatchdog, ReadError, WriteError, ServeAbort,
     TakeAbort, Dispatch, Finish, StreamBreaks, ForcedReconnect, ServerNotices, Reopen,
     Restart, Post, PostClose, PostOk, PostFails, RetryPost, Serve, Tells, Sends

\* Every step keeps the types.
LEMMA TypeStep == TypeOK /\ Calls /\ [Next]_vars => TypeOK'
<1> SUFFICES ASSUME TypeOK, Calls, [Next]_vars PROVE TypeOK'
  OBVIOUS
<1> USE BoundAssumption DEF TypeOK, clientVars, serverVars, netVars, callVars, relayVars
<1>e. Close \in Events /\ Error \in Events /\ Reset \in Events /\ \A k \in 1..MaxDown : Data(k) \in Events
  BY Kinds
<1>1. CASE SendData
  <2>1. out + 1 \in 1..MaxDown
    BY <1>1 DEF SendData
  <2>2. pipe' \in Seq(Events)
    BY <1>1, <1>e, <2>1, Appended DEF SendData, Sends
  <2>. QED
    BY <1>1, <2>1, <2>2 DEF SendData
<1>2. CASE SendClose
  <2>1. pipe' \in Seq(Events)
    BY <1>2, <1>e, Appended DEF SendClose, Sends
  <2>. QED
    BY <1>2, <2>1 DEF SendClose
<1>3. CASE GiveUp
  BY <1>3 DEF GiveUp, Released, Reads
<1>4. CASE CloseFails
  BY <1>4 DEF CloseFails, Released, Reads
<1>5. CASE WriteFails
  BY <1>5 DEF WriteFails, Released
<1>6. CASE WriteWatchdog
  BY <1>6 DEF WriteWatchdog
<1>7. CASE ReadError
  <2>1. pipe' = Append(pipe, Error) \/ pipe' = pipe
    BY <1>7 DEF ReadError, Tells, Sends
  <2>2. pipe' \in Seq(Events)
    <3>1. CASE pipe' = Append(pipe, Error)
      BY <1>e, <3>1, Appended
    <3>2. CASE pipe' = pipe
      BY <3>2
    <3>. QED
      BY <2>1, <3>1, <3>2
  <2>. QED
    BY <1>7, <2>2 DEF ReadError, Tells
<1>8. CASE WriteError
  <2>1. pipe' = Append(pipe, Error) \/ pipe' = pipe
    BY <1>8 DEF WriteError, Tells, Sends
  <2>2. pipe' \in Seq(Events)
    <3>1. CASE pipe' = Append(pipe, Error)
      BY <1>e, <3>1, Appended
    <3>2. CASE pipe' = pipe
      BY <3>2
    <3>. QED
      BY <2>1, <3>1, <3>2
  <2>. QED
    BY <1>8, <2>2 DEF WriteError, Tells
<1>9. CASE ServeAbort
  BY <1>9 DEF ServeAbort, Released
<1>10. CASE TakeAbort
  BY <1>10 DEF TakeAbort
<1>11. CASE Dispatch
  <2>1. Head(pipe) \in Events /\ pipe' \in Seq(Events)
    BY <1>11, Taken DEF Dispatch
  <2>2. Head(pipe).kind = "Data" => Head(pipe).n \in 1..MaxDown
    BY <2>1, Kinds
  <2>3. rcvd' \in Seq(1..MaxDown)
    BY <1>11, <2>2, Appended DEF Dispatch
  <2>4. closed' \in BOOLEAN
    BY <1>11, Zenon DEF Dispatch
  <2>5. conn' \in {"open", "failed", "reported", "done"}
    BY <1>11 DEF Dispatch
  <2>6. UNCHANGED <<stream, signal, callVars, serverVars, reqs, served, reopens, restarts, lossy>>
    BY <1>11 DEF Dispatch
  <2>. QED
    BY <2>1, <2>3, <2>4, <2>5, <2>6
<1>12. CASE Finish
  BY <1>12 DEF Finish
<1>13. CASE StreamBreaks
  BY <1>13 DEF StreamBreaks
<1>14. CASE ForcedReconnect
  <2>1. /\ stream' = "down" /\ signal' = FALSE
        /\ UNCHANGED <<conn, closed, rcvd, callVars, serverVars, netVars>>
    BY <1>14 DEF ForcedReconnect
  <2>2. signal' \in BOOLEAN
    BY <2>1, Zenon
  <2>. QED
    BY <2>1, <2>2
<1>15. CASE ServerNotices
  <2>1. attached' \in BOOLEAN
    BY <1>15, Zenon DEF ServerNotices
  <2>. QED
    BY <1>15, <2>1 DEF ServerNotices
<1>16. CASE Reopen
  <2>1. pipe' \in Seq(Events)
    BY <1>16, <1>e, Alone DEF Reopen
  <2>2. reopens' \in 0..MaxReopens
    BY <1>16 DEF Reopen
  <2>3. session' \in BOOLEAN /\ attached' \in BOOLEAN /\ signal' \in BOOLEAN /\ stream' \in {"up", "down"}
    BY <1>16, Zenon DEF Reopen
  <2>4. UNCHANGED <<conn, closed, rcvd, callVars, out, upGot, relayVars, reqs, served, restarts,
                    lossy>>
    BY <1>16 DEF Reopen
  <2>. QED
    BY <2>1, <2>2, <2>3, <2>4
<1>17. CASE Restart
  <2>1. pipe' \in Seq(Events) /\ restarts' \in 0..MaxRestarts
    BY <1>17 DEF Restart
  <2>. QED
    BY <1>17, <2>1 DEF Restart, Released
<1>18. CASE Post
  BY <1>18 DEF Post, Calls, Attempts, Attempt, Message, Current
<1>19. CASE PostClose
  BY <1>19 DEF PostClose, Calls, Attempts, Attempt, Message, Current
<1>20. CASE PostOk
  BY <1>20 DEF PostOk, Calls, Attempts, Attempt, Message, Current
<1>21. CASE PostFails
  <2>1. conn' \in {conn, "failed"} /\ post' \in {"wait", "idle"} /\ reqs' \subseteq reqs
    BY <1>21 DEF PostFails
  <2>2. signal' \in BOOLEAN
    BY <1>21, Zenon DEF PostFails
  <2>3. UNCHANGED <<closed, finished, stream, posted, acked, rcvd, serverVars, pipe, served,
                    reopens, restarts, lossy>>
    BY <1>21 DEF PostFails
  <2>. QED
    BY <2>1, <2>2, <2>3
<1>22. CASE RetryPost
  BY <1>22 DEF RetryPost, Calls, Attempts, Attempt, Message, Current
<1>23. ASSUME NEW r \in reqs, Serve(r) PROVE TypeOK'
  <2>1. r \in Attempts /\ r[1] \in Nat \ {0}
    BY DEF Attempts
  <2>2. upGot' \in Seq(1..MaxUp)
    <3>1. r[1] <= posted => r[1] \in 1..MaxUp
      BY <2>1
    <3>. QED
      BY <1>23, <3>1, Appended DEF Serve
  <2>. QED
    BY <1>23, <2>1, <2>2 DEF Serve
<1>24. CASE UNCHANGED vars
  BY <1>24 DEF vars
<1>. QED
  BY <1>1, <1>2, <1>3, <1>4, <1>5, <1>6, <1>7, <1>8, <1>9, <1>10, <1>11, <1>12, <1>13,
     <1>14, <1>15, <1>16, <1>17, <1>18, <1>19, <1>20, <1>21, <1>22, <1>23, <1>24 DEF Next

\* send_message takes one message after the other.
LEMMA CallsStep == TypeOK /\ Calls /\ [Next]_vars => Calls'
<1> SUFFICES ASSUME TypeOK, Calls, [Next]_vars PROVE Calls'
  OBVIOUS
<1> USE DEF TypeOK, Calls, Attempt, Message, Current, clientVars, serverVars, netVars, callVars,
        relayVars
<1>1. CASE SendData
  BY <1>1 DEF SendData, Sends, Reads
<1>2. CASE SendClose
  BY <1>2 DEF SendClose, Sends, Reads
<1>3. CASE GiveUp
  BY <1>3 DEF GiveUp, Released, Reads
<1>4. CASE CloseFails
  BY <1>4 DEF CloseFails, Released, Reads
<1>5. CASE WriteFails
  BY <1>5 DEF WriteFails, Released
<1>6. CASE WriteWatchdog
  BY <1>6 DEF WriteWatchdog
<1>7. CASE ReadError
  BY <1>7 DEF ReadError, Tells, Sends
<1>8. CASE WriteError
  BY <1>8 DEF WriteError, Tells, Sends
<1>9. CASE ServeAbort
  BY <1>9 DEF ServeAbort, Released
<1>10. CASE TakeAbort
  BY <1>10 DEF TakeAbort
<1>11. CASE Dispatch
  BY <1>11 DEF Dispatch
<1>12. CASE Finish
  BY <1>12 DEF Finish
<1>13. CASE StreamBreaks
  BY <1>13 DEF StreamBreaks
<1>14. CASE ForcedReconnect
  BY <1>14 DEF ForcedReconnect
<1>15. CASE ServerNotices
  BY <1>15 DEF ServerNotices
<1>16. CASE Reopen
  BY <1>16 DEF Reopen
<1>17. CASE Restart
  BY <1>17 DEF Restart, Released
<1>18. CASE Post
  BY <1>18 DEF Post, Attempts
<1>19. CASE PostClose
  BY <1>19 DEF PostClose, Attempts
<1>20. CASE PostOk
  BY <1>20 DEF PostOk
<1>21. CASE PostFails
  BY <1>21 DEF PostFails
<1>22. CASE RetryPost
  BY <1>22 DEF RetryPost
<1>23. ASSUME NEW r \in reqs, Serve(r) PROVE Calls'
  BY <1>23 DEF Serve, Attempts
<1>24. CASE UNCHANGED vars
  BY <1>24 DEF vars
<1>. QED
  BY <1>1, <1>2, <1>3, <1>4, <1>5, <1>6, <1>7, <1>8, <1>9, <1>10, <1>11, <1>12, <1>13,
     <1>14, <1>15, <1>16, <1>17, <1>18, <1>19, <1>20, <1>21, <1>22, <1>23, <1>24 DEF Next

\* Only the server the connection was made with has a relay for it.
LEMMA LivesStep == TypeOK /\ Lives /\ [Next]_vars => Lives'
<1> SUFFICES ASSUME TypeOK, Lives, [Next]_vars PROVE Lives'
  OBVIOUS
<1> USE DEF TypeOK, Lives, clientVars, serverVars, netVars, callVars, relayVars
<1>1. CASE SendData
  <2>1. /\ pipe' = Append(pipe, Data(out + 1)) /\ Data(out + 1) # Reset /\ restarts = 0
        /\ UNCHANGED <<restarts, session>>
    BY <1>1, Kinds, BoundAssumption DEF SendData, Sends, Reads
  <2>d. Data(out + 1) \in Events
    <3>1. out + 1 \in 1..MaxDown
      BY <1>1, BoundAssumption DEF SendData
    <3>. QED
      BY <3>1, Kinds
  <2>2. /\ DOMAIN pipe' = 1..(Len(pipe) + 1) /\ pipe'[Len(pipe) + 1] = Data(out + 1)
        /\ DOMAIN pipe = 1..Len(pipe) /\ \A i \in 1..Len(pipe) : pipe'[i] = pipe[i]
    BY <2>1, <2>d, Appended
  <2>. QED
    BY <2>1, <2>2
<1>2. CASE SendClose
  <2>1. /\ pipe' = Append(pipe, Close) /\ Close \in Events /\ Close # Reset /\ restarts = 0
        /\ UNCHANGED <<restarts, session>>
    BY <1>2, Kinds, BoundAssumption DEF SendClose, Sends, Reads
  <2>2. /\ DOMAIN pipe' = 1..(Len(pipe) + 1) /\ pipe'[Len(pipe) + 1] = Close
        /\ DOMAIN pipe = 1..Len(pipe) /\ \A i \in 1..Len(pipe) : pipe'[i] = pipe[i]
    BY <2>1, Appended
  <2>. QED
    BY <2>1, <2>2
<1>3. CASE GiveUp
  BY <1>3 DEF GiveUp, Released, Reads
<1>4. CASE CloseFails
  BY <1>4 DEF CloseFails, Released, Reads
<1>5. CASE WriteFails
  BY <1>5 DEF WriteFails, Released
<1>6. CASE WriteWatchdog
  BY <1>6 DEF WriteWatchdog
<1>7. CASE ReadError
  <2>1. restarts = 0 /\ UNCHANGED <<restarts, session>> /\ (pipe' = Append(pipe, Error) \/ pipe' = pipe)
    BY <1>7 DEF ReadError, Tells, Sends
  <2>2. CASE pipe' = Append(pipe, Error)
    <3>1. /\ DOMAIN pipe' = 1..(Len(pipe) + 1) /\ pipe'[Len(pipe) + 1] = Error
          /\ DOMAIN pipe = 1..Len(pipe) /\ \A i \in 1..Len(pipe) : pipe'[i] = pipe[i]
      BY <2>2, Kinds, Appended
    <3>. QED
      BY <2>1, <3>1, Kinds
  <2>. QED
    BY <2>1, <2>2
<1>8. CASE WriteError
  <2>1. restarts = 0 /\ UNCHANGED <<restarts, session>> /\ (pipe' = Append(pipe, Error) \/ pipe' = pipe)
    BY <1>8 DEF WriteError, Tells, Sends
  <2>2. CASE pipe' = Append(pipe, Error)
    <3>1. /\ DOMAIN pipe' = 1..(Len(pipe) + 1) /\ pipe'[Len(pipe) + 1] = Error
          /\ DOMAIN pipe = 1..Len(pipe) /\ \A i \in 1..Len(pipe) : pipe'[i] = pipe[i]
      BY <2>2, Kinds, Appended
    <3>. QED
      BY <2>1, <3>1, Kinds
  <2>. QED
    BY <2>1, <2>2
<1>9. CASE ServeAbort
  BY <1>9 DEF ServeAbort, Released
<1>10. CASE TakeAbort
  BY <1>10 DEF TakeAbort
<1>11. CASE Dispatch
  <2>1. pipe # <<>> /\ pipe' = Tail(pipe) /\ UNCHANGED <<restarts, session, writer, writing, reading>>
    BY <1>11 DEF Dispatch
  <2>2. /\ DOMAIN pipe' = 1..(Len(pipe) - 1) /\ DOMAIN pipe = 1..Len(pipe) /\ Len(pipe) \in Nat
        /\ \A i \in 1..(Len(pipe) - 1) : pipe'[i] = pipe[i + 1]
    BY <2>1, Taken
  <2>3. \A i \in DOMAIN pipe' : i + 1 \in DOMAIN pipe /\ pipe'[i] = pipe[i + 1]
    BY <2>2
  <2>. QED
    BY <2>1, <2>3
<1>12. CASE Finish
  BY <1>12 DEF Finish
<1>13. CASE StreamBreaks
  BY <1>13 DEF StreamBreaks
<1>14. CASE ForcedReconnect
  BY <1>14 DEF ForcedReconnect
<1>15. CASE ServerNotices
  BY <1>15 DEF ServerNotices
<1>16. CASE Reopen
  <2>1. /\ UNCHANGED <<restarts, writer, writing, reading>> /\ session'
        /\ pipe' = IF session THEN <<>> ELSE <<Reset>>
    BY <1>16 DEF Reopen
  <2>. QED
    BY <2>1
<1>17. CASE Restart
  BY <1>17 DEF Restart, Released
<1>18. CASE Post
  BY <1>18 DEF Post
<1>19. CASE PostClose
  BY <1>19 DEF PostClose
<1>20. CASE PostOk
  BY <1>20 DEF PostOk
<1>21. CASE PostFails
  BY <1>21 DEF PostFails
<1>22. CASE RetryPost
  BY <1>22 DEF RetryPost
<1>23. ASSUME NEW r \in reqs, Serve(r) PROVE Lives'
  BY <1>23 DEF Serve
<1>24. CASE UNCHANGED vars
  BY <1>24 DEF vars
<1>. QED
  BY <1>1, <1>2, <1>3, <1>4, <1>5, <1>6, <1>7, <1>8, <1>9, <1>10, <1>11, <1>12, <1>13,
     <1>14, <1>15, <1>16, <1>17, <1>18, <1>19, <1>20, <1>21, <1>22, <1>23, <1>24 DEF Next

\* An event is put on the stream after all those before it.
LEMMA OrderStep == TypeOK /\ Order /\ [Next]_vars => Order'
<1> SUFFICES ASSUME TypeOK, Order, [Next]_vars PROVE Order'
  OBVIOUS
<1> USE DEF Order, DownInOrder, clientVars, serverVars, netVars, callVars, relayVars
<1>t. /\ out \in Nat /\ pipe \in Seq(Events) /\ rcvd \in Seq(1..MaxDown)
      /\ SendData => out + 1 \in 1..MaxDown
  BY BoundAssumption DEF TypeOK, SendData
<1>p. Len(pipe) \in Nat /\ DOMAIN pipe = 1..Len(pipe) /\ \A i \in 1..Len(pipe) : pipe[i] \in Events
  BY <1>t, Elements
<1>n. \A i \in 1..Len(pipe) : pipe[i].kind = "Data" => pipe[i].n \in Nat /\ pipe[i].n <= out
  <2>1. \A i \in 1..Len(pipe) : pipe[i].kind = "Data" => pipe[i].n \in 1..MaxDown
    BY <1>p, Kinds
  <2>2. \A m \in 1..MaxDown : m \in Nat
    OBVIOUS
  <2>. QED
    BY <1>p, <2>1, <2>2
<1>r. /\ Len(rcvd) \in Nat /\ DOMAIN rcvd = 1..Len(rcvd)
      /\ \A i \in 1..Len(rcvd) : rcvd[i] \in Nat /\ rcvd[i] <= out
  <2>1. Len(rcvd) \in Nat /\ DOMAIN rcvd = 1..Len(rcvd) /\ \A i \in 1..Len(rcvd) : rcvd[i] \in 1..MaxDown
    BY <1>t, Elements
  <2>2. \A m \in 1..MaxDown : m \in Nat
    OBVIOUS
  <2>. QED
    BY <2>1, <2>2
<1>c. ASSUME NEW e \in {Close, Error}, pipe' = Append(pipe, e), UNCHANGED <<rcvd, out>> PROVE Order'
  <2>1. e \in Events /\ e.kind # "Data"
    BY Kinds
  <2>2. /\ DOMAIN pipe' = 1..(Len(pipe) + 1) /\ pipe'[Len(pipe) + 1] = e
        /\ \A i \in 1..Len(pipe) : pipe'[i] = pipe[i]
    BY <1>c, <2>1, <1>t, Appended
  <2>3. \A i \in DOMAIN pipe' : pipe'[i].kind = "Data" => i \in DOMAIN pipe /\ pipe'[i] = pipe[i]
    BY <1>p, <2>1, <2>2
  <2>. QED
    BY <1>c, <2>3
<1>1. CASE SendData
  <2>1. Data(out + 1) \in Events /\ pipe' = Append(pipe, Data(out + 1)) /\ rcvd' = rcvd /\ out' = out + 1
    BY <1>1, <1>t, Kinds DEF SendData, Sends
  <2>2. /\ DOMAIN pipe' = 1..(Len(pipe) + 1) /\ pipe'[Len(pipe) + 1] = Data(out + 1)
        /\ \A i \in 1..Len(pipe) : pipe'[i] = pipe[i]
    BY <2>1, <1>t, Appended
  <2>3. pipe'[Len(pipe) + 1].n = out + 1
    BY <2>2, Kinds
  <2>4. ASSUME NEW i \in DOMAIN pipe', pipe'[i].kind = "Data"
        PROVE  /\ pipe'[i].n <= out' /\ \A j \in DOMAIN rcvd : rcvd[j] < pipe'[i].n
               /\ \A j \in DOMAIN pipe' : j < i /\ pipe'[j].kind = "Data" => pipe'[j].n < pipe'[i].n
    <3>1. CASE i = Len(pipe) + 1
      <4>1. \A j \in DOMAIN pipe' : j < i => j \in 1..Len(pipe)
        BY <1>p, <2>2, <3>1
      <4>2. \A j \in DOMAIN pipe' : j < i /\ pipe'[j].kind = "Data" => pipe'[j].n < out + 1
        BY <1>t, <1>n, <2>2, <4>1
      <4>3. \A j \in DOMAIN rcvd : rcvd[j] < out + 1
        BY <1>t, <1>r
      <4>. QED
        BY <1>t, <2>1, <2>3, <3>1, <4>2, <4>3
    <3>2. CASE i \in 1..Len(pipe)
      <4>1. pipe[i].n \in Nat /\ pipe[i].n <= out /\ pipe'[i] = pipe[i]
        BY <1>n, <2>2, <2>4, <3>2
      <4>2. \A j \in DOMAIN pipe' : j < i => j \in 1..Len(pipe) /\ pipe'[j] = pipe[j]
        BY <1>p, <2>2, <3>2
      <4>. QED
        BY <1>p, <1>t, <2>1, <2>4, <3>2, <4>1, <4>2
    <3>. QED
      BY <1>p, <2>2, <3>1, <3>2
  <2>5. \A i \in DOMAIN rcvd' : rcvd'[i] <= out'
    BY <1>t, <1>r, <2>1
  <2>. QED
    BY <2>1, <2>4, <2>5
<1>2. CASE SendClose
  BY <1>2, <1>c DEF SendClose, Sends
<1>3. CASE GiveUp
  BY <1>3 DEF GiveUp, Released, Reads
<1>4. CASE CloseFails
  BY <1>4 DEF CloseFails, Released, Reads
<1>5. CASE WriteFails
  BY <1>5 DEF WriteFails, Released
<1>6. CASE WriteWatchdog
  BY <1>6 DEF WriteWatchdog
<1>7. CASE ReadError
  BY <1>7, <1>c DEF ReadError, Tells, Sends
<1>8. CASE WriteError
  BY <1>8, <1>c DEF WriteError, Tells, Sends
<1>9. CASE ServeAbort
  BY <1>9 DEF ServeAbort, Released
<1>10. CASE TakeAbort
  BY <1>10 DEF TakeAbort
<1>11. CASE Dispatch
  <2>1. /\ pipe # <<>> /\ pipe' = Tail(pipe) /\ out' = out
        /\ rcvd' = IF Head(pipe).kind = "Data" /\ conn = "open" THEN Append(rcvd, Head(pipe).n) ELSE rcvd
    BY <1>11 DEF Dispatch
  <2>2. /\ DOMAIN pipe' = 1..(Len(pipe) - 1) /\ Len(pipe) \in Nat \ {0}
        /\ Head(pipe) = pipe[1] /\ \A i \in 1..(Len(pipe) - 1) : pipe'[i] = pipe[i + 1]
    BY <2>1, <1>t, Taken
  <2>3. \A i \in DOMAIN pipe' : i + 1 \in DOMAIN pipe /\ pipe'[i] = pipe[i + 1] /\ 1 < i + 1 /\ 1 \in DOMAIN pipe
    BY <2>2, <1>p
  <2>4. \A i, j \in DOMAIN pipe' : j < i => j + 1 < i + 1
    BY <2>2
  <2>5. \A i \in DOMAIN pipe' : pipe'[i].kind = "Data" =>
          /\ pipe'[i].n <= out' /\ \A j \in DOMAIN rcvd : rcvd[j] < pipe'[i].n
          /\ \A j \in DOMAIN pipe' : j < i /\ pipe'[j].kind = "Data" => pipe'[j].n < pipe'[i].n
    BY <2>1, <2>3, <2>4
  <2>6. CASE pipe[1].kind = "Data" /\ conn = "open"
    <3>1. pipe[1] \in Events /\ pipe[1].n \in 1..MaxDown
      BY <1>p, <2>2, <2>6, Kinds
    <3>2. /\ DOMAIN rcvd' = 1..(Len(rcvd) + 1) /\ rcvd'[Len(rcvd) + 1] = pipe[1].n
          /\ \A i \in 1..Len(rcvd) : rcvd'[i] = rcvd[i]
      BY <1>t, <2>1, <2>2, <2>6, <3>1, Appended
    <3>3. pipe[1].n <= out /\ pipe[1].n \in Nat /\ \A j \in 1..Len(rcvd) : rcvd[j] < pipe[1].n
      BY <1>p, <1>n, <1>r, <2>2, <2>6
    <3>4. ASSUME NEW i \in DOMAIN rcvd', NEW j \in DOMAIN rcvd', i < j PROVE rcvd'[i] < rcvd'[j]
      <4>1. i \in 1..Len(rcvd) /\ rcvd'[i] = rcvd[i]
        BY <1>r, <3>2, <3>4
      <4>2. CASE j = Len(rcvd) + 1
        BY <3>2, <3>3, <4>1, <4>2
      <4>3. CASE j \in 1..Len(rcvd)
        BY <1>r, <3>2, <3>4, <4>1, <4>3
      <4>. QED
        BY <1>r, <3>2, <4>2, <4>3
    <3>5. \A i \in DOMAIN rcvd' : rcvd'[i] <= out'
      BY <1>r, <2>1, <3>2, <3>3
    <3>6. ASSUME NEW i \in DOMAIN pipe', pipe'[i].kind = "Data", NEW j \in DOMAIN rcvd'
          PROVE  rcvd'[j] < pipe'[i].n
      <4>1. CASE j = Len(rcvd) + 1
        BY <2>3, <2>6, <3>2, <3>6, <4>1
      <4>2. CASE j \in 1..Len(rcvd)
        BY <1>r, <2>5, <3>2, <3>6, <4>2
      <4>. QED
        BY <1>r, <3>2, <4>1, <4>2
    <3>. QED
      BY <2>5, <3>4, <3>5, <3>6
  <2>7. CASE ~(pipe[1].kind = "Data" /\ conn = "open")
    BY <2>1, <2>2, <2>5, <2>7
  <2>. QED
    BY <2>6, <2>7
<1>12. CASE Finish
  BY <1>12 DEF Finish
<1>13. CASE StreamBreaks
  BY <1>13 DEF StreamBreaks
<1>14. CASE ForcedReconnect
  BY <1>14 DEF ForcedReconnect
<1>15. CASE ServerNotices
  BY <1>15 DEF ServerNotices
<1>16. CASE Reopen
  <2>1. rcvd' = rcvd /\ out' = out /\ (pipe' = <<>> \/ pipe' = <<Reset>>)
    BY <1>16 DEF Reopen
  <2>2. \A i \in DOMAIN pipe' : pipe'[i].kind # "Data"
    BY <2>1, Kinds
  <2>. QED
    BY <2>1, <2>2
<1>17. CASE Restart
  BY <1>17 DEF Restart, Released
<1>18. CASE Post
  BY <1>18 DEF Post
<1>19. CASE PostClose
  BY <1>19 DEF PostClose
<1>20. CASE PostOk
  BY <1>20 DEF PostOk
<1>21. CASE PostFails
  BY <1>21 DEF PostFails
<1>22. CASE RetryPost
  BY <1>22 DEF RetryPost
<1>23. ASSUME NEW r \in reqs, Serve(r) PROVE Order'
  BY <1>23 DEF Serve
<1>24. CASE UNCHANGED vars
  BY <1>24 DEF vars
<1>. QED
  BY <1>1, <1>2, <1>3, <1>4, <1>5, <1>6, <1>7, <1>8, <1>9, <1>10, <1>11, <1>12, <1>13,
     <1>14, <1>15, <1>16, <1>17, <1>18, <1>19, <1>20, <1>21, <1>22, <1>23, <1>24 DEF Next

\* Behind the last chunk there is none.
LEMMA NoneLeft ==
  ASSUME TypeOK, Order, Len(rcvd) = out, \A i \in DOMAIN rcvd : rcvd[i] = i
  PROVE  \A i \in DOMAIN pipe : pipe[i].kind # "Data"
<1> SUFFICES ASSUME NEW i \in DOMAIN pipe, pipe[i].kind = "Data" PROVE FALSE
  OBVIOUS
<1>1. pipe[i] \in Events /\ out \in Nat /\ DOMAIN rcvd = 1..out
  BY Elements DEF TypeOK
<1>2. pipe[i].n \in 1..MaxDown /\ pipe[i].n <= out
  BY <1>1, Kinds DEF Order
<1>3. pipe[i].n \in DOMAIN rcvd /\ rcvd[pipe[i].n] = pipe[i].n
  BY <1>1, <1>2
<1>. QED
  BY <1>2, <1>3 DEF Order

\* A stream that ends empty loses nothing.
LEMMA WholeStep == TypeOK /\ Lives /\ Order /\ Whole /\ [Next]_vars => Whole'
<1> SUFFICES ASSUME TypeOK, Lives, Order, Whole, [Next]_vars, ~LossyStream PROVE Whole'
  BY SameNetwork DEF Whole, LossyStream
<1> USE DEF Whole, Clear, clientVars, serverVars, netVars, callVars, relayVars
<1>t. /\ out \in Nat /\ pipe \in Seq(Events) /\ rcvd \in Seq(1..MaxDown)
      /\ SendData => out + 1 \in 1..MaxDown
      /\ closed \in BOOLEAN
  BY BoundAssumption DEF TypeOK, SendData
<1>p. Len(pipe) \in Nat /\ DOMAIN pipe = 1..Len(pipe) /\ \A i \in 1..Len(pipe) : pipe[i] \in Events
  BY <1>t, Elements
<1>r. Len(rcvd) \in Nat /\ DOMAIN rcvd = 1..Len(rcvd)
  BY <1>t, Elements
<1>m. Missing \in Int /\ Missing = out - Len(rcvd) /\ Missing' = out' - Len(rcvd')
  <2>1. Missing = out - Len(rcvd)
    BY DEF Missing
  <2>2. Missing' = out' - Len(rcvd')
    BY DEF Missing
  <2>3. out \in Nat /\ Len(rcvd) \in Nat
    BY <1>t, <1>r
  <2>4. \A a, b \in Nat : a - b \in Int
    OBVIOUS
  <2>. QED
    BY <2>1, <2>2, <2>3, <2>4, Zenon
<1>k. ASSUME UNCHANGED <<rcvd, out, pipe, restarts, closed>>, (reading' = "closed") <=> (reading = "closed"),
             conn' = "open" => conn = "open", stream' = "down" => pipe = <<>>
      PROVE  Whole'
  BY <1>k DEF Missing
<1>x. ASSUME pipe' = Append(pipe, Error), UNCHANGED <<rcvd, out, restarts, closed, conn, stream>>,
             (reading' = "closed") <=> (reading = "closed"), stream = "up"
      PROVE  Whole'
  <2>1. /\ DOMAIN pipe' = 1..(Len(pipe) + 1) /\ Len(pipe') = Len(pipe) + 1
        /\ pipe'[Len(pipe) + 1] = Error /\ \A i \in 1..Len(pipe) : pipe'[i] = pipe[i]
    BY <1>x, <1>t, Kinds, Appended
  <2>2. ~Clear(Len(pipe))'
    BY <1>p, <2>1
  <2>3. \A i \in DOMAIN pipe' : Clear(i)' => i \in 1..Len(pipe) /\ Clear(i)
    <3>1. ASSUME NEW i \in DOMAIN pipe', Clear(i)' PROVE i \in 1..Len(pipe)
      BY <1>p, <2>1, <3>1
    <3>2. ASSUME NEW i \in DOMAIN pipe', Clear(i)' PROVE Clear(i)
      <4>1. i \in 1..Len(pipe)
        BY <3>1, <3>2
      <4>. QED
        BY <1>p, <2>1, <3>2, <4>1
    <3>. QED
      BY <3>1, <3>2
  <2>4. Missing' = Missing
    BY <1>x DEF Missing
  <2>. QED
    BY <1>x, <1>p, <2>1, <2>2, <2>3, <2>4
<1>n. out \in Nat /\ Len(rcvd) \in Nat /\ Len(pipe) \in Nat /\ restarts \in Nat
  <2>1. restarts \in Nat
    BY BoundAssumption DEF TypeOK
  <2>. QED
    BY <2>1, <1>t, <1>p, <1>r
<1>1. CASE SendData
  <2>1. /\ Data(out + 1) \in Events /\ pipe' = Append(pipe, Data(out + 1)) /\ out' = out + 1
        /\ reading # "closed" /\ stream = "up" /\ ~closed
        /\ UNCHANGED <<rcvd, stream, closed, reading, restarts, conn>>
    BY <1>1, <1>t, Kinds DEF SendData, Sends, Reads
  <2>2. /\ DOMAIN pipe' = 1..(Len(pipe) + 1) /\ pipe'[Len(pipe) + 1] = Data(out + 1)
        /\ Len(pipe') = Len(pipe) + 1 /\ \A i \in 1..Len(pipe) : pipe'[i] = pipe[i]
    BY <2>1, <1>t, Appended
  <2>3. Missing' = Missing + 1
    <3>. HIDE DEF Whole
    <3>. QED
      BY <2>1, <1>n, <1>m
  <2>4. \A i \in DOMAIN pipe' : Clear(i)' => (i \in 1..Len(pipe) => Clear(i)) /\ (i = Len(pipe) + 1 => Clear(Len(pipe)))
    BY <1>p, <2>2
  <2>5. ASSUME restarts = 0, conn = "open"
        PROVE  /\ \A i \in DOMAIN pipe' : Clear(i)' => i <= Missing' /\ pipe'[i] = Data(Len(rcvd') + i)
               /\ Clear(Len(pipe))' => Len(pipe') = Missing'
    <3>1. ASSUME NEW i \in 1..Len(pipe), Clear(i)' PROVE i <= Missing' /\ pipe'[i] = Data(Len(rcvd') + i)
      <4>1. i <= Missing /\ pipe[i] = Data(Len(rcvd) + i)
        BY <1>p, <2>1, <2>2, <2>4, <2>5, <3>1
      <4>. QED
        BY <1>m, <2>1, <2>2, <2>3, <4>1
    <3>2. ASSUME Clear(Len(pipe)) PROVE Len(pipe) = Missing
      BY <2>1, <2>5, <3>2
    <3>3. ASSUME \A j \in 1..(Len(pipe) + 1) : pipe'[j] # Error
          PROVE  Len(pipe') = Missing' /\ pipe'[Len(pipe) + 1] = Data(Len(rcvd') + (Len(pipe) + 1))
      <4>1. Len(pipe) = Missing /\ Len(rcvd) + (Len(pipe) + 1) = out + 1
        <5>1. Len(pipe) = Missing
          BY <1>p, <2>2, <2>4, <3>2, <3>3
        <5>. HIDE DEF Whole
        <5>. QED
          BY <5>1, <1>n, <1>m
      <4>. QED
        BY <2>1, <2>2, <2>3, <4>1
    <3>4. ASSUME NEW i \in DOMAIN pipe', Clear(i)' PROVE i <= Missing' /\ pipe'[i] = Data(Len(rcvd') + i)
      <4>1. CASE i \in 1..Len(pipe)
        BY <3>1, <3>4, <4>1
      <4>2. CASE i = Len(pipe) + 1
        <5>1. \A j \in 1..(Len(pipe) + 1) : pipe'[j] # Error
          BY <3>4, <4>2
        <5>2. pipe'[i] = Data(Len(rcvd') + i) /\ Missing' = i
          BY <2>2, <3>3, <4>2, <5>1
        <5>. QED
          BY <1>n, <4>2, <5>2
      <4>. QED
        BY <1>n, <2>2, <4>1, <4>2
    <3>. QED
      BY <2>2, <3>3, <3>4
  <2>. QED
    BY <2>1, <2>5
<1>2. CASE SendClose
  <2>1. /\ Close \in Events /\ Close # Error /\ pipe' = Append(pipe, Close) /\ reading' = "closed"
        /\ reading # "closed" /\ stream = "up" /\ ~closed
        /\ UNCHANGED <<rcvd, out, stream, closed, restarts, conn>>
    BY <1>2, Kinds DEF SendClose, Sends, Reads
  <2>2. /\ DOMAIN pipe' = 1..(Len(pipe) + 1) /\ pipe'[Len(pipe) + 1] = Close
        /\ Len(pipe') = Len(pipe) + 1 /\ \A i \in 1..Len(pipe) : pipe'[i] = pipe[i]
    BY <2>1, <1>t, Appended
  <2>3. Missing' = Missing
    BY <2>1 DEF Missing
  <2>4. \A i \in DOMAIN pipe' : Clear(i)' => (i \in 1..Len(pipe) => Clear(i)) /\ (i = Len(pipe) + 1 => Clear(Len(pipe)))
    BY <1>p, <2>2
  <2>5. ASSUME restarts = 0, conn = "open"
        PROVE  /\ \A i \in DOMAIN pipe' : Clear(i)' =>
                    \/ i <= Missing' /\ pipe'[i] = Data(Len(rcvd') + i)
                    \/ i = Missing' + 1 /\ pipe'[i] = Close
               /\ Clear(Len(pipe))' => Len(pipe') = Missing' + 1
    <3>1. ASSUME NEW i \in 1..Len(pipe), Clear(i)' PROVE i <= Missing' /\ pipe'[i] = Data(Len(rcvd') + i)
      BY <1>p, <2>1, <2>2, <2>3, <2>4, <2>5, <3>1
    <3>2. ASSUME \A j \in 1..(Len(pipe) + 1) : pipe'[j] # Error PROVE Len(pipe) = Missing
      BY <1>p, <2>1, <2>2, <2>4, <2>5, <3>2
    <3>3. ASSUME NEW i \in DOMAIN pipe', Clear(i)'
          PROVE  \/ i <= Missing' /\ pipe'[i] = Data(Len(rcvd') + i)
                 \/ i = Missing' + 1 /\ pipe'[i] = Close
      <4>1. CASE i \in 1..Len(pipe)
        BY <3>1, <3>3, <4>1
      <4>2. CASE i = Len(pipe) + 1
        <5>1. \A j \in 1..(Len(pipe) + 1) : pipe'[j] # Error
          BY <3>3, <4>2
        <5>2. Len(pipe) = Missing
          BY <3>2, <5>1
        <5>. QED
          BY <2>2, <2>3, <4>2, <5>2
      <4>. QED
        BY <1>n, <2>2, <4>1, <4>2
    <3>. QED
      BY <2>2, <2>3, <3>2, <3>3
  <2>. QED
    BY <2>1, <2>5
<1>3. CASE GiveUp
  BY <1>3, <1>k DEF GiveUp, Released, Reads
<1>4. CASE CloseFails
  BY <1>4, <1>k DEF CloseFails, Released, Reads
<1>5. CASE WriteFails
  BY <1>5, <1>k DEF WriteFails, Released
<1>6. CASE WriteWatchdog
  BY <1>6, <1>k DEF WriteWatchdog
<1>7. CASE ReadError
  BY <1>7, <1>k, <1>x DEF ReadError, Tells, Sends
<1>8. CASE WriteError
  BY <1>8, <1>k, <1>x DEF WriteError, Tells, Sends
<1>9. CASE ServeAbort
  BY <1>9, <1>k DEF ServeAbort, Released
<1>10. CASE TakeAbort
  BY <1>10, <1>k DEF TakeAbort
<1>11. CASE Dispatch
  <2>1. UNCHANGED <<stream, out, reading, restarts>> /\ stream = "up"
    BY <1>11 DEF Dispatch
  <2>2. /\ DOMAIN pipe' = 1..(Len(pipe) - 1) /\ Len(pipe) \in Nat \ {0} /\ Len(pipe') = Len(pipe) - 1
        /\ Head(pipe) = pipe[1] /\ \A i \in 1..(Len(pipe) - 1) : pipe'[i] = pipe[i + 1]
    <3>1. pipe # <<>> /\ pipe' = Tail(pipe)
      BY <1>11 DEF Dispatch
    <3>. QED
      BY <3>1, <1>t, Taken
  <2>3. 1 \in DOMAIN pipe /\ pipe[1] \in Events
    BY <2>2, <1>p
  <2>4. ASSUME conn = "open", pipe[1].kind = "Data"
        PROVE  Whole'
    <3>1. ~closed /\ restarts = 0 /\ pipe[1] # Error /\ pipe[1] # Close
      <4>1. ~closed
        BY <2>3, <2>4, NoneLeft
      <4>2. pipe[1] # Reset /\ pipe[1] # Error /\ pipe[1] # Close
        BY <2>4, Kinds
      <4>. QED
        BY <1>n, <2>3, <4>1, <4>2 DEF Lives
    <3>2. Clear(1)
      BY <3>1
    <3>3. 1 <= Missing /\ pipe[1] = Data(Len(rcvd) + 1) /\ pipe[1].n = Len(rcvd) + 1
      BY <2>3, <2>4, <3>1, <3>2, Kinds
    <3>4. Len(rcvd) + 1 \in 1..MaxDown
      BY <2>3, <2>4, <3>3, Kinds
    <3>5. /\ rcvd' = Append(rcvd, Len(rcvd) + 1) /\ conn' = "open" /\ ~closed'
      BY <1>11, <2>2, <2>4, <3>1, <3>3, Dispatched
    <3>6. /\ Len(rcvd') = Len(rcvd) + 1
          /\ DOMAIN rcvd' = 1..(Len(rcvd) + 1) /\ rcvd'[Len(rcvd) + 1] = Len(rcvd) + 1
          /\ \A i \in 1..Len(rcvd) : rcvd'[i] = rcvd[i]
      BY <1>t, <3>4, <3>5, Appended
    <3>7. \A i \in DOMAIN rcvd' : rcvd'[i] = i
      BY <1>r, <3>6
    <3>8. Missing' = Missing - 1
      <4>. HIDE DEF Whole
      <4>. QED
        BY <1>t, <1>r, <1>m, <2>1, <3>6
    <3>9. ASSUME NEW i \in 0..Len(pipe'), Clear(i)' PROVE Clear(i + 1)
      <4>1. ASSUME NEW j \in 2..(i + 1) PROVE pipe[j] # Error
        <5>1. j - 1 \in 1..i /\ j - 1 \in 1..(Len(pipe) - 1)
          BY <2>2, <4>1
        <5>2. pipe'[j - 1] = pipe[j]
          BY <2>2, <5>1
        <5>. QED
          BY <3>9, <5>1, <5>2
      <4>. QED
        BY <3>1, <4>1
    <3>10. ASSUME NEW i \in DOMAIN pipe', Clear(i)'
           PROVE  \/ i <= Missing' /\ pipe'[i] = Data(Len(rcvd') + i)
                  \/ i = Missing' + 1 /\ pipe'[i] = Close /\ reading' = "closed"
      <4>1. i \in 0..Len(pipe') /\ i + 1 \in DOMAIN pipe /\ pipe'[i] = pipe[i + 1] /\ i \in Nat
        BY <1>p, <2>2
      <4>2. \/ i + 1 <= Missing /\ pipe[i + 1] = Data(Len(rcvd) + (i + 1))
            \/ i + 1 = Missing + 1 /\ pipe[i + 1] = Close /\ reading = "closed"
        BY <2>4, <3>1, <3>9, <3>10, <4>1
      <4>3. Len(rcvd') + i = Len(rcvd) + (i + 1)
        BY <1>r, <3>6, <4>1
      <4>. QED
        BY <1>m, <2>1, <3>8, <4>1, <4>2, <4>3
    <3>11. ASSUME Clear(Len(pipe))' PROVE Len(pipe') = IF reading' = "closed" THEN Missing' + 1 ELSE Missing'
      <4>1. Clear(Len(pipe))
        <5>1. Clear(Len(pipe') + 1)
          BY <2>2, <3>9, <3>11
        <5>. QED
          BY <2>2, <5>1
      <4>2. Len(pipe) = IF reading = "closed" THEN Missing + 1 ELSE Missing
        BY <2>4, <3>1, <4>1
      <4>. QED
        BY <1>m, <1>p, <2>1, <2>2, <3>8, <4>2
    <3>. QED
      BY <2>1, <3>5, <3>7, <3>10, <3>11
  <2>5. ASSUME ~(conn = "open" /\ pipe[1].kind = "Data") PROVE rcvd' = rcvd /\ Missing' = Missing
    BY <1>11, <2>1, <2>2, <2>5, Dispatched DEF Missing
  <2>6. ASSUME conn = "open", pipe[1] = Close, ~closed PROVE Whole'
    <3>1. restarts = 0 /\ Clear(1)
      <4>1. pipe[1] # Reset /\ pipe[1] # Error
        BY <2>6, Kinds
      <4>. QED
        BY <1>n, <2>3, <4>1 DEF Lives
    <3>2. reading = "closed" /\ Missing = 0
      <4>1. \/ 1 <= Missing /\ pipe[1] = Data(Len(rcvd) + 1)
            \/ 1 = Missing + 1 /\ pipe[1] = Close /\ reading = "closed"
        BY <2>3, <2>6, <3>1
      <4>. QED
        BY <1>m, <2>6, <4>1, Kinds
    <3>3. Len(rcvd) = out
      <4>. HIDE DEF Whole
      <4>. QED
        BY <1>n, <1>m, <3>2
    <3>4. rcvd' = rcvd /\ closed'
      BY <1>11, <2>2, <2>5, <2>6, Dispatched, Kinds
    <3>. QED
      BY <2>1, <3>2, <3>3, <3>4
  <2>7. ASSUME ~(conn = "open" /\ pipe[1].kind = "Data"), ~(conn = "open" /\ pipe[1] = Close /\ ~closed) PROVE Whole'
    <3>1. closed' = closed
      BY <1>11, <1>t, <2>2, <2>7, Dispatched
    <3>2. conn' = "open" => closed
      <4>1. pipe[1].kind = "Data" \/ pipe[1] = Close \/ pipe[1] = Error \/ pipe[1] = Reset
        BY <2>3, Kinds
      <4>. QED
        BY <1>11, <2>2, <2>7, <4>1, Dispatched
    <3>. QED
      BY <2>1, <2>5, <2>7, <3>1, <3>2
  <2>. QED
    BY <2>4, <2>6, <2>7
<1>12. CASE Finish
  BY <1>12, <1>k DEF Finish
<1>13. CASE StreamBreaks
  BY <1>13, <1>k DEF StreamBreaks
<1>14. CASE ForcedReconnect
  BY <1>14, <1>k DEF ForcedReconnect
<1>15. CASE ServerNotices
  BY <1>15, <1>k DEF ServerNotices
<1>16. CASE Reopen
  <2>1. /\ pipe = <<>> /\ stream' = "up" /\ pipe' = (IF session THEN <<>> ELSE <<Reset>>)
        /\ UNCHANGED <<rcvd, closed, reading, out, restarts, conn>>
    BY <1>16 DEF Reopen
  <2>2. restarts = 0 => pipe' = pipe
    BY <2>1 DEF Lives
  <2>3. UNCHANGED Missing
    BY <2>1 DEF Missing
  <2>. QED
    BY <2>1, <2>2, <2>3
<1>17. CASE Restart
  <2>1. /\ pipe' = <<>> /\ restarts' # 0 /\ (reading = "closed" => reading' = "closed")
        /\ UNCHANGED <<rcvd, closed, out>>
    BY <1>17 DEF Restart, TypeOK
  <2>. QED
    BY <2>1
<1>18. CASE Post
  BY <1>18, <1>k DEF Post
<1>19. CASE PostClose
  BY <1>19, <1>k DEF PostClose
<1>20. CASE PostOk
  BY <1>20, <1>k DEF PostOk
<1>21. CASE PostFails
  BY <1>21, <1>k DEF PostFails
<1>22. CASE RetryPost
  BY <1>22, <1>k DEF RetryPost
<1>23. ASSUME NEW r \in reqs, Serve(r) PROVE Whole'
  BY <1>23 DEF Serve, Missing
<1>24. CASE UNCHANGED vars
  BY <1>24 DEF vars, Missing
<1>. QED
  BY <1>1, <1>2, <1>3, <1>4, <1>5, <1>6, <1>7, <1>8, <1>9, <1>10, <1>11, <1>12, <1>13,
     <1>14, <1>15, <1>16, <1>17, <1>18, <1>19, <1>20, <1>21, <1>22, <1>23, <1>24 DEF Next

\* The server queues a chunk before it answers, while there is a writer.
LEMMA KeptStep == TypeOK /\ Kept /\ Calls /\ [Next]_vars => Kept'
<1> SUFFICES ASSUME TypeOK, Kept, Calls, [Next]_vars PROVE Kept'
  OBVIOUS
<1> USE DEF TypeOK, Kept, Calls, Attempt, Message, Current, clientVars, serverVars, netVars,
        callVars, relayVars
<1>u. \A n \in Elems(upGot) : n \in Nat
  <2>1. \A i \in DOMAIN upGot : upGot[i] \in 1..MaxUp
    BY Elements
  <2>. QED
    BY <2>1 DEF Elems
<1>1. CASE SendData
  BY <1>1 DEF SendData, Sends, Reads
<1>2. CASE SendClose
  BY <1>2 DEF SendClose, Sends, Reads
<1>3. CASE GiveUp
  BY <1>3 DEF GiveUp, Released, Reads
<1>4. CASE CloseFails
  BY <1>4 DEF CloseFails, Released, Reads
<1>5. CASE WriteFails
  BY <1>5 DEF WriteFails, Released
<1>6. CASE WriteWatchdog
  BY <1>6 DEF WriteWatchdog
<1>7. CASE ReadError
  BY <1>7 DEF ReadError, Tells, Sends
<1>8. CASE WriteError
  BY <1>8 DEF WriteError, Tells, Sends
<1>9. CASE ServeAbort
  BY <1>9 DEF ServeAbort, Released
<1>10. CASE TakeAbort
  BY <1>10 DEF TakeAbort
<1>11. CASE Dispatch
  BY <1>11 DEF Dispatch
<1>12. CASE Finish
  BY <1>12 DEF Finish
<1>13. CASE StreamBreaks
  BY <1>13 DEF StreamBreaks
<1>14. CASE ForcedReconnect
  BY <1>14 DEF ForcedReconnect
<1>15. CASE ServerNotices
  BY <1>15 DEF ServerNotices
<1>16. CASE Reopen
  BY <1>16 DEF Reopen
<1>17. CASE Restart
  BY <1>17 DEF Restart, Released
<1>18. CASE Post
  <2>1. /\ UNCHANGED <<acked, upGot, writer>> /\ posted' = posted + 1 /\ served' = {} /\ posted \in Nat
    BY <1>18 DEF Post
  <2>2. \A n \in Elems(upGot) : n \in Nat /\ n <= posted /\ n # posted + 1
    BY <1>u, <2>1
  <2>3. ASSUME NEW n \in 1..acked, NEW m \in n..posted', m \in Elems(upGot) PROVE n \in Elems(upGot)
    <3>1. m \in n..posted
      BY <2>1, <2>2, <2>3
    <3>. QED
      BY <2>3, <3>1
  <2>. QED
    BY <2>1, <2>2, <2>3
<1>19. CASE PostClose
  BY <1>19 DEF PostClose
<1>20. CASE PostOk
  BY <1>20 DEF PostOk
<1>21. CASE PostFails
  BY <1>21 DEF PostFails
<1>22. CASE RetryPost
  BY <1>22 DEF RetryPost
<1>23. ASSUME NEW r \in reqs, Serve(r) PROVE Kept'
  <2>1. /\ r[1] \in Nat \ {0} /\ acked' = acked /\ posted' = posted /\ finished' = finished
        /\ served' \subseteq served \cup {r} /\ r \in Attempts
    BY <1>23 DEF Serve, Attempts
  <2>2. CASE writer = "kept" /\ r[1] <= posted
    <3>1. upGot' = Append(upGot, r[1]) /\ writer' = "kept"
      BY <1>23, <2>2, <2>1 DEF Serve
    <3>i. r[1] \in 1..MaxUp
      BY <2>1, <2>2, BoundAssumption
    <3>2. Elems(upGot') = Elems(upGot) \cup {r[1]}
      <4>. DEFINE Chunks == 1..MaxUp
      <4>1. upGot \in Seq(Chunks) /\ r[1] \in Chunks
        BY <3>i
      <4>2. Elems(Append(upGot, r[1])) = Elems(upGot) \cup {r[1]}
        <5>. HIDE DEF Chunks, TypeOK, Kept, Calls
        <5>. QED
          BY <4>1, OneMore
      <4>. QED
        BY <3>1, <4>2, Zenon
    <3>. QED
      BY <2>1, <2>2, <3>1, <3>2
  <2>3. CASE writer = "kept" /\ r[1] > posted
    BY <1>23, <2>1, <2>3 DEF Serve
  <2>4. CASE writer # "kept"
    <3>1. upGot' = upGot /\ writer' = writer
      BY <1>23, <2>4 DEF Serve
    <3>2. writer = "closed" => (r \in served' /\ r \notin served => r[1] > posted)
      BY <1>23, <2>4 DEF Serve
    <3>. QED
      BY <2>1, <2>4, <3>1, <3>2
  <2>. QED
    BY <2>1, <2>2, <2>3, <2>4
<1>24. CASE UNCHANGED vars
  BY <1>24 DEF vars
<1>. QED
  BY <1>1, <1>2, <1>3, <1>4, <1>5, <1>6, <1>7, <1>8, <1>9, <1>10, <1>11, <1>12, <1>13,
     <1>14, <1>15, <1>16, <1>17, <1>18, <1>19, <1>20, <1>21, <1>22, <1>23, <1>24 DEF Next

\* A Reset, or an Error, is on the stream until it is dispatched.
LEMMA AnnouncedStep == TypeOK /\ Lives /\ Whole /\ Announced /\ [Next]_vars => Announced'
<1> SUFFICES ASSUME TypeOK, Lives, Whole, Announced, [Next]_vars, ~LossyStream PROVE Announced'
  BY SameNetwork DEF Announced, LossyStream
<1> USE DEF TypeOK, Announced, clientVars, serverVars, netVars, callVars, relayVars
<1>1. CASE SendData
  <2>1. out + 1 \in 1..MaxDown
    BY <1>1, BoundAssumption DEF SendData
  <2>2. Elems(pipe') = Elems(pipe) \cup {Data(out + 1)}
    BY <1>1, <2>1, Kinds, OneMore DEF SendData, Sends
  <2>. QED
    BY <1>1, <2>2 DEF SendData
<1>2. CASE SendClose
  <2>1. Elems(pipe') = Elems(pipe) \cup {Close}
    BY <1>2, Kinds, OneMore DEF SendClose, Sends
  <2>. QED
    BY <1>2, <2>1 DEF SendClose, Reads
<1>3. CASE GiveUp
  BY <1>3 DEF GiveUp, Released, Reads
<1>4. CASE CloseFails
  BY <1>4 DEF CloseFails, Released, Reads
<1>5. CASE WriteFails
  BY <1>5 DEF WriteFails, Released
<1>6. CASE WriteWatchdog
  BY <1>6 DEF WriteWatchdog
<1>7. CASE ReadError
  <2>1. CASE pipe' = Append(pipe, Error)
    <3>1. Elems(pipe') = Elems(pipe) \cup {Error}
      BY <2>1, Kinds, OneMore
    <3>. QED
      BY <1>7, <3>1 DEF ReadError, Tells
  <2>2. CASE pipe' = pipe
    BY <1>7, <2>2, Appended, Kinds DEF ReadError, Tells, Sends
  <2>. QED
    BY <1>7, <2>1, <2>2 DEF ReadError, Tells, Sends
<1>8. CASE WriteError
  <2>1. CASE pipe' = Append(pipe, Error)
    <3>1. Elems(pipe') = Elems(pipe) \cup {Error}
      BY <2>1, Kinds, OneMore
    <3>. QED
      BY <1>8, <3>1 DEF WriteError, Tells
  <2>2. CASE pipe' = pipe
    BY <1>8, <2>2, Appended, Kinds DEF WriteError, Tells, Sends
  <2>. QED
    BY <1>8, <2>1, <2>2 DEF WriteError, Tells, Sends
<1>9. CASE ServeAbort
  BY <1>9 DEF ServeAbort, Released
<1>10. CASE TakeAbort
  BY <1>10 DEF TakeAbort
<1>11. CASE Dispatch
  <2>1. \A e \in Elems(pipe) : e = Head(pipe) \/ e \in Elems(pipe')
    BY <1>11, OneLess DEF Dispatch
  <2>2. conn' = "open" => conn = "open" /\ Head(pipe) # Error /\ Head(pipe) # Reset
    <3>1. Head(pipe) \in {Error, Reset} => conn' # "open"
      BY <1>11, Dispatched
    <3>2. conn' = "open" => conn = "open"
      BY <1>11 DEF Dispatch
    <3>. QED
      BY <3>1, <3>2
  <2>3. UNCHANGED <<reading, writing, writer, session, lossy>>
    BY <1>11 DEF Dispatch
  <2>. QED
    BY <2>1, <2>2, <2>3
<1>12. CASE Finish
  BY <1>12 DEF Finish
<1>13. CASE StreamBreaks
  BY <1>13 DEF StreamBreaks
<1>14. CASE ForcedReconnect
  BY <1>14 DEF ForcedReconnect
<1>15. CASE ServerNotices
  BY <1>15 DEF ServerNotices
<1>16. CASE Reopen
  <2>1. /\ pipe = <<>> /\ session' /\ (~session => pipe' = <<Reset>>) /\ (session => pipe' = pipe)
        /\ UNCHANGED <<reading, writing, writer, conn, lossy>>
    BY <1>16 DEF Reopen, Whole
  <2>2. ~session => Reset \in Elems(pipe')
    BY <2>1 DEF Elems
  <2>. QED
    BY <2>1, <2>2
<1>17. CASE Restart
  BY <1>17 DEF Restart, Released
<1>18. CASE Post
  BY <1>18 DEF Post
<1>19. CASE PostClose
  BY <1>19 DEF PostClose
<1>20. CASE PostOk
  BY <1>20 DEF PostOk
<1>21. CASE PostFails
  BY <1>21 DEF PostFails
<1>22. CASE RetryPost
  BY <1>22 DEF RetryPost
<1>23. ASSUME NEW r \in reqs, Serve(r) PROVE Announced'
  BY <1>23 DEF Serve
<1>24. CASE UNCHANGED vars
  BY <1>24 DEF vars
<1>. QED
  BY <1>1, <1>2, <1>3, <1>4, <1>5, <1>6, <1>7, <1>8, <1>9, <1>10, <1>11, <1>12, <1>13,
     <1>14, <1>15, <1>16, <1>17, <1>18, <1>19, <1>20, <1>21, <1>22, <1>23, <1>24 DEF Next

\* A request whose outcome is known is served once or not at all.
LEMMA OnceStep == TypeOK /\ Calls /\ Once /\ [Next]_vars => Once'
<1> SUFFICES ASSUME TypeOK, Calls, Once, [Next]_vars, ~LossyPost PROVE Once'
  BY SameNetwork DEF Once, LossyPost
<1> USE DEF TypeOK, Calls, Once, LossyPost, Attempt, Message, Current, clientVars, serverVars,
        netVars, callVars, relayVars
<1>1. CASE SendData
  BY <1>1 DEF SendData, Sends, Reads
<1>2. CASE SendClose
  BY <1>2 DEF SendClose, Sends, Reads
<1>3. CASE GiveUp
  BY <1>3 DEF GiveUp, Released, Reads
<1>4. CASE CloseFails
  BY <1>4 DEF CloseFails, Released, Reads
<1>5. CASE WriteFails
  BY <1>5 DEF WriteFails, Released
<1>6. CASE WriteWatchdog
  BY <1>6 DEF WriteWatchdog
<1>7. CASE ReadError
  BY <1>7 DEF ReadError, Tells, Sends
<1>8. CASE WriteError
  BY <1>8 DEF WriteError, Tells, Sends
<1>9. CASE ServeAbort
  BY <1>9 DEF ServeAbort, Released
<1>10. CASE TakeAbort
  BY <1>10 DEF TakeAbort
<1>11. CASE Dispatch
  BY <1>11 DEF Dispatch
<1>12. CASE Finish
  BY <1>12 DEF Finish
<1>13. CASE StreamBreaks
  BY <1>13 DEF StreamBreaks
<1>14. CASE ForcedReconnect
  BY <1>14 DEF ForcedReconnect
<1>15. CASE ServerNotices
  BY <1>15 DEF ServerNotices
<1>16. CASE Reopen
  BY <1>16 DEF Reopen
<1>17. CASE Restart
  BY <1>17 DEF Restart, Released
<1>18. CASE Post
  BY <1>18 DEF Post
<1>19. CASE PostClose
  BY <1>19 DEF PostClose
<1>20. CASE PostOk
  BY <1>20 DEF PostOk
<1>21. CASE PostFails
  BY <1>21 DEF PostFails
<1>22. CASE RetryPost
  BY <1>22 DEF RetryPost
<1>23. ASSUME NEW r \in reqs, Serve(r) PROVE Once'
  <2>1. /\ reqs' = reqs \ {r} /\ served' = (IF r[1] = Message THEN served \cup {r} ELSE served)
        /\ UNCHANGED <<post, posted, conn, lossy, finished>>
    BY <1>23 DEF Serve
  <2>2. post \in {"first", "second"} /\ r = Current /\ r \notin served /\ r[1] = Message
    BY <2>1
  <2>3. reqs' = {} /\ Current' = Current /\ Current' \in served' /\ served' = served \cup {r}
    BY <2>1, <2>2
  <2>4. post = "first" => Attempt(2)' \notin served'
    BY <2>1, <2>2, <2>3
  <2>5. ASSUME writer' = "kept" PROVE Len(upGot') = posted
    <3>1. writer = "kept" /\ r[1] = posted /\ ~finished /\ upGot' = Append(upGot, r[1])
      BY <1>23, <2>2, <2>5 DEF Serve
    <3>2. Len(upGot) = posted - 1 /\ r[1] \in 1..MaxUp
      BY <2>2, <3>1 DEF Attempts
    <3>3. Len(upGot') = Len(upGot) + 1
      BY <3>1, <3>2, Appended
    <3>. QED
      BY <3>2, <3>3
  <2>. QED
    BY <2>1, <2>2, <2>3, <2>4, <2>5
<1>24. CASE UNCHANGED vars
  BY <1>24 DEF vars
<1>. QED
  BY <1>1, <1>2, <1>3, <1>4, <1>5, <1>6, <1>7, <1>8, <1>9, <1>10, <1>11, <1>12, <1>13,
     <1>14, <1>15, <1>16, <1>17, <1>18, <1>19, <1>20, <1>21, <1>22, <1>23, <1>24 DEF Next

-----------------------------------------------------------------------------
\* The invariant holds before anything was sent.
LEMMA Initial == Init => IInv
<1> SUFFICES ASSUME Init PROVE IInv
  OBVIOUS
<1> USE BoundAssumption DEF Init
<1>1. TypeOK
  <2>1. rcvd \in Seq(1..MaxDown) /\ upGot \in Seq(1..MaxUp) /\ pipe \in Seq(Events)
    OBVIOUS
  <2>2. /\ posted \in 0..MaxUp /\ acked \in 0..MaxUp /\ acked <= posted /\ out \in 0..MaxDown
        /\ reopens \in 0..MaxReopens /\ restarts \in 0..MaxRestarts
    OBVIOUS
  <2>3. /\ reqs \subseteq Attempts /\ served \subseteq Attempts
        /\ lossy \subseteq {"stream", "post"}
    OBVIOUS
  <2>. QED
    BY <2>1, <2>2, <2>3 DEF TypeOK
<1>2. Calls /\ Lives /\ Kept
  <2>1. Elems(upGot) = {}
    BY DEF Elems
  <2>. QED
    BY <2>1 DEF Calls, Lives, Kept
<1>3. Order /\ Announced
  BY DEF Order, DownInOrder, Announced
<1>4. Whole
  <2>1. Len(pipe) = 0 /\ Len(rcvd) = 0 /\ DOMAIN pipe = {} /\ DOMAIN rcvd = {}
    OBVIOUS
  <2>2. Missing = 0
    <3>1. out = 0 /\ 0 - 0 = 0
      OBVIOUS
    <3>. QED
      BY <2>1, <3>1, Zenon DEF Missing
  <2>. QED
    BY <2>1, <2>2 DEF Whole
<1>5. Once
  BY DEF Once
<1>. QED
  BY <1>1, <1>2, <1>3, <1>4, <1>5 DEF IInv

\* Every step of the client, the server and the network keeps it.
LEMMA Inductive == IInv /\ [Next]_vars => IInv'
  BY TypeStep, CallsStep, LivesStep, OrderStep, WholeStep, KeptStep, AnnouncedStep, OnceStep
     DEF IInv

\* So it always holds.
LEMMA Invariance == Spec => []IInv
  BY Initial, Inductive, PTL DEF Spec

\* Every variable stays in its range, whatever is lost, retried and restarted.
THEOREM TypeCorrect == Spec => []TypeOK
<1>1. IInv => TypeOK
  BY DEF IInv
<1>. QED
  BY Invariance, <1>1, PTL

\* dispatch_event hands the relay no chunk twice or out of order, however many
\* streams end with events in them and however often the server is replaced.
THEOREM DownloadInOrder == Spec => []DownInOrder
<1>1. IInv => DownInOrder
  BY DEF IInv, Order
<1>. QED
  BY Invariance, <1>1, PTL

\* A chunk that send_message returned Ok for is queued for the target, whichever of
\* its attempts was served, late or twice, on any network, as long as the server's
\* relay keeps its writer.  If it gives up, fails or is aborted, or its server is
\* replaced, then nothing that follows the first chunk lost is queued.
THEOREM AcknowledgedArrives == Spec => []AckedUploadArrives
<1>1. IInv => AckedUploadArrives
  <2> SUFFICES ASSUME IInv, NEW n \in 1..acked, n \notin Elems(upGot)
               PROVE  writer = "dropped" /\ \A m \in n..posted : m \notin Elems(upGot)
    BY DEF AckedUploadArrives
  <2>. QED
    BY DEF IInv, Kept
<1>. QED
  BY Invariance, <1>1, PTL

\* A chunk the server answered without queueing it fails the client's relay, now or
\* through the Error that is due or on its way, or the Reset that waits for its
\* client; unless that stream loses events, or the Error, the Close or the write
\* task's watchdog was the last of the server's relay.
THEOREM LossIsNoticed == Spec => []LostUploadIsNoticed
<1>1. IInv => LostUploadIsNoticed
  BY Zenon DEF IInv, Kept, Announced, LostUploadIsNoticed
<1>. QED
  BY Invariance, <1>1, PTL
-----------------------------------------------------------------------------
\* Where the upload's end is, as ByteStream has it.
UpEnd == IF LossyPost \/ writer = "kept" THEN "none"
         ELSE IF writer = "closed" THEN "eof" ELSE "reset"

\* While the client knows the outcome of its requests, what the target is given
\* is the client's byte stream: each chunk once, in order, without a gap, and its
\* end behind the last, until the server's relay drops the writer.
THEOREM Upload == Spec => UploadIsByteStream
<1>1. Init => UpStream!Init
  BY DEF Init, UpStream!Init
<1>2. IInv /\ [Next]_vars =>
        [UpStream!Next]_<<IF LossyPost THEN 0 ELSE posted, ~LossyPost /\ finished,
                          IF LossyPost THEN <<>> ELSE upGot,
                          IF LossyPost \/ writer = "kept" THEN "none"
                          ELSE IF writer = "closed" THEN "eof" ELSE "reset">>
  <2> SUFFICES ASSUME IInv, IInv', [Next]_vars, ~LossyPost, ~LossyPost'
               PROVE  UNCHANGED <<posted, finished, upGot, UpEnd>> \/ UpStream!Next
    <3>1. [Next]_vars => (LossyPost' <=> LossyPost)
      BY SameNetwork DEF LossyPost
    <3>2. IInv /\ [Next]_vars => IInv' /\ finished \in BOOLEAN /\ finished' \in BOOLEAN
      BY Inductive, Zenon DEF IInv, TypeOK
    <3>. QED
      BY <3>1, <3>2 DEF UpEnd
  <2>1. CASE Post
    BY <2>1 DEF Post, serverVars, relayVars, UpStream!Next, UpStream!Send
  <2>2. CASE PostClose
    BY <2>2 DEF PostClose, serverVars, relayVars, UpStream!Next, UpStream!Close
  <2>3. ASSUME NEW r \in reqs, Serve(r)
        PROVE  UNCHANGED <<posted, finished, upGot, UpEnd>> \/ UpStream!Next
    <3>1. /\ UNCHANGED <<posted, finished>> /\ post \in {"first", "second"} /\ r = Current
          /\ r \notin served /\ posted \in Nat
          /\ r[1] = IF finished THEN posted + 1 ELSE posted
      BY <2>3 DEF Serve, clientVars, callVars, IInv, Once, TypeOK, Current, Attempt, Message
    <3>2. CASE writer = "kept" /\ ~finished
      <4>1. Len(upGot) = posted - 1 /\ upGot' = Append(upGot, posted) /\ writer' = "kept"
        BY <2>3, <3>1, <3>2 DEF Serve, IInv, Once
      <4>2. upGot \in Seq(1..MaxUp) /\ Len(upGot) \in Nat
        BY Elements DEF IInv, TypeOK
      <4>3. Len(upGot) < posted /\ posted = Len(upGot) + 1
        BY <3>1, <4>1, <4>2
      <4>. QED
        BY <3>1, <3>2, <4>1, <4>3 DEF UpEnd, UpStream!Next, UpStream!Receive
    <3>3. CASE writer = "kept" /\ finished
      <4>1. Len(upGot) = posted /\ upGot' = upGot /\ writer' = "closed"
        BY <2>3, <3>1, <3>3 DEF Serve, IInv, Once
      <4>. QED
        BY <3>1, <3>3, <4>1 DEF UpEnd, UpStream!Next, UpStream!ReadEof
    <3>4. CASE writer # "kept"
      BY <2>3, <3>1, <3>4 DEF Serve, UpEnd
    <3>. QED
      BY <3>2, <3>3, <3>4
  <2>4. ASSUME UNCHANGED <<posted, finished, upGot>>, writer' = Released
        PROVE  UNCHANGED <<posted, finished, upGot, UpEnd>> \/ UpStream!Next
    <3>1. CASE writer = "kept"
      BY <2>4, <3>1 DEF Released, UpEnd, UpStream!Next, UpStream!Break
    <3>2. CASE writer # "kept"
      BY <2>4, <3>2 DEF Released, UpEnd
    <3>. QED
      BY <3>1, <3>2
  <2>5. CASE GiveUp \/ CloseFails \/ WriteFails \/ WriteWatchdog \/ ServeAbort \/ Restart
    <3>1. UNCHANGED <<posted, finished, upGot>> /\ writer' = Released
      BY <2>5 DEF GiveUp, CloseFails, WriteFails, WriteWatchdog, ServeAbort, Restart, Released,
                  clientVars, callVars
    <3>. QED
      BY <2>4, <3>1
  <2>6. ASSUME UNCHANGED <<posted, finished, upGot, writer>>
        PROVE  UNCHANGED <<posted, finished, upGot, UpEnd>>
    BY <2>6 DEF UpEnd
  <2>7. CASE \/ SendData \/ SendClose \/ ReadError \/ WriteError \/ TakeAbort \/ Dispatch \/ Finish
             \/ StreamBreaks \/ ForcedReconnect \/ ServerNotices \/ Reopen \/ PostOk \/ PostFails
             \/ RetryPost \/ UNCHANGED vars
    <3>1. UNCHANGED <<posted, finished, upGot, writer>>
      BY <2>7 DEF vars, clientVars, serverVars, netVars, callVars, relayVars, SendData, SendClose,
                  ReadError, WriteError, Tells, TakeAbort, Dispatch, Finish, StreamBreaks,
                  ForcedReconnect, ServerNotices, Reopen, PostOk, PostFails, RetryPost
    <3>. QED
      BY <2>6, <3>1
  <2>. QED
    BY <2>1, <2>2, <2>3, <2>5, <2>7 DEF Next
<1>. QED
  BY <1>1, <1>2, Invariance, PTL DEF Spec, UploadIsByteStream, UpStream!Spec

\* Where the download's end is, as ByteStream has it.
DownEnd == IF closed THEN "eof" ELSE IF conn = "open" THEN "none" ELSE "reset"

\* While no stream ends with events in it, what the relay is given is the
\* server's byte stream with its end, across reconnects, until the relay fails.
THEOREM Download == Spec => DownloadIsByteStream
<1>1. Init => DownStream!Init
  BY DEF Init, DownStream!Init
<1>2. IInv /\ IInv' /\ [Next]_vars =>
        [DownStream!Next]_<<IF LossyStream THEN 0 ELSE out, ~LossyStream /\ reading = "closed",
                            IF LossyStream THEN <<>> ELSE rcvd,
                            IF LossyStream THEN "none" ELSE IF closed THEN "eof"
                            ELSE IF conn = "open" THEN "none" ELSE "reset">>
  <2> SUFFICES ASSUME IInv, IInv', [Next]_vars, ~LossyStream, ~LossyStream'
               PROVE  \/ UNCHANGED <<out, reading = "closed", rcvd, DownEnd>>
                      \/ DownStream!Next
    <3>1. [Next]_vars => (LossyStream' <=> LossyStream)
      BY SameNetwork DEF LossyStream
    <3>. QED
      BY <3>1 DEF DownEnd
  <2>u. ASSUME UNCHANGED <<out, rcvd, closed, conn>>, (reading' = "closed") <=> (reading = "closed")
        PROVE  UNCHANGED <<out, reading = "closed", rcvd, DownEnd>>
    BY <2>u DEF DownEnd
  <2>1. CASE SendData
    <3>1. reading # "closed" /\ reading' = reading /\ out' = out + 1 /\ UNCHANGED <<rcvd, closed, conn>>
      BY <2>1 DEF SendData, Reads, clientVars, relayVars
    <3>. QED
      BY <3>1 DEF DownStream!Next, DownStream!Send
  <2>2. CASE SendClose
    <3>1. reading # "closed" /\ reading' = "closed" /\ UNCHANGED <<out, rcvd, closed, conn>>
      BY <2>2 DEF SendClose, Reads, clientVars
    <3>. QED
      BY <3>1 DEF DownStream!Next, DownStream!Close
  <2>3. CASE Dispatch
    <3>1. out' = out /\ reading' = reading
      BY <2>3 DEF Dispatch, serverVars, relayVars
    <3>2. Head(pipe) = pipe[1] /\ 1 \in DOMAIN pipe /\ pipe[1] \in Events
      BY <2>3, Taken DEF Dispatch, IInv, TypeOK
    <3>3. TypeOK
      BY DEF IInv
    <3>4. CASE Head(pipe).kind = "Data" /\ conn = "open"
      <4>1. ~closed
        BY <3>2, <3>4, NoneLeft DEF IInv, Whole
      <4>2. restarts = 0 /\ Clear(1)
        <5>1. pipe[1] # Error /\ pipe[1] # Reset
          BY <3>2, <3>4, Kinds
        <5>2. restarts \in Nat
          BY BoundAssumption DEF IInv, TypeOK
        <5>. QED
          BY <3>2, <5>1, <5>2 DEF IInv, Lives, Clear
      <4>3. 1 <= Missing /\ pipe[1] = Data(Len(rcvd) + 1)
        BY <3>2, <3>4, <4>1, <4>2, Kinds DEF IInv, Whole
      <4>4. Len(rcvd) \in Nat /\ out \in Nat
        BY Elements DEF IInv, TypeOK
      <4>5. Missing = out - Len(rcvd)
        BY DEF Missing
      <4>6. Len(rcvd) < out
        BY <4>3, <4>4, <4>5
      <4>7. rcvd' = Append(rcvd, Len(rcvd) + 1) /\ ~closed' /\ conn' = "open"
        BY <2>3, <3>2, <3>3, <3>4, <4>1, <4>3, Dispatched, Kinds
      <4>. QED
        BY <3>1, <3>4, <4>1, <4>6, <4>7 DEF DownStream!Next, DownStream!Receive
    <3>5. CASE Head(pipe) = Close /\ conn = "open" /\ ~closed
      <4>1. rcvd' = rcvd /\ closed'
        BY <2>3, <3>3, <3>5, Dispatched, Kinds
      <4>2. reading = "closed" /\ Len(rcvd) = out
        BY <3>1, <4>1 DEF IInv, Whole
      <4>. QED
        BY <3>1, <3>5, <4>1, <4>2 DEF DownStream!Next, DownStream!ReadEof
    <3>6. CASE Head(pipe) \in {Error, Reset} /\ conn = "open" /\ ~closed
      <4>1. rcvd' = rcvd /\ ~closed' /\ conn' # "open"
        BY <2>3, <3>3, <3>6, Dispatched, Kinds
      <4>. QED
        BY <3>1, <3>6, <4>1 DEF DownStream!Next, DownStream!Break
    <3>7. CASE (closed \/ conn # "open") /\ ~(Head(pipe).kind = "Data" /\ conn = "open")
      <4>1. rcvd' = rcvd
        BY <2>3, <3>3, <3>7, Dispatched
      <4>2. (closed' <=> closed) /\ (conn # "open" => conn' = conn)
        BY <2>3, <3>3, <3>7, Dispatched
      <4>. QED
        BY <3>1, <3>7, <4>1, <4>2 DEF DownEnd
    <3>. QED
      BY <3>2, <3>4, <3>5, <3>6, <3>7, Kinds
  <2>4. CASE PostFails
    <3>1. UNCHANGED <<out, rcvd, closed, reading>> /\ conn' \in {conn, "failed"}
      BY <2>4 DEF PostFails, serverVars, relayVars
    <3>2. CASE conn = "open" /\ conn' = "failed" /\ ~closed
      BY <3>1, <3>2 DEF DownStream!Next, DownStream!Break
    <3>3. CASE ~(conn = "open" /\ conn' = "failed" /\ ~closed)
      BY <3>1, <3>3 DEF DownEnd
    <3>. QED
      BY <3>2, <3>3
  <2>5. CASE Finish
    BY <2>5 DEF Finish, serverVars, relayVars, DownEnd
  <2>6. CASE \/ GiveUp \/ CloseFails \/ WriteFails \/ WriteWatchdog \/ ReadError \/ WriteError
             \/ ServeAbort \/ TakeAbort \/ StreamBreaks \/ ForcedReconnect \/ ServerNotices
             \/ Reopen \/ Restart
    <3>1. UNCHANGED <<out, rcvd, closed, conn>> /\ ((reading' = "closed") <=> (reading = "closed"))
      BY <2>6 DEF clientVars, serverVars, callVars, relayVars, netVars, GiveUp, CloseFails,
                  WriteFails, WriteWatchdog, ReadError, WriteError, Tells, ServeAbort, TakeAbort,
                  StreamBreaks, ForcedReconnect, ServerNotices, Reopen, Restart, Reads
    <3>. QED
      BY <2>u, <3>1
  <2>7. CASE \/ Post \/ PostClose \/ PostOk \/ RetryPost \/ UNCHANGED vars
             \/ \E r \in reqs : Serve(r)
    <3>1. UNCHANGED <<out, rcvd, closed, conn, reading>>
      BY <2>7 DEF vars, clientVars, serverVars, callVars, relayVars, netVars, Post, PostClose,
                  PostOk, RetryPost, Serve
    <3>. QED
      BY <2>u, <3>1
  <2>. QED
    BY <2>1, <2>2, <2>3, <2>4, <2>5, <2>6, <2>7 DEF Next
<1>. QED
  BY <1>1, <1>2, Invariance, PTL DEF Spec, DownloadIsByteStream, DownStream!Spec
==============================================================================
