------------------------- MODULE ServerRelay_proofs --------------------------
(****************************************************************************)
(* Safety of a proxied connection on the server, for every capacity, budget *)
(* of attempts and number of chunks and streams.                            *)
(*                                                                          *)
(* The invariants the run checks are not inductive.  What makes them so:    *)
(*   Deliveries - which task is about which message;                        *)
(*   Reasons    - why a task ended agrees with the last it had to say;      *)
(*   Down, Up   - where every chunk of the target and of the client is;     *)
(*   Writer     - why the session may have dropped the writer;              *)
(*   Told       - a failure was told to the client, or could not be.        *)
(****************************************************************************)
EXTENDS ServerRelay, Integers, SequenceTheorems, TLAPS

\* A delivery has a message, and the write task only ever has an Error.
Deliveries ==
  /\ \A t \in Tasks : send[t].tx # "none" => send[t].msg # "none"
  /\ rPc = "send" <=> send["read"].msg # "none"
  /\ wPc = "send" <=> send["write"].msg # "none"
  /\ send["write"].msg \in {"none", "Error"}

\* The read task left its loop for a reason its last message agrees with.
Reasons ==
  /\ rPc = "select" => rWhy = "none"
  /\ rPc = "done" => rWhy # "none"
  /\ send["read"].msg = "Data" => rWhy = "none"
  /\ send["read"].msg = "Close" => rWhy = "eof"
  /\ send["read"].msg = "Error" => rWhy \in {"failed", "gone"}
  /\ wPc = "done" <=> wWhy # "none"
  /\ wPc = "done" => writeQ = 0

Reading == IF send["read"].msg = "Data" THEN 1 ELSE 0

\* Where every chunk of the target is, as long as the target has not failed; and
\* no more than it has sent, if it has.
Down ==
  /\ sentData + tgtIn + Reading <= tgtSent
  /\ rWhy = "none" /\ tgtEnd # "rst" => tgtSent = sentData + tgtIn + Reading
  /\ rWhy = "eof" => tgtSent = sentData /\ tgtEnd # "open"
  /\ closeSent => rWhy = "eof"

Writing == (IF wPc = "write" THEN 1 ELSE 0) + (IF posting THEN 1 ELSE 0)

\* Where every chunk of the client is.
Up == posted = discarded + writeQ + Writing + tgtBuf + tgtGot

\* Why the writer may be gone.
Released == \/ closeHeard \/ abortHeard \/ rWhy \in {"failed", "gone"} \/ undelivered

Writer ==
  /\ relay = "none" => wPc = "select" /\ rPc = "select" /\ ~posting
  /\ permit \/ rWhy = "aborted" => abortHeard
  /\ relay # "none" /\ ~writer => Released \/ wPc = "send" \/ wWhy \in {"failed", "dead"}
  /\ wWhy = "closed" => Released /\ ~writer /\ ~posting

\* What went wrong was told, or could not be.
Told ==
  /\ rPc = "done" /\ rWhy \in {"failed", "gone"} => errorSent \/ undelivered
  /\ wWhy = "failed" => errorSent \/ undelivered
  /\ relay = "done" => rPc = "done" /\ wPc = "done"

IInv == /\ TypeOK /\ Deliveries /\ Reasons /\ Down /\ Up /\ Writer
        /\ HalfCloseKeepsUpload /\ Told

\* The parts of TypeOK: flags, positions, numbers and channels.
Flags ==
  /\ finSent \in BOOLEAN /\ writer \in BOOLEAN /\ aborts \in BOOLEAN /\ permit \in BOOLEAN
  /\ posting \in BOOLEAN /\ closeHeard \in BOOLEAN /\ abortHeard \in BOOLEAN
  /\ live \in BOOLEAN
  /\ closeSent \in BOOLEAN /\ errorSent \in BOOLEAN /\ undelivered \in BOOLEAN

Positions ==
  /\ tgtEnd \in {"open", "fin", "rst"} /\ relay \in {"none", "running", "done"}
  /\ rPc \in {"select", "send", "done"}
  /\ rWhy \in {"none", "eof", "failed", "aborted", "gone"}
  /\ wPc \in {"select", "write", "send", "done"}
  /\ wWhy \in {"none", "closed", "failed", "dead"}

Numbers ==
  /\ tgtSent \in Nat /\ tgtIn \in Nat /\ tgtBuf \in Nat /\ tgtGot \in Nat
  /\ posted \in Nat /\ discarded \in Nat /\ opens \in Nat /\ sentData \in Nat
  /\ writeQ \in 0..WriterCap
  /\ ticks \in [Tasks -> 0..DeadGrace]

Sends == [msg : Messages \cup {"none"}, left : 0..SendAttempts,
          tx : {"none", "current", "old", "closed"}]
Channels ==
  /\ sseQ \in Seq(Messages) /\ Len(sseQ) <= SseCap
  /\ send \in [Tasks -> Sends]

\* Together they are TypeOK.
LEMMA Parts == TypeOK <=> Flags /\ Positions /\ Numbers /\ Channels
  BY DEF TypeOK, Flags, Positions, Numbers, Channels, Sends

\* What the code starts to deliver is one of Sends.
LEMMA ToSend ==
  /\ "read" \in Tasks /\ "write" \in Tasks /\ NoSend \in Sends
  /\ \A m \in Messages : Delivery(m, SendAttempts) \in Sends /\ Delivery(m, 1) \in Sends
<1>1. SendAttempts \in 0..SendAttempts /\ 1 \in 0..SendAttempts /\ 0 \in 0..SendAttempts
  BY BudgetAssumption
<1>. QED
  BY <1>1, Zenon DEF Tasks, NoSend, Delivery, Sends, Messages

\* A task that turns to another delivery leaves the other task's alone.
LEMMA Turned ==
  ASSUME NEW s \in [Tasks -> Sends], NEW t \in Tasks, NEW d \in Sends
  PROVE  [s EXCEPT ![t] = d] \in [Tasks -> Sends]
  OBVIOUS

\* A flag is only set and cleared.
LEMMA FlagsStep == Flags /\ [Next]_vars => Flags'
<1> SUFFICES ASSUME Flags, [Next]_vars PROVE Flags'
  OBVIOUS
<1> USE DEF Flags, tgtVars, clientVars, streamVars, sentVars
<1>1. CASE TgtSend
  BY <1>1 DEF TgtSend
<1>2. CASE TgtFin
  BY <1>2 DEF TgtFin
<1>3. CASE TgtReset
  BY <1>3 DEF TgtReset
<1>4. CASE TgtRead
  BY <1>4 DEF TgtRead
<1>5. CASE Connect
  BY <1>5 DEF Connect
<1>6. CASE PostData
  BY <1>6 DEF PostData
<1>7. CASE PostClose
  BY <1>7 DEF PostClose
<1>8. CASE PostAbort
  BY <1>8 DEF PostAbort
<1>9. CASE StreamOpen
  BY <1>9 DEF StreamOpen
<1>10. CASE StreamDrop
  BY <1>10 DEF StreamDrop
<1>11. CASE StreamTake
  BY <1>11 DEF StreamTake
<1>12. CASE DataQueued
  BY <1>12 DEF DataQueued
<1>13. CASE DataRefused
  BY <1>13 DEF DataRefused
<1>14. ASSUME NEW t \in Tasks, FetchSender(t) PROVE Flags'
  BY <1>14 DEF FetchSender
<1>15. ASSUME NEW t \in Tasks, Delivered(t) PROVE Flags'
  BY <1>15 DEF Delivered, Resume, EndWrite, NoSend
<1>16. ASSUME NEW t \in Tasks, Retry(t) PROVE Flags'
  BY <1>16 DEF Retry, AttemptFails
<1>17. ASSUME NEW t \in Tasks, GiveUp(t) PROVE Flags'
  BY <1>17 DEF GiveUp, AttemptFails, EndWrite, NoSend, Delivery
<1>18. CASE ReadChunk
  BY <1>18 DEF ReadChunk, ReadReady, Report, Delivery
<1>19. CASE ReadEof
  BY <1>19 DEF ReadEof, ReadReady, Report, Delivery
<1>20. CASE ReadError
  BY <1>20 DEF ReadError, ReadReady, Report, Delivery
<1>21. CASE ReadAborted
  BY <1>21 DEF ReadAborted, ReadReady
<1>22. CASE ReadTickLive
  BY <1>22 DEF ReadTickLive, ReadReady
<1>23. CASE ReadTick
  BY <1>23 DEF ReadTick, ReadReady
<1>24. CASE ReadDead
  BY <1>24 DEF ReadDead, ReadReady, Report, Delivery
<1>25. CASE RecvChunk
  BY <1>25 DEF RecvChunk, WriteReady
<1>26. CASE RecvNone
  BY <1>26 DEF RecvNone, WriteReady, EndWrite
<1>27. CASE WriteAll
  BY <1>27 DEF WriteAll
<1>28. CASE WriteFails
  BY <1>28 DEF WriteFails, Delivery
<1>29. CASE WriteTickLive
  BY <1>29 DEF WriteTickLive, WatchWrite, WriteReady
<1>30. CASE WriteTick
  BY <1>30 DEF WriteTick, WatchWrite, WriteReady
<1>31. CASE WriteDead
  BY <1>31 DEF WriteDead, WatchWrite, WriteReady, EndWrite
<1>32. CASE Finish
  BY <1>32 DEF Finish
<1>33. CASE UNCHANGED vars
  BY <1>33 DEF vars
<1>. QED
  BY <1>1, <1>2, <1>3, <1>4, <1>5, <1>6, <1>7, <1>8, <1>9, <1>10, <1>11, <1>12, <1>13, <1>14,
     <1>15, <1>16, <1>17, <1>18, <1>19, <1>20, <1>21, <1>22, <1>23, <1>24, <1>25, <1>26,
     <1>27, <1>28, <1>29, <1>30, <1>31, <1>32, <1>33
     DEF Next, Target, Client, Handler, Sending, FromTarget, ReadWatch, ToTarget, WriteWatch

\* A task is at one of its awaits, and ends for one of its reasons.
LEMMA PositionsStep == Positions /\ [Next]_vars => Positions'
<1> SUFFICES ASSUME Positions, [Next]_vars PROVE Positions'
  OBVIOUS
<1> USE DEF Positions, tgtVars, clientVars, streamVars, sentVars
<1>1. CASE TgtSend
  BY <1>1 DEF TgtSend
<1>2. CASE TgtFin
  BY <1>2 DEF TgtFin
<1>3. CASE TgtReset
  BY <1>3 DEF TgtReset
<1>4. CASE TgtRead
  BY <1>4 DEF TgtRead
<1>5. CASE Connect
  BY <1>5 DEF Connect
<1>6. CASE PostData
  BY <1>6 DEF PostData
<1>7. CASE PostClose
  BY <1>7 DEF PostClose
<1>8. CASE PostAbort
  BY <1>8 DEF PostAbort
<1>9. CASE StreamOpen
  BY <1>9 DEF StreamOpen
<1>10. CASE StreamDrop
  BY <1>10 DEF StreamDrop
<1>11. CASE StreamTake
  BY <1>11 DEF StreamTake
<1>12. CASE DataQueued
  BY <1>12 DEF DataQueued
<1>13. CASE DataRefused
  BY <1>13 DEF DataRefused
<1>14. ASSUME NEW t \in Tasks, FetchSender(t) PROVE Positions'
  BY <1>14 DEF FetchSender
<1>15. ASSUME NEW t \in Tasks, Delivered(t) PROVE Positions'
  BY <1>15 DEF Delivered, Resume, EndWrite, NoSend
<1>16. ASSUME NEW t \in Tasks, Retry(t) PROVE Positions'
  BY <1>16 DEF Retry, AttemptFails
<1>17. ASSUME NEW t \in Tasks, GiveUp(t) PROVE Positions'
  BY <1>17 DEF GiveUp, AttemptFails, EndWrite, NoSend, Delivery
<1>18. CASE ReadChunk
  BY <1>18 DEF ReadChunk, ReadReady, Report, Delivery
<1>19. CASE ReadEof
  BY <1>19 DEF ReadEof, ReadReady, Report, Delivery
<1>20. CASE ReadError
  BY <1>20 DEF ReadError, ReadReady, Report, Delivery
<1>21. CASE ReadAborted
  BY <1>21 DEF ReadAborted, ReadReady
<1>22. CASE ReadTickLive
  BY <1>22 DEF ReadTickLive, ReadReady
<1>23. CASE ReadTick
  BY <1>23 DEF ReadTick, ReadReady
<1>24. CASE ReadDead
  BY <1>24 DEF ReadDead, ReadReady, Report, Delivery
<1>25. CASE RecvChunk
  BY <1>25 DEF RecvChunk, WriteReady
<1>26. CASE RecvNone
  BY <1>26 DEF RecvNone, WriteReady, EndWrite
<1>27. CASE WriteAll
  BY <1>27 DEF WriteAll
<1>28. CASE WriteFails
  BY <1>28 DEF WriteFails, Delivery
<1>29. CASE WriteTickLive
  BY <1>29 DEF WriteTickLive, WatchWrite, WriteReady
<1>30. CASE WriteTick
  BY <1>30 DEF WriteTick, WatchWrite, WriteReady
<1>31. CASE WriteDead
  BY <1>31 DEF WriteDead, WatchWrite, WriteReady, EndWrite
<1>32. CASE Finish
  BY <1>32 DEF Finish
<1>33. CASE UNCHANGED vars
  BY <1>33 DEF vars
<1>. QED
  BY <1>1, <1>2, <1>3, <1>4, <1>5, <1>6, <1>7, <1>8, <1>9, <1>10, <1>11, <1>12, <1>13, <1>14,
     <1>15, <1>16, <1>17, <1>18, <1>19, <1>20, <1>21, <1>22, <1>23, <1>24, <1>25, <1>26,
     <1>27, <1>28, <1>29, <1>30, <1>31, <1>32, <1>33
     DEF Next, Target, Client, Handler, Sending, FromTarget, ReadWatch, ToTarget, WriteWatch

\* What is counted stays a number.
LEMMA NumbersStep == Numbers /\ [Next]_vars => Numbers'
<1> SUFFICES ASSUME Numbers, [Next]_vars PROVE Numbers'
  OBVIOUS
<1> USE DEF Numbers, Tasks, tgtVars, clientVars, streamVars, sentVars
<1>1. CASE TgtSend
  BY <1>1 DEF TgtSend
<1>2. CASE TgtFin
  BY <1>2 DEF TgtFin
<1>3. CASE TgtReset
  BY <1>3 DEF TgtReset
<1>4. CASE TgtRead
  BY <1>4 DEF TgtRead
<1>5. CASE Connect
  BY <1>5 DEF Connect
<1>6. CASE PostData
  BY <1>6 DEF PostData
<1>7. CASE PostClose
  BY <1>7 DEF PostClose
<1>8. CASE PostAbort
  BY <1>8 DEF PostAbort
<1>9. CASE StreamOpen
  BY <1>9 DEF StreamOpen
<1>10. CASE StreamDrop
  BY <1>10 DEF StreamDrop
<1>11. CASE StreamTake
  BY <1>11 DEF StreamTake
<1>12. CASE DataQueued
  BY <1>12, CapAssumption DEF DataQueued
<1>13. CASE DataRefused
  BY <1>13 DEF DataRefused
<1>14. ASSUME NEW t \in Tasks, FetchSender(t) PROVE Numbers'
  BY <1>14 DEF FetchSender
<1>15. ASSUME NEW t \in Tasks, Delivered(t) PROVE Numbers'
  BY <1>15, CapAssumption DEF Delivered, Resume, EndWrite, NoSend
<1>16. ASSUME NEW t \in Tasks, Retry(t) PROVE Numbers'
  BY <1>16 DEF Retry, AttemptFails
<1>17. ASSUME NEW t \in Tasks, GiveUp(t) PROVE Numbers'
  BY <1>17, CapAssumption DEF GiveUp, AttemptFails, EndWrite, NoSend, Delivery
<1>18. CASE ReadChunk
  BY <1>18 DEF ReadChunk, ReadReady, Report, Delivery
<1>19. CASE ReadEof
  BY <1>19 DEF ReadEof, ReadReady, Report, Delivery
<1>20. CASE ReadError
  BY <1>20 DEF ReadError, ReadReady, Report, Delivery
<1>21. CASE ReadAborted
  BY <1>21 DEF ReadAborted, ReadReady
<1>22. CASE ReadTickLive
  <2>1. 0 \in 0..DeadGrace
    BY <1>22, BudgetAssumption DEF ReadTickLive
  <2>2. ticks' = [ticks EXCEPT !["read"] = 0]
    BY <1>22 DEF ReadTickLive
  <2>. QED
    BY <1>22, <2>1, <2>2 DEF ReadTickLive
<1>23. CASE ReadTick
  <2>1. ticks["read"] + 1 \in 0..DeadGrace
    BY <1>23, BudgetAssumption DEF ReadTick
  <2>2. ticks' = [ticks EXCEPT !["read"] = ticks["read"] + 1]
    BY <1>23 DEF ReadTick
  <2>. QED
    BY <1>23, <2>1, <2>2 DEF ReadTick
<1>24. CASE ReadDead
  BY <1>24 DEF ReadDead, ReadReady, Report, Delivery
<1>25. CASE RecvChunk
  BY <1>25, CapAssumption DEF RecvChunk, WriteReady
<1>26. CASE RecvNone
  BY <1>26 DEF RecvNone, WriteReady, EndWrite
<1>27. CASE WriteAll
  BY <1>27 DEF WriteAll
<1>28. CASE WriteFails
  BY <1>28 DEF WriteFails, Delivery
<1>29. CASE WriteTickLive
  <2>1. 0 \in 0..DeadGrace
    BY <1>29, BudgetAssumption DEF WriteTickLive
  <2>2. ticks' = [ticks EXCEPT !["write"] = 0]
    BY <1>29 DEF WriteTickLive
  <2>. QED
    BY <1>29, <2>1, <2>2 DEF WriteTickLive
<1>30. CASE WriteTick
  <2>1. ticks["write"] + 1 \in 0..DeadGrace
    BY <1>30, BudgetAssumption DEF WriteTick
  <2>2. ticks' = [ticks EXCEPT !["write"] = ticks["write"] + 1]
    BY <1>30 DEF WriteTick
  <2>. QED
    BY <1>30, <2>1, <2>2 DEF WriteTick
<1>31. CASE WriteDead
  BY <1>31, CapAssumption DEF WriteDead, WatchWrite, WriteReady, EndWrite
<1>32. CASE Finish
  BY <1>32 DEF Finish
<1>33. CASE UNCHANGED vars
  BY <1>33 DEF vars
<1>. QED
  BY <1>1, <1>2, <1>3, <1>4, <1>5, <1>6, <1>7, <1>8, <1>9, <1>10, <1>11, <1>12, <1>13, <1>14,
     <1>15, <1>16, <1>17, <1>18, <1>19, <1>20, <1>21, <1>22, <1>23, <1>24, <1>25, <1>26,
     <1>27, <1>28, <1>29, <1>30, <1>31, <1>32, <1>33
     DEF Next, Target, Client, Handler, Sending, FromTarget, ReadWatch, ToTarget, WriteWatch

\* What is sent is a message.
LEMMA ChannelsStep == Channels /\ Deliveries /\ [Next]_vars => Channels'
<1> SUFFICES ASSUME Channels, Deliveries, [Next]_vars PROVE Channels'
  OBVIOUS
<1> USE DEF Channels, Deliveries, tgtVars, clientVars, streamVars, sentVars
<1>1. CASE TgtSend
  BY <1>1 DEF TgtSend
<1>2. CASE TgtFin
  BY <1>2 DEF TgtFin
<1>3. CASE TgtReset
  BY <1>3 DEF TgtReset
<1>4. CASE TgtRead
  BY <1>4 DEF TgtRead
<1>5. CASE Connect
  BY <1>5 DEF Connect
<1>6. CASE PostData
  BY <1>6 DEF PostData
<1>7. CASE PostClose
  BY <1>7 DEF PostClose
<1>8. CASE PostAbort
  BY <1>8 DEF PostAbort
<1>9. CASE StreamOpen
  <2>1. ASSUME NEW t \in Tasks PROVE send'[t] \in Sends
    <3>1. send[t] \in Sends
      OBVIOUS
    <3>2. \A x \in {"old", "closed"} : [send[t] EXCEPT !.tx = x] \in Sends
      BY <3>1 DEF Sends
    <3>3. \/ send'[t] = send[t] \/ \E x \in {"old", "closed"} : send'[t] = [send[t] EXCEPT !.tx = x]
      BY <1>9 DEF StreamOpen
    <3>. QED
      BY <3>1, <3>2, <3>3
  <2>2. send' \in [Tasks -> Sends]
    BY <1>9, <2>1 DEF StreamOpen
  <2>3. sseQ' \in Seq(Messages) /\ Len(sseQ') <= SseCap
    BY <1>9, CapAssumption DEF StreamOpen
  <2>. QED
    BY <2>2, <2>3
<1>10. CASE StreamDrop
  <2>1. sseQ' \in Seq(Messages) /\ Len(sseQ') <= SseCap
    BY <1>10, CapAssumption DEF StreamDrop
  <2>. QED
    BY <1>10, <2>1 DEF StreamDrop
<1>11. CASE StreamTake
  <2>1. sseQ' \in Seq(Messages) /\ Len(sseQ') <= SseCap
    <3>1. Tail(sseQ) \in Seq(Messages) /\ Len(Tail(sseQ)) = Len(sseQ) - 1 /\ Len(sseQ) \in Nat
      BY <1>11 DEF StreamTake
    <3>. QED
      BY <1>11, <3>1, CapAssumption DEF StreamTake
  <2>. QED
    BY <1>11, <2>1 DEF StreamTake
<1>12. CASE DataQueued
  BY <1>12 DEF DataQueued
<1>13. CASE DataRefused
  BY <1>13 DEF DataRefused
<1>14. ASSUME NEW t \in Tasks, FetchSender(t) PROVE Channels'
  <2>1. [send[t] EXCEPT !.tx = "current"] \in Sends
    BY DEF Sends
  <2>2. send' = [send EXCEPT ![t] = [send[t] EXCEPT !.tx = "current"]] /\ UNCHANGED sseQ
    BY <1>14 DEF FetchSender
  <2>. QED
    BY <2>1, <2>2, Turned
<1>15. ASSUME NEW t \in Tasks, Delivered(t) PROVE Channels'
  <2>1. send' = [send EXCEPT ![t] = NoSend]
    BY <1>15 DEF Delivered, Resume
  <2>2. send' \in [Tasks -> Sends]
    BY <2>1, ToSend, Turned
  <2>3. sseQ' \in Seq(Messages) /\ Len(sseQ') <= SseCap
    <3>1. CASE sseQ' = sseQ
      BY <3>1
    <3>2. CASE send[t].tx = "current" /\ Len(sseQ) < SseCap /\ sseQ' = Append(sseQ, send[t].msg)
      <4>1. send[t].msg \in Messages
        BY <3>2 DEF Sends
      <4>2. sseQ' \in Seq(Messages) /\ Len(sseQ') = Len(sseQ) + 1 /\ Len(sseQ) \in Nat
        BY <3>2, <4>1
      <4>. QED
        BY <3>2, <4>2, CapAssumption
    <3>. QED
      BY <1>15, <3>1, <3>2 DEF Delivered
  <2>. QED
    BY <2>2, <2>3
<1>16. ASSUME NEW t \in Tasks, Retry(t) PROVE Channels'
  <2>1. send[t].left \in 0..SendAttempts /\ send[t].left > 1
    BY <1>16 DEF Retry, Sends
  <2>2. send[t].left - 1 \in 0..SendAttempts
    BY <2>1, BudgetAssumption
  <2>3. [send[t] EXCEPT !.left = send[t].left - 1, !.tx = "none"] \in Sends
    BY <2>2 DEF Sends
  <2>4. /\ send' = [send EXCEPT ![t] = [send[t] EXCEPT !.left = send[t].left - 1, !.tx = "none"]]
        /\ UNCHANGED sseQ
    BY <1>16 DEF Retry
  <2>. QED
    BY <2>3, <2>4, Turned
<1>17. ASSUME NEW t \in Tasks, GiveUp(t) PROVE Channels'
  <2>1. NoSend \in Sends /\ Delivery("Error", 1) \in Sends
    BY ToSend DEF Messages
  <2>2. \E d \in {NoSend, Delivery("Error", 1)} : send' = [send EXCEPT ![t] = d]
    BY <1>17 DEF GiveUp
  <2>3. UNCHANGED sseQ
    BY <1>17 DEF GiveUp
  <2>. QED
    BY <2>1, <2>2, <2>3, Turned
<1>18. CASE ReadChunk
  <2>1. "read" \in Tasks /\ Delivery("Data", SendAttempts) \in Sends
    BY ToSend DEF Messages
  <2>2. send' = [send EXCEPT !["read"] = Delivery("Data", SendAttempts)] /\ UNCHANGED sseQ
    BY <1>18 DEF ReadChunk, Report, streamVars
  <2>. QED
    BY <2>1, <2>2, Turned
<1>19. CASE ReadEof
  <2>1. "read" \in Tasks /\ Delivery("Close", SendAttempts) \in Sends
    BY ToSend DEF Messages
  <2>2. send' = [send EXCEPT !["read"] = Delivery("Close", SendAttempts)] /\ UNCHANGED sseQ
    BY <1>19 DEF ReadEof, Report, streamVars
  <2>. QED
    BY <2>1, <2>2, Turned
<1>20. CASE ReadError
  <2>1. "read" \in Tasks /\ Delivery("Error", SendAttempts) \in Sends
    BY ToSend DEF Messages
  <2>2. send' = [send EXCEPT !["read"] = Delivery("Error", SendAttempts)] /\ UNCHANGED sseQ
    BY <1>20 DEF ReadError, Report, streamVars
  <2>. QED
    BY <2>1, <2>2, Turned
<1>21. CASE ReadAborted
  BY <1>21 DEF ReadAborted, ReadReady
<1>22. CASE ReadTickLive
  BY <1>22 DEF ReadTickLive, ReadReady
<1>23. CASE ReadTick
  BY <1>23 DEF ReadTick, ReadReady
<1>24. CASE ReadDead
  <2>1. "read" \in Tasks /\ Delivery("Error", 1) \in Sends
    BY ToSend DEF Messages
  <2>2. send' = [send EXCEPT !["read"] = Delivery("Error", 1)] /\ UNCHANGED sseQ
    BY <1>24 DEF ReadDead, Report, streamVars
  <2>. QED
    BY <2>1, <2>2, Turned
<1>25. CASE RecvChunk
  BY <1>25 DEF RecvChunk, WriteReady
<1>26. CASE RecvNone
  BY <1>26 DEF RecvNone, WriteReady, EndWrite
<1>27. CASE WriteAll
  BY <1>27 DEF WriteAll
<1>28. CASE WriteFails
  <2>1. "write" \in Tasks /\ Delivery("Error", SendAttempts) \in Sends
    BY ToSend DEF Messages
  <2>2. send' = [send EXCEPT !["write"] = Delivery("Error", SendAttempts)] /\ UNCHANGED sseQ
    BY <1>28 DEF WriteFails
  <2>. QED
    BY <2>1, <2>2, Turned
<1>29. CASE WriteTickLive
  BY <1>29 DEF WriteTickLive, WatchWrite, WriteReady
<1>30. CASE WriteTick
  BY <1>30 DEF WriteTick, WatchWrite, WriteReady
<1>31. CASE WriteDead
  BY <1>31 DEF WriteDead, WatchWrite, WriteReady, EndWrite
<1>32. CASE Finish
  BY <1>32 DEF Finish
<1>33. CASE UNCHANGED vars
  BY <1>33 DEF vars
<1>. QED
  BY <1>1, <1>2, <1>3, <1>4, <1>5, <1>6, <1>7, <1>8, <1>9, <1>10, <1>11, <1>12, <1>13, <1>14,
     <1>15, <1>16, <1>17, <1>18, <1>19, <1>20, <1>21, <1>22, <1>23, <1>24, <1>25, <1>26,
     <1>27, <1>28, <1>29, <1>30, <1>31, <1>32, <1>33
     DEF Next, Target, Client, Handler, Sending, FromTarget, ReadWatch, ToTarget, WriteWatch

\* Every step keeps the types.
LEMMA TypeStep == TypeOK /\ Deliveries /\ [Next]_vars => TypeOK'
<1>1. TypeOK' <=> Flags' /\ Positions' /\ Numbers' /\ Channels'
  BY DEF TypeOK, Flags, Positions, Numbers, Channels, Sends
<1>. QED
  BY <1>1, Parts, FlagsStep, PositionsStep, NumbersStep, ChannelsStep

\* No chunk of the client is lost count of.
LEMMA UpStep == TypeOK /\ Deliveries /\ Reasons /\ Up /\ [Next]_vars => Up'
<1> SUFFICES ASSUME TypeOK, Deliveries, Reasons, Up, [Next]_vars PROVE Up'
  OBVIOUS
<1> USE DEF TypeOK, Deliveries, Reasons, Up, Writing, Tasks, Messages, tgtVars, clientVars,
        streamVars, sentVars
<1>1. CASE TgtSend
  BY <1>1 DEF TgtSend
<1>2. CASE TgtFin
  BY <1>2 DEF TgtFin
<1>3. CASE TgtReset
  BY <1>3 DEF TgtReset
<1>4. CASE TgtRead
  BY <1>4 DEF TgtRead
<1>5. CASE Connect
  BY <1>5 DEF Connect
<1>6. CASE PostData
  BY <1>6 DEF PostData
<1>7. CASE PostClose
  BY <1>7 DEF PostClose
<1>8. CASE PostAbort
  BY <1>8 DEF PostAbort
<1>9. CASE StreamOpen
  BY <1>9 DEF StreamOpen
<1>10. CASE StreamDrop
  BY <1>10 DEF StreamDrop
<1>11. CASE StreamTake
  BY <1>11 DEF StreamTake
<1>12. CASE DataQueued
  BY <1>12 DEF DataQueued
<1>13. CASE DataRefused
  BY <1>13 DEF DataRefused
<1>14. ASSUME NEW t \in Tasks, FetchSender(t) PROVE Up'
  BY <1>14 DEF FetchSender
<1>15. ASSUME NEW t \in Tasks, Delivered(t) PROVE Up'
  <2>1. CASE t = "read"
    BY <1>15, <2>1 DEF Delivered, Resume, EndWrite, NoSend
  <2>2. CASE t = "write"
    <3>1. /\ wPc = "send" /\ wPc' = "done" /\ discarded' = discarded + writeQ /\ writeQ' = 0
          /\ UNCHANGED <<posted, posting, tgtBuf, tgtGot>>
      BY <1>15, <2>2 DEF Delivered, Resume, EndWrite, NoSend
    <3>2. writeQ \in Nat /\ discarded \in Nat /\ tgtBuf \in Nat /\ tgtGot \in Nat
      BY CapAssumption
    <3>. QED
      BY <3>1, <3>2
  <2>. QED
    BY <2>1, <2>2
<1>16. ASSUME NEW t \in Tasks, Retry(t) PROVE Up'
  BY <1>16 DEF Retry, AttemptFails
<1>17. ASSUME NEW t \in Tasks, GiveUp(t) PROVE Up'
  <2>1. CASE t = "read"
    BY <1>17, <2>1 DEF GiveUp, AttemptFails, EndWrite, NoSend, Delivery
  <2>2. CASE t = "write"
    <3>1. /\ wPc = "send" /\ wPc' = "done" /\ discarded' = discarded + writeQ /\ writeQ' = 0
          /\ UNCHANGED <<posted, posting, tgtBuf, tgtGot>>
      BY <1>17, <2>2 DEF GiveUp, AttemptFails, EndWrite, NoSend, Delivery
    <3>2. writeQ \in Nat /\ discarded \in Nat /\ tgtBuf \in Nat /\ tgtGot \in Nat
      BY CapAssumption
    <3>. QED
      BY <3>1, <3>2
  <2>. QED
    BY <2>1, <2>2
<1>18. CASE ReadChunk
  BY <1>18 DEF ReadChunk, ReadReady, Report, Delivery
<1>19. CASE ReadEof
  BY <1>19 DEF ReadEof, ReadReady, Report, Delivery
<1>20. CASE ReadError
  BY <1>20 DEF ReadError, ReadReady, Report, Delivery
<1>21. CASE ReadAborted
  BY <1>21 DEF ReadAborted, ReadReady
<1>22. CASE ReadTickLive
  BY <1>22 DEF ReadTickLive, ReadReady
<1>23. CASE ReadTick
  BY <1>23 DEF ReadTick, ReadReady
<1>24. CASE ReadDead
  BY <1>24 DEF ReadDead, ReadReady, Report, Delivery
<1>25. CASE RecvChunk
  BY <1>25 DEF RecvChunk, WriteReady
<1>26. CASE RecvNone
  BY <1>26 DEF RecvNone, WriteReady, EndWrite
<1>27. CASE WriteAll
  BY <1>27 DEF WriteAll
<1>28. CASE WriteFails
  BY <1>28 DEF WriteFails, Delivery
<1>29. CASE WriteTickLive
  BY <1>29 DEF WriteTickLive, WatchWrite, WriteReady
<1>30. CASE WriteTick
  BY <1>30 DEF WriteTick, WatchWrite, WriteReady
<1>31. CASE WriteDead
  BY <1>31 DEF WriteDead, WatchWrite, WriteReady, EndWrite
<1>32. CASE Finish
  BY <1>32 DEF Finish
<1>33. CASE UNCHANGED vars
  BY <1>33 DEF vars
<1>. QED
  BY <1>1, <1>2, <1>3, <1>4, <1>5, <1>6, <1>7, <1>8, <1>9, <1>10, <1>11, <1>12, <1>13, <1>14,
     <1>15, <1>16, <1>17, <1>18, <1>19, <1>20, <1>21, <1>22, <1>23, <1>24, <1>25, <1>26,
     <1>27, <1>28, <1>29, <1>30, <1>31, <1>32, <1>33
     DEF Next, Target, Client, Handler, Sending, FromTarget, ReadWatch, ToTarget, WriteWatch

\* A task is about one delivery at a time.
LEMMA DeliveriesStep == TypeOK /\ Deliveries /\ [Next]_vars => Deliveries'
<1> SUFFICES ASSUME TypeOK, Deliveries, [Next]_vars PROVE Deliveries'
  OBVIOUS
<1> USE DEF TypeOK, Deliveries, Tasks, Messages, tgtVars, clientVars, streamVars, sentVars
<1>1. CASE TgtSend
  BY <1>1 DEF TgtSend
<1>2. CASE TgtFin
  BY <1>2 DEF TgtFin
<1>3. CASE TgtReset
  BY <1>3 DEF TgtReset
<1>4. CASE TgtRead
  BY <1>4 DEF TgtRead
<1>5. CASE Connect
  BY <1>5 DEF Connect
<1>6. CASE PostData
  BY <1>6 DEF PostData
<1>7. CASE PostClose
  BY <1>7 DEF PostClose
<1>8. CASE PostAbort
  BY <1>8 DEF PostAbort
<1>9. CASE StreamOpen
  BY <1>9 DEF StreamOpen
<1>10. CASE StreamDrop
  BY <1>10 DEF StreamDrop
<1>11. CASE StreamTake
  BY <1>11 DEF StreamTake
<1>12. CASE DataQueued
  BY <1>12 DEF DataQueued
<1>13. CASE DataRefused
  BY <1>13 DEF DataRefused
<1>14. ASSUME NEW t \in Tasks, FetchSender(t) PROVE Deliveries'
  BY <1>14 DEF FetchSender
<1>15. ASSUME NEW t \in Tasks, Delivered(t) PROVE Deliveries'
  BY <1>15 DEF Delivered, Resume, EndWrite, NoSend
<1>16. ASSUME NEW t \in Tasks, Retry(t) PROVE Deliveries'
  BY <1>16 DEF Retry, AttemptFails
<1>17. ASSUME NEW t \in Tasks, GiveUp(t) PROVE Deliveries'
  BY <1>17 DEF GiveUp, AttemptFails, EndWrite, NoSend, Delivery
<1>18. CASE ReadChunk
  BY <1>18 DEF ReadChunk, ReadReady, Report, Delivery
<1>19. CASE ReadEof
  BY <1>19 DEF ReadEof, ReadReady, Report, Delivery
<1>20. CASE ReadError
  BY <1>20 DEF ReadError, ReadReady, Report, Delivery
<1>21. CASE ReadAborted
  BY <1>21 DEF ReadAborted, ReadReady
<1>22. CASE ReadTickLive
  BY <1>22 DEF ReadTickLive, ReadReady
<1>23. CASE ReadTick
  BY <1>23 DEF ReadTick, ReadReady
<1>24. CASE ReadDead
  BY <1>24 DEF ReadDead, ReadReady, Report, Delivery
<1>25. CASE RecvChunk
  BY <1>25 DEF RecvChunk, WriteReady
<1>26. CASE RecvNone
  BY <1>26 DEF RecvNone, WriteReady, EndWrite
<1>27. CASE WriteAll
  BY <1>27 DEF WriteAll
<1>28. CASE WriteFails
  BY <1>28 DEF WriteFails, Delivery
<1>29. CASE WriteTickLive
  BY <1>29 DEF WriteTickLive, WatchWrite, WriteReady
<1>30. CASE WriteTick
  BY <1>30 DEF WriteTick, WatchWrite, WriteReady
<1>31. CASE WriteDead
  BY <1>31 DEF WriteDead, WatchWrite, WriteReady, EndWrite
<1>32. CASE Finish
  BY <1>32 DEF Finish
<1>33. CASE UNCHANGED vars
  BY <1>33 DEF vars
<1>. QED
  BY <1>1, <1>2, <1>3, <1>4, <1>5, <1>6, <1>7, <1>8, <1>9, <1>10, <1>11, <1>12, <1>13, <1>14,
     <1>15, <1>16, <1>17, <1>18, <1>19, <1>20, <1>21, <1>22, <1>23, <1>24, <1>25, <1>26,
     <1>27, <1>28, <1>29, <1>30, <1>31, <1>32, <1>33
     DEF Next, Target, Client, Handler, Sending, FromTarget, ReadWatch, ToTarget, WriteWatch

\* Why a task ended is said once.
LEMMA ReasonsStep == TypeOK /\ Deliveries /\ Reasons /\ [Next]_vars => Reasons'
<1> SUFFICES ASSUME TypeOK, Deliveries, Reasons, [Next]_vars PROVE Reasons'
  OBVIOUS
<1> USE DEF TypeOK, Deliveries, Reasons, Tasks, Messages, tgtVars, clientVars, streamVars,
        sentVars
<1>1. CASE TgtSend
  BY <1>1 DEF TgtSend
<1>2. CASE TgtFin
  BY <1>2 DEF TgtFin
<1>3. CASE TgtReset
  BY <1>3 DEF TgtReset
<1>4. CASE TgtRead
  BY <1>4 DEF TgtRead
<1>5. CASE Connect
  BY <1>5 DEF Connect
<1>6. CASE PostData
  BY <1>6 DEF PostData
<1>7. CASE PostClose
  BY <1>7 DEF PostClose
<1>8. CASE PostAbort
  BY <1>8 DEF PostAbort
<1>9. CASE StreamOpen
  BY <1>9 DEF StreamOpen
<1>10. CASE StreamDrop
  BY <1>10 DEF StreamDrop
<1>11. CASE StreamTake
  BY <1>11 DEF StreamTake
<1>12. CASE DataQueued
  BY <1>12 DEF DataQueued
<1>13. CASE DataRefused
  BY <1>13 DEF DataRefused
<1>14. ASSUME NEW t \in Tasks, FetchSender(t) PROVE Reasons'
  BY <1>14 DEF FetchSender
<1>15. ASSUME NEW t \in Tasks, Delivered(t) PROVE Reasons'
  BY <1>15 DEF Delivered, Resume, EndWrite, NoSend
<1>16. ASSUME NEW t \in Tasks, Retry(t) PROVE Reasons'
  BY <1>16 DEF Retry, AttemptFails
<1>17. ASSUME NEW t \in Tasks, GiveUp(t) PROVE Reasons'
  BY <1>17 DEF GiveUp, AttemptFails, EndWrite, NoSend, Delivery
<1>18. CASE ReadChunk
  BY <1>18 DEF ReadChunk, ReadReady, Report, Delivery
<1>19. CASE ReadEof
  BY <1>19 DEF ReadEof, ReadReady, Report, Delivery
<1>20. CASE ReadError
  BY <1>20 DEF ReadError, ReadReady, Report, Delivery
<1>21. CASE ReadAborted
  BY <1>21 DEF ReadAborted, ReadReady
<1>22. CASE ReadTickLive
  BY <1>22 DEF ReadTickLive, ReadReady
<1>23. CASE ReadTick
  BY <1>23 DEF ReadTick, ReadReady
<1>24. CASE ReadDead
  BY <1>24 DEF ReadDead, ReadReady, Report, Delivery
<1>25. CASE RecvChunk
  BY <1>25 DEF RecvChunk, WriteReady
<1>26. CASE RecvNone
  BY <1>26 DEF RecvNone, WriteReady, EndWrite
<1>27. CASE WriteAll
  BY <1>27 DEF WriteAll
<1>28. CASE WriteFails
  BY <1>28 DEF WriteFails, Delivery
<1>29. CASE WriteTickLive
  BY <1>29 DEF WriteTickLive, WatchWrite, WriteReady
<1>30. CASE WriteTick
  BY <1>30 DEF WriteTick, WatchWrite, WriteReady
<1>31. CASE WriteDead
  BY <1>31 DEF WriteDead, WatchWrite, WriteReady, EndWrite
<1>32. CASE Finish
  BY <1>32 DEF Finish
<1>33. CASE UNCHANGED vars
  BY <1>33 DEF vars
<1>. QED
  BY <1>1, <1>2, <1>3, <1>4, <1>5, <1>6, <1>7, <1>8, <1>9, <1>10, <1>11, <1>12, <1>13, <1>14,
     <1>15, <1>16, <1>17, <1>18, <1>19, <1>20, <1>21, <1>22, <1>23, <1>24, <1>25, <1>26,
     <1>27, <1>28, <1>29, <1>30, <1>31, <1>32, <1>33
     DEF Next, Target, Client, Handler, Sending, FromTarget, ReadWatch, ToTarget, WriteWatch

\* No chunk of the target is skipped.
LEMMA DownStep == TypeOK /\ Deliveries /\ Reasons /\ Down /\ [Next]_vars => Down'
<1> SUFFICES ASSUME TypeOK, Deliveries, Reasons, Down, [Next]_vars PROVE Down'
  OBVIOUS
<1> USE DEF TypeOK, Deliveries, Reasons, Down, Reading, Tasks, Messages, tgtVars, clientVars,
        streamVars, sentVars
<1>1. CASE TgtSend
  BY <1>1 DEF TgtSend
<1>2. CASE TgtFin
  BY <1>2 DEF TgtFin
<1>3. CASE TgtReset
  <2>1. /\ tgtSent \in Nat /\ tgtIn \in Nat /\ sentData \in Nat
        /\ tgtIn' \in {0, tgtIn} /\ Reading \in {0, 1}
        /\ UNCHANGED <<tgtSent, sentData, Reading, rWhy, closeSent>> /\ tgtEnd' = "rst"
    BY <1>3 DEF TgtReset
  <2>2. sentData + tgtIn + Reading <= tgtSent
    OBVIOUS
  <2>3. sentData' + tgtIn' + Reading' <= tgtSent'
    <3>1. CASE tgtIn' = tgtIn
      BY <2>1, <2>2, <3>1
    <3>2. CASE tgtIn' = 0
      BY <2>1, <2>2, <3>2
    <3>. QED
      BY <2>1, <3>1, <3>2
  <2>. QED
    BY <2>1, <2>3 DEF Down
<1>4. CASE TgtRead
  BY <1>4 DEF TgtRead
<1>5. CASE Connect
  BY <1>5 DEF Connect
<1>6. CASE PostData
  BY <1>6 DEF PostData
<1>7. CASE PostClose
  BY <1>7 DEF PostClose
<1>8. CASE PostAbort
  BY <1>8 DEF PostAbort
<1>9. CASE StreamOpen
  BY <1>9 DEF StreamOpen
<1>10. CASE StreamDrop
  BY <1>10 DEF StreamDrop
<1>11. CASE StreamTake
  BY <1>11 DEF StreamTake
<1>12. CASE DataQueued
  BY <1>12 DEF DataQueued
<1>13. CASE DataRefused
  BY <1>13 DEF DataRefused
<1>14. ASSUME NEW t \in Tasks, FetchSender(t) PROVE Down'
  BY <1>14 DEF FetchSender
<1>15. ASSUME NEW t \in Tasks, Delivered(t) PROVE Down'
  BY <1>15 DEF Delivered, Resume, EndWrite, NoSend
<1>16. ASSUME NEW t \in Tasks, Retry(t) PROVE Down'
  BY <1>16 DEF Retry, AttemptFails
<1>17. ASSUME NEW t \in Tasks, GiveUp(t) PROVE Down'
  BY <1>17 DEF GiveUp, AttemptFails, EndWrite, NoSend, Delivery
<1>18. CASE ReadChunk
  BY <1>18 DEF ReadChunk, ReadReady, Report, Delivery
<1>19. CASE ReadEof
  BY <1>19 DEF ReadEof, ReadReady, Report, Delivery
<1>20. CASE ReadError
  BY <1>20 DEF ReadError, ReadReady, Report, Delivery
<1>21. CASE ReadAborted
  BY <1>21 DEF ReadAborted, ReadReady
<1>22. CASE ReadTickLive
  BY <1>22 DEF ReadTickLive, ReadReady
<1>23. CASE ReadTick
  BY <1>23 DEF ReadTick, ReadReady
<1>24. CASE ReadDead
  BY <1>24 DEF ReadDead, ReadReady, Report, Delivery
<1>25. CASE RecvChunk
  BY <1>25 DEF RecvChunk, WriteReady
<1>26. CASE RecvNone
  BY <1>26 DEF RecvNone, WriteReady, EndWrite
<1>27. CASE WriteAll
  BY <1>27 DEF WriteAll
<1>28. CASE WriteFails
  BY <1>28 DEF WriteFails, Delivery
<1>29. CASE WriteTickLive
  BY <1>29 DEF WriteTickLive, WatchWrite, WriteReady
<1>30. CASE WriteTick
  BY <1>30 DEF WriteTick, WatchWrite, WriteReady
<1>31. CASE WriteDead
  BY <1>31 DEF WriteDead, WatchWrite, WriteReady, EndWrite
<1>32. CASE Finish
  BY <1>32 DEF Finish
<1>33. CASE UNCHANGED vars
  BY <1>33 DEF vars
<1>. QED
  BY <1>1, <1>2, <1>3, <1>4, <1>5, <1>6, <1>7, <1>8, <1>9, <1>10, <1>11, <1>12, <1>13, <1>14,
     <1>15, <1>16, <1>17, <1>18, <1>19, <1>20, <1>21, <1>22, <1>23, <1>24, <1>25, <1>26,
     <1>27, <1>28, <1>29, <1>30, <1>31, <1>32, <1>33
     DEF Next, Target, Client, Handler, Sending, FromTarget, ReadWatch, ToTarget, WriteWatch

\* The writer goes for a reason.
LEMMA WriterStep == TypeOK /\ Deliveries /\ Reasons /\ Writer /\ [Next]_vars => Writer'
<1> SUFFICES ASSUME TypeOK, Deliveries, Reasons, Writer, [Next]_vars PROVE Writer'
  OBVIOUS
<1> USE DEF TypeOK, Deliveries, Reasons, Writer, Released, Tasks, Messages, tgtVars, clientVars,
        streamVars, sentVars
<1>1. CASE TgtSend
  BY <1>1 DEF TgtSend
<1>2. CASE TgtFin
  BY <1>2 DEF TgtFin
<1>3. CASE TgtReset
  BY <1>3 DEF TgtReset
<1>4. CASE TgtRead
  BY <1>4 DEF TgtRead
<1>5. CASE Connect
  BY <1>5 DEF Connect
<1>6. CASE PostData
  BY <1>6 DEF PostData
<1>7. CASE PostClose
  BY <1>7 DEF PostClose
<1>8. CASE PostAbort
  BY <1>8 DEF PostAbort
<1>9. CASE StreamOpen
  BY <1>9 DEF StreamOpen
<1>10. CASE StreamDrop
  BY <1>10 DEF StreamDrop
<1>11. CASE StreamTake
  BY <1>11 DEF StreamTake
<1>12. CASE DataQueued
  BY <1>12 DEF DataQueued
<1>13. CASE DataRefused
  BY <1>13 DEF DataRefused
<1>14. ASSUME NEW t \in Tasks, FetchSender(t) PROVE Writer'
  BY <1>14 DEF FetchSender
<1>15. ASSUME NEW t \in Tasks, Delivered(t) PROVE Writer'
  BY <1>15 DEF Delivered, Resume, EndWrite, NoSend
<1>16. ASSUME NEW t \in Tasks, Retry(t) PROVE Writer'
  BY <1>16 DEF Retry, AttemptFails
<1>17. ASSUME NEW t \in Tasks, GiveUp(t) PROVE Writer'
  BY <1>17 DEF GiveUp, AttemptFails, EndWrite, NoSend, Delivery
<1>18. CASE ReadChunk
  BY <1>18 DEF ReadChunk, ReadReady, Report, Delivery
<1>19. CASE ReadEof
  BY <1>19 DEF ReadEof, ReadReady, Report, Delivery
<1>20. CASE ReadError
  BY <1>20 DEF ReadError, ReadReady, Report, Delivery
<1>21. CASE ReadAborted
  BY <1>21 DEF ReadAborted, ReadReady
<1>22. CASE ReadTickLive
  BY <1>22 DEF ReadTickLive, ReadReady
<1>23. CASE ReadTick
  BY <1>23 DEF ReadTick, ReadReady
<1>24. CASE ReadDead
  BY <1>24 DEF ReadDead, ReadReady, Report, Delivery
<1>25. CASE RecvChunk
  BY <1>25 DEF RecvChunk, WriteReady
<1>26. CASE RecvNone
  BY <1>26 DEF RecvNone, WriteReady, EndWrite
<1>27. CASE WriteAll
  BY <1>27 DEF WriteAll
<1>28. CASE WriteFails
  BY <1>28 DEF WriteFails, Delivery
<1>29. CASE WriteTickLive
  BY <1>29 DEF WriteTickLive, WatchWrite, WriteReady
<1>30. CASE WriteTick
  BY <1>30 DEF WriteTick, WatchWrite, WriteReady
<1>31. CASE WriteDead
  BY <1>31 DEF WriteDead, WatchWrite, WriteReady, EndWrite
<1>32. CASE Finish
  BY <1>32 DEF Finish
<1>33. CASE UNCHANGED vars
  BY <1>33 DEF vars
<1>. QED
  BY <1>1, <1>2, <1>3, <1>4, <1>5, <1>6, <1>7, <1>8, <1>9, <1>10, <1>11, <1>12, <1>13, <1>14,
     <1>15, <1>16, <1>17, <1>18, <1>19, <1>20, <1>21, <1>22, <1>23, <1>24, <1>25, <1>26,
     <1>27, <1>28, <1>29, <1>30, <1>31, <1>32, <1>33
     DEF Next, Target, Client, Handler, Sending, FromTarget, ReadWatch, ToTarget, WriteWatch

\* A chunk is thrown away for a reason.
LEMMA DiscardStep == TypeOK /\ Deliveries /\ Reasons /\ Writer /\ HalfCloseKeepsUpload
                      /\ [Next]_vars => HalfCloseKeepsUpload'
<1> SUFFICES ASSUME TypeOK, Deliveries, Reasons, Writer, HalfCloseKeepsUpload, [Next]_vars
          PROVE  HalfCloseKeepsUpload'
  OBVIOUS
<1> USE DEF TypeOK, Deliveries, Reasons, Writer, Released, HalfCloseKeepsUpload, Tasks,
        Messages, tgtVars, clientVars, streamVars, sentVars
<1>1. CASE TgtSend
  BY <1>1 DEF TgtSend
<1>2. CASE TgtFin
  BY <1>2 DEF TgtFin
<1>3. CASE TgtReset
  BY <1>3 DEF TgtReset
<1>4. CASE TgtRead
  BY <1>4 DEF TgtRead
<1>5. CASE Connect
  BY <1>5 DEF Connect
<1>6. CASE PostData
  BY <1>6 DEF PostData
<1>7. CASE PostClose
  BY <1>7 DEF PostClose
<1>8. CASE PostAbort
  BY <1>8 DEF PostAbort
<1>9. CASE StreamOpen
  BY <1>9 DEF StreamOpen
<1>10. CASE StreamDrop
  BY <1>10 DEF StreamDrop
<1>11. CASE StreamTake
  BY <1>11 DEF StreamTake
<1>12. CASE DataQueued
  BY <1>12 DEF DataQueued
<1>13. CASE DataRefused
  BY <1>13 DEF DataRefused
<1>14. ASSUME NEW t \in Tasks, FetchSender(t) PROVE HalfCloseKeepsUpload'
  BY <1>14 DEF FetchSender
<1>15. ASSUME NEW t \in Tasks, Delivered(t) PROVE HalfCloseKeepsUpload'
  BY <1>15 DEF Delivered, Resume, EndWrite, NoSend
<1>16. ASSUME NEW t \in Tasks, Retry(t) PROVE HalfCloseKeepsUpload'
  BY <1>16 DEF Retry, AttemptFails
<1>17. ASSUME NEW t \in Tasks, GiveUp(t) PROVE HalfCloseKeepsUpload'
  BY <1>17 DEF GiveUp, AttemptFails, EndWrite, NoSend, Delivery
<1>18. CASE ReadChunk
  BY <1>18 DEF ReadChunk, ReadReady, Report, Delivery
<1>19. CASE ReadEof
  BY <1>19 DEF ReadEof, ReadReady, Report, Delivery
<1>20. CASE ReadError
  BY <1>20 DEF ReadError, ReadReady, Report, Delivery
<1>21. CASE ReadAborted
  BY <1>21 DEF ReadAborted, ReadReady
<1>22. CASE ReadTickLive
  BY <1>22 DEF ReadTickLive, ReadReady
<1>23. CASE ReadTick
  BY <1>23 DEF ReadTick, ReadReady
<1>24. CASE ReadDead
  BY <1>24 DEF ReadDead, ReadReady, Report, Delivery
<1>25. CASE RecvChunk
  BY <1>25 DEF RecvChunk, WriteReady
<1>26. CASE RecvNone
  BY <1>26 DEF RecvNone, WriteReady, EndWrite
<1>27. CASE WriteAll
  BY <1>27 DEF WriteAll
<1>28. CASE WriteFails
  BY <1>28 DEF WriteFails, Delivery
<1>29. CASE WriteTickLive
  BY <1>29 DEF WriteTickLive, WatchWrite, WriteReady
<1>30. CASE WriteTick
  BY <1>30 DEF WriteTick, WatchWrite, WriteReady
<1>31. CASE WriteDead
  BY <1>31 DEF WriteDead, WatchWrite, WriteReady, EndWrite
<1>32. CASE Finish
  BY <1>32 DEF Finish
<1>33. CASE UNCHANGED vars
  BY <1>33 DEF vars
<1>. QED
  BY <1>1, <1>2, <1>3, <1>4, <1>5, <1>6, <1>7, <1>8, <1>9, <1>10, <1>11, <1>12, <1>13, <1>14,
     <1>15, <1>16, <1>17, <1>18, <1>19, <1>20, <1>21, <1>22, <1>23, <1>24, <1>25, <1>26,
     <1>27, <1>28, <1>29, <1>30, <1>31, <1>32, <1>33
     DEF Next, Target, Client, Handler, Sending, FromTarget, ReadWatch, ToTarget, WriteWatch

\* A failure is told, or cannot be.
LEMMA ToldStep == TypeOK /\ Deliveries /\ Reasons /\ Told /\ [Next]_vars => Told'
<1> SUFFICES ASSUME TypeOK, Deliveries, Reasons, Told, [Next]_vars PROVE Told'
  OBVIOUS
<1> USE DEF TypeOK, Deliveries, Reasons, Told, Tasks, Messages, tgtVars, clientVars, streamVars,
        sentVars
<1>1. CASE TgtSend
  BY <1>1 DEF TgtSend
<1>2. CASE TgtFin
  BY <1>2 DEF TgtFin
<1>3. CASE TgtReset
  BY <1>3 DEF TgtReset
<1>4. CASE TgtRead
  BY <1>4 DEF TgtRead
<1>5. CASE Connect
  BY <1>5 DEF Connect
<1>6. CASE PostData
  BY <1>6 DEF PostData
<1>7. CASE PostClose
  BY <1>7 DEF PostClose
<1>8. CASE PostAbort
  BY <1>8 DEF PostAbort
<1>9. CASE StreamOpen
  BY <1>9 DEF StreamOpen
<1>10. CASE StreamDrop
  BY <1>10 DEF StreamDrop
<1>11. CASE StreamTake
  BY <1>11 DEF StreamTake
<1>12. CASE DataQueued
  BY <1>12 DEF DataQueued
<1>13. CASE DataRefused
  BY <1>13 DEF DataRefused
<1>14. ASSUME NEW t \in Tasks, FetchSender(t) PROVE Told'
  BY <1>14 DEF FetchSender
<1>15. ASSUME NEW t \in Tasks, Delivered(t) PROVE Told'
  BY <1>15 DEF Delivered, Resume, EndWrite, NoSend
<1>16. ASSUME NEW t \in Tasks, Retry(t) PROVE Told'
  BY <1>16 DEF Retry, AttemptFails
<1>17. ASSUME NEW t \in Tasks, GiveUp(t) PROVE Told'
  BY <1>17 DEF GiveUp, AttemptFails, EndWrite, NoSend, Delivery
<1>18. CASE ReadChunk
  BY <1>18 DEF ReadChunk, ReadReady, Report, Delivery
<1>19. CASE ReadEof
  BY <1>19 DEF ReadEof, ReadReady, Report, Delivery
<1>20. CASE ReadError
  BY <1>20 DEF ReadError, ReadReady, Report, Delivery
<1>21. CASE ReadAborted
  BY <1>21 DEF ReadAborted, ReadReady
<1>22. CASE ReadTickLive
  BY <1>22 DEF ReadTickLive, ReadReady
<1>23. CASE ReadTick
  BY <1>23 DEF ReadTick, ReadReady
<1>24. CASE ReadDead
  BY <1>24 DEF ReadDead, ReadReady, Report, Delivery
<1>25. CASE RecvChunk
  BY <1>25 DEF RecvChunk, WriteReady
<1>26. CASE RecvNone
  BY <1>26 DEF RecvNone, WriteReady, EndWrite
<1>27. CASE WriteAll
  BY <1>27 DEF WriteAll
<1>28. CASE WriteFails
  BY <1>28 DEF WriteFails, Delivery
<1>29. CASE WriteTickLive
  BY <1>29 DEF WriteTickLive, WatchWrite, WriteReady
<1>30. CASE WriteTick
  BY <1>30 DEF WriteTick, WatchWrite, WriteReady
<1>31. CASE WriteDead
  BY <1>31 DEF WriteDead, WatchWrite, WriteReady, EndWrite
<1>32. CASE Finish
  BY <1>32 DEF Finish
<1>33. CASE UNCHANGED vars
  BY <1>33 DEF vars
<1>. QED
  BY <1>1, <1>2, <1>3, <1>4, <1>5, <1>6, <1>7, <1>8, <1>9, <1>10, <1>11, <1>12, <1>13, <1>14,
     <1>15, <1>16, <1>17, <1>18, <1>19, <1>20, <1>21, <1>22, <1>23, <1>24, <1>25, <1>26,
     <1>27, <1>28, <1>29, <1>30, <1>31, <1>32, <1>33
     DEF Next, Target, Client, Handler, Sending, FromTarget, ReadWatch, ToTarget, WriteWatch
-----------------------------------------------------------------------------
\* The invariant holds before the connection is made.
LEMMA Initial == Init => IInv
<1> SUFFICES ASSUME Init PROVE IInv
  OBVIOUS
<1> USE DEF Init, NoSend
<1>1. Flags /\ Positions
  BY DEF Flags, Positions
<1>2. Numbers
  BY CapAssumption, BudgetAssumption DEF Numbers
<1>3. Channels
  BY CapAssumption, ToSend DEF Channels
<1>4. Deliveries /\ Reasons /\ Writer /\ Told
  BY DEF Deliveries, Reasons, Writer, Released, Told, Tasks
<1>5. Down /\ Up /\ HalfCloseKeepsUpload
  BY DEF Down, Reading, Up, Writing, HalfCloseKeepsUpload, Tasks
<1>. QED
  BY <1>1, <1>2, <1>3, <1>4, <1>5, Parts DEF IInv

\* Every step of the target, the client, the session and both tasks keeps it.
LEMMA Inductive == IInv /\ [Next]_vars => IInv'
  BY TypeStep, DeliveriesStep, ReasonsStep, DownStep, UpStep, WriterStep, DiscardStep, ToldStep
     DEF IInv

\* So it always holds.
LEMMA Invariance == Spec => []IInv
  BY Initial, Inductive, PTL DEF Spec

\* Every variable stays in its range and every channel within its capacity.
THEOREM TypeCorrect == Spec => []TypeOK
<1>1. IInv => TypeOK
  BY DEF IInv
<1>. QED
  BY Invariance, <1>1, PTL

\* The end of the target's output alone throws no chunk of the client away.
THEOREM HalfClose == Spec => []HalfCloseKeepsUpload
<1>1. IInv => HalfCloseKeepsUpload
  BY DEF IInv
<1>. QED
  BY Invariance, <1>1, PTL

\* The write task's FIN follows everything the client posted before its Close.
THEOREM EarnedFin == Spec => []FinIsEarned
<1>1. IInv => FinIsEarned
  <2> SUFFICES ASSUME IInv, finSent, wWhy = "closed", ~abortHeard, ~undelivered,
                      rWhy \notin {"failed", "gone"}
               PROVE  closeHeard /\ tgtBuf + tgtGot = posted
    BY DEF FinIsEarned
  <2>1. closeHeard /\ ~posting /\ wPc = "done" /\ writeQ = 0
    BY DEF IInv, Writer, Released, Reasons
  <2>2. discarded = 0
    BY <2>1 DEF IInv, TypeOK, HalfCloseKeepsUpload
  <2>3. tgtBuf \in Nat /\ tgtGot \in Nat /\ posted \in Nat
    BY DEF IInv, TypeOK
  <2>. QED
    BY <2>1, <2>2, <2>3 DEF IInv, Up, Writing
<1>. QED
  BY Invariance, <1>1, PTL

\* A connection that threw upload bytes away told the client, or could not.
THEOREM ReportedDiscard == Spec => []DiscardIsReported
<1>1. IInv => DiscardIsReported
  BY DEF IInv, HalfCloseKeepsUpload, Told, DiscardIsReported
<1>. QED
  BY Invariance, <1>1, PTL

-----------------------------------------------------------------------------
\* The first n chunks, and one more.
LEMMA Chunks ==
  ASSUME NEW n \in Nat
  PROVE  /\ Len([k \in 1..n |-> k]) = n
         /\ [k \in 1..(n + 1) |-> k] = Append([k \in 1..n |-> k], n + 1)
<1>1. [k \in 1..n |-> k] \in Seq(Nat) /\ Len([k \in 1..n |-> k]) = n
  OBVIOUS
<1>2. /\ Append([k \in 1..n |-> k], n + 1) \in Seq(Nat)
      /\ Len(Append([k \in 1..n |-> k], n + 1)) = n + 1
      /\ \A k \in 1..(n + 1) : Append([j \in 1..n |-> j], n + 1)[k] = k
  BY <1>1
<1>. QED
  BY <1>1, <1>2

\* What the client is sent is the target's output: each chunk once, in order, and
\* Close only behind the last of them, over however many streams.
THEOREM ResponseRefines == Spec => ResponseIsByteStream
<1>1. Init => Response!Init
  <2>1. [k \in 1..0 |-> k] = <<>>
    OBVIOUS
  <2>. QED
    BY <2>1 DEF Init, Response!Init
<1>2. IInv /\ [Next]_vars =>
        [Response!Next]_<<tgtSent, rWhy = "eof", [k \in 1..sentData |-> k],
                          IF closeSent THEN "eof" ELSE "none">>
  <2> SUFFICES ASSUME IInv, [Next]_vars
               PROVE  UNCHANGED <<tgtSent, rWhy = "eof", sentData, closeSent>> \/ Response!Next
    OBVIOUS
  <2> USE DEF IInv, TypeOK, Deliveries, Reasons, Down, Reading, tgtVars, clientVars, streamVars,
              sentVars, Response!Next, Response!Send, Response!Close
  <2>1. CASE TgtSend
    BY <2>1 DEF TgtSend
  <2>2. CASE ReadEof \/ ReadError \/ ReadDead
    BY <2>2 DEF ReadEof, ReadError, ReadDead, ReadReady, Report
  <2>3. CASE ReadAborted
    BY <2>3 DEF ReadAborted, ReadReady
  <2>4. ASSUME NEW t \in Tasks, GiveUp(t)
        PROVE  UNCHANGED <<tgtSent, rWhy = "eof", sentData, closeSent>>
    BY <2>4 DEF GiveUp, EndWrite, Tasks
  <2>5. ASSUME NEW t \in Tasks, Delivered(t)
        PROVE  UNCHANGED <<tgtSent, rWhy = "eof", sentData, closeSent>> \/ Response!Next
    <3>1. /\ UNCHANGED <<tgtSent, rWhy>> /\ sentData \in Nat /\ tgtSent \in Nat /\ tgtIn \in Nat
          /\ sentData' = IF send[t].msg = "Data" THEN sentData + 1 ELSE sentData
          /\ closeSent' = (closeSent \/ send[t].msg = "Close")
      BY <2>5 DEF Delivered, Resume, EndWrite
    <3>2. CASE send[t].msg = "Data"
      <4>1. t = "read" /\ rWhy = "none" /\ sentData < tgtSent
        BY <3>1, <3>2 DEF Tasks
      <4>2. ~closeSent /\ ~closeSent'
        BY <3>1, <3>2, <4>1
      <4>. QED
        BY <3>1, <3>2, <4>1, <4>2, Chunks DEF Response!Receive
    <3>3. CASE send[t].msg = "Close" /\ ~closeSent
      <4>1. t = "read" /\ rWhy = "eof" /\ sentData = tgtSent
        BY <3>1, <3>3 DEF Tasks
      <4>. QED
        BY <3>1, <3>3, <4>1, Chunks DEF Response!ReadEof
    <3>4. CASE send[t].msg # "Data" /\ ~(send[t].msg = "Close" /\ ~closeSent)
      <4>1. closeSent' = closeSent
        BY <3>1, <3>4, Zenon DEF IInv, TypeOK
      <4>. QED
        BY <3>1, <3>4, <4>1
    <3>. QED
      BY <3>2, <3>3, <3>4
  <2>6. CASE /\ ~TgtSend /\ ~ReadEof /\ ~ReadError /\ ~ReadDead /\ ~ReadAborted
             /\ ~(\E t \in Tasks : GiveUp(t)) /\ ~(\E t \in Tasks : Delivered(t))
    BY <2>6 DEF Next, vars, Target, Client, Handler, Sending, FromTarget, ReadWatch, ToTarget,
                WriteWatch, TgtFin, TgtReset, TgtRead, Connect, PostData, PostClose, PostAbort,
                StreamOpen, StreamDrop, StreamTake, DataQueued, DataRefused, FetchSender, Retry,
                ReadChunk, Report, ReadTickLive, ReadTick, RecvChunk, RecvNone, EndWrite,
                WriteAll, WriteFails, WriteTickLive, WriteTick, WriteDead, Finish
  <2>. QED
    BY <2>1, <2>2, <2>3, <2>4, <2>5, <2>6
<1>. QED
  BY <1>1, <1>2, Invariance, PTL DEF Spec, ResponseIsByteStream, Response!Spec
==============================================================================
