------------------------- MODULE ClientRelay_proofs --------------------------
(****************************************************************************)
(* Safety of one client relay, for every channel capacity, socket capacity, *)
(* upload and response length.                                              *)
(*                                                                          *)
(* The invariants the runs check are not inductive.  Four strengthenings    *)
(* make them so:                                                            *)
(*   Signals  - what the two one-shots say about the half that sends them;  *)
(*   Reports  - that a failure of this client has its Abort on the way;     *)
(*   Counts   - where every chunk of the response is while the stream is    *)
(*              intact, and that nothing but a late Error follows a Close;  *)
(*   Ahead    - that the server is ahead of the app, dropped or not.        *)
(* With them the relay implements ByteStream.                               *)
(****************************************************************************)
EXTENDS ClientRelay, SequenceTheorems, TLAPS

\* The one-shots and the program counters of the two halves.
Signals ==
  /\ stopSig = "none" <=> writePc # "done"
  /\ upSig # "none" <=> readPc = "done"
  /\ stopSig = "none" /\ upSig = "Eof" => outcome = "Eof"
  /\ uploadEnded => upSig # "none"
  /\ uploadEnded /\ writePc # "done" => upSig = "Eof"
  /\ stopSig = "dropped" => readPc = "done" /\ outcome = "Eof"
  /\ readPc = "close" => outcome = "Eof"
  /\ readPc = "done" => outcome # "none"
  /\ writePc = "done" => failed \/ responseClosed
  /\ relayPc = "finished" => readPc = "done" /\ writePc = "done"
  /\ downEnd = "rst" => relayPc = "finished"
  /\ downEnd = "fin" => responseClosed

\* What has been posted for the failures of this client, and what the server's
\* own report says about the server.
Reports ==
  /\ outcome \in {"Failed", "StoppedLocally"} => abortPost # "none"
  /\ stopSig = "ServerReported" => srv # "open"
  /\ outcome = "StoppedByServer" => srv # "open"

AllData == \A i \in 1..Len(events) : events[i] = "Data"

\* Chunks handed to the app's socket, the one in write_all included.
Written == appGot + downBuf + (IF writePc = "write" THEN 1 ELSE 0)

\* While the server streams, only Data is in the pipeline, and none is missing
\* from it unless the connection was dropped.
Streaming ==
  srv = "open" =>
    /\ dispatch \in {"idle", "Data"} /\ ~handoff /\ ~responseClosed /\ AllData
    /\ registered /\ writePc # "done" =>
         srvSent = Written + Len(events) + (IF dispatch = "Data" THEN 1 ELSE 0)

\* A Close held by the dispatcher has the whole rest of the response before it.
DispatchingClose ==
  dispatch = "Close" =>
    /\ ~handoff /\ ~responseClosed /\ AllData
    /\ writePc # "done" => srvSent = Written + Len(events)

\* So has a Close that was handed off, unless an Error overtook it.
HandingOff ==
  handoff =>
    /\ ~responseClosed /\ dispatch \in {"idle", "Error"}
    /\ \A i \in 1..Len(events) : events[i] # "Close"
    /\ AllData /\ writePc # "done" => srvSent = Written + Len(events)

\* And a Close in the channel, with no Data behind it.
QueuedClose ==
  \A i \in 1..Len(events) : events[i] = "Close" =>
    /\ srv # "open" /\ ~handoff /\ dispatch \in {"idle", "Error"}
    /\ \A j \in 1..Len(events) : events[j] = "Data" => j < i
    /\ writePc # "done" =>
         \/ \E j \in 1..(i - 1) : events[j] = "Error"
         \/ srvSent = Written + i - 1

\* A response that was closed is complete, and nothing more will be written.
Closed ==
  responseClosed =>
    /\ srv # "open" /\ ~handoff /\ dispatch \in {"idle", "Error"}
    /\ writePc # "write" /\ appGot + downBuf = srvSent
    /\ \A i \in 1..Len(events) : events[i] # "Data"

EndSeen == /\ appSaw = "eof" => responseClosed /\ downBuf = 0
           /\ appSaw = "reset" => downEnd = "rst"

Counts == /\ Streaming /\ DispatchingClose /\ HandingOff /\ QueuedClose
          /\ Closed /\ EndSeen

\* Chunks the app has, or may yet be given, were sent.
Held == Written + (IF dispatch = "Data" THEN 1 ELSE 0)
Ahead == /\ dispatch = "Data" => srv = "open"
         /\ Held <= srvSent
         /\ \A i \in 1..Len(events) : events[i] = "Data" => Held + i <= srvSent

IInv == TypeOK /\ Signals /\ Reports /\ Counts /\ Ahead
-----------------------------------------------------------------------------
\* Every step of the code and of its environment keeps the types.
LEMMA TypeStep == TypeOK /\ [Next]_vars => TypeOK'
<1> SUFFICES ASSUME TypeOK, [Next]_vars PROVE TypeOK'
  OBVIOUS
<1> USE ChanCapAssumption DEF TypeOK, EventKinds, appVars, readVars, writeVars, dispatchVars,
        serverVars
<1>1. CASE AppSend
  BY <1>1 DEF AppSend
<1>2. CASE AppShutdown
  BY <1>2 DEF AppShutdown
<1>3. CASE AppReset
  BY <1>3 DEF AppReset
<1>4. CASE AppRead
  BY <1>4 DEF AppRead
<1>5. CASE AppReadEnd
  BY <1>5 DEF AppReadEnd
<1>6. CASE ReadStopped
  BY <1>6 DEF ReadStopped, LeaveUpload
<1>7. CASE ReadChunk
  BY <1>7 DEF ReadChunk
<1>8. CASE ReadEof
  BY <1>8 DEF ReadEof
<1>9. CASE ReadError
  BY <1>9 DEF ReadError, LeaveUpload
<1>10. CASE PostData
  BY <1>10 DEF PostData
<1>11. CASE PostDataFails
  BY <1>11 DEF PostDataFails, LeaveUpload
<1>12. CASE PostClose
  BY <1>12 DEF PostClose
<1>13. CASE PostAbort
  BY <1>13 DEF PostAbort
<1>14. CASE RecvData
  BY <1>14 DEF RecvData
<1>15. CASE WriteAll
  BY <1>15 DEF WriteAll
<1>16. CASE WriteFails
  <2>1. failed' \in BOOLEAN /\ serverReported' \in BOOLEAN /\ responseClosed' \in BOOLEAN
       /\ uploadEnded' \in BOOLEAN /\ registered' \in BOOLEAN /\ handoff' \in BOOLEAN
    BY <1>16, Zenon DEF WriteFails, LeaveResponse
  <2>. QED
    BY <1>16, <2>1 DEF WriteFails, LeaveResponse
<1>17. CASE RecvClose
  <2>1. failed' \in BOOLEAN /\ serverReported' \in BOOLEAN /\ responseClosed' \in BOOLEAN
       /\ uploadEnded' \in BOOLEAN /\ registered' \in BOOLEAN /\ handoff' \in BOOLEAN
    BY <1>17, Zenon DEF RecvClose, LeaveResponse
  <2>. QED
    BY <1>17, <2>1 DEF RecvClose, LeaveResponse
<1>18. CASE RecvError
  BY <1>18 DEF RecvError, LeaveResponse
<1>19. CASE RecvNone
  <2>1. failed' \in BOOLEAN /\ serverReported' \in BOOLEAN /\ responseClosed' \in BOOLEAN
       /\ uploadEnded' \in BOOLEAN /\ registered' \in BOOLEAN /\ handoff' \in BOOLEAN
    BY <1>19, Zenon DEF RecvNone, LeaveResponse, ChanOpen
  <2>. QED
    BY <1>19, <2>1 DEF RecvNone, LeaveResponse, ChanOpen
<1>20. CASE RecvUploadEnd
  <2>1. failed' \in BOOLEAN /\ serverReported' \in BOOLEAN /\ responseClosed' \in BOOLEAN
       /\ uploadEnded' \in BOOLEAN /\ registered' \in BOOLEAN /\ handoff' \in BOOLEAN
    BY <1>20, Zenon DEF RecvUploadEnd, LeaveResponse, ChanOpen
  <2>. QED
    BY <1>20, <2>1 DEF RecvUploadEnd, LeaveResponse, ChanOpen
<1>21. CASE Finish
  <2>1. failed' \in BOOLEAN /\ serverReported' \in BOOLEAN /\ responseClosed' \in BOOLEAN
       /\ uploadEnded' \in BOOLEAN /\ registered' \in BOOLEAN /\ handoff' \in BOOLEAN
    BY <1>21, Zenon DEF Finish, Abortive
  <2>. QED
    BY <1>21, <2>1 DEF Finish, Abortive
<1>22. CASE ArriveData
  BY <1>22 DEF ArriveData, Arrive
<1>23. CASE ArriveClose
  BY <1>23 DEF ArriveClose, Arrive
<1>24. CASE ArriveError
  BY <1>24 DEF ArriveError, Arrive
<1>25. CASE ArriveReset
  <2>1. failed' \in BOOLEAN /\ serverReported' \in BOOLEAN /\ responseClosed' \in BOOLEAN
       /\ uploadEnded' \in BOOLEAN /\ registered' \in BOOLEAN /\ handoff' \in BOOLEAN
    BY <1>25, Zenon DEF ArriveReset
  <2>. QED
    BY <1>25, <2>1 DEF ArriveReset
<1>26. CASE ServerUploadDone
  BY <1>26 DEF ServerUploadDone
<1>27. CASE DispatchPush
  BY <1>27 DEF DispatchPush, RxAlive, Full
<1>28. CASE DispatchGone
  BY <1>28 DEF DispatchGone, RxAlive
<1>29. CASE DispatchStall
  <2>1. failed' \in BOOLEAN /\ serverReported' \in BOOLEAN /\ responseClosed' \in BOOLEAN
       /\ uploadEnded' \in BOOLEAN /\ registered' \in BOOLEAN /\ handoff' \in BOOLEAN
    BY <1>29, Zenon DEF DispatchStall, RxAlive, Full
  <2>. QED
    BY <1>29, <2>1 DEF DispatchStall, RxAlive, Full
<1>30. CASE HandoffPush
  <2>1. failed' \in BOOLEAN /\ serverReported' \in BOOLEAN /\ responseClosed' \in BOOLEAN
       /\ uploadEnded' \in BOOLEAN /\ registered' \in BOOLEAN /\ handoff' \in BOOLEAN
    BY <1>30, Zenon DEF HandoffPush, RxAlive, Full
  <2>. QED
    BY <1>30, <2>1 DEF HandoffPush, RxAlive, Full
<1>31. CASE HandoffEnds
  <2>1. failed' \in BOOLEAN /\ serverReported' \in BOOLEAN /\ responseClosed' \in BOOLEAN
       /\ uploadEnded' \in BOOLEAN /\ registered' \in BOOLEAN /\ handoff' \in BOOLEAN
    BY <1>31, Zenon DEF HandoffEnds
  <2>2. UNCHANGED <<appVars, readVars, writeVars, relayPc, events, dispatch, serverVars>>
    BY <1>31, Zenon DEF HandoffEnds
  <2>. QED
    BY <2>1, <2>2
<1>32. CASE UNCHANGED vars
  BY <1>32 DEF vars
<1>. QED
  BY <1>1, <1>2, <1>3, <1>4, <1>5, <1>6, <1>7, <1>8, <1>9, <1>10, <1>11, <1>12, <1>13, <1>14,
     <1>15, <1>16, <1>17, <1>18, <1>19, <1>20, <1>21, <1>22, <1>23, <1>24, <1>25, <1>26, <1>27,
     <1>28, <1>29, <1>30, <1>31, <1>32
  DEF Next, App, ReadHalf, ReadLoop, Posting, WriteHalf, Server, Dispatcher, Handoff

\* Every step keeps the agreement between the one-shots and the two halves.
LEMMA SignalsStep == TypeOK /\ Signals /\ [Next]_vars => Signals'
<1> SUFFICES ASSUME TypeOK, Signals, [Next]_vars PROVE Signals'
  OBVIOUS
<1> USE ChanCapAssumption DEF TypeOK, Signals, appVars, readVars, writeVars, dispatchVars,
        serverVars
<1>1. CASE AppSend
  BY <1>1 DEF AppSend
<1>2. CASE AppShutdown
  BY <1>2 DEF AppShutdown
<1>3. CASE AppReset
  BY <1>3 DEF AppReset
<1>4. CASE AppRead
  BY <1>4 DEF AppRead
<1>5. CASE AppReadEnd
  BY <1>5 DEF AppReadEnd
<1>6. CASE ReadStopped
  BY <1>6 DEF ReadStopped, LeaveUpload
<1>7. CASE ReadChunk
  BY <1>7 DEF ReadChunk
<1>8. CASE ReadEof
  BY <1>8 DEF ReadEof
<1>9. CASE ReadError
  BY <1>9 DEF ReadError, LeaveUpload
<1>10. CASE PostData
  BY <1>10 DEF PostData
<1>11. CASE PostDataFails
  BY <1>11 DEF PostDataFails, LeaveUpload
<1>12. CASE PostClose
  BY <1>12 DEF PostClose
<1>13. CASE PostAbort
  BY <1>13 DEF PostAbort
<1>14. CASE RecvData
  BY <1>14 DEF RecvData
<1>15. CASE WriteAll
  BY <1>15 DEF WriteAll
<1>16. CASE WriteFails
  BY <1>16 DEF WriteFails, LeaveResponse
<1>17. CASE RecvClose
  BY <1>17 DEF RecvClose, LeaveResponse
<1>18. CASE RecvError
  BY <1>18 DEF RecvError, LeaveResponse
<1>19. CASE RecvNone
  BY <1>19 DEF RecvNone, LeaveResponse, ChanOpen
<1>20. CASE RecvUploadEnd
  BY <1>20 DEF RecvUploadEnd, LeaveResponse, ChanOpen
<1>21. CASE Finish
  BY <1>21 DEF Finish, Abortive
<1>22. CASE ArriveData
  BY <1>22 DEF ArriveData, Arrive
<1>23. CASE ArriveClose
  BY <1>23 DEF ArriveClose, Arrive
<1>24. CASE ArriveError
  BY <1>24 DEF ArriveError, Arrive
<1>25. CASE ArriveReset
  BY <1>25 DEF ArriveReset
<1>26. CASE ServerUploadDone
  BY <1>26 DEF ServerUploadDone
<1>27. CASE DispatchPush
  BY <1>27 DEF DispatchPush, RxAlive, Full
<1>28. CASE DispatchGone
  BY <1>28 DEF DispatchGone, RxAlive
<1>29. CASE DispatchStall
  BY <1>29 DEF DispatchStall, RxAlive, Full
<1>30. CASE HandoffPush
  BY <1>30 DEF HandoffPush, RxAlive, Full
<1>31. CASE HandoffEnds
  BY <1>31 DEF HandoffEnds, RxAlive, Full
<1>32. CASE UNCHANGED vars
  BY <1>32 DEF vars
<1>. QED
  BY <1>1, <1>2, <1>3, <1>4, <1>5, <1>6, <1>7, <1>8, <1>9, <1>10, <1>11, <1>12, <1>13, <1>14,
     <1>15, <1>16, <1>17, <1>18, <1>19, <1>20, <1>21, <1>22, <1>23, <1>24, <1>25, <1>26, <1>27,
     <1>28, <1>29, <1>30, <1>31, <1>32
  DEF Next, App, ReadHalf, ReadLoop, Posting, WriteHalf, Server, Dispatcher, Handoff

\* Every step keeps the Aborts and the server's reports accounted for.
LEMMA ReportsStep == TypeOK /\ Signals /\ Reports /\ Streaming /\ [Next]_vars => Reports'
<1> SUFFICES ASSUME TypeOK, Signals, Reports, Streaming, [Next]_vars PROVE Reports'
  OBVIOUS
<1> USE ChanCapAssumption DEF TypeOK, Signals, Reports, Streaming, AllData, appVars, readVars,
        writeVars, dispatchVars, serverVars
<1>1. CASE AppSend
  BY <1>1 DEF AppSend
<1>2. CASE AppShutdown
  BY <1>2 DEF AppShutdown
<1>3. CASE AppReset
  BY <1>3 DEF AppReset
<1>4. CASE AppRead
  BY <1>4 DEF AppRead
<1>5. CASE AppReadEnd
  BY <1>5 DEF AppReadEnd
<1>6. CASE ReadStopped
  BY <1>6 DEF ReadStopped, LeaveUpload
<1>7. CASE ReadChunk
  BY <1>7 DEF ReadChunk
<1>8. CASE ReadEof
  BY <1>8 DEF ReadEof
<1>9. CASE ReadError
  BY <1>9 DEF ReadError, LeaveUpload
<1>10. CASE PostData
  BY <1>10 DEF PostData
<1>11. CASE PostDataFails
  BY <1>11 DEF PostDataFails, LeaveUpload
<1>12. CASE PostClose
  BY <1>12 DEF PostClose
<1>13. CASE PostAbort
  BY <1>13 DEF PostAbort
<1>14. CASE RecvData
  BY <1>14 DEF RecvData
<1>15. CASE WriteAll
  BY <1>15 DEF WriteAll
<1>16. CASE WriteFails
  BY <1>16 DEF WriteFails, LeaveResponse
<1>17. CASE RecvClose
  BY <1>17 DEF RecvClose, LeaveResponse
<1>18. CASE RecvError
  BY <1>18 DEF RecvError, LeaveResponse
<1>19. CASE RecvNone
  BY <1>19 DEF RecvNone, LeaveResponse, ChanOpen
<1>20. CASE RecvUploadEnd
  BY <1>20 DEF RecvUploadEnd, LeaveResponse, ChanOpen
<1>21. CASE Finish
  BY <1>21 DEF Finish, Abortive
<1>22. CASE ArriveData
  BY <1>22 DEF ArriveData, Arrive
<1>23. CASE ArriveClose
  BY <1>23 DEF ArriveClose, Arrive
<1>24. CASE ArriveError
  BY <1>24 DEF ArriveError, Arrive
<1>25. CASE ArriveReset
  BY <1>25 DEF ArriveReset
<1>26. CASE ServerUploadDone
  BY <1>26 DEF ServerUploadDone
<1>27. CASE DispatchPush
  BY <1>27 DEF DispatchPush, RxAlive, Full
<1>28. CASE DispatchGone
  BY <1>28 DEF DispatchGone, RxAlive
<1>29. CASE DispatchStall
  BY <1>29 DEF DispatchStall, RxAlive, Full
<1>30. CASE HandoffPush
  BY <1>30 DEF HandoffPush, RxAlive, Full
<1>31. CASE HandoffEnds
  BY <1>31 DEF HandoffEnds, RxAlive, Full
<1>32. CASE UNCHANGED vars
  BY <1>32 DEF vars
<1>. QED
  BY <1>1, <1>2, <1>3, <1>4, <1>5, <1>6, <1>7, <1>8, <1>9, <1>10, <1>11, <1>12, <1>13, <1>14,
     <1>15, <1>16, <1>17, <1>18, <1>19, <1>20, <1>21, <1>22, <1>23, <1>24, <1>25, <1>26, <1>27,
     <1>28, <1>29, <1>30, <1>31, <1>32
  DEF Next, App, ReadHalf, ReadLoop, Posting, WriteHalf, Server, Dispatcher, Handoff

\* Every step keeps count of the chunks of the response.
LEMMA CountsStep == TypeOK /\ Signals /\ Counts /\ [Next]_vars => Counts'
<1> SUFFICES ASSUME TypeOK, Signals, Counts, [Next]_vars PROVE Counts'
  OBVIOUS
<1> USE ChanCapAssumption DEF TypeOK, EventKinds, Signals, Counts, Streaming, DispatchingClose,
        HandingOff, QueuedClose, Closed, EndSeen, AllData, Written, appVars, readVars,
        writeVars, dispatchVars, serverVars
<1>1. CASE AppSend
  BY <1>1 DEF AppSend
<1>2. CASE AppShutdown
  BY <1>2 DEF AppShutdown
<1>3. CASE AppReset
  BY <1>3 DEF AppReset
<1>4. CASE AppRead
  BY <1>4 DEF AppRead
<1>5. CASE AppReadEnd
  BY <1>5 DEF AppReadEnd
<1>6. CASE ReadStopped
  BY <1>6 DEF ReadStopped, LeaveUpload
<1>7. CASE ReadChunk
  BY <1>7 DEF ReadChunk
<1>8. CASE ReadEof
  BY <1>8 DEF ReadEof
<1>9. CASE ReadError
  BY <1>9 DEF ReadError, LeaveUpload
<1>10. CASE PostData
  BY <1>10 DEF PostData
<1>11. CASE PostDataFails
  BY <1>11 DEF PostDataFails, LeaveUpload
<1>12. CASE PostClose
  BY <1>12 DEF PostClose
<1>13. CASE PostAbort
  BY <1>13 DEF PostAbort
<1>14. CASE RecvData
  <2>1. /\ Tail(events) \in Seq(EventKinds) /\ events # <<>>
        /\ Len(events') = Len(events) - 1 /\ events[1] = "Data"
        /\ \A i \in 1..Len(events') : events'[i] = events[i + 1]
    BY <1>14, HeadTailProperties DEF RecvData
  <2>2. Written' = Written + 1
    BY <1>14 DEF RecvData
  <2>3. AllData' => AllData
    <3> SUFFICES ASSUME AllData', NEW i \in 1..Len(events) PROVE events[i] = "Data"
      OBVIOUS
    <3>1. CASE i = 1
      BY <2>1, <3>1
    <3>2. CASE i # 1
      <4>1. i - 1 \in 1..Len(events')
        BY <2>1, <3>2
      <4>2. events'[i - 1] = events[(i - 1) + 1]
        BY <2>1, <4>1
      <4>. QED
        BY <4>1, <4>2
    <3>. QED
      BY <3>1, <3>2
  <2>4. Streaming' /\ DispatchingClose'
    BY <1>14, <2>1, <2>2, <2>3 DEF RecvData
  <2>5. HandingOff'
    BY <1>14, <2>1, <2>2, <2>3 DEF RecvData
  <2>6. QueuedClose'
    <3> SUFFICES ASSUME NEW i \in 1..Len(events'), events'[i] = "Close"
                 PROVE  /\ srv' # "open" /\ ~handoff' /\ dispatch' \in {"idle", "Error"}
                        /\ \A j \in 1..Len(events') : events'[j] = "Data" => j < i
                        /\ writePc' # "done" =>
                             \/ \E j \in 1..(i - 1) : events'[j] = "Error"
                             \/ srvSent' = Written' + i - 1
      BY Zenon
    <3>1. i + 1 \in 1..Len(events) /\ events[i + 1] = "Close"
      BY <2>1
    <3>2. /\ srv' # "open" /\ ~handoff' /\ dispatch' \in {"idle", "Error"}
      BY <1>14, <3>1 DEF RecvData
    <3>3. ASSUME NEW j \in 1..Len(events'), events'[j] = "Data" PROVE j < i
      <4>1. j + 1 \in 1..Len(events) /\ events[j + 1] = "Data"
        BY <2>1, <3>3
      <4>. QED
        BY <3>1, <4>1
    <3>4. CASE srvSent = Written + (i + 1) - 1
      BY <1>14, <2>2, <3>2, <3>3, <3>4 DEF RecvData
    <3>5. CASE \E j \in 1..i : events[j] = "Error"
      <4>1. PICK j \in 1..i : events[j] = "Error"
        BY <3>5
      <4>2. j # 1 /\ j - 1 \in 1..(i - 1) /\ j - 1 \in 1..Len(events')
        BY <2>1, <3>1, <4>1
      <4>3. events'[j - 1] = events[(j - 1) + 1]
        BY <2>1, <4>2
      <4>. QED
        BY <3>2, <3>3, <4>1, <4>2, <4>3
    <3>. QED
      BY <1>14, <3>1, <3>4, <3>5 DEF RecvData
  <2>7. Closed' /\ EndSeen'
    BY <1>14, <2>1 DEF RecvData
  <2>. QED
    BY <2>4, <2>5, <2>6, <2>7
<1>15. CASE WriteAll
  BY <1>15 DEF WriteAll
<1>16. CASE WriteFails
  BY <1>16 DEF WriteFails, LeaveResponse
<1>17. CASE RecvClose
  <2>1. downEnd # "rst" /\ UNCHANGED appSaw
    BY <1>17 DEF RecvClose
  <2>2. EndSeen'
    BY <1>17, <2>1 DEF RecvClose
  <2>3. Streaming' /\ DispatchingClose' /\ HandingOff' /\ QueuedClose' /\ Closed'
    BY <1>17 DEF RecvClose, LeaveResponse
  <2>. QED
    BY <2>2, <2>3
<1>18. CASE RecvError
  BY <1>18 DEF RecvError, LeaveResponse
<1>19. CASE RecvNone
  BY <1>19 DEF RecvNone, LeaveResponse, ChanOpen
<1>20. CASE RecvUploadEnd
  BY <1>20 DEF RecvUploadEnd, LeaveResponse, ChanOpen
<1>21. CASE Finish
  BY <1>21 DEF Finish, Abortive
<1>22. CASE ArriveData
  BY <1>22 DEF ArriveData, Arrive
<1>23. CASE ArriveClose
  BY <1>23 DEF ArriveClose, Arrive
<1>24. CASE ArriveError
  BY <1>24 DEF ArriveError, Arrive
<1>25. CASE ArriveReset
  BY <1>25 DEF ArriveReset
<1>26. CASE ServerUploadDone
  BY <1>26 DEF ServerUploadDone
<1>27. CASE DispatchPush
  BY <1>27 DEF DispatchPush, RxAlive, Full
<1>28. CASE DispatchGone
  BY <1>28 DEF DispatchGone, RxAlive
<1>29. CASE DispatchStall
  BY <1>29 DEF DispatchStall, RxAlive, Full
<1>30. CASE HandoffPush
  BY <1>30 DEF HandoffPush, RxAlive, Full
<1>31. CASE HandoffEnds
  BY <1>31 DEF HandoffEnds, RxAlive, Full
<1>32. CASE UNCHANGED vars
  BY <1>32 DEF vars
<1>. QED
  BY <1>1, <1>2, <1>3, <1>4, <1>5, <1>6, <1>7, <1>8, <1>9, <1>10, <1>11, <1>12, <1>13, <1>14,
     <1>15, <1>16, <1>17, <1>18, <1>19, <1>20, <1>21, <1>22, <1>23, <1>24, <1>25, <1>26, <1>27,
     <1>28, <1>29, <1>30, <1>31, <1>32
  DEF Next, App, ReadHalf, ReadLoop, Posting, WriteHalf, Server, Dispatcher, Handoff

\* Taking an event off a queue moves the rest one place up.
LEMMA Shifted ==
  ASSUME NEW S, NEW q \in Seq(S), q # <<>>
  PROVE  /\ Head(q) = q[1] /\ Tail(q) \in Seq(S) /\ Len(q) \in Nat \ {0}
         /\ Len(Tail(q)) = Len(q) - 1
         /\ \A i \in 1..Len(Tail(q)) : Tail(q)[i] = q[i + 1] /\ i + 1 \in 1..Len(q)
  BY HeadTailProperties

\* Nothing is handed on that the server has not sent.
LEMMA AheadStep == TypeOK /\ Signals /\ Counts /\ Ahead /\ [Next]_vars => Ahead'
<1> SUFFICES ASSUME TypeOK, Signals, Counts, Ahead, [Next]_vars PROVE Ahead'
  OBVIOUS
<1> USE DEF TypeOK, EventKinds, Signals, Counts, Streaming, AllData, Ahead, Held, Written,
            appVars, readVars, writeVars, dispatchVars, serverVars
<1>1. CASE AppSend
  BY <1>1 DEF AppSend
<1>2. CASE AppShutdown
  BY <1>2 DEF AppShutdown
<1>3. CASE AppReset
  BY <1>3 DEF AppReset
<1>4. CASE AppRead
  BY <1>4 DEF AppRead
<1>5. CASE AppReadEnd
  BY <1>5 DEF AppReadEnd
<1>6. CASE ReadStopped
  BY <1>6 DEF ReadStopped, LeaveUpload
<1>7. CASE ReadChunk
  BY <1>7 DEF ReadChunk
<1>8. CASE ReadEof
  BY <1>8 DEF ReadEof
<1>9. CASE ReadError
  BY <1>9 DEF ReadError, LeaveUpload
<1>10. CASE PostData
  BY <1>10 DEF PostData
<1>11. CASE PostDataFails
  BY <1>11 DEF PostDataFails, LeaveUpload
<1>12. CASE PostClose
  BY <1>12 DEF PostClose
<1>13. CASE PostAbort
  BY <1>13 DEF PostAbort
<1>14. CASE RecvData
  BY <1>14, Shifted DEF RecvData
<1>15. CASE WriteAll
  BY <1>15 DEF WriteAll
<1>16. CASE WriteFails
  BY <1>16 DEF WriteFails, LeaveResponse
<1>17. CASE RecvClose
  BY <1>17, Shifted DEF RecvClose, LeaveResponse
<1>18. CASE RecvError
  BY <1>18, Shifted DEF RecvError, LeaveResponse
<1>19. CASE RecvNone
  BY <1>19 DEF RecvNone, LeaveResponse, ChanOpen
<1>20. CASE RecvUploadEnd
  BY <1>20 DEF RecvUploadEnd, LeaveResponse, ChanOpen
<1>21. CASE Finish
  BY <1>21 DEF Finish, Abortive
<1>22. CASE ArriveData
  BY <1>22 DEF ArriveData, Arrive
<1>23. CASE ArriveClose
  BY <1>23 DEF ArriveClose, Arrive
<1>24. CASE ArriveError
  BY <1>24 DEF ArriveError, Arrive
<1>25. CASE ArriveReset
  BY <1>25 DEF ArriveReset
<1>26. CASE ServerUploadDone
  BY <1>26 DEF ServerUploadDone
<1>27. CASE DispatchPush
  BY <1>27 DEF DispatchPush, RxAlive, Full
<1>28. CASE DispatchGone
  BY <1>28 DEF DispatchGone, RxAlive
<1>29. CASE DispatchStall
  BY <1>29 DEF DispatchStall, RxAlive, Full
<1>30. CASE HandoffPush
  BY <1>30 DEF HandoffPush, RxAlive, Full
<1>31. CASE HandoffEnds
  BY <1>31 DEF HandoffEnds, RxAlive, Full
<1>32. CASE UNCHANGED vars
  BY <1>32 DEF vars
<1>. QED
  BY <1>1, <1>2, <1>3, <1>4, <1>5, <1>6, <1>7, <1>8, <1>9, <1>10, <1>11, <1>12, <1>13, <1>14,
     <1>15, <1>16, <1>17, <1>18, <1>19, <1>20, <1>21, <1>22, <1>23, <1>24, <1>25, <1>26, <1>27,
     <1>28, <1>29, <1>30, <1>31, <1>32
  DEF Next, App, ReadHalf, ReadLoop, Posting, WriteHalf, Server, Dispatcher, Handoff

-----------------------------------------------------------------------------
\* The strengthened invariant holds initially.
LEMMA Initial == Init => IInv
<1> SUFFICES ASSUME Init PROVE IInv
  OBVIOUS
<1>1. events = <<>> /\ Len(events) = 0 /\ events \in Seq(EventKinds)
  BY DEF Init
<1>2. /\ failed \in BOOLEAN /\ serverReported \in BOOLEAN /\ responseClosed \in BOOLEAN
      /\ uploadEnded \in BOOLEAN /\ registered \in BOOLEAN /\ handoff \in BOOLEAN
  BY Zenon DEF Init
<1>3. TypeOK
  BY <1>1, <1>2, ChanCapAssumption DEF Init, TypeOK
<1>4. Signals /\ Reports
  BY DEF Init, Signals, Reports
<1>5. Counts
  BY <1>1 DEF Init, Counts, Streaming, DispatchingClose, HandingOff, QueuedClose,
              Closed, EndSeen, AllData, Written
<1>6. Ahead
  BY <1>1 DEF Init, Ahead, Held, Written
<1>. QED
  BY <1>3, <1>4, <1>5, <1>6 DEF IInv

\* The strengthened invariant holds throughout.
LEMMA Invariance == Spec => []IInv
<1>1. Init => IInv
  BY Initial
<1>2. IInv /\ [Next]_vars => IInv'
  BY TypeStep, SignalsStep, ReportsStep, CountsStep, AheadStep DEF IInv, Counts
<1>. QED
  BY <1>1, <1>2, PTL DEF Spec

\* The variables keep their types, and the channel its capacity.
THEOREM TypeCorrect == Spec => []TypeOK
<1>1. IInv => TypeOK
  BY DEF IInv
<1>. QED
  BY <1>1, Invariance, PTL

\* An app whose reads end in a clean EOF has the whole response.
THEOREM CleanEof == Spec => []CleanEofIsComplete
<1>1. IInv => CleanEofIsComplete
  BY DEF IInv, TypeOK, Counts, EndSeen, Closed, CleanEofIsComplete
<1>. QED
  BY <1>1, Invariance, PTL

\* A write half that leaves cleanly stops no upload.
THEOREM CleanExit == Spec => []CleanExitStopsNobody
<1>1. IInv => CleanExitStopsNobody
  BY DEF IInv, Signals, CleanExitStopsNobody
<1>. QED
  BY <1>1, Invariance, PTL

\* Short of an app that half-closed first, a relay that gives up on a response
\* the server is still streaming has posted an Abort.
THEOREM AbandonedIsAborted == Spec => []AbandonedStreamIsAborted
<1>1. IInv => AbandonedStreamIsAborted
  BY DEF IInv, TypeOK, Signals, Reports, AbandonedStreamIsAborted
<1>. QED
  BY <1>1, Invariance, PTL

\* A biased select never gives up a complete response that was queued.
THEOREM QueuedResponse == Spec => []QueuedResponseSurvives
<1>1. Init => QueuedResponseSurvives
  BY DEF Init, QueuedResponseSurvives
<1>2. IInv /\ QueuedResponseSurvives /\ [Next]_vars => QueuedResponseSurvives'
  <2> SUFFICES ASSUME IInv, QueuedResponseSurvives, [Next]_vars PROVE QueuedResponseSurvives'
    OBVIOUS
  <2> USE DEF IInv, TypeOK, EventKinds, Signals, QueuedResponseSurvives, Abortive, appVars,
          readVars, writeVars, dispatchVars, serverVars
  <2>1. CASE AppSend
    BY <2>1 DEF AppSend
  <2>2. CASE AppShutdown
    BY <2>2 DEF AppShutdown
  <2>3. CASE AppReset
    BY <2>3 DEF AppReset
  <2>4. CASE AppRead
    BY <2>4 DEF AppRead
  <2>5. CASE AppReadEnd
    BY <2>5 DEF AppReadEnd
  <2>6. CASE ReadStopped
    BY <2>6 DEF ReadStopped, LeaveUpload
  <2>7. CASE ReadChunk
    BY <2>7 DEF ReadChunk
  <2>8. CASE ReadEof
    BY <2>8 DEF ReadEof
  <2>9. CASE ReadError
    BY <2>9 DEF ReadError, LeaveUpload
  <2>10. CASE PostData
    BY <2>10 DEF PostData
  <2>11. CASE PostDataFails
    BY <2>11 DEF PostDataFails, LeaveUpload
  <2>12. CASE PostClose
    BY <2>12 DEF PostClose
  <2>13. CASE PostAbort
    BY <2>13 DEF PostAbort
  <2>14. CASE RecvData
    BY <2>14 DEF RecvData
  <2>15. CASE WriteAll
    BY <2>15 DEF WriteAll
  <2>16. CASE WriteFails
    BY <2>16 DEF WriteFails, LeaveResponse
  <2>17. CASE RecvClose
    BY <2>17 DEF RecvClose, LeaveResponse
  <2>18. CASE RecvError
    BY <2>18 DEF RecvError, LeaveResponse
  <2>19. CASE RecvNone
    BY <2>19 DEF RecvNone, LeaveResponse, ChanOpen
  <2>20. CASE RecvUploadEnd
    BY <2>20 DEF RecvUploadEnd, LeaveResponse, ChanOpen
  <2>21. CASE Finish
    BY <2>21 DEF Finish, Abortive
  <2>22. CASE ArriveData
    BY <2>22 DEF ArriveData, Arrive
  <2>23. CASE ArriveClose
    BY <2>23 DEF ArriveClose, Arrive
  <2>24. CASE ArriveError
    BY <2>24 DEF ArriveError, Arrive
  <2>25. CASE ArriveReset
    BY <2>25 DEF ArriveReset
  <2>26. CASE ServerUploadDone
    BY <2>26 DEF ServerUploadDone
  <2>27. CASE DispatchPush
    BY <2>27 DEF DispatchPush, RxAlive, Full
  <2>28. CASE DispatchGone
    BY <2>28 DEF DispatchGone, RxAlive
  <2>29. CASE DispatchStall
    BY <2>29 DEF DispatchStall, RxAlive, Full
  <2>30. CASE HandoffPush
    BY <2>30 DEF HandoffPush, RxAlive, Full
  <2>31. CASE HandoffEnds
    BY <2>31 DEF HandoffEnds, RxAlive, Full
  <2>32. CASE UNCHANGED vars
    BY <2>32 DEF vars
  <2>. QED
    BY <2>1, <2>2, <2>3, <2>4, <2>5, <2>6, <2>7, <2>8, <2>9, <2>10, <2>11, <2>12, <2>13, <2>14,
       <2>15, <2>16, <2>17, <2>18, <2>19, <2>20, <2>21, <2>22, <2>23, <2>24, <2>25, <2>26,
       <2>27, <2>28, <2>29, <2>30, <2>31, <2>32
    DEF Next, App, ReadHalf, ReadLoop, Posting, WriteHalf, Server, Dispatcher, Handoff
<1>. QED
  BY <1>1, <1>2, Invariance, PTL DEF Spec

-----------------------------------------------------------------------------
\* The first n chunks, and one more.
LEMMA Chunks ==
  ASSUME NEW n \in Nat
  PROVE  /\ Len([k \in 1..n |-> k]) = n
         /\ [k \in 1..(n + 1) |-> k] = Append([k \in 1..n |-> k], n + 1)
<1>1. [k \in 1..n |-> k] \in Seq(Nat) /\ Len([k \in 1..n |-> k]) = n
  OBVIOUS
<1>2. /\ Append([k \in 1..n |-> k], n + 1) \in Seq(Nat)
      /\ Len(Append([k \in 1..n |-> k], n + 1)) = n + 1
      /\ \A k \in 1..(n + 1) : Append([j \in 1..n |-> j], n + 1)[k] = k
  BY <1>1
<1>. QED
  BY <1>1, <1>2

\* What the app reads is the server's response: each chunk once, in order, and an
\* end only behind the last of them.
THEOREM ResponseRefines == Spec => ResponseIsByteStream
<1>1. Init => Response!Init
  <2>1. [k \in 1..0 |-> k] = <<>>
    OBVIOUS
  <2>. QED
    BY <2>1 DEF Init, Response!Init
<1>2. IInv /\ IInv' /\ [Next]_vars =>
        [Response!Next]_<<srvSent, responseClosed, [k \in 1..appGot |-> k], appSaw>>
  <2> SUFFICES ASSUME IInv, IInv', [Next]_vars
               PROVE  UNCHANGED <<srvSent, responseClosed, appGot, appSaw>> \/ Response!Next
    OBVIOUS
  <2>1. CASE AppRead
    <3>1. /\ appGot \in Nat /\ downBuf \in Nat /\ srvSent \in Nat
          /\ appGot' = appGot + 1 /\ downBuf > 0
          /\ UNCHANGED <<srvSent, responseClosed, appSaw>>
      BY <2>1 DEF AppRead, IInv, TypeOK, writeVars, serverVars
    <3>2. appGot < srvSent
      BY <3>1 DEF IInv, Ahead, Held, Written
    <3>3. appSaw = "none"
      BY <2>1, <3>1 DEF AppRead, IInv, TypeOK, Signals, Counts, EndSeen
    <3>. QED
      BY <3>1, <3>2, <3>3, Chunks DEF Response!Next, Response!Receive
  <2>2. CASE AppReadEnd
    <3>1. /\ appSaw = "none" /\ appSaw' \in {"eof", "reset"} /\ appGot \in Nat
          /\ UNCHANGED <<srvSent, responseClosed, appGot>>
      BY <2>2 DEF AppReadEnd, IInv, TypeOK, writeVars, serverVars
    <3>2. CASE appSaw' = "eof"
      <4>1. responseClosed /\ appGot = srvSent
        BY <3>1, <3>2 DEF IInv, TypeOK, Counts, EndSeen, Closed
      <4>. QED
        BY <3>1, <3>2, <4>1, Chunks DEF Response!Next, Response!ReadEof
    <3>3. CASE appSaw' = "reset"
      BY <3>1, <3>3 DEF Response!Next, Response!Break
    <3>. QED
      BY <3>1, <3>2, <3>3
  <2>3. CASE ArriveData
    BY <2>3 DEF ArriveData, Arrive, appVars, writeVars, IInv, Counts, Closed,
                Response!Next, Response!Send
  <2>4. CASE RecvClose
    <3>1. /\ responseClosed' = TRUE /\ responseClosed \in BOOLEAN
          /\ UNCHANGED <<srvSent, appGot, appSaw>>
      BY <2>4, Zenon DEF RecvClose, IInv, TypeOK, serverVars
    <3>. QED
      BY <3>1 DEF Response!Next, Response!Close
  <2>5. CASE ~AppRead /\ ~AppReadEnd /\ ~ArriveData /\ ~RecvClose
    BY <2>5 DEF Next, App, ReadHalf, ReadLoop, Posting, WriteHalf, Server, Dispatcher, Handoff,
                vars, appVars, readVars, writeVars, dispatchVars, serverVars,
                AppSend, AppShutdown, AppReset, ReadStopped, ReadChunk, ReadEof, ReadError,
                PostData, PostDataFails, PostClose, PostAbort, RecvData, WriteAll, WriteFails,
                RecvError, RecvNone, RecvUploadEnd, Finish, ArriveClose, ArriveError,
                ArriveReset, Arrive, ServerUploadDone, DispatchPush, DispatchGone,
                DispatchStall, HandoffPush, HandoffEnds
  <2>. QED
    BY <2>1, <2>2, <2>3, <2>4, <2>5
<1>. QED
  BY <1>1, <1>2, Invariance, PTL DEF Spec, ResponseIsByteStream, Response!Spec
==============================================================================
