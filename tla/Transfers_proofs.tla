--------------------------- MODULE Transfers_proofs ---------------------------
(****************************************************************************)
(* Safety of the transfers of Sessions, pull (L!) and push (S!), for every  *)
(* length of an archive, capacity of the channels, number of breaks and of  *)
(* late attempts.                                                           *)
(*                                                                          *)
(* The invariants the run checks are not inductive.  What makes them so, of *)
(* a pull:                                                                  *)
(*   Packed      - a compressor that succeeded has made the archive;        *)
(*   PullVouched - as long as nothing was lost, an ExitStatus(0) that may   *)
(*                 still be received has the last chunk before it;          *)
(*   PullJudged  - what the client has decided so far.                      *)
(* Two relays may feed one unpacker: once it was given the last chunk it    *)
(* has the archive or it is spoilt, whichever relay's that chunk was.       *)
(* Of a push:                                                               *)
(*   Written     - an unpacker that succeeded was given the archive;        *)
(*   PushVouched - an ExitStatus(0) that is on its way was earned, as was   *)
(*                 the Ok push returns on it.                               *)
(****************************************************************************)
EXTENDS Sessions, TransferLink_proofs

-----------------------------------------------------------------------------
(* pull. *)

\* The link of a pull is the one of TransferLink.
LEMMA PullLink ==
  /\ L!linkVars = linkVars
  /\ L!Exit0 = Exit0 /\ L!Close = Close /\ L!Error = Error
  /\ \A k : L!Data(k) = Data(k) /\ L!Exit(k) = Exit(k)
  /\ (L!Vanish <=> Vanish) /\ (L!ReceiveNone <=> ReceiveNone)
  /\ (L!Dispatch <=> Dispatch) /\ (L!Break <=> Break)
  /\ (L!Reattach <=> Reattach) /\ (L!ServerNotices <=> ServerNotices)
  /\ (L!Restarted <=> Restarted) /\ (L!LinkInit <=> LinkInit)
  /\ (L!LinkTypeOK <=> LinkTypeOK)
  /\ \A e : (L!Receive(e) <=> Receive(e)) /\ (L!Delivered(e) <=> Delivered(e))
  BY DEF linkVars, Exit, Exit0, Close, Error, Reset, Data, StreamInit, Vanish, ReceiveNone,
         Dispatch, Break, Reattach, ServerNotices, Restarted, LinkInit, LinkTypeOK, Receive,
         Delivered, L!linkVars, L!Exit, L!Exit0, L!Close, L!Error, L!Reset, L!Data,
         L!StreamInit, L!Vanish, L!ReceiveNone, L!Dispatch, L!Break, L!Reattach,
         L!ServerNotices, L!Restarted, L!LinkInit, L!LinkTypeOK, L!Receive, L!Delivered

\* A compressor that succeeded made the archive; a relay not yet started took nothing.
Packed == \A t \in L!Relays : /\ comp[t] = "ok" => made[t] = Pulled
                              /\ relay[t] = "absent" => taken[t] = 0

\* The unpacker was given the last chunk, or anything out of order; the last
\* chunk is before the i-th event of a queue.
Settled == fed \in {L!Spoilt, Pulled}
Before(q, i) == \E j \in 1..Len(q) : j < i /\ q[j] = L!Data(Pulled)
Queued(q) == \E j \in 1..Len(q) : q[j] = L!Data(Pulled)

Receiving == client \in {"first", "second", "receive"}

\* Where the last chunk is, seen from an ExitStatus(0) that was dispatched, from
\* one on the stream, and from a relay that is about to send one.
InHand == \A i \in 1..Len(events) : events[i] = L!Exit0 => Settled \/ Before(events, i)
OnWay == \A i \in 1..Len(down) : down[i] = L!Exit0 =>
            Settled \/ Queued(events) \/ Before(down, i)
Streamed == \A t \in L!Relays : relay[t] = "stream" /\ taken[t] = Pulled =>
               Settled \/ Queued(events) \/ Queued(down)
PullVouched == breaks = 0 /\ Receiving => InHand /\ (registered => OnWay /\ Streamed)

PullJudged ==
  /\ ~alive => client = "done"
  /\ breaks = 0 /\ alive => attached
  /\ unpack = "ok" => fed # L!Spoilt
  /\ unpack = "ok" /\ Receiving => L!Whole
  /\ breaks = 0 /\ client \in {"close", "join"} /\ ~failed => Settled \/ unpack = "error"
  /\ result = "ok" => client = "done"
  /\ L!OkMeansWhole

PullInv == L!TypeOK /\ Packed /\ PullVouched /\ PullJudged

\* The steps that send to the client.
PullSending == \E u \in L!Relays : L!StreamChunk(u) \/ L!SendOutcome(u) \/ L!SendClose(u)

\* The parts of TypeOK: the client and the server; the third is LinkOK.
PullClientOK ==
  /\ client \in {"first", "second", "receive", "close", "join", "done"}
  /\ failed \in BOOLEAN
  /\ fed \in 0..Pulled \cup {L!Spoilt}
  /\ unpack \in {"run", "ok", "error"} /\ result \in {"none", "ok", "error"}

PullServerOK ==
  /\ relay \in [L!Relays -> {"absent", "stream", "gone", "close", "done"}]
  /\ comp \in [L!Relays -> {"run", "ok", "error"}]
  /\ made \in [L!Relays -> 0..Pulled] /\ taken \in [L!Relays -> 0..Pulled]
  /\ \A t \in L!Relays : taken[t] <= made[t]

\* What a relay sends joins the others, an ExitStatus(0) behind the last chunk.
LEMMA Added ==
  ASSUME LinkOK, PullVouched, NEW e, L!Delivered(e), UNCHANGED <<client, fed>>,
         breaks = 0 /\ Receiving /\ registered /\ e = L!Exit0 =>
           Settled \/ Queued(events) \/ Queued(down)
  PROVE  /\ UNCHANGED <<breaks, registered, events>>
         /\ breaks = 0 /\ Receiving => InHand'
         /\ breaks = 0 /\ Receiving /\ registered => OnWay'
         /\ Queued(down) => Queued(down)'
         /\ e = L!Data(Pulled) => Queued(down)'
<1>1. down' = Append(down, e) /\ UNCHANGED <<breaks, registered, events>>
  BY DEF L!Delivered
<1>2. /\ Len(down) \in Nat /\ Len(down') = Len(down) + 1
      /\ \A i \in 1..Len(down) : down'[i] = down[i]
      /\ down'[Len(down) + 1] = e
  BY <1>1 DEF LinkOK
<1>3. breaks = 0 /\ Receiving => InHand'
  BY <1>1 DEF PullVouched, InHand, Receiving, Settled, Before
<1>4. /\ Queued(down) => Queued(down)'
      /\ e = L!Data(Pulled) => Queued(down)'
  BY <1>2 DEF Queued
<1>5. ASSUME breaks = 0, Receiving, registered, NEW i \in 1..Len(down'), down'[i] = L!Exit0
      PROVE  Settled \/ Queued(events) \/ Before(down, i)'
  <2>1. CASE i \in 1..Len(down)
    BY <1>2, <1>5, <2>1 DEF PullVouched, OnWay, Before
  <2>2. CASE i = Len(down) + 1
    BY <1>2, <1>5, <2>2 DEF Queued, Before
  <2>. QED
    BY <1>2, <2>1, <2>2
<1>6. breaks = 0 /\ Receiving /\ registered => OnWay'
  <2> SUFFICES ASSUME breaks = 0, Receiving, registered, NEW i \in 1..Len(down'), down'[i] = L!Exit0
               PROVE  (Settled \/ Queued(events))' \/ Before(down, i)'
    BY DEF OnWay
  <2>. QED
    BY <1>1, <1>5 DEF Settled, Queued
<1>. QED
  BY <1>1, <1>3, <1>4, <1>6

\* Nothing else is sent.
LEMMA PullLinks == [L!Next]_(L!vars) => (LinkMoves \/ PullSending)
<1> SUFFICES ASSUME [L!Next]_(L!vars) PROVE (LinkMoves \/ PullSending)
  OBVIOUS
<1> USE PullLink DEF LinkMoves, linkVars, L!linkVars
<1>1. CASE L!FirstPost
  BY <1>1 DEF L!FirstPost, L!Announce, L!Spawned, L!Returns
<1>2. CASE L!SecondPost
  BY <1>2 DEF L!SecondPost, L!Announce, L!Spawned, L!Returns
<1>3. CASE L!Denied
  BY <1>3 DEF L!Denied, L!Returns
<1>4. CASE L!Feed
  <2>1. \A k \in 1..Pulled : L!Data(k) \in Events
    BY DEF Events, L!Data
  <2>. QED
    BY <1>4, <2>1 DEF L!Feed
<1>5. CASE L!Confirm
  <2>1. L!Exit0 \in Events
    BY DEF Events, L!Exit0
  <2>. QED
    BY <1>5, <2>1 DEF L!Confirm
<1>6. CASE L!Fail
  <2>1. L!Error \in Events /\ L!Close \in Events
    BY DEF Events
  <2>. QED
    BY <1>6, <2>1 DEF L!Fail
<1>7. CASE L!PostClose
  BY <1>7 DEF L!PostClose
<1>8. CASE L!Join
  BY <1>8 DEF L!Join, L!Returns
<1>9. CASE L!Unpack
  BY <1>9 DEF L!Unpack
<1>10. ASSUME NEW t \in L!Relays, L!Compress(t) PROVE (LinkMoves \/ PullSending)
  BY <1>10 DEF L!Compress, L!Running
<1>11. ASSUME NEW t \in L!Relays, L!StreamChunk(t) PROVE (LinkMoves \/ PullSending)
  BY <1>11 DEF PullSending
<1>12. ASSUME NEW t \in L!Relays, L!ClientGone(t) PROVE (LinkMoves \/ PullSending)
  BY <1>12 DEF L!ClientGone, L!Ends
<1>13. ASSUME NEW t \in L!Relays, L!SendOutcome(t) PROVE (LinkMoves \/ PullSending)
  BY <1>13 DEF PullSending
<1>14. ASSUME NEW t \in L!Relays, L!SendClose(t) PROVE (LinkMoves \/ PullSending)
  BY <1>14 DEF PullSending
<1>15. CASE L!Link
  BY <1>15 DEF L!Link
<1>16. CASE L!ClientEnds
  BY <1>16 DEF L!ClientEnds
<1>17. CASE L!Restart
  BY <1>17 DEF L!Restart, L!Running
<1>18. CASE UNCHANGED L!vars
  BY <1>18 DEF L!vars
<1>. QED
  BY <1>1, <1>2, <1>3, <1>4, <1>5, <1>6, <1>7, <1>8, <1>9, <1>10, <1>11, <1>12, <1>13, <1>14,
     <1>15, <1>16, <1>17, <1>18
     DEF L!Next, L!Client, L!Relay

\* The client's part is kept.
LEMMA PullClientStep == L!PullAssumption /\ PullClientOK /\ [L!Next]_(L!vars) => PullClientOK'
<1> SUFFICES ASSUME L!PullAssumption, PullClientOK, [L!Next]_(L!vars) PROVE PullClientOK'
  OBVIOUS
<1> USE DEF PullClientOK, L!clientVars, L!linkVars, L!serverVars, L!PullAssumption, L!Given,
            L!Spoilt
<1>1. CASE L!FirstPost
  BY <1>1 DEF L!FirstPost, L!Announce, L!Spawned, L!Returns, L!Vanish
<1>2. CASE L!SecondPost
  BY <1>2 DEF L!SecondPost, L!Announce, L!Spawned, L!Returns, L!Vanish
<1>3. CASE L!Denied
  BY <1>3 DEF L!Denied, L!Returns, L!Vanish
<1>4. CASE L!Feed
  BY <1>4 DEF L!Feed, L!Receive
<1>5. CASE L!Confirm
  BY <1>5 DEF L!Confirm, L!Receive
<1>6. CASE L!Fail
  BY <1>6 DEF L!Fail, L!Receive, L!ReceiveNone
<1>7. CASE L!PostClose
  BY <1>7 DEF L!PostClose
<1>8. CASE L!Join
  BY <1>8 DEF L!Join, L!Returns, L!Vanish
<1>9. CASE L!Unpack
  BY <1>9 DEF L!Unpack
<1>10. ASSUME NEW t \in L!Relays, L!Compress(t) PROVE PullClientOK'
  BY <1>10 DEF L!Compress, L!Running
<1>11. ASSUME NEW t \in L!Relays, L!StreamChunk(t) PROVE PullClientOK'
  BY <1>11 DEF L!StreamChunk, L!Delivered, L!Undelivered
<1>12. ASSUME NEW t \in L!Relays, L!ClientGone(t) PROVE PullClientOK'
  BY <1>12 DEF L!ClientGone, L!Ends
<1>13. ASSUME NEW t \in L!Relays, L!SendOutcome(t) PROVE PullClientOK'
  BY <1>13 DEF L!SendOutcome, L!Delivered, L!Undelivered, L!Moves, L!Ends
<1>14. ASSUME NEW t \in L!Relays, L!SendClose(t) PROVE PullClientOK'
  BY <1>14 DEF L!SendClose, L!Delivered, L!Undelivered, L!Ends
<1>15. CASE L!Link
  BY <1>15 DEF L!Link, L!Dispatch, L!Break, L!Reattach, L!ServerNotices
<1>16. CASE L!ClientEnds
  <2>1. client' = "done" /\ failed' = FALSE /\ fed' = 0 /\ unpack' = "error" /\ result' = "none"
    BY <1>16 DEF L!ClientEnds
  <2>2. 0 \in 0..Pulled \cup {L!Spoilt} /\ FALSE \in BOOLEAN
    OBVIOUS
  <2>. QED
    BY <2>1, <2>2
<1>17. CASE L!Restart
  BY <1>17 DEF L!Restart, L!Restarted, L!Running
<1>18. CASE UNCHANGED L!vars
  BY <1>18 DEF L!vars
<1>. QED
  BY <1>1, <1>2, <1>3, <1>4, <1>5, <1>6, <1>7, <1>8, <1>9, <1>10, <1>11, <1>12, <1>13, <1>14,
     <1>15, <1>16, <1>17, <1>18
     DEF L!Next, L!Client, L!Relay

\* The server's part is kept.
LEMMA PullServerStep == L!PullAssumption /\ PullServerOK /\ [L!Next]_(L!vars) => PullServerOK'
<1> SUFFICES ASSUME L!PullAssumption, PullServerOK, [L!Next]_(L!vars) PROVE PullServerOK'
  OBVIOUS
<1> USE DEF PullServerOK, L!clientVars, L!linkVars, L!serverVars, L!Relays, L!PullAssumption
<1>1. CASE L!FirstPost
  BY <1>1 DEF L!FirstPost, L!Announce, L!Spawned, L!Returns, L!Vanish
<1>2. CASE L!SecondPost
  BY <1>2 DEF L!SecondPost, L!Announce, L!Spawned, L!Returns, L!Vanish
<1>3. CASE L!Denied
  BY <1>3 DEF L!Denied, L!Returns, L!Vanish
<1>4. CASE L!Feed
  BY <1>4 DEF L!Feed, L!Receive
<1>5. CASE L!Confirm
  BY <1>5 DEF L!Confirm, L!Receive
<1>6. CASE L!Fail
  BY <1>6 DEF L!Fail, L!Receive, L!ReceiveNone
<1>7. CASE L!PostClose
  BY <1>7 DEF L!PostClose
<1>8. CASE L!Join
  BY <1>8 DEF L!Join, L!Returns, L!Vanish
<1>9. CASE L!Unpack
  BY <1>9 DEF L!Unpack
<1>10. ASSUME NEW t \in L!Relays, L!Compress(t) PROVE PullServerOK'
  BY <1>10 DEF L!Compress, L!Running
<1>11. ASSUME NEW t \in L!Relays, L!StreamChunk(t) PROVE PullServerOK'
  BY <1>11 DEF L!StreamChunk, L!Delivered, L!Undelivered
<1>12. ASSUME NEW t \in L!Relays, L!ClientGone(t) PROVE PullServerOK'
  BY <1>12 DEF L!ClientGone, L!Ends
<1>13. ASSUME NEW t \in L!Relays, L!SendOutcome(t) PROVE PullServerOK'
  BY <1>13 DEF L!SendOutcome, L!Delivered, L!Undelivered, L!Moves, L!Ends
<1>14. ASSUME NEW t \in L!Relays, L!SendClose(t) PROVE PullServerOK'
  BY <1>14 DEF L!SendClose, L!Delivered, L!Undelivered, L!Ends
<1>15. CASE L!Link
  BY <1>15 DEF L!Link, L!Dispatch, L!Break, L!Reattach, L!ServerNotices
<1>16. CASE L!ClientEnds
  BY <1>16 DEF L!ClientEnds, L!Vanish
<1>17. CASE L!Restart
  BY <1>17 DEF L!Restart, L!Restarted, L!Running
<1>18. CASE UNCHANGED L!vars
  BY <1>18 DEF L!vars
<1>. QED
  BY <1>1, <1>2, <1>3, <1>4, <1>5, <1>6, <1>7, <1>8, <1>9, <1>10, <1>11, <1>12, <1>13, <1>14,
     <1>15, <1>16, <1>17, <1>18
     DEF L!Next, L!Client, L!Relay

\* Packed is kept.
LEMMA PackedStep == L!PullAssumption /\ PullServerOK /\ Packed /\ [L!Next]_(L!vars) => Packed'
<1> SUFFICES ASSUME L!PullAssumption, PullServerOK, Packed, [L!Next]_(L!vars) PROVE Packed'
  OBVIOUS
<1> USE DEF Packed, PullServerOK, L!clientVars, L!linkVars, L!serverVars, L!Relays, L!PullAssumption
<1>1. CASE L!FirstPost
  BY <1>1 DEF L!FirstPost, L!Announce, L!Spawned, L!Returns, L!Vanish
<1>2. CASE L!SecondPost
  BY <1>2 DEF L!SecondPost, L!Announce, L!Spawned, L!Returns, L!Vanish
<1>3. CASE L!Denied
  BY <1>3 DEF L!Denied, L!Returns, L!Vanish
<1>4. CASE L!Feed
  BY <1>4 DEF L!Feed, L!Receive
<1>5. CASE L!Confirm
  BY <1>5 DEF L!Confirm, L!Receive
<1>6. CASE L!Fail
  BY <1>6 DEF L!Fail, L!Receive, L!ReceiveNone
<1>7. CASE L!PostClose
  BY <1>7 DEF L!PostClose
<1>8. CASE L!Join
  BY <1>8 DEF L!Join, L!Returns, L!Vanish
<1>9. CASE L!Unpack
  BY <1>9 DEF L!Unpack
<1>10. ASSUME NEW t \in L!Relays, L!Compress(t) PROVE Packed'
  BY <1>10 DEF L!Compress, L!Running
<1>11. ASSUME NEW t \in L!Relays, L!StreamChunk(t) PROVE Packed'
  BY <1>11 DEF L!StreamChunk, L!Delivered, L!Undelivered
<1>12. ASSUME NEW t \in L!Relays, L!ClientGone(t) PROVE Packed'
  BY <1>12 DEF L!ClientGone, L!Ends
<1>13. ASSUME NEW t \in L!Relays, L!SendOutcome(t) PROVE Packed'
  BY <1>13 DEF L!SendOutcome, L!Delivered, L!Undelivered, L!Moves, L!Ends
<1>14. ASSUME NEW t \in L!Relays, L!SendClose(t) PROVE Packed'
  BY <1>14 DEF L!SendClose, L!Delivered, L!Undelivered, L!Ends
<1>15. CASE L!Link
  BY <1>15 DEF L!Link, L!Dispatch, L!Break, L!Reattach, L!ServerNotices
<1>16. CASE L!ClientEnds
  BY <1>16 DEF L!ClientEnds, L!Vanish
<1>17. CASE L!Restart
  BY <1>17 DEF L!Restart, L!Restarted, L!Running
<1>18. CASE UNCHANGED L!vars
  BY <1>18 DEF L!vars
<1>. QED
  BY <1>1, <1>2, <1>3, <1>4, <1>5, <1>6, <1>7, <1>8, <1>9, <1>10, <1>11, <1>12, <1>13, <1>14,
     <1>15, <1>16, <1>17, <1>18
     DEF L!Next, L!Client, L!Relay

\* Judged is kept.
LEMMA PullJudgedStep ==
  L!PullAssumption /\ PullClientOK /\ LinkOK /\ PullVouched /\ PullJudged /\ [L!Next]_(L!vars)
    => PullJudged'
<1> SUFFICES ASSUME L!PullAssumption, PullClientOK, LinkOK, PullVouched, PullJudged,
                    [L!Next]_(L!vars)
             PROVE  PullJudged'
  OBVIOUS
<1> USE DEF PullJudged, PullClientOK, LinkOK, L!OkMeansWhole, L!Whole, Settled, Receiving,
            L!clientVars, L!linkVars, L!serverVars, L!PullAssumption, L!Given, L!Spoilt
<1>1. CASE L!FirstPost
  BY <1>1 DEF L!FirstPost, L!Announce, L!Spawned, L!Returns, L!Vanish
<1>2. CASE L!SecondPost
  BY <1>2 DEF L!SecondPost, L!Announce, L!Spawned, L!Returns, L!Vanish
<1>3. CASE L!Denied
  BY <1>3 DEF L!Denied, L!Returns, L!Vanish
<1>4. CASE L!Feed
  BY <1>4 DEF L!Feed, L!Receive
<1>5. CASE L!Confirm
  <2>1. /\ alive /\ client = "receive" /\ client' = "close" /\ events # <<>> /\ events[1] = L!Exit0
        /\ UNCHANGED <<alive, attached, breaks, failed, fed, unpack, result>>
    BY <1>5 DEF L!Confirm, L!Receive
  <2>2. breaks = 0 => Settled
    BY <2>1 DEF PullVouched, InHand, Before
  <2>. QED
    BY <2>1, <2>2
<1>6. CASE L!Fail
  <2>1. /\ alive /\ client = "receive" /\ client' = "close" /\ failed' = TRUE
        /\ UNCHANGED <<alive, attached, breaks, fed, unpack, result>>
    BY <1>6 DEF L!Fail, L!Receive, L!ReceiveNone, L!linkVars
  <2>. QED
    BY <2>1
<1>7. CASE L!PostClose
  BY <1>7 DEF L!PostClose
<1>8. CASE L!Join
  BY <1>8 DEF L!Join, L!Returns, L!Vanish
<1>9. CASE L!Unpack
  <2>1. /\ alive /\ unpack = "run" /\ unpack' \in {"ok", "error"}
        /\ UNCHANGED <<alive, attached, breaks, client, failed, fed, result>>
    BY <1>9 DEF L!Unpack, L!linkVars
  <2>2. unpack' = "ok" => fed = Pulled \/ (client \in {"close", "join"} /\ fed # L!Spoilt)
    BY <1>9 DEF L!Unpack, L!AtEof
  <2>. QED
    BY <2>1, <2>2
<1>10. ASSUME NEW t \in L!Relays, L!Compress(t) PROVE PullJudged'
  BY <1>10 DEF L!Compress, L!Running
<1>11. ASSUME NEW t \in L!Relays, L!StreamChunk(t) PROVE PullJudged'
  BY <1>11 DEF L!StreamChunk, L!Delivered, L!Undelivered
<1>12. ASSUME NEW t \in L!Relays, L!ClientGone(t) PROVE PullJudged'
  BY <1>12 DEF L!ClientGone, L!Ends
<1>13. ASSUME NEW t \in L!Relays, L!SendOutcome(t) PROVE PullJudged'
  BY <1>13 DEF L!SendOutcome, L!Delivered, L!Undelivered, L!Moves, L!Ends
<1>14. ASSUME NEW t \in L!Relays, L!SendClose(t) PROVE PullJudged'
  BY <1>14 DEF L!SendClose, L!Delivered, L!Undelivered, L!Ends
<1>15. CASE L!Link
  BY <1>15 DEF L!Link, L!Dispatch, L!Break, L!Reattach, L!ServerNotices
<1>16. CASE L!ClientEnds
  BY <1>16 DEF L!ClientEnds, L!Vanish
<1>17. CASE L!Restart
  BY <1>17 DEF L!Restart, L!Restarted, L!Running
<1>18. CASE UNCHANGED L!vars
  BY <1>18 DEF L!vars
<1>. QED
  BY <1>1, <1>2, <1>3, <1>4, <1>5, <1>6, <1>7, <1>8, <1>9, <1>10, <1>11, <1>12, <1>13, <1>14,
     <1>15, <1>16, <1>17, <1>18
     DEF L!Next, L!Client, L!Relay

\* Vouched is kept.
LEMMA PullVouchedStep ==
  L!PullAssumption /\ PullClientOK /\ PullServerOK /\ LinkOK /\ Packed /\ PullJudged
  /\ PullVouched /\ [L!Next]_(L!vars) => PullVouched'
<1> SUFFICES ASSUME L!PullAssumption, PullClientOK, PullServerOK, LinkOK, Packed, PullJudged,
                    PullVouched, [L!Next]_(L!vars)
             PROVE  PullVouched'
  OBVIOUS
<1> USE DEF L!clientVars, L!linkVars, L!serverVars
<1>1. CASE L!FirstPost
  <2>1. PICK s \in BOOLEAN, a \in BOOLEAN : L!Announce(1, TRUE, s, a)
    BY <1>1 DEF L!FirstPost
  <2>2. \/ client' = "done"
        \/ /\ UNCHANGED L!linkVars /\ UNCHANGED <<fed, taken>> /\ Receiving
           /\ \A t \in L!Relays : relay'[t] = "stream" => relay[t] = "stream" \/ taken[t] = 0
    BY <1>1, <2>1 DEF L!FirstPost, L!Announce, L!Spawned, L!Returns, Packed, PullServerOK,
                      L!Relays,
                      Receiving
  <2>3. CASE client' = "done"
    BY <2>3 DEF PullVouched, Receiving
  <2>4. CASE UNCHANGED L!linkVars /\ UNCHANGED <<fed, taken>> /\ Receiving
             /\ \A t \in L!Relays : relay'[t] = "stream" => relay[t] = "stream" \/ taken[t] = 0
    BY <2>4 DEF L!linkVars, L!PullAssumption, PullVouched, InHand, OnWay, Streamed, Settled,
                Before, Queued
  <2>. QED
    BY <2>2, <2>3, <2>4
<1>2. CASE L!SecondPost
  <2>1. PICK s \in BOOLEAN, a \in BOOLEAN : L!Announce(2, FALSE, s, a)
    BY <1>2 DEF L!SecondPost
  <2>2. \/ client' = "done"
        \/ /\ UNCHANGED L!linkVars /\ UNCHANGED <<fed, taken>> /\ Receiving
           /\ \A t \in L!Relays : relay'[t] = "stream" => relay[t] = "stream" \/ taken[t] = 0
    BY <1>2, <2>1 DEF L!SecondPost, L!Announce, L!Spawned, L!Returns, Packed, PullServerOK,
                      L!Relays,
                      Receiving
  <2>3. CASE client' = "done"
    BY <2>3 DEF PullVouched, Receiving
  <2>4. CASE UNCHANGED L!linkVars /\ UNCHANGED <<fed, taken>> /\ Receiving
             /\ \A t \in L!Relays : relay'[t] = "stream" => relay[t] = "stream" \/ taken[t] = 0
    BY <2>4 DEF L!linkVars, L!PullAssumption, PullVouched, InHand, OnWay, Streamed, Settled,
                Before, Queued
  <2>. QED
    BY <2>2, <2>3, <2>4
<1>3. CASE L!Denied
  BY <1>3 DEF L!Denied, L!Returns, L!Vanish, PullVouched, InHand, OnWay, Streamed, Settled,
              Before, Queued, Receiving
<1>4. CASE L!Feed
  <2> SUFFICES ASSUME breaks' = 0, Receiving'
               PROVE  InHand' /\ (registered' => OnWay' /\ Streamed')
    BY DEF PullVouched
  <2>1. PICK k \in 1..Pulled : /\ L!Receive(L!Data(k)) /\ unpack = "run"
                              /\ fed' = L!Given(fed, k, Pulled)
    BY <1>4 DEF L!Feed, Receiving
  <2>2. /\ events # <<>> /\ events[1] = L!Data(k) /\ events' = Tail(events)
        /\ UNCHANGED <<down, registered, breaks>> /\ Receiving /\ UNCHANGED <<relay, taken>>
    BY <1>4, <2>1 DEF L!Receive, L!Feed, Receiving, L!serverVars
  <2>3. /\ Len(events) \in Nat \ {0} /\ Len(events') = Len(events) - 1
        /\ \A i \in 1..Len(events') : events'[i] = events[i + 1]
    BY <2>2, HeadTailProperties DEF LinkOK
  <2>4. k = Pulled \/ Settled => Settled'
    BY <2>1 DEF L!Given, Settled, PullClientOK, L!PullAssumption, L!Spoilt
  <2>5. k # Pulled => L!Data(k) # L!Data(Pulled)
    BY DEF L!Data
  <2>6. Queued(events) => Settled' \/ Queued(events)'
    <3> SUFFICES ASSUME NEW j \in 1..Len(events), events[j] = L!Data(Pulled), ~Settled'
                 PROVE  Queued(events)'
      BY DEF Queued
    <3>1. j # 1
      BY <2>2, <2>4, <2>5
    <3>2. j - 1 \in 1..Len(events') /\ events'[j - 1] = L!Data(Pulled)
      BY <2>3, <3>1
    <3>. QED
      BY <3>2 DEF Queued
  <2>7. InHand'
    <3> SUFFICES ASSUME NEW i \in 1..Len(events'), events'[i] = L!Exit0, ~Settled'
                 PROVE  Before(events, i)'
      BY DEF InHand
    <3>1. i + 1 \in 1..Len(events) /\ events[i + 1] = L!Exit0
      BY <2>3
    <3>2. PICK j \in 1..Len(events) : j < i + 1 /\ events[j] = L!Data(Pulled)
      BY <2>2, <2>4, <3>1 DEF PullVouched, InHand, Before
    <3>3. j # 1
      BY <2>2, <2>4, <2>5, <3>2
    <3>4. j - 1 \in 1..Len(events') /\ j - 1 < i /\ events'[j - 1] = L!Data(Pulled)
      BY <2>3, <3>2, <3>3
    <3>. QED
      BY <3>4 DEF Before
  <2>8. registered' => OnWay' /\ Streamed'
    BY <2>2, <2>4, <2>6 DEF PullVouched, OnWay, Streamed, Before, Queued
  <2>. QED
    BY <2>7, <2>8
<1>5. CASE L!Confirm
  BY <1>5 DEF L!Confirm, L!Receive, PullVouched, InHand, OnWay, Streamed, Settled, Before,
              Queued, Receiving
<1>6. CASE L!Fail
  BY <1>6 DEF L!Fail, L!Receive, L!ReceiveNone, PullVouched, InHand, OnWay, Streamed, Settled,
              Before, Queued, Receiving
<1>7. CASE L!PostClose
  BY <1>7 DEF L!PostClose, PullVouched, InHand, OnWay, Streamed, Settled, Before, Queued,
              Receiving
<1>8. CASE L!Join
  BY <1>8 DEF L!Join, L!Returns, L!Vanish, PullVouched, InHand, OnWay, Streamed, Settled,
              Before,
              Queued, Receiving
<1>9. CASE L!Unpack
  BY <1>9 DEF L!Unpack, PullVouched, InHand, OnWay, Streamed, Settled, Before, Queued, Receiving
<1>10. ASSUME NEW t \in L!Relays, L!Compress(t) PROVE PullVouched'
  BY <1>10 DEF L!Compress, L!Running, PullVouched, InHand, OnWay, Streamed, Settled, Before,
               Queued, Receiving
<1>11. ASSUME NEW t \in L!Relays, L!StreamChunk(t) PROVE PullVouched'
  <2>1. /\ relay[t] = "stream" /\ taken' = [taken EXCEPT ![t] = taken[t] + 1]
        /\ UNCHANGED <<client, fed>>
    BY <1>11 DEF L!StreamChunk, L!clientVars
  <2>2. CASE L!Delivered(L!Data(taken[t] + 1)) /\ UNCHANGED relay
    <3>1. L!Data(taken[t] + 1) # L!Exit0
      BY DEF L!Data, L!Exit0, L!Exit
    <3>2. /\ UNCHANGED <<breaks, registered, events>>
          /\ breaks = 0 /\ Receiving => InHand'
          /\ breaks = 0 /\ Receiving /\ registered => OnWay'
          /\ Queued(down) => Queued(down)'
          /\ L!Data(taken[t] + 1) = L!Data(Pulled) => Queued(down)'
      BY <2>1, <2>2, <3>1, Added
    <3>3. breaks = 0 /\ Receiving /\ registered => Streamed'
      <4> SUFFICES ASSUME breaks = 0, Receiving, registered, NEW u \in L!Relays,
                          relay'[u] = "stream", taken'[u] = Pulled
                   PROVE  (Settled \/ Queued(events) \/ Queued(down))'
        BY DEF Streamed
      <4>1. CASE u = t
        BY <2>1, <3>2, <4>1 DEF PullServerOK
      <4>2. CASE u # t
        BY <2>1, <2>2, <3>2, <4>2 DEF PullServerOK, PullVouched, Streamed, Settled, Queued
      <4>. QED
        BY <4>1, <4>2
    <3>. QED
      BY <2>1, <3>2, <3>3 DEF PullVouched, Receiving
  <2>3. CASE UNCHANGED L!linkVars /\ relay' = [relay EXCEPT ![t] = "gone"]
    BY <2>1, <2>3 DEF L!linkVars, PullServerOK, PullVouched, InHand, OnWay, Streamed, Settled,
                      Before, Queued, Receiving
  <2>. QED
    BY <1>11, <2>2, <2>3 DEF L!StreamChunk, L!Undelivered
<1>12. ASSUME NEW t \in L!Relays, L!ClientGone(t) PROVE PullVouched'
  BY <1>12 DEF L!ClientGone, L!Ends, PullVouched, InHand, OnWay, Streamed, Settled, Before,
               Queued, Receiving
<1>13. ASSUME NEW t \in L!Relays, L!SendOutcome(t) PROVE PullVouched'
  <2>1. /\ UNCHANGED <<client, fed, taken>> \/ (UNCHANGED <<client, fed>> /\ L!Ends(t))
        /\ \A u \in L!Relays : relay'[u] = "stream" => relay[u] = "stream" /\ taken'[u] = taken[u]
    BY <1>13 DEF L!SendOutcome, L!Delivered, L!Undelivered, L!Moves, L!Ends, L!clientVars,
                 PullServerOK
  <2>2. CASE UNCHANGED L!linkVars
    BY <2>1, <2>2 DEF L!linkVars, PullVouched, InHand, OnWay, Streamed, Settled, Before,
                      Queued, Receiving
  <2>3. ASSUME NEW e, L!Delivered(e),
               breaks = 0 /\ Receiving /\ registered /\ e = L!Exit0 =>
                 Settled \/ Queued(events) \/ Queued(down)
        PROVE  PullVouched'
    <3>1. /\ UNCHANGED <<breaks, registered, events>>
          /\ breaks = 0 /\ Receiving => InHand'
          /\ breaks = 0 /\ Receiving /\ registered => OnWay'
          /\ Queued(down) => Queued(down)'
      BY <2>1, <2>3, Added
    <3>2. breaks = 0 /\ Receiving /\ registered => Streamed'
      BY <2>1, <3>1 DEF PullVouched, Streamed, Settled, Queued
    <3>. QED
      BY <2>1, <3>1, <3>2 DEF PullVouched, Receiving
  <2>4. CASE comp[t] = "ok" /\ L!Delivered(L!Exit0)
    <3>1. taken[t] = Pulled /\ relay[t] = "stream"
      BY <1>13, <2>4 DEF L!SendOutcome, Packed
    <3>. QED
      BY <2>3, <2>4, <3>1 DEF PullVouched, Streamed
  <2>5. CASE L!Delivered(L!Error)
    <3>1. L!Error # L!Exit0
      BY DEF L!Error, L!Exit0, L!Exit
    <3>. QED
      BY <2>3, <2>5, <3>1
  <2>. QED
    BY <1>13, <2>2, <2>4, <2>5 DEF L!SendOutcome, L!Undelivered
<1>14. ASSUME NEW t \in L!Relays, L!SendClose(t) PROVE PullVouched'
  <2>1. /\ UNCHANGED <<client, fed, taken>> \/ (UNCHANGED <<client, fed>> /\ L!Ends(t))
        /\ \A u \in L!Relays : relay'[u] = "stream" => relay[u] = "stream" /\ taken'[u] = taken[u]
    BY <1>14 DEF L!SendClose, L!Delivered, L!Undelivered, L!Ends, L!clientVars, PullServerOK
  <2>2. CASE UNCHANGED L!linkVars
    BY <2>1, <2>2 DEF L!linkVars, PullVouched, InHand, OnWay, Streamed, Settled, Before,
                      Queued, Receiving
  <2>3. ASSUME NEW e, L!Delivered(e),
               breaks = 0 /\ Receiving /\ registered /\ e = L!Exit0 =>
                 Settled \/ Queued(events) \/ Queued(down)
        PROVE  PullVouched'
    <3>1. /\ UNCHANGED <<breaks, registered, events>>
          /\ breaks = 0 /\ Receiving => InHand'
          /\ breaks = 0 /\ Receiving /\ registered => OnWay'
          /\ Queued(down) => Queued(down)'
      BY <2>1, <2>3, Added
    <3>2. breaks = 0 /\ Receiving /\ registered => Streamed'
      BY <2>1, <3>1 DEF PullVouched, Streamed, Settled, Queued
    <3>. QED
      BY <2>1, <3>1, <3>2 DEF PullVouched, Receiving
  <2>4. CASE L!Delivered(L!Close)
    <3>1. L!Close # L!Exit0
      BY DEF L!Close, L!Exit0, L!Exit
    <3>. QED
      BY <2>3, <2>4, <3>1
  <2>. QED
    BY <1>14, <2>2, <2>4 DEF L!SendClose, L!Undelivered
<1>15. CASE L!Link
  <2>1. UNCHANGED <<client, fed, relay, taken>>
    BY <1>15 DEF L!Link, L!clientVars, L!serverVars
  <2>2. CASE L!Dispatch
    <3> SUFFICES ASSUME breaks' = 0, Receiving'
                 PROVE  InHand' /\ (registered' => OnWay' /\ Streamed')
      BY DEF PullVouched
    <3>1. /\ down # <<>> /\ down' = Tail(down) /\ breaks = 0 /\ Receiving
          /\ \/ /\ registered' = FALSE \/ ~registered
                /\ ~registered' /\ UNCHANGED events
             \/ /\ registered /\ registered'
                /\ events' = Append(events, Head(down))
      BY <2>1, <2>2 DEF L!Dispatch, Receiving, LinkOK
    <3>2. /\ Len(down) \in Nat \ {0} /\ Len(down') = Len(down) - 1
          /\ \A i \in 1..Len(down') : down'[i] = down[i + 1]
          /\ Head(down) = down[1]
      BY <3>1, HeadTailProperties DEF LinkOK
    <3>3. CASE ~registered' /\ UNCHANGED events
      BY <2>1, <3>1, <3>3 DEF PullVouched, InHand, Settled, Before
    <3>4. CASE registered /\ registered' /\ events' = Append(events, Head(down))
      <4>1. /\ Len(events) \in Nat /\ Len(events') = Len(events) + 1
            /\ \A i \in 1..Len(events) : events'[i] = events[i]
            /\ events'[Len(events) + 1] = down[1]
        BY <3>2, <3>4 DEF LinkOK
      <4>2. Queued(events) => Queued(events)'
        BY <4>1 DEF Queued
      <4>3. Queued(down) => Queued(events)' \/ Queued(down)'
        <5> SUFFICES ASSUME NEW j \in 1..Len(down), down[j] = L!Data(Pulled)
                     PROVE  Queued(events)' \/ Queued(down)'
          BY DEF Queued
        <5>1. CASE j = 1
          BY <4>1, <5>1 DEF Queued
        <5>2. CASE j # 1
          <6>1. j - 1 \in 1..Len(down') /\ down'[j - 1] = L!Data(Pulled)
            BY <3>2, <5>2
          <6>. QED
            BY <6>1 DEF Queued
        <5>. QED
          BY <5>1, <5>2
      <4>4. Settled' <=> Settled
        BY <2>1 DEF Settled
      <4>5. InHand'
        <5> SUFFICES ASSUME NEW i \in 1..Len(events'), events'[i] = L!Exit0, ~Settled
                     PROVE  Before(events, i)'
          BY <4>4 DEF InHand
        <5>1. CASE i \in 1..Len(events)
          BY <3>1, <4>1, <5>1 DEF PullVouched, InHand, Before
        <5>2. CASE i = Len(events) + 1
          <6>1. down[1] = L!Exit0 /\ 1 \in 1..Len(down)
            BY <3>2, <4>1, <5>2
          <6>2. Queued(events)
            BY <3>1, <3>4, <6>1 DEF PullVouched, OnWay, Before
          <6>. QED
            BY <4>1, <5>2, <6>2 DEF Queued, Before
        <5>. QED
          BY <4>1, <5>1, <5>2
      <4>6. OnWay'
        <5> SUFFICES ASSUME NEW i \in 1..Len(down'), down'[i] = L!Exit0, ~Settled, ~Queued(events)'
                     PROVE  Before(down, i)'
          BY <4>4 DEF OnWay
        <5>1. i + 1 \in 1..Len(down) /\ down[i + 1] = L!Exit0
          BY <3>2
        <5>2. PICK j \in 1..Len(down) : j < i + 1 /\ down[j] = L!Data(Pulled)
          BY <3>1, <3>4, <4>2, <5>1 DEF PullVouched, OnWay, Before
        <5>3. j # 1
          BY <4>1, <5>2 DEF Queued
        <5>4. j - 1 \in 1..Len(down') /\ j - 1 < i /\ down'[j - 1] = L!Data(Pulled)
          BY <3>2, <5>2, <5>3
        <5>. QED
          BY <5>4 DEF Before
      <4>7. Streamed'
        BY <2>1, <3>1, <3>4, <4>2, <4>3, <4>4 DEF PullVouched, Streamed
      <4>. QED
        BY <4>5, <4>6, <4>7
    <3>. QED
      BY <3>1, <3>3, <3>4
  <2>3. CASE L!Break
    BY <2>3 DEF L!Break, PullVouched, LinkOK
  <2>4. CASE L!Reattach
    BY <2>1, <2>4 DEF L!Reattach, PullVouched, PullJudged
  <2>5. CASE L!ServerNotices
    BY <2>1, <2>5 DEF L!ServerNotices, PullVouched, PullJudged, Receiving
  <2>. QED
    BY <1>15, <2>2, <2>3, <2>4, <2>5 DEF L!Link
<1>16. CASE L!ClientEnds
  BY <1>16 DEF L!ClientEnds, L!Vanish, PullVouched, InHand, OnWay, Streamed, Settled, Before,
               Queued, Receiving
<1>17. CASE L!Restart
  <2>1. breaks' # 0
    BY <1>17 DEF L!Restart, L!Restarted, LinkOK
  <2>. QED
    BY <2>1 DEF PullVouched
<1>18. CASE UNCHANGED L!vars
  BY <1>18 DEF L!vars, PullVouched, InHand, OnWay, Streamed, Settled, Before, Queued, Receiving
<1>. QED
  BY <1>1, <1>2, <1>3, <1>4, <1>5, <1>6, <1>7, <1>8, <1>9, <1>10, <1>11, <1>12, <1>13, <1>14,
     <1>15, <1>16, <1>17, <1>18
     DEF L!Next, L!Client, L!Relay

\* Initially it holds.
LEMMA PullInitial == L!Init => PullInv
<1> SUFFICES ASSUME L!Init PROVE PullInv
  OBVIOUS
<1>. L!PullAssumption
  BY SessionsAssumption
<1>1. LinkOK /\ ~Carries(down) /\ ~Carries(events)
  BY LinkInitial, PullLink DEF L!Init
<1>2. PullClientOK
  <2>1. /\ client = "first" /\ failed = FALSE
        /\ fed = 0 /\ unpack = "run" /\ result = "none"
    BY DEF L!Init
  <2>2. 0 \in 0..Pulled
    BY DEF L!PullAssumption
  <2>. QED
    BY <2>1, <2>2 DEF PullClientOK
<1>3. PullServerOK
  BY DEF L!Init, PullServerOK, L!PullAssumption
<1>4. Packed /\ PullVouched
  BY <1>1 DEF L!Init, L!LinkInit, L!StreamInit, Packed, PullVouched, InHand, OnWay, Streamed,
              Carries,
              L!PullAssumption
<1>5. PullJudged
  BY DEF L!Init, L!LinkInit, L!StreamInit, PullJudged, L!OkMeansWhole
<1>. QED
  BY <1>1, <1>2, <1>3, <1>4, <1>5, LinkParts, PullLink
  DEF PullInv, L!TypeOK, PullClientOK, PullServerOK

\* The link's part is kept.
LEMMA PullLinkStep == L!PullAssumption /\ PullServerOK /\ LinkOK /\ [L!Next]_(L!vars) => LinkOK'
<1> SUFFICES ASSUME L!PullAssumption, PullServerOK, LinkOK, [L!Next]_(L!vars) PROVE LinkOK'
  OBVIOUS
<1>1. \/ LinkMoves
      \/ \E u \in L!Relays : L!StreamChunk(u) \/ L!SendOutcome(u) \/ L!SendClose(u)
  BY PullLinks DEF PullSending
<1>2. CASE LinkMoves
  BY <1>2, Moved
<1>3. ASSUME NEW u \in L!Relays, L!StreamChunk(u) \/ L!SendOutcome(u) \/ L!SendClose(u)
      PROVE  LinkOK'
  <2>1. /\ L!Data(taken[u] + 1) \in Events /\ L!Exit0 \in Events
        /\ L!Close \in Events /\ L!Error \in Events
    BY DEF Events, L!Exit0, L!Exit, L!Close, L!Error, Exit, Close, Error, L!Data,
           PullServerOK, L!PullAssumption
  <2>2. UNCHANGED L!linkVars \/ \E e \in Events : L!Delivered(e)
    BY <1>3, <2>1 DEF L!StreamChunk, L!SendOutcome, L!SendClose, L!Undelivered
  <2>. QED
    BY <2>2, Moved, Sent, PullLink DEF LinkMoves, L!linkVars, linkVars
<1>. QED
  BY <1>1, <1>2, <1>3

\* Every step keeps it.
LEMMA PullInductive == PullInv /\ [L!Next]_(L!vars) => PullInv'
<1> SUFFICES ASSUME PullInv, [L!Next]_(L!vars) PROVE PullInv'
  OBVIOUS
<1>1. /\ LinkOK /\ PullClientOK /\ PullServerOK /\ L!PullAssumption
      /\ Packed /\ PullVouched /\ PullJudged
  BY LinkParts, PullLink, SessionsAssumption DEF PullInv, L!TypeOK, PullClientOK, PullServerOK
<1>2. LinkOK' /\ PullClientOK' /\ PullServerOK'
  BY <1>1, PullLinkStep, PullClientStep, PullServerStep
<1>3. L!TypeOK'
  BY <1>2 DEF L!TypeOK, L!LinkTypeOK, LinkOK, Events, Exit, Close, Error, Reset,
              L!Exit, L!Close, L!Error, L!Reset, PullClientOK, PullServerOK
<1>. QED
  BY <1>1, <1>3, PackedStep, PullVouchedStep, PullJudgedStep DEF PullInv

-----------------------------------------------------------------------------
(* push. *)

\* The link of a push is the one of TransferLink.
LEMMA PushLink ==
  /\ S!linkVars = linkVars
  /\ S!Exit0 = Exit0 /\ S!Close = Close /\ S!Error = Error
  /\ \A k : S!Data(k) = Data(k) /\ S!Exit(k) = Exit(k)
  /\ (S!Vanish <=> Vanish) /\ (S!ReceiveNone <=> ReceiveNone)
  /\ (S!Dispatch <=> Dispatch) /\ (S!Break <=> Break)
  /\ (S!Reattach <=> Reattach) /\ (S!ServerNotices <=> ServerNotices)
  /\ (S!Restarted <=> Restarted) /\ (S!LinkInit <=> LinkInit)
  /\ (S!LinkTypeOK <=> LinkTypeOK)
  /\ \A e : (S!Receive(e) <=> Receive(e)) /\ (S!Delivered(e) <=> Delivered(e))
  BY DEF linkVars, Exit, Exit0, Close, Error, Reset, Data, StreamInit, Vanish, ReceiveNone,
         Dispatch, Break, Reattach, ServerNotices, Restarted, LinkInit, LinkTypeOK, Receive,
         Delivered, S!linkVars, S!Exit, S!Exit0, S!Close, S!Error, S!Reset, S!Data,
         S!StreamInit, S!Vanish, S!ReceiveNone, S!Dispatch, S!Break, S!Reattach,
         S!ServerNotices, S!Restarted, S!LinkInit, S!LinkTypeOK, S!Receive, S!Delivered

\* An unpacker that succeeded was given the whole archive.
Written == \A t \in S!Relays : unpack[t] = "ok" => S!Whole(t)

Unpacked == \E t \in S!Relays : unpack[t] = "ok"

\* Nobody says so, and nothing on its way does, unless an unpacker succeeded.
PushClosing == \A t \in S!Relays : relay[t] = "close" => unpack[t] = "ok"
PushVouched ==
  /\ PushClosing
  /\ Carries(down) \/ Carries(events) \/ result = "ok" => Unpacked

PushInv == S!TypeOK /\ Written /\ PushVouched

\* The steps that send to the client.
PushSending == \E u \in S!Relays : S!SendOutcome(u) \/ S!SendClose(u)

\* The parts of TypeOK: the client and the server; the third is LinkOK.
PushClientOK ==
  /\ client \in {"announce", "stream", "close", "confirm", "done"}
  /\ attempt \in {"first", "second"} /\ posted \in 0..Pushed
  /\ comp \in {"run", "ok", "error"} /\ failed \in BOOLEAN
  /\ result \in {"none", "ok", "error"}
  /\ late \subseteq ({S!Announcement, S!Close} \cup {S!Data(k) : k \in 1..Pushed})
                   \X {"first", "second"}

PushServerOK ==
  /\ writer \in S!Relays \cup {S!None}
  /\ relay \in [S!Relays -> {"absent", "wait", "eof", "outcome", "close", "done"}]
  /\ unpack \in [S!Relays -> {"run", "ok", "error"}]
  /\ fed \in [S!Relays -> 0..Pushed \cup {S!Spoilt}]

\* Together they are TypeOK.
LEMMA PushParts == S!TypeOK <=> LinkOK /\ PushClientOK /\ PushServerOK
  BY LinkParts, PushLink DEF S!TypeOK, PushClientOK, PushServerOK

Requests == {S!Announcement, S!Close} \cup {S!Data(k) : k \in 1..Pushed}

\* What the client posts.
LEMMA PushMessages ==
  ASSUME S!PushAssumption, PushClientOK, S!Posting
  PROVE  S!Message \in Requests
<1>1. CASE client = "stream"
  <2>1. posted + 1 \in 1..Pushed /\ S!Message = S!Data(posted + 1)
    BY <1>1 DEF S!Posting, PushClientOK, S!Message, S!PushAssumption
  <2>. QED
    BY <2>1 DEF Requests
<1>2. CASE client \in {"announce", "close"}
  BY <1>2 DEF S!Message, Requests
<1>. QED
  BY <1>1, <1>2 DEF S!Posting

\* A post that is served leaves the unpackers where they are.
LEMMA PushServed ==
  ASSUME S!PushAssumption, PushServerOK, NEW m \in Requests, S!Serve(m)
  PROVE  /\ PushServerOK' /\ UNCHANGED unpack
         /\ PushClosing => PushClosing'
         /\ Written => Written'
<1> USE DEF PushServerOK, PushClosing, Written, S!Whole
<1>1. CASE m = S!Announcement
  <2>1. S!ServePush
    BY <1>1 DEF S!Serve, S!Announcement
  <2>. QED
    BY <2>1 DEF S!ServePush
<1>2. CASE m = S!Close
  <2>1. S!ServeClose
    BY <1>2 DEF S!Serve, S!Close
  <2>. QED
    BY <2>1 DEF S!ServeClose
<1>3. CASE \E k \in 1..Pushed : m = S!Data(k)
  <2>1. PICK k \in 1..Pushed : m = S!Data(k)
    BY <1>3
  <2>2. S!ServeChunk(k)
    BY <2>1 DEF S!Serve, S!Data
  <2>3. UNCHANGED <<writer, relay, unpack>>
    BY <2>2 DEF S!ServeChunk
  <2>4. CASE writer # S!None /\ unpack[writer] = "run"
    <3>1. writer \in S!Relays /\ fed' = [fed EXCEPT ![writer] = S!Given(fed[writer], k, Pushed)]
      BY <2>2, <2>4 DEF S!ServeChunk
    <3>2. S!Given(fed[writer], k, Pushed) \in 0..Pushed \cup {S!Spoilt}
      BY <3>1 DEF S!Given, S!PushAssumption
    <3>. QED
      BY <2>3, <2>4, <3>1, <3>2
  <2>5. CASE ~(writer # S!None /\ unpack[writer] = "run")
    BY <2>2, <2>3, <2>5 DEF S!ServeChunk
  <2>. QED
    BY <2>4, <2>5
<1>. QED
  BY <1>1, <1>2, <1>3 DEF Requests

\* Every post that is served is one of them.
LEMMA PushServes ==
  ASSUME S!PushAssumption, PushClientOK, S!PostOk \/ S!ServeLate
  PROVE  \E m \in Requests : S!Serve(m)
<1>1. CASE S!PostOk
  BY <1>1, PushMessages DEF S!PostOk
<1>2. CASE S!ServeLate
  <2>1. PICK m \in late : S!Serve(m[1])
    BY <1>2 DEF S!ServeLate
  <2>2. m[1] \in Requests
    BY DEF PushClientOK, Requests
  <2>. QED
    BY <2>1, <2>2
<1>. QED
  BY <1>1, <1>2

\* Nothing else is sent.
LEMMA PushLinks == [S!Next]_(S!vars) => (LinkMoves \/ PushSending)
<1> SUFFICES ASSUME [S!Next]_(S!vars) PROVE (LinkMoves \/ PushSending)
  OBVIOUS
<1> USE PushLink DEF LinkMoves, linkVars, S!linkVars
<1>1. CASE S!PostOk
  BY <1>1 DEF S!PostOk, S!Posting, S!Serve, S!ServePush, S!ServeClose, S!ServeChunk, S!Returns,
              S!Vanish
<1>2. CASE S!FirstFails
  BY <1>2 DEF S!FirstFails, S!Posting, S!Fails
<1>3. CASE S!SecondFails
  BY <1>3 DEF S!SecondFails, S!Posting, S!Fails, S!Returns
<1>4. CASE S!Denied
  BY <1>4 DEF S!Denied, S!Returns
<1>5. CASE S!StreamEvent
  <2>1. S!Error \in Events /\ S!Close \in Events /\ S!Exit0 \in Events
    BY PushLink DEF Events, Exit0
  <2>. QED
    BY <1>5, <2>1 DEF S!StreamEvent
<1>6. CASE S!CompressEnds
  BY <1>6 DEF S!CompressEnds
<1>7. CASE S!Confirm
  BY <1>7 DEF S!Confirm, S!Returns
<1>8. CASE S!ServeLate
  BY <1>8 DEF S!ServeLate, S!Serve, S!ServePush, S!ServeClose, S!ServeChunk
<1>9. ASSUME NEW t \in S!Relays, S!Watchdog(t) PROVE (LinkMoves \/ PushSending)
  BY <1>9 DEF S!Watchdog, S!Moves
<1>10. ASSUME NEW t \in S!Relays, S!Collect(t) PROVE (LinkMoves \/ PushSending)
  BY <1>10 DEF S!Collect, S!Moves
<1>11. ASSUME NEW t \in S!Relays, S!SendOutcome(t) PROVE (LinkMoves \/ PushSending)
  BY <1>11 DEF PushSending
<1>12. ASSUME NEW t \in S!Relays, S!SendClose(t) PROVE (LinkMoves \/ PushSending)
  BY <1>12 DEF PushSending
<1>13. ASSUME NEW t \in S!Relays, S!Unpack(t) PROVE (LinkMoves \/ PushSending)
  BY <1>13 DEF S!Unpack, S!Running
<1>14. CASE S!Link
  BY <1>14 DEF S!Link
<1>15. CASE S!ClientEnds
  BY <1>15 DEF S!ClientEnds
<1>16. CASE S!Restart
  BY <1>16 DEF S!Restart, S!Running
<1>17. CASE UNCHANGED S!vars
  BY <1>17 DEF S!vars
<1>. QED
  BY <1>1, <1>2, <1>3, <1>4, <1>5, <1>6, <1>7, <1>8, <1>9, <1>10, <1>11, <1>12, <1>13, <1>14,
     <1>15, <1>16, <1>17
     DEF S!Next, S!Client, S!Relay

\* The link's part is kept, and an ExitStatus(0) on the way was there before or is earned.
LEMMA PushLinkStep ==
  LinkOK /\ PushClosing /\ [S!Next]_(S!vars) =>
    LinkOK' /\ (Carries(down)' \/ Carries(events)' => Carries(down) \/ Carries(events) \/ Unpacked)
<1> SUFFICES ASSUME LinkOK, PushClosing, NEW t \in S!Relays, S!SendOutcome(t) \/ S!SendClose(t)
             PROVE  LinkOK' /\ (Carries(down)' \/ Carries(events)' =>
                                  Carries(down) \/ Carries(events) \/ Unpacked)
  BY PushLinks, Moved DEF PushSending
<1> S!Exit0 \in Events /\ S!Close \in Events /\ S!Error \in Events
  BY PushLink DEF Events, Exit0
<1>1. CASE UNCHANGED S!linkVars
  BY <1>1, Moved DEF LinkMoves, S!linkVars, linkVars
<1>2. CASE S!SendClose(t) /\ S!Delivered(S!Close)
  <2>1. S!Close # S!Exit0
    BY DEF S!Close, S!Exit0, S!Exit
  <2>. QED
    BY <1>2, <2>1, Sent, PushLink DEF Carries
<1>3. CASE S!SendOutcome(t) /\ unpack[t] = "ok" /\ S!Delivered(S!Exit0)
  BY <1>3, Sent, PushLink DEF Carries, Unpacked
<1>4. CASE S!SendOutcome(t) /\ S!Delivered(S!Error)
  <2>1. S!Error # S!Exit0
    BY DEF S!Error, S!Exit0, S!Exit
  <2>. QED
    BY <1>4, <2>1, Sent, PushLink DEF Carries
<1>. QED
  BY <1>1, <1>2, <1>3, <1>4 DEF S!SendOutcome, S!SendClose, S!Undelivered

\* The client's part is kept.
LEMMA PushClientStep == S!PushAssumption /\ PushClientOK /\ [S!Next]_(S!vars) => PushClientOK'
<1> SUFFICES ASSUME S!PushAssumption, PushClientOK, [S!Next]_(S!vars) PROVE PushClientOK'
  OBVIOUS
<1> USE DEF PushClientOK, S!clientVars, S!linkVars, S!serverVars, S!PushAssumption
<1>1. CASE S!PostOk
  <2>1. /\ attempt' = "first" /\ UNCHANGED <<comp, failed, late>>
        /\ S!Posting
    BY <1>1 DEF S!PostOk
  <2>2. /\ client' \in {"announce", "stream", "close", "confirm", "done"}
        /\ posted' \in 0..Pushed /\ result' \in {"none", "ok", "error"}
    <3>1. CASE client = "announce"
      BY <1>1, <3>1 DEF S!PostOk
    <3>2. CASE client = "stream"
      BY <1>1, <2>1, <3>2 DEF S!PostOk, S!Posting
    <3>3. CASE client = "close"
      BY <1>1, <3>3 DEF S!PostOk, S!Returns
    <3>. QED
      BY <2>1, <3>1, <3>2, <3>3 DEF S!Posting
  <2>. QED
    BY <2>1, <2>2
<1>2. CASE S!FirstFails
  <2>1. S!Message \in Requests
    BY <1>2, PushMessages DEF S!FirstFails
  <2>. QED
    BY <1>2, <2>1 DEF S!FirstFails, S!Fails, Requests
<1>3. CASE S!SecondFails
  <2>1. S!Message \in Requests
    BY <1>3, PushMessages DEF S!SecondFails
  <2>2. /\ attempt' = "first" /\ S!Fails /\ UNCHANGED <<posted, comp>>
    BY <1>3 DEF S!SecondFails
  <2>3. late' \subseteq Requests \X {"first", "second"}
    BY <2>1, <2>2 DEF S!Fails, Requests
  <2>4. /\ client' \in {"announce", "stream", "close", "confirm", "done"}
        /\ failed' \in BOOLEAN /\ result' \in {"none", "ok", "error"}
    <3>1. CASE client = "announce"
      BY <1>3, <3>1 DEF S!SecondFails, S!Returns
    <3>2. CASE client = "stream"
      BY <1>3, <3>2 DEF S!SecondFails
    <3>3. CASE client = "close"
      BY <1>3, <3>3 DEF S!SecondFails, S!Returns
    <3>. QED
      BY <1>3, <3>1, <3>2, <3>3 DEF S!SecondFails, S!Posting
  <2>. QED
    BY <2>2, <2>3, <2>4 DEF Requests
<1>4. CASE S!Denied
  BY <1>4 DEF S!Denied, S!Returns, S!Vanish
<1>5. CASE S!StreamEvent
  BY <1>5 DEF S!StreamEvent, S!Receive, S!ReceiveNone
<1>6. CASE S!CompressEnds
  BY <1>6 DEF S!CompressEnds
<1>7. CASE S!Confirm
  BY <1>7 DEF S!Confirm, S!Returns, S!Vanish
<1>8. CASE S!ServeLate
  BY <1>8 DEF S!ServeLate, S!Serve, S!ServePush, S!ServeClose, S!ServeChunk
<1>9. ASSUME NEW t \in S!Relays, S!Watchdog(t) PROVE PushClientOK'
  BY <1>9 DEF S!Watchdog, S!Moves
<1>10. ASSUME NEW t \in S!Relays, S!Collect(t) PROVE PushClientOK'
  BY <1>10 DEF S!Collect, S!Moves
<1>11. ASSUME NEW t \in S!Relays, S!SendOutcome(t) PROVE PushClientOK'
  BY <1>11 DEF S!SendOutcome, S!Delivered, S!Undelivered, S!Moves
<1>12. ASSUME NEW t \in S!Relays, S!SendClose(t) PROVE PushClientOK'
  BY <1>12 DEF S!SendClose, S!Delivered, S!Undelivered, S!Moves
<1>13. ASSUME NEW t \in S!Relays, S!Unpack(t) PROVE PushClientOK'
  BY <1>13 DEF S!Unpack, S!Running
<1>14. CASE S!Link
  BY <1>14 DEF S!Link, S!Dispatch, S!Break, S!Reattach, S!ServerNotices
<1>15. CASE S!ClientEnds
  BY <1>15 DEF S!ClientEnds, S!Vanish
<1>16. CASE S!Restart
  BY <1>16 DEF S!Restart, S!Restarted, S!Running
<1>17. CASE UNCHANGED S!vars
  BY <1>17 DEF S!vars
<1>. QED
  BY <1>1, <1>2, <1>3, <1>4, <1>5, <1>6, <1>7, <1>8, <1>9, <1>10, <1>11, <1>12, <1>13, <1>14,
     <1>15, <1>16, <1>17
     DEF S!Next, S!Client, S!Relay

\* The server's part is kept.
LEMMA PushServerStep ==
  S!PushAssumption /\ PushClientOK /\ PushServerOK /\ [S!Next]_(S!vars) => PushServerOK'
<1> SUFFICES ASSUME S!PushAssumption, PushClientOK, PushServerOK, [S!Next]_(S!vars)
             PROVE  PushServerOK'
  OBVIOUS
<1> USE DEF PushServerOK, S!clientVars, S!linkVars, S!serverVars, S!None, S!Relays, S!PushAssumption
<1>1. CASE S!PostOk
  BY <1>1, PushServes, PushServed
<1>2. CASE S!FirstFails
  BY <1>2 DEF S!FirstFails, S!Posting, S!Fails
<1>3. CASE S!SecondFails
  BY <1>3 DEF S!SecondFails, S!Posting, S!Fails, S!Returns, S!Vanish
<1>4. CASE S!Denied
  BY <1>4 DEF S!Denied, S!Returns, S!Vanish
<1>5. CASE S!StreamEvent
  BY <1>5 DEF S!StreamEvent, S!Receive, S!ReceiveNone
<1>6. CASE S!CompressEnds
  BY <1>6 DEF S!CompressEnds
<1>7. CASE S!Confirm
  BY <1>7 DEF S!Confirm, S!Returns, S!Vanish
<1>8. CASE S!ServeLate
  BY <1>8, PushServes, PushServed
<1>9. ASSUME NEW t \in S!Relays, S!Watchdog(t) PROVE PushServerOK'
  BY <1>9 DEF S!Watchdog, S!Moves
<1>10. ASSUME NEW t \in S!Relays, S!Collect(t) PROVE PushServerOK'
  BY <1>10 DEF S!Collect, S!Moves
<1>11. ASSUME NEW t \in S!Relays, S!SendOutcome(t) PROVE PushServerOK'
  BY <1>11 DEF S!SendOutcome, S!Delivered, S!Undelivered, S!Moves
<1>12. ASSUME NEW t \in S!Relays, S!SendClose(t) PROVE PushServerOK'
  BY <1>12 DEF S!SendClose, S!Delivered, S!Undelivered, S!Moves
<1>13. ASSUME NEW t \in S!Relays, S!Unpack(t) PROVE PushServerOK'
  BY <1>13 DEF S!Unpack, S!Running
<1>14. CASE S!Link
  BY <1>14 DEF S!Link, S!Dispatch, S!Break, S!Reattach, S!ServerNotices
<1>15. CASE S!ClientEnds
  BY <1>15 DEF S!ClientEnds, S!Vanish
<1>16. CASE S!Restart
  BY <1>16 DEF S!Restart, S!Restarted, S!Running
<1>17. CASE UNCHANGED S!vars
  BY <1>17 DEF S!vars
<1>. QED
  BY <1>1, <1>2, <1>3, <1>4, <1>5, <1>6, <1>7, <1>8, <1>9, <1>10, <1>11, <1>12, <1>13, <1>14,
     <1>15, <1>16, <1>17
     DEF S!Next, S!Client, S!Relay

\* Written is kept.
LEMMA WrittenStep ==
  S!PushAssumption /\ PushClientOK /\ PushServerOK /\ Written /\ [S!Next]_(S!vars) => Written'
<1> SUFFICES ASSUME S!PushAssumption, PushClientOK, PushServerOK, Written, [S!Next]_(S!vars)
             PROVE  Written'
  OBVIOUS
<1> USE DEF Written, PushServerOK, S!Whole, S!clientVars, S!linkVars, S!serverVars, S!None,
            S!Relays,
            S!PushAssumption
<1>1. CASE S!PostOk
  BY <1>1, PushServes, PushServed
<1>2. CASE S!FirstFails
  BY <1>2 DEF S!FirstFails, S!Posting, S!Fails
<1>3. CASE S!SecondFails
  BY <1>3 DEF S!SecondFails, S!Posting, S!Fails, S!Returns, S!Vanish
<1>4. CASE S!Denied
  BY <1>4 DEF S!Denied, S!Returns, S!Vanish
<1>5. CASE S!StreamEvent
  BY <1>5 DEF S!StreamEvent, S!Receive, S!ReceiveNone
<1>6. CASE S!CompressEnds
  BY <1>6 DEF S!CompressEnds
<1>7. CASE S!Confirm
  BY <1>7 DEF S!Confirm, S!Returns, S!Vanish
<1>8. CASE S!ServeLate
  BY <1>8, PushServes, PushServed
<1>9. ASSUME NEW t \in S!Relays, S!Watchdog(t) PROVE Written'
  BY <1>9 DEF S!Watchdog, S!Moves
<1>10. ASSUME NEW t \in S!Relays, S!Collect(t) PROVE Written'
  BY <1>10 DEF S!Collect, S!Moves
<1>11. ASSUME NEW t \in S!Relays, S!SendOutcome(t) PROVE Written'
  BY <1>11 DEF S!SendOutcome, S!Delivered, S!Undelivered, S!Moves
<1>12. ASSUME NEW t \in S!Relays, S!SendClose(t) PROVE Written'
  BY <1>12 DEF S!SendClose, S!Delivered, S!Undelivered, S!Moves
<1>13. ASSUME NEW t \in S!Relays, S!Unpack(t) PROVE Written'
  BY <1>13 DEF S!Unpack, S!Running
<1>14. CASE S!Link
  BY <1>14 DEF S!Link, S!Dispatch, S!Break, S!Reattach, S!ServerNotices
<1>15. CASE S!ClientEnds
  BY <1>15 DEF S!ClientEnds, S!Vanish
<1>16. CASE S!Restart
  BY <1>16 DEF S!Restart, S!Restarted, S!Running
<1>17. CASE UNCHANGED S!vars
  BY <1>17 DEF S!vars
<1>. QED
  BY <1>1, <1>2, <1>3, <1>4, <1>5, <1>6, <1>7, <1>8, <1>9, <1>10, <1>11, <1>12, <1>13, <1>14,
     <1>15, <1>16, <1>17
     DEF S!Next, S!Client, S!Relay

\* An unpacker that succeeded has succeeded for good.
LEMMA UnpackedStays ==
  S!PushAssumption /\ PushClientOK /\ PushServerOK /\ [S!Next]_(S!vars) => (Unpacked => Unpacked')
<1> SUFFICES ASSUME S!PushAssumption, PushClientOK, PushServerOK, [S!Next]_(S!vars)
             PROVE  (Unpacked => Unpacked')
  OBVIOUS
<1> USE DEF Unpacked, PushServerOK, S!clientVars, S!linkVars, S!serverVars
<1>1. CASE S!PostOk
  BY <1>1, PushServes, PushServed
<1>2. CASE S!FirstFails
  BY <1>2 DEF S!FirstFails, S!Posting, S!Fails
<1>3. CASE S!SecondFails
  BY <1>3 DEF S!SecondFails, S!Posting, S!Fails, S!Returns, S!Vanish
<1>4. CASE S!Denied
  BY <1>4 DEF S!Denied, S!Returns, S!Vanish
<1>5. CASE S!StreamEvent
  BY <1>5 DEF S!StreamEvent, S!Receive, S!ReceiveNone
<1>6. CASE S!CompressEnds
  BY <1>6 DEF S!CompressEnds
<1>7. CASE S!Confirm
  BY <1>7 DEF S!Confirm, S!Returns, S!Vanish
<1>8. CASE S!ServeLate
  BY <1>8, PushServes, PushServed
<1>9. ASSUME NEW t \in S!Relays, S!Watchdog(t) PROVE (Unpacked => Unpacked')
  BY <1>9 DEF S!Watchdog, S!Moves
<1>10. ASSUME NEW t \in S!Relays, S!Collect(t) PROVE (Unpacked => Unpacked')
  BY <1>10 DEF S!Collect, S!Moves
<1>11. ASSUME NEW t \in S!Relays, S!SendOutcome(t) PROVE (Unpacked => Unpacked')
  BY <1>11 DEF S!SendOutcome, S!Delivered, S!Undelivered, S!Moves
<1>12. ASSUME NEW t \in S!Relays, S!SendClose(t) PROVE (Unpacked => Unpacked')
  BY <1>12 DEF S!SendClose, S!Delivered, S!Undelivered, S!Moves
<1>13. ASSUME NEW t \in S!Relays, S!Unpack(t) PROVE (Unpacked => Unpacked')
  BY <1>13 DEF S!Unpack, S!Running
<1>14. CASE S!Link
  BY <1>14 DEF S!Link, S!Dispatch, S!Break, S!Reattach, S!ServerNotices
<1>15. CASE S!ClientEnds
  BY <1>15 DEF S!ClientEnds, S!Vanish
<1>16. CASE S!Restart
  BY <1>16 DEF S!Restart, S!Restarted, S!Running
<1>17. CASE UNCHANGED S!vars
  BY <1>17 DEF S!vars
<1>. QED
  BY <1>1, <1>2, <1>3, <1>4, <1>5, <1>6, <1>7, <1>8, <1>9, <1>10, <1>11, <1>12, <1>13, <1>14,
     <1>15, <1>16, <1>17
     DEF S!Next, S!Client, S!Relay

\* Closing is kept.
LEMMA PushClosingStep ==
  S!PushAssumption /\ PushClientOK /\ PushServerOK /\ PushClosing /\ [S!Next]_(S!vars)
    => PushClosing'
<1> SUFFICES ASSUME S!PushAssumption, PushClientOK, PushServerOK, PushClosing, [S!Next]_(S!vars)
             PROVE  PushClosing'
  OBVIOUS
<1> USE DEF PushClosing, PushServerOK, S!clientVars, S!linkVars, S!serverVars
<1>1. CASE S!PostOk
  BY <1>1, PushServes, PushServed
<1>2. CASE S!FirstFails
  BY <1>2 DEF S!FirstFails, S!Posting, S!Fails
<1>3. CASE S!SecondFails
  BY <1>3 DEF S!SecondFails, S!Posting, S!Fails, S!Returns, S!Vanish
<1>4. CASE S!Denied
  BY <1>4 DEF S!Denied, S!Returns, S!Vanish
<1>5. CASE S!StreamEvent
  BY <1>5 DEF S!StreamEvent, S!Receive, S!ReceiveNone
<1>6. CASE S!CompressEnds
  BY <1>6 DEF S!CompressEnds
<1>7. CASE S!Confirm
  BY <1>7 DEF S!Confirm, S!Returns, S!Vanish
<1>8. CASE S!ServeLate
  BY <1>8, PushServes, PushServed
<1>9. ASSUME NEW t \in S!Relays, S!Watchdog(t) PROVE PushClosing'
  BY <1>9 DEF S!Watchdog, S!Moves
<1>10. ASSUME NEW t \in S!Relays, S!Collect(t) PROVE PushClosing'
  BY <1>10 DEF S!Collect, S!Moves
<1>11. ASSUME NEW t \in S!Relays, S!SendOutcome(t) PROVE PushClosing'
  BY <1>11 DEF S!SendOutcome, S!Delivered, S!Undelivered, S!Moves
<1>12. ASSUME NEW t \in S!Relays, S!SendClose(t) PROVE PushClosing'
  BY <1>12 DEF S!SendClose, S!Delivered, S!Undelivered, S!Moves
<1>13. ASSUME NEW t \in S!Relays, S!Unpack(t) PROVE PushClosing'
  BY <1>13 DEF S!Unpack, S!Running
<1>14. CASE S!Link
  BY <1>14 DEF S!Link, S!Dispatch, S!Break, S!Reattach, S!ServerNotices
<1>15. CASE S!ClientEnds
  BY <1>15 DEF S!ClientEnds, S!Vanish
<1>16. CASE S!Restart
  BY <1>16 DEF S!Restart, S!Restarted, S!Running
<1>17. CASE UNCHANGED S!vars
  BY <1>17 DEF S!vars
<1>. QED
  BY <1>1, <1>2, <1>3, <1>4, <1>5, <1>6, <1>7, <1>8, <1>9, <1>10, <1>11, <1>12, <1>13, <1>14,
     <1>15, <1>16, <1>17
     DEF S!Next, S!Client, S!Relay

\* push returns Ok on an ExitStatus(0) only.
LEMMA PushResultStep ==
  LinkOK /\ [S!Next]_(S!vars) => (result' = "ok" => result = "ok" \/ Carries(events))
<1> SUFFICES ASSUME LinkOK, [S!Next]_(S!vars)
             PROVE  (result' = "ok" => result = "ok" \/ Carries(events))
  OBVIOUS
<1> USE DEF S!clientVars, S!linkVars, S!serverVars
<1>1. CASE S!PostOk
  BY <1>1 DEF S!PostOk, S!Posting, S!Serve, S!ServePush, S!ServeClose, S!ServeChunk, S!Returns,
              S!Vanish
<1>2. CASE S!FirstFails
  BY <1>2 DEF S!FirstFails, S!Posting, S!Fails
<1>3. CASE S!SecondFails
  BY <1>3 DEF S!SecondFails, S!Posting, S!Fails, S!Returns, S!Vanish
<1>4. CASE S!Denied
  BY <1>4 DEF S!Denied, S!Returns, S!Vanish
<1>5. CASE S!StreamEvent
  BY <1>5 DEF S!StreamEvent, S!Receive, S!ReceiveNone
<1>6. CASE S!CompressEnds
  BY <1>6 DEF S!CompressEnds
<1>7. CASE S!Confirm
  BY <1>7, PushLink DEF S!Confirm, S!Returns, Carries, LinkOK
<1>8. CASE S!ServeLate
  BY <1>8 DEF S!ServeLate, S!Serve, S!ServePush, S!ServeClose, S!ServeChunk
<1>9. ASSUME NEW t \in S!Relays, S!Watchdog(t)
      PROVE  (result' = "ok" => result = "ok" \/ Carries(events))
  BY <1>9 DEF S!Watchdog, S!Moves
<1>10. ASSUME NEW t \in S!Relays, S!Collect(t)
       PROVE  (result' = "ok" => result = "ok" \/ Carries(events))
  BY <1>10 DEF S!Collect, S!Moves
<1>11. ASSUME NEW t \in S!Relays, S!SendOutcome(t)
       PROVE  (result' = "ok" => result = "ok" \/ Carries(events))
  BY <1>11 DEF S!SendOutcome, S!Delivered, S!Undelivered, S!Moves
<1>12. ASSUME NEW t \in S!Relays, S!SendClose(t)
       PROVE  (result' = "ok" => result = "ok" \/ Carries(events))
  BY <1>12 DEF S!SendClose, S!Delivered, S!Undelivered, S!Moves
<1>13. ASSUME NEW t \in S!Relays, S!Unpack(t)
       PROVE  (result' = "ok" => result = "ok" \/ Carries(events))
  BY <1>13 DEF S!Unpack, S!Running
<1>14. CASE S!Link
  BY <1>14 DEF S!Link, S!Dispatch, S!Break, S!Reattach, S!ServerNotices
<1>15. CASE S!ClientEnds
  BY <1>15 DEF S!ClientEnds, S!Vanish
<1>16. CASE S!Restart
  BY <1>16 DEF S!Restart, S!Restarted, S!Running
<1>17. CASE UNCHANGED S!vars
  BY <1>17 DEF S!vars
<1>. QED
  BY <1>1, <1>2, <1>3, <1>4, <1>5, <1>6, <1>7, <1>8, <1>9, <1>10, <1>11, <1>12, <1>13, <1>14,
     <1>15, <1>16, <1>17
     DEF S!Next, S!Client, S!Relay

\* Initially it holds.
LEMMA PushInitial == S!Init => PushInv
<1> SUFFICES ASSUME S!Init PROVE PushInv
  OBVIOUS
<1>. S!PushAssumption
  BY SessionsAssumption
<1>1. LinkOK /\ ~Carries(down) /\ ~Carries(events)
  BY LinkInitial, PushLink DEF S!Init
<1>2. PushClientOK
  <2>1. /\ client = "announce" /\ attempt = "first" /\ posted = 0
        /\ comp = "run" /\ failed = FALSE /\ result = "none" /\ late = {}
    BY DEF S!Init
  <2>2. 0 \in 0..Pushed
    BY DEF S!PushAssumption
  <2>. QED
    BY <2>1, <2>2 DEF PushClientOK
<1>3. PushServerOK
  BY DEF S!Init, PushServerOK, S!PushAssumption, S!None
<1>4. Written /\ PushVouched
  BY <1>1 DEF S!Init, Written, PushVouched, PushClosing
<1>. QED
  BY <1>1, <1>2, <1>3, <1>4, PushParts DEF PushInv

\* Every step keeps it.
LEMMA PushInductive == PushInv /\ [S!Next]_(S!vars) => PushInv'
<1> SUFFICES ASSUME PushInv, [S!Next]_(S!vars) PROVE PushInv'
  OBVIOUS
<1>1. LinkOK /\ PushClientOK /\ PushServerOK /\ S!PushAssumption /\ Written /\ PushVouched
  BY PushParts, SessionsAssumption DEF PushInv
<1>2. LinkOK' /\ PushClientOK' /\ PushServerOK' /\ Written'
  BY <1>1, PushLinkStep, PushClientStep, PushServerStep, WrittenStep DEF PushVouched
<1>3. S!TypeOK'
  BY <1>2 DEF S!TypeOK, S!LinkTypeOK, LinkOK, Events, Exit, Close, Error, Reset,
              S!Exit, S!Close, S!Error, S!Reset, PushClientOK, PushServerOK
<1>4. PushVouched'
  BY <1>1, PushLinkStep, UnpackedStays, PushClosingStep, PushResultStep DEF PushVouched
<1>. QED
  BY <1>1, <1>2, <1>3, <1>4 DEF PushInv, S!PushAssumption
==============================================================================
