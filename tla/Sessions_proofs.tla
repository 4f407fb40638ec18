---------------------------- MODULE Sessions_proofs ----------------------------
(****************************************************************************)
(* Safety of every session of a client, for every capacity of the channels, *)
(* length of an archive or of a command's output, and number of breaks.     *)
(*                                                                          *)
(* Sessions plays one role of four.  Those of pull and push are proved about*)
(* in Transfers_proofs; here are remote-exec (X!), a proxied connection (H!)*)
(* and the theorems on all of them.  What makes their invariants inductive, *)
(* of a remote-exec:                                                        *)
(*   Counted - nobody is shown more output than was sent;                   *)
(*   Spared  - as long as nothing was lost, no command was killed but one   *)
(*             whose relay panics, and no status of one is on its way;      *)
(*   Ordered - of a command that was started once, all the output is ahead  *)
(*             of its status, and what was shown and what is still queued   *)
(*             add up to what was sent;                                     *)
(* of a proxied connection:                                                 *)
(*   Told    - a client that may answer "connected" has a target that was   *)
(*             reached; until a post of it failed, one that has not been    *)
(*             told has none, and nothing it posted is served late.         *)
(****************************************************************************)
EXTENDS Transfers_proofs

-----------------------------------------------------------------------------
(* remote-exec. *)

\* The parts of TypeOK: the client and the server; the third is LinkOK.
ExecClientOK ==
  /\ client \in {"announce", "session", "flush", "done"}
  /\ attempt \in {"first", "second"} /\ late \in BOOLEAN
  /\ input \in {"none", "posting", "parked", "sent"}
  /\ saw \in {"none", "own", "killed"}

ExecServerOK ==
  /\ writer \in X!Relays \cup {X!None}
  /\ relay \in [X!Relays -> {"absent", "fail", "run", "gone", "drain", "exit", "close",
                             "done", "panicked"}]
  /\ lastTry \in [X!Relays -> BOOLEAN] /\ child \in [X!Relays -> {"run", "quit", "killed"}]
  /\ reading \in [X!Relays -> BOOLEAN] /\ sent \in [X!Relays -> 0..Pieces]
  /\ writing \in [X!Relays -> {"recv", "parked", "ended"}]

Lives == ~alive => client = "done"

\* Output is read for as long as a relay has not reported.
Reading == \A t \in X!Relays : reading[t] => relay[t] \in {"run", "drain", "gone"}

\* Nobody is shown more than was sent.
Counted ==
  /\ shown \in Nat
  /\ shown + Outputs(events) + Outputs(down) <= sent[1] + sent[2]

\* As long as nothing was lost, a command that was killed is one whose relay panics,
\* and no status of one is on its way.
KilledPanics == \A t \in X!Relays : child[t] = "killed" => relay[t] = "gone"
Spared ==
  breaks = 0 /\ alive =>
    /\ attached /\ saw # "killed" /\ KilledPanics
    /\ ~Holds(events, X!Exit(X!Killed)) /\ ~Holds(down, X!Exit(X!Killed))

\* Of a command that was started once: nothing it wrote is on its way any more when
\* its status is received, and all of it was shown.
Alone    == relay[2] = "absent" /\ breaks = 0
Watching == client \in {"announce", "session"}
Reported == saw # "none" \/ Exits(events)
Ordered ==
  Alone =>
    /\ Reported \/ Exits(down) => relay[1] \in {"close", "done"}
    /\ InOrder(events) /\ InOrder(down)
    /\ saw # "none" => Outputs(events) = 0
    /\ Reported /\ registered => Outputs(down) = 0
    /\ Watching /\ registered => shown + Outputs(events) + Outputs(down) = sent[1]
    /\ Watching /\ Reported => shown + Outputs(events) = sent[1]
    /\ client = "flush" /\ saw # "none" => shown = sent[1]

ExecInv == X!TypeOK /\ Lives /\ Reading /\ Counted /\ Spared /\ Ordered

\* What a step may do to what a client is shown: nothing, or
ExecQuiet == /\ UNCHANGED <<linkVars, saw, shown, sent>>
             /\ client' = client \/ (client = "announce" /\ client' = "session")
\* it ends with its process,
ExecLeaves == /\ Vanish /\ client' = "done" /\ saw' = "none" /\ shown' = 0
              /\ UNCHANGED sent
\* it takes an event,
TakesOutput ==
  /\ client = "session" /\ \E k \in 1..Pieces : Receive(Data(k))
  /\ \/ shown' = shown + 1 /\ UNCHANGED client
     \/ client' = "flush" /\ UNCHANGED shown
  /\ UNCHANGED <<saw, sent>>
TakesStatus ==
  /\ client = "session"
  /\ \/ Receive(Exit(0)) /\ saw' = "own"
     \/ Receive(Exit(1)) /\ saw' = "killed"
  /\ UNCHANGED <<client, shown, sent>>
TakesEnd == /\ client = "session" /\ client' = "flush"
            /\ Receive(Close) \/ ReceiveNone
            /\ UNCHANGED <<saw, shown, sent>>
\* the link moves,
ExecLinkMoves == /\ Dispatch \/ Break \/ Reattach \/ ServerNotices \/ Restarted
                 /\ UNCHANGED <<client, saw, shown, sent>>
\* or a relay sends.
SendsOutput ==
  \E t \in X!Relays : /\ reading[t] /\ sent[t] < Pieces /\ Delivered(Data(sent[t] + 1))
                      /\ sent' = [sent EXCEPT ![t] = @ + 1]
                      /\ UNCHANGED <<client, saw, shown, relay>>
SendsStatus ==
  \E t \in X!Relays : /\ relay[t] = "exit" /\ relay' = [relay EXCEPT ![t] = "close"]
                      /\ Delivered(Exit(IF child[t] = "killed" THEN 1 ELSE 0))
                      /\ UNCHANGED <<client, saw, shown, sent>>
SendsOther == /\ Delivered(Error) \/ Delivered(Close)
              /\ UNCHANGED <<client, saw, shown, sent>>

ExecSteps == \/ ExecQuiet \/ ExecLeaves \/ TakesOutput \/ TakesStatus \/ TakesEnd
             \/ ExecLinkMoves \/ SendsOutput \/ SendsStatus \/ SendsOther

\* A relay that has reported has done so for good, unless Exec is served twice.
Onward == /\ relay'[2] = "absent" => relay[2] = "absent"
          /\ relay[1] \in {"close", "done"} /\ relay'[2] = "absent" =>
               relay'[1] \in {"close", "done"}

\* The link of a remote-exec is the one of TransferLink.
LEMMA ExecLink ==
  /\ X!linkVars = linkVars
  /\ X!Exit0 = Exit0 /\ X!Close = Close /\ X!Error = Error
  /\ \A k : X!Data(k) = Data(k) /\ X!Exit(k) = Exit(k)
  /\ (X!Vanish <=> Vanish) /\ (X!ReceiveNone <=> ReceiveNone)
  /\ (X!Dispatch <=> Dispatch) /\ (X!Break <=> Break)
  /\ (X!Reattach <=> Reattach) /\ (X!ServerNotices <=> ServerNotices)
  /\ (X!Restarted <=> Restarted) /\ (X!LinkInit <=> LinkInit)
  /\ (X!LinkTypeOK <=> LinkTypeOK)
  /\ \A e : (X!Receive(e) <=> Receive(e)) /\ (X!Delivered(e) <=> Delivered(e))
  BY DEF linkVars, Exit, Exit0, Close, Error, Reset, Data, StreamInit, Vanish, ReceiveNone,
         Dispatch, Break, Reattach, ServerNotices, Restarted, LinkInit, LinkTypeOK, Receive,
         Delivered, X!linkVars, X!Exit, X!Exit0, X!Close, X!Error, X!Reset, X!Data,
         X!StreamInit, X!Vanish, X!ReceiveNone, X!Dispatch, X!Break, X!Reattach,
         X!ServerNotices, X!Restarted, X!LinkInit, X!LinkTypeOK, X!Receive, X!Delivered

\* Every step is one of them.
LEMMA ExecStepsAre == [X!Next]_(X!vars) => ExecSteps
<1> SUFFICES ASSUME [X!Next]_(X!vars) PROVE ExecSteps
  OBVIOUS
<1> USE ExecLink DEF ExecSteps, X!linkVars, linkVars, X!clientVars, X!taskVars, X!serverVars
<1>1. CASE X!PostExec
  BY <1>1 DEF X!PostExec, X!ServeExec, X!Spawned, ExecQuiet
<1>2. CASE X!FirstExecFails
  BY <1>2 DEF X!FirstExecFails, X!ServeExec, X!Spawned, ExecQuiet
<1>3. CASE X!SecondExecFails
  BY <1>3 DEF X!SecondExecFails, X!Gone, X!ServeExec, X!ServeClose, X!Spawned, ExecLeaves
<1>4. CASE X!Denied
  BY <1>4 DEF X!Denied, X!Leaves, X!Gone, X!ServeClose, ExecLeaves
<1>5. CASE X!Output
  BY <1>5 DEF X!Output, X!Flushes, TakesOutput
<1>6. CASE X!Status
  BY <1>6 DEF X!Status, TakesStatus, X!Own, X!Killed
<1>7. CASE X!Ended
  BY <1>7 DEF X!Ended, X!Flushes, TakesEnd
<1>8. CASE X!Bail
  BY <1>8 DEF X!Bail, X!Leaves, X!Gone, X!ServeClose, ExecLeaves
<1>9. CASE X!PostInput
  BY <1>9 DEF X!PostInput, X!Reaches, ExecQuiet
<1>10. CASE X!PostInputFails
  BY <1>10 DEF X!PostInputFails, X!Reaches, X!Leaves, X!Gone, X!ServeClose, ExecQuiet,
               ExecLeaves
<1>11. CASE X!Unparked
  BY <1>11 DEF X!Unparked, ExecQuiet
<1>12. CASE X!Flushed
  BY <1>12 DEF X!Flushed, X!Leaves, X!Gone, X!ServeClose, ExecLeaves
<1>13. CASE X!Type
  BY <1>13 DEF X!Type, ExecQuiet
<1>14. CASE X!ServeLate
  BY <1>14 DEF X!ServeLate, X!ServeExec, X!Spawned, ExecQuiet
<1>15. ASSUME NEW t \in X!Relays, X!SetupFails(t) PROVE ExecSteps
  BY <1>15 DEF X!SetupFails, X!Ends, X!Moves, X!Undelivered, ExecQuiet, SendsOther
<1>16. ASSUME NEW t \in X!Relays, X!SendOutput(t) PROVE ExecSteps
  BY <1>16 DEF X!SendOutput, X!Undelivered, ExecQuiet, SendsOutput
<1>17. ASSUME NEW t \in X!Relays, X!ChildExits(t) PROVE ExecSteps
  BY <1>17 DEF X!ChildExits, X!LoopLeft, X!Moves, ExecQuiet
<1>18. ASSUME NEW t \in X!Relays, X!WriterGone(t) PROVE ExecSteps
  BY <1>18 DEF X!WriterGone, X!LoopLeft, X!Moves, X!Kill, ExecQuiet
<1>19. ASSUME NEW t \in X!Relays, X!Watchdog(t) PROVE ExecSteps
  BY <1>19 DEF X!Watchdog, X!LoopLeft, X!Moves, X!Kill, ExecQuiet
<1>20. ASSUME NEW t \in X!Relays, X!Drained(t) PROVE ExecSteps
  BY <1>20 DEF X!Drained, X!Moves, X!Ends, ExecQuiet
<1>21. ASSUME NEW t \in X!Relays, X!SendStatus(t) PROVE ExecSteps
  BY <1>21 DEF X!SendStatus, X!Lost, X!Undelivered, X!Moves, X!CleansUp, X!Ends, ExecQuiet,
               SendsStatus, X!Own, X!Killed
<1>22. ASSUME NEW t \in X!Relays, X!SendClose(t) PROVE ExecSteps
  BY <1>22 DEF X!SendClose, X!Lost, X!Undelivered, X!Moves, X!CleansUp, X!Ends, ExecQuiet,
               SendsOther
<1>23. ASSUME NEW t \in X!Relays, X!Quit(t) PROVE ExecSteps
  BY <1>23 DEF X!Quit, ExecQuiet
<1>24. ASSUME NEW t \in X!Relays, X!Reads(t) PROVE ExecSteps
  BY <1>24 DEF X!Reads, ExecQuiet
<1>25. CASE X!Link
  BY <1>25 DEF X!Link, ExecLinkMoves
<1>26. CASE X!ClientEnds
  BY <1>26 DEF X!ClientEnds, X!Gone, ExecLeaves
<1>27. CASE X!Restart
  BY <1>27 DEF X!Restart, ExecLinkMoves
<1>28. CASE UNCHANGED X!vars
  BY <1>28 DEF X!vars, ExecQuiet
<1>. QED
  BY <1>1, <1>2, <1>3, <1>4, <1>5, <1>6, <1>7, <1>8, <1>9, <1>10, <1>11, <1>12, <1>13,
     <1>14, <1>15, <1>16, <1>17, <1>18, <1>19, <1>20, <1>21, <1>22, <1>23, <1>24, <1>25,
     <1>26, <1>27, <1>28
     DEF X!Next, X!Client, X!Relay

\* The client's part is kept.
LEMMA ExecClientStep == ExecClientOK /\ [X!Next]_(X!vars) => ExecClientOK'
<1> SUFFICES ASSUME ExecClientOK, [X!Next]_(X!vars) PROVE ExecClientOK'
  OBVIOUS
<1> USE DEF ExecClientOK, X!linkVars, linkVars, X!clientVars, X!taskVars, X!serverVars
<1>1. CASE X!PostExec
  BY <1>1 DEF X!PostExec, X!ServeExec, X!Spawned
<1>2. CASE X!FirstExecFails
  BY <1>2 DEF X!FirstExecFails, X!ServeExec, X!Spawned
<1>3. CASE X!SecondExecFails
  BY <1>3 DEF X!SecondExecFails, X!Gone, X!ServeExec, X!ServeClose, X!Spawned
<1>4. CASE X!Denied
  BY <1>4 DEF X!Denied, X!Leaves, X!Gone, X!ServeClose
<1>5. CASE X!Output
  BY <1>5 DEF X!Output, X!Flushes
<1>6. CASE X!Status
  BY <1>6 DEF X!Status
<1>7. CASE X!Ended
  BY <1>7 DEF X!Ended, X!Flushes
<1>8. CASE X!Bail
  BY <1>8 DEF X!Bail, X!Leaves, X!Gone, X!ServeClose
<1>9. CASE X!PostInput
  BY <1>9 DEF X!PostInput, X!Reaches
<1>10. CASE X!PostInputFails
  BY <1>10 DEF X!PostInputFails, X!Reaches, X!Leaves, X!Gone, X!ServeClose
<1>11. CASE X!Unparked
  BY <1>11 DEF X!Unparked
<1>12. CASE X!Flushed
  BY <1>12 DEF X!Flushed, X!Leaves, X!Gone, X!ServeClose
<1>13. CASE X!Type
  BY <1>13 DEF X!Type
<1>14. CASE X!ServeLate
  BY <1>14 DEF X!ServeLate, X!ServeExec, X!Spawned
<1>15. ASSUME NEW t \in X!Relays, X!SetupFails(t) PROVE ExecClientOK'
  BY <1>15 DEF X!SetupFails, X!Ends, X!Moves
<1>16. ASSUME NEW t \in X!Relays, X!SendOutput(t) PROVE ExecClientOK'
  BY <1>16 DEF X!SendOutput
<1>17. ASSUME NEW t \in X!Relays, X!ChildExits(t) PROVE ExecClientOK'
  BY <1>17 DEF X!ChildExits, X!LoopLeft, X!Moves
<1>18. ASSUME NEW t \in X!Relays, X!WriterGone(t) PROVE ExecClientOK'
  BY <1>18 DEF X!WriterGone, X!LoopLeft, X!Moves, X!Kill
<1>19. ASSUME NEW t \in X!Relays, X!Watchdog(t) PROVE ExecClientOK'
  BY <1>19 DEF X!Watchdog, X!LoopLeft, X!Moves, X!Kill
<1>20. ASSUME NEW t \in X!Relays, X!Drained(t) PROVE ExecClientOK'
  BY <1>20 DEF X!Drained, X!Moves, X!Ends
<1>21. ASSUME NEW t \in X!Relays, X!SendStatus(t) PROVE ExecClientOK'
  BY <1>21 DEF X!SendStatus, X!Moves, X!CleansUp, X!Ends
<1>22. ASSUME NEW t \in X!Relays, X!SendClose(t) PROVE ExecClientOK'
  BY <1>22 DEF X!SendClose, X!Moves, X!CleansUp, X!Ends
<1>23. ASSUME NEW t \in X!Relays, X!Quit(t) PROVE ExecClientOK'
  BY <1>23 DEF X!Quit
<1>24. ASSUME NEW t \in X!Relays, X!Reads(t) PROVE ExecClientOK'
  BY <1>24 DEF X!Reads
<1>25. CASE X!Link
  BY <1>25 DEF X!Link
<1>26. CASE X!ClientEnds
  BY <1>26 DEF X!ClientEnds, X!Gone
<1>27. CASE X!Restart
  BY <1>27 DEF X!Restart, X!Running
<1>28. CASE UNCHANGED X!vars
  BY <1>28 DEF X!vars
<1>. QED
  BY <1>1, <1>2, <1>3, <1>4, <1>5, <1>6, <1>7, <1>8, <1>9, <1>10, <1>11, <1>12, <1>13,
     <1>14, <1>15, <1>16, <1>17, <1>18, <1>19, <1>20, <1>21, <1>22, <1>23, <1>24, <1>25,
     <1>26, <1>27, <1>28
     DEF X!Next, X!Client, X!Relay

\* The server's part is kept.
LEMMA ExecServerStep == X!ExecAssumption /\ ExecServerOK /\ [X!Next]_(X!vars) => ExecServerOK'
<1> SUFFICES ASSUME X!ExecAssumption, ExecServerOK, [X!Next]_(X!vars) PROVE ExecServerOK'
  OBVIOUS
<1> USE DEF ExecServerOK, X!Relays, X!None, X!ExecAssumption, X!linkVars, linkVars,
            X!clientVars, X!taskVars, X!serverVars
<1>1. CASE X!PostExec
  BY <1>1 DEF X!PostExec, X!ServeExec, X!Spawned
<1>2. CASE X!FirstExecFails
  BY <1>2 DEF X!FirstExecFails, X!ServeExec, X!Spawned
<1>3. CASE X!SecondExecFails
  BY <1>3 DEF X!SecondExecFails, X!Gone, X!ServeExec, X!ServeClose, X!Spawned
<1>4. CASE X!Denied
  BY <1>4 DEF X!Denied, X!Leaves, X!Gone, X!ServeClose
<1>5. CASE X!Output
  BY <1>5 DEF X!Output, X!Flushes
<1>6. CASE X!Status
  BY <1>6 DEF X!Status
<1>7. CASE X!Ended
  BY <1>7 DEF X!Ended, X!Flushes
<1>8. CASE X!Bail
  BY <1>8 DEF X!Bail, X!Leaves, X!Gone, X!ServeClose
<1>9. CASE X!PostInput
  BY <1>9 DEF X!PostInput, X!Reaches
<1>10. CASE X!PostInputFails
  BY <1>10 DEF X!PostInputFails, X!Reaches, X!Leaves, X!Gone, X!ServeClose
<1>11. CASE X!Unparked
  BY <1>11 DEF X!Unparked
<1>12. CASE X!Flushed
  BY <1>12 DEF X!Flushed, X!Leaves, X!Gone, X!ServeClose
<1>13. CASE X!Type
  BY <1>13 DEF X!Type
<1>14. CASE X!ServeLate
  BY <1>14 DEF X!ServeLate, X!ServeExec, X!Spawned
<1>15. ASSUME NEW t \in X!Relays, X!SetupFails(t) PROVE ExecServerOK'
  BY <1>15 DEF X!SetupFails, X!Ends, X!Moves
<1>16. ASSUME NEW t \in X!Relays, X!SendOutput(t) PROVE ExecServerOK'
  <2>1. /\ sent[t] \in 0..Pieces /\ sent[t] < Pieces
        /\ UNCHANGED <<writer, relay, lastTry, child, writing>>
    BY <1>16 DEF X!SendOutput
  <2>2. CASE sent' = [sent EXCEPT ![t] = sent[t] + 1] /\ UNCHANGED reading
    BY <2>1, <2>2
  <2>3. CASE UNCHANGED sent /\ reading' = [reading EXCEPT ![t] = FALSE]
    BY <2>1, <2>3
  <2>. QED
    BY <1>16, <2>2, <2>3 DEF X!SendOutput
<1>17. ASSUME NEW t \in X!Relays, X!ChildExits(t) PROVE ExecServerOK'
  BY <1>17 DEF X!ChildExits, X!LoopLeft, X!Moves
<1>18. ASSUME NEW t \in X!Relays, X!WriterGone(t) PROVE ExecServerOK'
  BY <1>18 DEF X!WriterGone, X!LoopLeft, X!Moves, X!Kill
<1>19. ASSUME NEW t \in X!Relays, X!Watchdog(t) PROVE ExecServerOK'
  BY <1>19 DEF X!Watchdog, X!LoopLeft, X!Moves, X!Kill
<1>20. ASSUME NEW t \in X!Relays, X!Drained(t) PROVE ExecServerOK'
  <2>1. CASE /\ X!Moves(t, "exit") /\ reading' = [reading EXCEPT ![t] = FALSE]
             /\ writing' = [writing EXCEPT ![t] = "ended"]
             /\ UNCHANGED <<writer, lastTry, child, sent>>
    BY <2>1 DEF X!Moves
  <2>2. CASE X!Ends(t, "panicked") /\ UNCHANGED writer
    BY <2>2 DEF X!Ends, X!Moves
  <2>. QED
    BY <1>20, <2>1, <2>2 DEF X!Drained
<1>21. ASSUME NEW t \in X!Relays, X!SendStatus(t) PROVE ExecServerOK'
  <2>1. CASE X!Moves(t, "close") /\ UNCHANGED <<writer, X!taskVars>>
    BY <1>21, <2>1 DEF X!Moves, X!SendStatus
  <2>2. CASE X!CleansUp(t)
    BY <2>2 DEF X!CleansUp, X!Ends, X!Moves
  <2>. QED
    BY <1>21, <2>1, <2>2 DEF X!SendStatus
<1>22. ASSUME NEW t \in X!Relays, X!SendClose(t) PROVE ExecServerOK'
  BY <1>22 DEF X!SendClose, X!Moves, X!CleansUp, X!Ends
<1>23. ASSUME NEW t \in X!Relays, X!Quit(t) PROVE ExecServerOK'
  BY <1>23 DEF X!Quit
<1>24. ASSUME NEW t \in X!Relays, X!Reads(t) PROVE ExecServerOK'
  BY <1>24 DEF X!Reads
<1>25. CASE X!Link
  BY <1>25 DEF X!Link
<1>26. CASE X!ClientEnds
  BY <1>26 DEF X!ClientEnds, X!Gone
<1>27. CASE X!Restart
  BY <1>27 DEF X!Restart, X!Running
<1>28. CASE UNCHANGED X!vars
  BY <1>28 DEF X!vars
<1>. QED
  BY <1>1, <1>2, <1>3, <1>4, <1>5, <1>6, <1>7, <1>8, <1>9, <1>10, <1>11, <1>12, <1>13,
     <1>14, <1>15, <1>16, <1>17, <1>18, <1>19, <1>20, <1>21, <1>22, <1>23, <1>24, <1>25,
     <1>26, <1>27, <1>28
     DEF X!Next, X!Client, X!Relay

\* Reading is kept.
LEMMA ReadingStep == ExecServerOK /\ Reading /\ [X!Next]_(X!vars) => Reading'
<1> SUFFICES ASSUME ExecServerOK, Reading, [X!Next]_(X!vars) PROVE Reading'
  OBVIOUS
<1> USE DEF Reading, ExecServerOK, X!Relays, X!linkVars, linkVars, X!clientVars, X!taskVars,
            X!serverVars
<1>1. CASE X!PostExec
  BY <1>1 DEF X!PostExec, X!ServeExec, X!Spawned
<1>2. CASE X!FirstExecFails
  BY <1>2 DEF X!FirstExecFails, X!ServeExec, X!Spawned
<1>3. CASE X!SecondExecFails
  BY <1>3 DEF X!SecondExecFails, X!Gone, X!ServeExec, X!ServeClose, X!Spawned
<1>4. CASE X!Denied
  BY <1>4 DEF X!Denied, X!Leaves, X!Gone, X!ServeClose
<1>5. CASE X!Output
  BY <1>5 DEF X!Output, X!Flushes
<1>6. CASE X!Status
  BY <1>6 DEF X!Status
<1>7. CASE X!Ended
  BY <1>7 DEF X!Ended, X!Flushes
<1>8. CASE X!Bail
  BY <1>8 DEF X!Bail, X!Leaves, X!Gone, X!ServeClose
<1>9. CASE X!PostInput
  BY <1>9 DEF X!PostInput, X!Reaches
<1>10. CASE X!PostInputFails
  BY <1>10 DEF X!PostInputFails, X!Reaches, X!Leaves, X!Gone, X!ServeClose
<1>11. CASE X!Unparked
  BY <1>11 DEF X!Unparked
<1>12. CASE X!Flushed
  BY <1>12 DEF X!Flushed, X!Leaves, X!Gone, X!ServeClose
<1>13. CASE X!Type
  BY <1>13 DEF X!Type
<1>14. CASE X!ServeLate
  BY <1>14 DEF X!ServeLate, X!ServeExec, X!Spawned
<1>15. ASSUME NEW t \in X!Relays, X!SetupFails(t) PROVE Reading'
  BY <1>15 DEF X!SetupFails, X!Ends, X!Moves
<1>16. ASSUME NEW t \in X!Relays, X!SendOutput(t) PROVE Reading'
  BY <1>16 DEF X!SendOutput
<1>17. ASSUME NEW t \in X!Relays, X!ChildExits(t) PROVE Reading'
  BY <1>17 DEF X!ChildExits, X!LoopLeft, X!Moves
<1>18. ASSUME NEW t \in X!Relays, X!WriterGone(t) PROVE Reading'
  BY <1>18 DEF X!WriterGone, X!LoopLeft, X!Moves, X!Kill
<1>19. ASSUME NEW t \in X!Relays, X!Watchdog(t) PROVE Reading'
  BY <1>19 DEF X!Watchdog, X!LoopLeft, X!Moves, X!Kill
<1>20. ASSUME NEW t \in X!Relays, X!Drained(t) PROVE Reading'
  BY <1>20 DEF X!Drained, X!Moves, X!Ends
<1>21. ASSUME NEW t \in X!Relays, X!SendStatus(t) PROVE Reading'
  BY <1>21 DEF X!SendStatus, X!Moves, X!CleansUp, X!Ends
<1>22. ASSUME NEW t \in X!Relays, X!SendClose(t) PROVE Reading'
  BY <1>22 DEF X!SendClose, X!Moves, X!CleansUp, X!Ends
<1>23. ASSUME NEW t \in X!Relays, X!Quit(t) PROVE Reading'
  BY <1>23 DEF X!Quit
<1>24. ASSUME NEW t \in X!Relays, X!Reads(t) PROVE Reading'
  BY <1>24 DEF X!Reads
<1>25. CASE X!Link
  BY <1>25 DEF X!Link
<1>26. CASE X!ClientEnds
  BY <1>26 DEF X!ClientEnds, X!Gone
<1>27. CASE X!Restart
  BY <1>27 DEF X!Restart, X!Running
<1>28. CASE UNCHANGED X!vars
  BY <1>28 DEF X!vars
<1>. QED
  BY <1>1, <1>2, <1>3, <1>4, <1>5, <1>6, <1>7, <1>8, <1>9, <1>10, <1>11, <1>12, <1>13,
     <1>14, <1>15, <1>16, <1>17, <1>18, <1>19, <1>20, <1>21, <1>22, <1>23, <1>24, <1>25,
     <1>26, <1>27, <1>28
     DEF X!Next, X!Client, X!Relay

\* A relay that has reported never runs again.
LEMMA OnwardStep == ExecServerOK /\ [X!Next]_(X!vars) => Onward
<1> SUFFICES ASSUME ExecServerOK, [X!Next]_(X!vars) PROVE Onward
  OBVIOUS
<1> USE DEF Onward, ExecServerOK, X!Relays, X!linkVars, linkVars, X!clientVars, X!taskVars,
            X!serverVars
<1>1. CASE X!PostExec
  BY <1>1 DEF X!PostExec, X!ServeExec, X!Spawned
<1>2. CASE X!FirstExecFails
  BY <1>2 DEF X!FirstExecFails, X!ServeExec, X!Spawned
<1>3. CASE X!SecondExecFails
  BY <1>3 DEF X!SecondExecFails, X!Gone, X!ServeExec, X!ServeClose, X!Spawned
<1>4. CASE X!Denied
  BY <1>4 DEF X!Denied, X!Leaves, X!Gone, X!ServeClose
<1>5. CASE X!Output
  BY <1>5 DEF X!Output, X!Flushes
<1>6. CASE X!Status
  BY <1>6 DEF X!Status
<1>7. CASE X!Ended
  BY <1>7 DEF X!Ended, X!Flushes
<1>8. CASE X!Bail
  BY <1>8 DEF X!Bail, X!Leaves, X!Gone, X!ServeClose
<1>9. CASE X!PostInput
  BY <1>9 DEF X!PostInput, X!Reaches
<1>10. CASE X!PostInputFails
  BY <1>10 DEF X!PostInputFails, X!Reaches, X!Leaves, X!Gone, X!ServeClose
<1>11. CASE X!Unparked
  BY <1>11 DEF X!Unparked
<1>12. CASE X!Flushed
  BY <1>12 DEF X!Flushed, X!Leaves, X!Gone, X!ServeClose
<1>13. CASE X!Type
  BY <1>13 DEF X!Type
<1>14. CASE X!ServeLate
  BY <1>14 DEF X!ServeLate, X!ServeExec, X!Spawned
<1>15. ASSUME NEW t \in X!Relays, X!SetupFails(t) PROVE Onward
  BY <1>15 DEF X!SetupFails, X!Ends, X!Moves
<1>16. ASSUME NEW t \in X!Relays, X!SendOutput(t) PROVE Onward
  BY <1>16 DEF X!SendOutput
<1>17. ASSUME NEW t \in X!Relays, X!ChildExits(t) PROVE Onward
  BY <1>17 DEF X!ChildExits, X!LoopLeft, X!Moves
<1>18. ASSUME NEW t \in X!Relays, X!WriterGone(t) PROVE Onward
  BY <1>18 DEF X!WriterGone, X!LoopLeft, X!Moves, X!Kill
<1>19. ASSUME NEW t \in X!Relays, X!Watchdog(t) PROVE Onward
  BY <1>19 DEF X!Watchdog, X!LoopLeft, X!Moves, X!Kill
<1>20. ASSUME NEW t \in X!Relays, X!Drained(t) PROVE Onward
  BY <1>20 DEF X!Drained, X!Moves, X!Ends
<1>21. ASSUME NEW t \in X!Relays, X!SendStatus(t) PROVE Onward
  BY <1>21 DEF X!SendStatus, X!Moves, X!CleansUp, X!Ends
<1>22. ASSUME NEW t \in X!Relays, X!SendClose(t) PROVE Onward
  BY <1>22 DEF X!SendClose, X!Moves, X!CleansUp, X!Ends
<1>23. ASSUME NEW t \in X!Relays, X!Quit(t) PROVE Onward
  BY <1>23 DEF X!Quit
<1>24. ASSUME NEW t \in X!Relays, X!Reads(t) PROVE Onward
  BY <1>24 DEF X!Reads
<1>25. CASE X!Link
  BY <1>25 DEF X!Link
<1>26. CASE X!ClientEnds
  BY <1>26 DEF X!ClientEnds, X!Gone
<1>27. CASE X!Restart
  BY <1>27 DEF X!Restart, X!Running
<1>28. CASE UNCHANGED X!vars
  BY <1>28 DEF X!vars
<1>. QED
  BY <1>1, <1>2, <1>3, <1>4, <1>5, <1>6, <1>7, <1>8, <1>9, <1>10, <1>11, <1>12, <1>13,
     <1>14, <1>15, <1>16, <1>17, <1>18, <1>19, <1>20, <1>21, <1>22, <1>23, <1>24, <1>25,
     <1>26, <1>27, <1>28
     DEF X!Next, X!Client, X!Relay

\* A command that is killed is one whose relay panics.
LEMMA KilledStep ==
  ExecServerOK /\ attached /\ KilledPanics /\ [X!Next]_(X!vars) => KilledPanics'
<1> SUFFICES ASSUME ExecServerOK, attached, KilledPanics, [X!Next]_(X!vars) PROVE KilledPanics'
  OBVIOUS
<1> USE DEF KilledPanics, ExecServerOK, X!Relays, X!linkVars, linkVars, X!clientVars,
            X!taskVars, X!serverVars
<1>1. CASE X!PostExec
  BY <1>1 DEF X!PostExec, X!ServeExec, X!Spawned
<1>2. CASE X!FirstExecFails
  BY <1>2 DEF X!FirstExecFails, X!ServeExec, X!Spawned
<1>3. CASE X!SecondExecFails
  BY <1>3 DEF X!SecondExecFails, X!Gone, X!ServeExec, X!ServeClose, X!Spawned
<1>4. CASE X!Denied
  BY <1>4 DEF X!Denied, X!Leaves, X!Gone, X!ServeClose
<1>5. CASE X!Output
  BY <1>5 DEF X!Output, X!Flushes
<1>6. CASE X!Status
  BY <1>6 DEF X!Status
<1>7. CASE X!Ended
  BY <1>7 DEF X!Ended, X!Flushes
<1>8. CASE X!Bail
  BY <1>8 DEF X!Bail, X!Leaves, X!Gone, X!ServeClose
<1>9. CASE X!PostInput
  BY <1>9 DEF X!PostInput, X!Reaches
<1>10. CASE X!PostInputFails
  BY <1>10 DEF X!PostInputFails, X!Reaches, X!Leaves, X!Gone, X!ServeClose
<1>11. CASE X!Unparked
  BY <1>11 DEF X!Unparked
<1>12. CASE X!Flushed
  BY <1>12 DEF X!Flushed, X!Leaves, X!Gone, X!ServeClose
<1>13. CASE X!Type
  BY <1>13 DEF X!Type
<1>14. CASE X!ServeLate
  BY <1>14 DEF X!ServeLate, X!ServeExec, X!Spawned
<1>15. ASSUME NEW t \in X!Relays, X!SetupFails(t) PROVE KilledPanics'
  BY <1>15 DEF X!SetupFails, X!Ends, X!Moves
<1>16. ASSUME NEW t \in X!Relays, X!SendOutput(t) PROVE KilledPanics'
  BY <1>16 DEF X!SendOutput
<1>17. ASSUME NEW t \in X!Relays, X!ChildExits(t) PROVE KilledPanics'
  BY <1>17 DEF X!ChildExits, X!LoopLeft, X!Moves
<1>18. ASSUME NEW t \in X!Relays, X!WriterGone(t) PROVE KilledPanics'
  BY <1>18 DEF X!WriterGone, X!LoopLeft, X!Moves, X!Kill
<1>19. ASSUME NEW t \in X!Relays, X!Watchdog(t) PROVE KilledPanics'
  BY <1>19 DEF X!Watchdog, X!LoopLeft, X!Moves, X!Kill
<1>20. ASSUME NEW t \in X!Relays, X!Drained(t) PROVE KilledPanics'
  BY <1>20 DEF X!Drained, X!Moves, X!Ends
<1>21. ASSUME NEW t \in X!Relays, X!SendStatus(t) PROVE KilledPanics'
  <2>1. CASE X!Moves(t, "close") /\ UNCHANGED <<writer, X!taskVars>>
    BY <1>21, <2>1 DEF X!Moves, X!SendStatus
  <2>2. CASE X!CleansUp(t)
    BY <2>2 DEF X!CleansUp, X!Ends, X!Moves
  <2>. QED
    BY <1>21, <2>1, <2>2 DEF X!SendStatus
<1>22. ASSUME NEW t \in X!Relays, X!SendClose(t) PROVE KilledPanics'
  BY <1>22 DEF X!SendClose, X!Moves, X!CleansUp, X!Ends
<1>23. ASSUME NEW t \in X!Relays, X!Quit(t) PROVE KilledPanics'
  BY <1>23 DEF X!Quit
<1>24. ASSUME NEW t \in X!Relays, X!Reads(t) PROVE KilledPanics'
  BY <1>24 DEF X!Reads
<1>25. CASE X!Link
  BY <1>25 DEF X!Link
<1>26. CASE X!ClientEnds
  BY <1>26 DEF X!ClientEnds, X!Gone
<1>27. CASE X!Restart
  BY <1>27 DEF X!Restart, X!Running
<1>28. CASE UNCHANGED X!vars
  BY <1>28 DEF X!vars
<1>. QED
  BY <1>1, <1>2, <1>3, <1>4, <1>5, <1>6, <1>7, <1>8, <1>9, <1>10, <1>11, <1>12, <1>13,
     <1>14, <1>15, <1>16, <1>17, <1>18, <1>19, <1>20, <1>21, <1>22, <1>23, <1>24, <1>25,
     <1>26, <1>27, <1>28
     DEF X!Next, X!Client, X!Relay

\* What joins and leaves the queues.
LEMMA QueueTypes ==
  LinkOK => /\ events \in Seq(Events \cup {Reset}) /\ down \in Seq(Events \cup {Reset})
            /\ Outputs(events) \in Nat /\ Outputs(down) \in Nat
            /\ Len(events) \in Nat /\ Len(down) \in Nat
<1> SUFFICES ASSUME LinkOK
             PROVE  /\ events \in Seq(Events \cup {Reset}) /\ down \in Seq(Events \cup {Reset})
                    /\ Outputs(events) \in Nat /\ Outputs(down) \in Nat
                    /\ Len(events) \in Nat /\ Len(down) \in Nat
  OBVIOUS
<1>1. events \in Seq(Events \cup {Reset}) /\ down \in Seq(Events \cup {Reset})
  BY DEF LinkOK
<1>. QED
  BY <1>1, OutputsType

\* The kinds of what is sent.
LEMMA Kinds ==
  /\ \A k : Data(k).kind = "Data" /\ Exit(k).kind = "Exit"
  /\ Close.kind = "Close" /\ Error.kind = "Error" /\ Reset.kind = "Reset"
  BY DEF Data, Exit, Close, Error, Reset

\* What a client receives was the head of its events.
LEMMA Receives ==
  ASSUME LinkOK, NEW e, Receive(e)
  PROVE  /\ UNCHANGED <<alive, session, attached, down, registered, breaks>>
         /\ Outputs(events) = Outputs(events)' + IF e.kind = "Data" THEN 1 ELSE 0
         /\ Exits(events) <=> Exits(events)' \/ e.kind = "Exit"
         /\ \A d : Holds(events, d) <=> Holds(events, d)' \/ e = d
         /\ InOrder(events) => InOrder(events)'
         /\ InOrder(events) /\ e.kind = "Exit" => Outputs(events) = 0
<1>1. /\ events # <<>> /\ e = Head(events) /\ events' = Tail(events)
      /\ UNCHANGED <<alive, session, attached, down, registered, breaks>>
  BY DEF Receive
<1>2. events \in Seq(Events \cup {Reset})
  BY QueueTypes
<1>. QED
  BY <1>1, <1>2, Taken, Zenon

\* What a relay sends joins the stream.
LEMMA Sends ==
  ASSUME LinkOK, NEW e \in Events, Delivered(e)
  PROVE  /\ UNCHANGED <<alive, session, attached, registered, events, breaks>>
         /\ Outputs(down)' = Outputs(down) + IF e.kind = "Data" THEN 1 ELSE 0
         /\ Exits(down)' <=> Exits(down) \/ e.kind = "Exit"
         /\ \A d : Holds(down, d)' <=> Holds(down, d) \/ e = d
         /\ InOrder(down) /\ ~(Exits(down) /\ e.kind = "Data") => InOrder(down)'
<1>1. /\ down' = Append(down, e)
      /\ UNCHANGED <<alive, session, attached, registered, events, breaks>>
  BY DEF Delivered
<1>2. down \in Seq(Events \cup {Reset}) /\ e \in Events \cup {Reset}
  BY QueueTypes
<1>3. /\ Outputs(Append(down, e)) = Outputs(down) + IF e.kind = "Data" THEN 1 ELSE 0
      /\ Exits(Append(down, e)) <=> Exits(down) \/ e.kind = "Exit"
      /\ \A d : Holds(Append(down, e), d) <=> Holds(down, d) \/ e = d
      /\ InOrder(down) /\ ~(Exits(down) /\ e.kind = "Data") => InOrder(Append(down, e))
  BY <1>2, Joined
<1>. QED
  BY <1>1, <1>3

\* What is dispatched leaves the stream, for the events or for nothing.
LEMMA Dispatches ==
  ASSUME LinkOK, Dispatch
  PROVE  \E e \in Events \cup {Reset} :
           /\ UNCHANGED <<alive, session, attached, breaks>>
           /\ Outputs(down) = Outputs(down)' + IF e.kind = "Data" THEN 1 ELSE 0
           /\ Exits(down) <=> Exits(down)' \/ e.kind = "Exit"
           /\ \A d : Holds(down, d) <=> Holds(down, d)' \/ e = d
           /\ InOrder(down) => InOrder(down)'
           /\ InOrder(down) /\ e.kind = "Exit" => Outputs(down) = 0
           /\ \/ ~registered' /\ UNCHANGED events
              \/ /\ registered /\ registered'
                 /\ Outputs(events)' = Outputs(events) + IF e.kind = "Data" THEN 1 ELSE 0
                 /\ Exits(events)' <=> Exits(events) \/ e.kind = "Exit"
                 /\ \A d : Holds(events, d)' <=> Holds(events, d) \/ e = d
                 /\ InOrder(events) /\ ~(Exits(events) /\ e.kind = "Data") => InOrder(events)'
<1> DEFINE e == Head(down)
<1>1. /\ down # <<>> /\ down' = Tail(down)
      /\ UNCHANGED <<alive, session, attached, breaks>>
  BY DEF Dispatch
<1>2. /\ events \in Seq(Events \cup {Reset}) /\ down \in Seq(Events \cup {Reset})
      /\ e \in Events \cup {Reset}
  BY <1>1, QueueTypes, HeadTailProperties
<1>3. \/ ~registered' /\ UNCHANGED events
      \/ registered /\ registered' /\ events' = Append(events, e)
  BY DEF Dispatch, LinkOK
<1>. HIDE DEF e
<1>4. /\ Outputs(down) = Outputs(down)' + IF e.kind = "Data" THEN 1 ELSE 0
      /\ Exits(down) <=> Exits(down)' \/ e.kind = "Exit"
      /\ \A d : Holds(down, d) <=> Holds(down, d)' \/ e = d
      /\ InOrder(down) => InOrder(down)'
      /\ InOrder(down) /\ e.kind = "Exit" => Outputs(down) = 0
  BY <1>1, <1>2, Taken, Zenon DEF e
<1>5. CASE ~registered' /\ UNCHANGED events
  BY <1>1, <1>2, <1>4, <1>5
<1>6. CASE registered /\ registered' /\ events' = Append(events, e)
  <2>1. /\ Outputs(events)' = Outputs(events) + IF e.kind = "Data" THEN 1 ELSE 0
        /\ Exits(events)' <=> Exits(events) \/ e.kind = "Exit"
        /\ \A d : Holds(events, d)' <=> Holds(events, d) \/ e = d
        /\ InOrder(events) /\ ~(Exits(events) /\ e.kind = "Data") => InOrder(events)'
    <3>1. /\ Outputs(Append(events, e)) = Outputs(events) + IF e.kind = "Data" THEN 1 ELSE 0
          /\ Exits(Append(events, e)) <=> Exits(events) \/ e.kind = "Exit"
          /\ \A d : Holds(Append(events, e), d) <=> Holds(events, d) \/ e = d
          /\ InOrder(events) /\ ~(Exits(events) /\ e.kind = "Data") =>
               InOrder(Append(events, e))
      BY <1>2, Joined
    <3>. QED
      BY <1>6, <3>1
  <2>. QED
    BY <1>1, <1>2, <1>4, <1>6, <2>1
<1>. QED
  BY <1>3, <1>5, <1>6

\* A stream that ends takes its events with it.
LEMMA Emptied ==
  ASSUME Break \/ Reattach \/ ServerNotices \/ Restarted
  PROVE  /\ Outputs(down)' = 0 /\ InOrder(down)' /\ ~Exits(down)'
         /\ \A n : ~Holds(down, Exit(n))'
         /\ UNCHANGED <<alive, registered, events>>
<1>1. UNCHANGED <<alive, registered, events>> /\ (down' = <<>> \/ down' = <<Reset>>)
  BY DEF Break, Reattach, ServerNotices, Restarted
<1>2. CASE down' = <<>>
  BY <1>1, <1>2, EmptyQueue
<1>3. CASE down' = <<Reset>>
  <2>1. <<>> \in Seq({Reset}) /\ <<Reset>> = Append(<<>>, Reset)
    OBVIOUS
  <2>2. /\ Outputs(<<Reset>>) = 0 + IF Reset.kind = "Data" THEN 1 ELSE 0
        /\ Exits(<<Reset>>) <=> Exits(<<>>) \/ Reset.kind = "Exit"
        /\ \A d : Holds(<<Reset>>, d) <=> Holds(<<>>, d) \/ Reset = d
        /\ ~(Exits(<<>>) /\ Reset.kind = "Data") => InOrder(<<Reset>>)
    <3>1. <<>> \in Seq({Reset}) /\ Reset \in {Reset} /\ InOrder(<<>>) /\ Outputs(<<>>) = 0
      BY EmptyQueue
    <3>2. /\ Outputs(Append(<<>>, Reset)) = Outputs(<<>>) + IF Reset.kind = "Data" THEN 1 ELSE 0
          /\ Exits(Append(<<>>, Reset)) <=> Exits(<<>>) \/ Reset.kind = "Exit"
          /\ \A d : Holds(Append(<<>>, Reset), d) <=> Holds(<<>>, d) \/ Reset = d
          /\ InOrder(<<>>) /\ ~(Exits(<<>>) /\ Reset.kind = "Data") =>
               InOrder(Append(<<>>, Reset))
      BY <3>1, Joined
    <3>. QED
      BY <2>1, <3>1, <3>2
  <2>3. \A n : Exit(n) # Reset
    BY Kinds
  <2>. QED
    BY <1>1, <1>3, <2>2, <2>3, Kinds, EmptyQueue
<1>. QED
  BY <1>1, <1>2, <1>3

\* What relay_pty_connection sends is what a client may be sent.
LEMMA ExecSends ==
  /\ \A t \in X!Relays : ExecServerOK => Data(sent[t] + 1) \in Events
  /\ Exit(0) \in Events /\ Exit(1) \in Events /\ Close \in Events /\ Error \in Events
  BY DEF ExecServerOK, Events, Data

\* The link's part is kept.
LEMMA ExecLinkStep == LinkOK /\ ExecServerOK /\ ExecSteps => LinkOK'
<1> SUFFICES ASSUME LinkOK, ExecServerOK, ExecSteps PROVE LinkOK'
  OBVIOUS
<1>1. CASE ExecQuiet \/ ExecLeaves \/ ExecLinkMoves
  BY <1>1, Moved DEF LinkMoves, ExecQuiet, ExecLeaves, ExecLinkMoves
<1>2. CASE TakesOutput
  <2>1. \A k \in 1..Pieces : Data(k) \in Events
    BY DEF Events, Data
  <2>. QED
    BY <1>2, <2>1, Moved DEF LinkMoves, TakesOutput
<1>3. CASE TakesStatus \/ TakesEnd
  BY <1>3, ExecSends, Moved DEF LinkMoves, TakesStatus, TakesEnd
<1>4. CASE SendsOutput
  BY <1>4, ExecSends, Sent DEF SendsOutput
<1>5. CASE SendsStatus \/ SendsOther
  BY <1>5, ExecSends, Sent DEF SendsStatus, SendsOther
<1>. QED
  BY <1>1, <1>2, <1>3, <1>4, <1>5 DEF ExecSteps

\* The session is over when its process has ended.
LEMMA LivesStep == LinkOK /\ Lives /\ ExecSteps => Lives'
<1> SUFFICES ASSUME LinkOK, Lives, ExecSteps PROVE Lives'
  OBVIOUS
<1> USE DEF Lives
<1>1. CASE ExecQuiet \/ ExecLeaves
  BY <1>1 DEF ExecQuiet, ExecLeaves, linkVars
<1>2. CASE TakesOutput \/ TakesStatus \/ TakesEnd
  BY <1>2 DEF TakesOutput, TakesStatus, TakesEnd, Receive, ReceiveNone, linkVars
<1>3. CASE ExecLinkMoves
  BY <1>3 DEF ExecLinkMoves, Dispatch, Break, Reattach, ServerNotices, Restarted
<1>4. CASE SendsOutput \/ SendsStatus \/ SendsOther
  BY <1>4 DEF SendsOutput, SendsStatus, SendsOther, Delivered
<1>. QED
  BY <1>1, <1>2, <1>3, <1>4 DEF ExecSteps

\* Counted is kept.
LEMMA CountedStep == LinkOK /\ ExecServerOK /\ Counted /\ ExecSteps => Counted'
<1> SUFFICES ASSUME LinkOK, ExecServerOK, Counted, ExecSteps PROVE Counted'
  OBVIOUS
<1>1. /\ Outputs(events) \in Nat /\ Outputs(down) \in Nat /\ shown \in Nat
      /\ sent[1] \in Nat /\ sent[2] \in Nat
      /\ shown + Outputs(events) + Outputs(down) <= sent[1] + sent[2]
  BY QueueTypes DEF Counted, ExecServerOK, X!Relays
<1>2. LinkOK' /\ Outputs(events)' \in Nat /\ Outputs(down)' \in Nat
  <2>1. LinkOK'
    BY ExecLinkStep
  <2>. QED
    BY <2>1, OutputsType DEF LinkOK
<1>3. CASE ExecQuiet
  BY <1>1, <1>3 DEF ExecQuiet, linkVars, Counted
<1>4. CASE ExecLeaves
  <2>1. events' = <<>> /\ UNCHANGED <<down, sent>> /\ shown' = 0
    BY <1>4 DEF ExecLeaves, Vanish
  <2>. QED
    BY <1>1, <2>1, EmptyQueue DEF Counted
<1>5. CASE TakesOutput
  <2>1. PICK k \in 1..Pieces : Receive(Data(k))
    BY <1>5 DEF TakesOutput
  <2>2. /\ Outputs(events) = Outputs(events)' + 1 /\ UNCHANGED <<down, sent>>
        /\ shown' \in {shown, shown + 1}
    BY <1>5, <2>1, Receives, Kinds DEF TakesOutput
  <2>. QED
    BY <1>1, <1>2, <2>2 DEF Counted
<1>6. CASE TakesStatus \/ TakesEnd
  <2>1. (\E e \in Events : e.kind # "Data" /\ Receive(e)) \/ ReceiveNone
    BY <1>6, ExecSends, Kinds DEF TakesStatus, TakesEnd
  <2>2. Outputs(events) = Outputs(events)' /\ UNCHANGED down
    <3>1. CASE ReceiveNone
      BY <3>1 DEF ReceiveNone, linkVars
    <3>2. ASSUME NEW e \in Events, e.kind # "Data", Receive(e)
          PROVE  Outputs(events) = Outputs(events)' /\ UNCHANGED down
      BY <1>1, <1>2, <3>2, Receives
    <3>. QED
      BY <2>1, <3>1, <3>2
  <2>3. UNCHANGED <<shown, sent>>
    BY <1>6 DEF TakesStatus, TakesEnd
  <2>. QED
    BY <1>1, <2>2, <2>3 DEF Counted
<1>7. CASE ExecLinkMoves
  <2>1. UNCHANGED <<shown, sent>>
    BY <1>7 DEF ExecLinkMoves
  <2>2. Outputs(events)' + Outputs(down)' <= Outputs(events) + Outputs(down)
    <3>1. CASE Dispatch
      BY <1>1, <1>2, <3>1, Dispatches
    <3>2. CASE Break \/ Reattach \/ ServerNotices \/ Restarted
      BY <1>1, <3>2, Emptied
    <3>. QED
      BY <1>7, <3>1, <3>2 DEF ExecLinkMoves
  <2>. QED
    BY <1>1, <1>2, <2>1, <2>2 DEF Counted
<1>8. CASE SendsOutput
  <2>1. PICK t \in X!Relays : /\ Delivered(Data(sent[t] + 1))
                             /\ sent' = [sent EXCEPT ![t] = sent[t] + 1]
    BY <1>8 DEF SendsOutput
  <2>2. Outputs(down)' = Outputs(down) + 1 /\ UNCHANGED events
    BY <2>1, Sends, ExecSends, Kinds
  <2>3. sent'[1] + sent'[2] = sent[1] + sent[2] + 1
    BY <1>1, <2>1 DEF ExecServerOK, X!Relays
  <2>. QED
    BY <1>1, <1>8, <2>2, <2>3 DEF Counted, SendsOutput
<1>9. CASE SendsStatus \/ SendsOther
  <2>1. PICK e \in Events : e.kind # "Data" /\ Delivered(e)
    BY <1>9, ExecSends, Kinds DEF SendsStatus, SendsOther
  <2>2. Outputs(down)' = Outputs(down) /\ UNCHANGED events
    BY <1>1, <2>1, Sends
  <2>. QED
    BY <1>1, <1>9, <2>2 DEF Counted, SendsStatus, SendsOther
<1>. QED
  BY <1>3, <1>4, <1>5, <1>6, <1>7, <1>8, <1>9 DEF ExecSteps

\* What the link does does not lose its count of what was lost.
LEMMA BreaksKept ==
  LinkOK /\ ExecSteps /\ breaks' = 0 =>
    breaks = 0 /\ ~Break /\ ~Restarted /\ (alive' => alive)
<1> SUFFICES ASSUME LinkOK, ExecSteps, breaks' = 0
             PROVE  breaks = 0 /\ ~Break /\ ~Restarted /\ (alive' => alive)
  OBVIOUS
<1>1. ~Break /\ ~Restarted
  BY DEF Break, Restarted, LinkOK
<1>2. CASE ExecQuiet \/ ExecLeaves
  BY <1>1, <1>2 DEF ExecQuiet, ExecLeaves, Vanish, linkVars
<1>3. CASE TakesOutput \/ TakesStatus \/ TakesEnd
  BY <1>1, <1>3 DEF TakesOutput, TakesStatus, TakesEnd, Receive, ReceiveNone, linkVars
<1>4. CASE ExecLinkMoves
  BY <1>1, <1>4 DEF ExecLinkMoves, Dispatch, Reattach, ServerNotices
<1>5. CASE SendsOutput \/ SendsStatus \/ SendsOther
  BY <1>1, <1>5 DEF SendsOutput, SendsStatus, SendsOther, Delivered
<1>. QED
  BY <1>2, <1>3, <1>4, <1>5 DEF ExecSteps

\* Spared is kept.
LEMMA SparedStep ==
  LinkOK /\ ExecServerOK /\ Spared /\ ExecSteps /\ (attached /\ KilledPanics => KilledPanics') =>
    Spared'
<1> SUFFICES ASSUME LinkOK, ExecServerOK, Spared, ExecSteps, breaks' = 0, alive',
                    attached /\ KilledPanics => KilledPanics'
             PROVE  /\ attached' /\ saw' # "killed" /\ KilledPanics'
                    /\ ~Holds(events, Exit(1))' /\ ~Holds(down, Exit(1))'
  BY ExecLink DEF Spared, X!Killed, X!Exit, Exit
<1>1. breaks = 0 /\ alive /\ ~Break /\ ~Restarted
  BY BreaksKept
<1>2. /\ attached /\ saw # "killed" /\ KilledPanics /\ KilledPanics'
      /\ ~Holds(events, Exit(1)) /\ ~Holds(down, Exit(1))
  BY <1>1, ExecLink DEF Spared, X!Killed
<1>3. CASE ExecQuiet
  BY <1>2, <1>3 DEF ExecQuiet, linkVars
<1>4. CASE ExecLeaves
  BY <1>4 DEF ExecLeaves, Vanish
<1>5. CASE TakesOutput
  BY <1>2, <1>5, Receives DEF TakesOutput
<1>6. CASE TakesStatus
  BY <1>2, <1>6, Receives DEF TakesStatus
<1>7. CASE TakesEnd
  BY <1>2, <1>7, Receives DEF TakesEnd, ReceiveNone, linkVars
<1>8. CASE ExecLinkMoves
  <2>1. CASE Dispatch
    <3>1. /\ UNCHANGED attached /\ ~Holds(down, Exit(1))' /\ ~Holds(events, Exit(1))'
      BY <1>2, <2>1, Dispatches
    <3>. QED
      BY <1>2, <1>8, <3>1 DEF ExecLinkMoves
  <2>2. ~Reattach /\ ~ServerNotices
    BY <1>1, <1>2 DEF Reattach, ServerNotices
  <2>. QED
    BY <1>1, <1>8, <2>1, <2>2 DEF ExecLinkMoves
<1>9. CASE SendsOutput
  <2>1. PICK t \in X!Relays : Delivered(Data(sent[t] + 1))
    BY <1>9 DEF SendsOutput
  <2>2. Data(sent[t] + 1) # Exit(1) /\ Data(sent[t] + 1) \in Events
    BY Kinds, ExecSends
  <2>. QED
    BY <1>2, <1>9, <2>1, <2>2, Sends DEF SendsOutput
<1>10. CASE SendsStatus
  <2>1. PICK t \in X!Relays : /\ relay[t] = "exit"
                             /\ Delivered(Exit(IF child[t] = "killed" THEN 1 ELSE 0))
    BY <1>10 DEF SendsStatus
  <2>2. child[t] # "killed"
    BY <1>2, <2>1 DEF KilledPanics
  <2>3. Delivered(Exit(0)) /\ Exit(0) # Exit(1) /\ Exit(0) \in Events
    BY <2>1, <2>2, ExecSends DEF Exit
  <2>. QED
    BY <1>2, <1>10, <2>3, Sends DEF SendsStatus
<1>11. CASE SendsOther
  <2>1. Error # Exit(1) /\ Close # Exit(1)
    BY Kinds
  <2>. QED
    BY <1>2, <1>11, <2>1, ExecSends, Sends DEF SendsOther
<1>. QED
  BY <1>3, <1>4, <1>5, <1>6, <1>7, <1>8, <1>9, <1>10, <1>11 DEF ExecSteps

\* Ordered is kept.
LEMMA OrderedStep ==
  LinkOK /\ ExecServerOK /\ Lives /\ Reading /\ Counted /\ Spared /\ Ordered /\ ExecSteps /\ Onward
    => Ordered'
<1> SUFFICES ASSUME LinkOK, ExecServerOK, Lives, Reading, Counted, Spared, Ordered, ExecSteps,
                    Onward, Alone'
             PROVE  /\ (Reported \/ Exits(down))' => relay'[1] \in {"close", "done"}
                    /\ InOrder(events)' /\ InOrder(down)'
                    /\ saw' # "none" => Outputs(events)' = 0
                    /\ Reported' /\ registered' => Outputs(down)' = 0
                    /\ Watching' /\ registered' =>
                         shown' + Outputs(events)' + Outputs(down)' = sent'[1]
                    /\ Watching' /\ Reported' => shown' + Outputs(events)' = sent'[1]
                    /\ client' = "flush" /\ saw' # "none" => shown' = sent'[1]
  BY DEF Ordered
<1>1. Alone /\ breaks = 0 /\ relay[2] = "absent" /\ ~Break /\ ~Restarted
  BY BreaksKept DEF Alone, Onward
<1>2. /\ Reported \/ Exits(down) => relay[1] \in {"close", "done"}
      /\ InOrder(events) /\ InOrder(down)
      /\ saw # "none" => Outputs(events) = 0
      /\ Reported /\ registered => Outputs(down) = 0
      /\ Watching /\ registered => shown + Outputs(events) + Outputs(down) = sent[1]
      /\ Watching /\ Reported => shown + Outputs(events) = sent[1]
      /\ client = "flush" /\ saw # "none" => shown = sent[1]
  BY <1>1 DEF Ordered
<1>3. /\ Outputs(events) \in Nat /\ Outputs(down) \in Nat /\ sent[1] \in Nat /\ shown \in Nat
      /\ Outputs(events)' \in Nat /\ Outputs(down)' \in Nat
  <2>1. LinkOK'
    BY ExecLinkStep
  <2>. QED
    BY <2>1, QueueTypes, OutputsType DEF LinkOK, ExecServerOK, X!Relays, Counted
<1>4. relay[1] \in {"close", "done"} => relay'[1] \in {"close", "done"}
  BY DEF Onward, Alone
<1>5. reading[1] => relay[1] \notin {"close", "done"}
  BY DEF Reading, X!Relays
<1>6. ~reading[2]
  BY <1>1 DEF Reading, X!Relays
<1>. HIDE DEF Alone, Reading
<1>7. CASE ExecQuiet
  <2>1. UNCHANGED <<events, down, registered, saw, shown, sent>>
    BY <1>7 DEF ExecQuiet, linkVars
  <2>2. /\ (Reported' <=> Reported) /\ (Watching' => Watching)
        /\ (client' = "flush" => client = "flush")
    BY <1>7, <2>1 DEF ExecQuiet, Reported, Watching
  <2>. QED
    BY <1>2, <1>4, <2>1, <2>2
<1>8. CASE ExecLeaves
  <2>1. client' = "done" /\ saw' = "none" /\ registered' = FALSE /\ events' = <<>> /\ UNCHANGED down
    BY <1>8 DEF ExecLeaves, Vanish
  <2>2. ~Reported' /\ ~Watching'
    BY <2>1, EmptyQueue DEF Reported, Watching
  <2>. QED
    BY <1>2, <1>4, <2>1, <2>2, EmptyQueue
<1>9. CASE TakesOutput
  <2>1. PICK k \in 1..Pieces : Receive(Data(k))
    BY <1>9 DEF TakesOutput
  <2>2. /\ UNCHANGED <<down, registered, saw, sent>>
        /\ Outputs(events) = Outputs(events)' + 1
        /\ Exits(events) <=> Exits(events)'
        /\ InOrder(events)'
    BY <1>2, <1>9, <2>1, Receives, Kinds DEF TakesOutput
  <2>3. saw = "none" /\ (Reported' <=> Reported) /\ Watching
    BY <1>2, <1>3, <1>9, <2>2 DEF Reported, Watching, TakesOutput
  <2>4. Watching' => shown' = shown + 1
    BY <1>9 DEF TakesOutput, Watching
  <2>. QED
    BY <1>2, <1>3, <1>4, <2>2, <2>3, <2>4
<1>10. CASE TakesStatus
  <2>1. PICK e \in {Exit(0), Exit(1)} : Receive(e)
    BY <1>10 DEF TakesStatus
  <2>2. /\ UNCHANGED <<down, registered, client, shown, sent>>
        /\ Outputs(events) = Outputs(events)' /\ Outputs(events) = 0
        /\ Exits(events) /\ InOrder(events)'
    BY <1>2, <1>3, <1>10, <2>1, Receives, Kinds DEF TakesStatus
  <2>3. Reported /\ Watching /\ client' # "flush"
    BY <1>10, <2>2 DEF Reported, Watching, TakesStatus
  <2>. QED
    BY <1>2, <1>3, <1>4, <2>2, <2>3
<1>11. CASE TakesEnd
  <2>1. /\ UNCHANGED <<down, registered, saw, shown, sent>>
        /\ Outputs(events) = Outputs(events)' /\ (Exits(events) <=> Exits(events)')
        /\ InOrder(events)'
    <3>1. CASE Receive(Close)
      BY <1>2, <1>3, <1>11, <3>1, Receives, Kinds DEF TakesEnd
    <3>2. CASE ReceiveNone
      BY <1>2, <1>11, <3>2 DEF ReceiveNone, linkVars, TakesEnd
    <3>. QED
      BY <1>11, <3>1, <3>2 DEF TakesEnd
  <2>2. Watching /\ ~Watching' /\ (Reported' <=> Reported) /\ (saw # "none" => Reported)
    BY <1>11, <2>1 DEF Watching, Reported, TakesEnd
  <2>3. Watching /\ Reported /\ Outputs(events) = 0 => shown = sent[1]
    BY <1>2, <1>3
  <2>. QED
    BY <1>2, <1>4, <2>1, <2>2, <2>3
<1>12. CASE ExecLinkMoves
  <2>1. UNCHANGED <<client, saw, shown, sent>>
    BY <1>12 DEF ExecLinkMoves
  <2>2. CASE Dispatch
    <3>1. PICK e \in Events \cup {Reset} :
           /\ Outputs(down) = Outputs(down)' + IF e.kind = "Data" THEN 1 ELSE 0
           /\ Exits(down) <=> Exits(down)' \/ e.kind = "Exit"
           /\ InOrder(down) => InOrder(down)'
           /\ InOrder(down) /\ e.kind = "Exit" => Outputs(down) = 0
           /\ \/ ~registered' /\ UNCHANGED events
              \/ /\ registered /\ registered'
                 /\ Outputs(events)' = Outputs(events) + IF e.kind = "Data" THEN 1 ELSE 0
                 /\ Exits(events)' <=> Exits(events) \/ e.kind = "Exit"
                 /\ InOrder(events) /\ ~(Exits(events) /\ e.kind = "Data") => InOrder(events)'
      BY <2>2, Dispatches
    <3>2. CASE ~registered' /\ UNCHANGED events
      <4>1. (Reported' <=> Reported) /\ (Watching' <=> Watching)
        BY <2>1, <3>2 DEF Reported, Watching
      <4>. QED
        BY <1>2, <1>4, <2>1, <3>1, <3>2, <4>1
    <3>3. CASE /\ registered /\ registered'
               /\ Outputs(events)' = Outputs(events) + IF e.kind = "Data" THEN 1 ELSE 0
               /\ Exits(events)' <=> Exits(events) \/ e.kind = "Exit"
               /\ InOrder(events) /\ ~(Exits(events) /\ e.kind = "Data") => InOrder(events)'
      <4>1. (Reported' <=> Reported \/ e.kind = "Exit") /\ (Watching' <=> Watching)
        BY <2>1, <3>3 DEF Reported, Watching
      <4>2. (saw # "none" => Reported) /\ (Exits(events) => Reported)
        BY DEF Reported
      <4>3. e.kind = "Data" => ~Reported
        BY <1>2, <1>3, <3>1, <3>3
      <4>4. Reported' => Outputs(down)' = 0
        BY <1>2, <1>3, <3>1, <3>3, <4>1
      <4>5. Watching' => shown' + Outputs(events)' + Outputs(down)' = sent'[1]
        BY <1>2, <1>3, <2>1, <3>1, <3>3, <4>1
      <4>6. Watching' /\ Reported' => shown' + Outputs(events)' = sent'[1]
        BY <1>3, <2>1, <4>4, <4>5
      <4>. QED
        BY <1>2, <1>3, <1>4, <2>1, <3>1, <3>3, <4>1, <4>2, <4>3, <4>4, <4>5, <4>6
    <3>. QED
      BY <3>1, <3>2, <3>3
  <2>3. CASE ServerNotices
    <3>1. client = "done" /\ ~Watching'
      BY <2>1, <2>3 DEF ServerNotices, Lives, Watching
    <3>2. Outputs(down)' = 0 /\ InOrder(down)' /\ ~Exits(down)' /\ UNCHANGED <<registered, events>>
      BY <2>3, Emptied
    <3>3. Reported' <=> Reported
      BY <2>1, <3>2 DEF Reported
    <3>. QED
      BY <1>2, <1>4, <2>1, <3>1, <3>2, <3>3
  <2>4. ~Reattach
    BY <1>1 DEF Reattach, Spared
  <2>. QED
    BY <1>1, <1>12, <2>2, <2>3, <2>4 DEF ExecLinkMoves
<1>13. CASE SendsOutput
  <2>1. PICK t \in X!Relays : /\ reading[t] /\ Delivered(Data(sent[t] + 1))
                             /\ sent' = [sent EXCEPT ![t] = sent[t] + 1]
    BY <1>13 DEF SendsOutput
  <2>2. t = 1
    BY <1>6, <2>1 DEF X!Relays
  <2>3. /\ UNCHANGED <<events, registered, client, saw, shown, relay>>
        /\ sent'[1] = sent[1] + 1
        /\ Outputs(down)' = Outputs(down) + 1 /\ (Exits(down)' <=> Exits(down))
        /\ InOrder(down) /\ ~Exits(down) => InOrder(down)'
    BY <1>13, <2>1, <2>2, Sends, ExecSends, Kinds DEF SendsOutput, ExecServerOK, X!Relays
  <2>4. ~Reported /\ ~Exits(down) /\ saw = "none"
    BY <1>2, <1>5, <2>1, <2>2 DEF Reported
  <2>5. ~Reported' /\ (Watching' <=> Watching)
    BY <2>3, <2>4 DEF Reported, Watching
  <2>. QED
    BY <1>2, <1>3, <2>3, <2>4, <2>5
<1>14. CASE SendsStatus
  <2>1. PICK t \in X!Relays, e \in {Exit(0), Exit(1)} :
           relay[t] = "exit" /\ relay' = [relay EXCEPT ![t] = "close"] /\ Delivered(e)
    BY <1>14 DEF SendsStatus
  <2>2. relay'[1] = "close"
    BY <1>1, <2>1 DEF ExecServerOK, X!Relays
  <2>3. /\ UNCHANGED <<events, registered, client, saw, shown, sent>>
        /\ Outputs(down)' = Outputs(down) /\ InOrder(down)'
    BY <1>2, <1>3, <1>14, <2>1, Sends, ExecSends, Kinds DEF SendsStatus
  <2>4. (Reported' <=> Reported) /\ (Watching' <=> Watching)
    BY <2>3 DEF Reported, Watching
  <2>. QED
    BY <1>2, <2>2, <2>3, <2>4
<1>15. CASE SendsOther
  <2>1. PICK e \in {Error, Close} : Delivered(e)
    BY <1>15 DEF SendsOther
  <2>2. /\ UNCHANGED <<events, registered, client, saw, shown, sent>>
        /\ Outputs(down)' = Outputs(down) /\ (Exits(down)' <=> Exits(down)) /\ InOrder(down)'
    BY <1>2, <1>3, <1>15, <2>1, Sends, ExecSends, Kinds DEF SendsOther
  <2>3. (Reported' <=> Reported) /\ (Watching' <=> Watching)
    BY <2>2 DEF Reported, Watching
  <2>. QED
    BY <1>2, <1>4, <2>2, <2>3
<1>. QED
  BY <1>7, <1>8, <1>9, <1>10, <1>11, <1>12, <1>13, <1>14, <1>15 DEF ExecSteps

\* Together the parts are TypeOK, for what a client is shown is what was sent.
LEMMA ExecParts ==
  X!TypeOK <=> LinkOK /\ ExecClientOK /\ ExecServerOK /\ shown \in 0..(2 * Pieces)
  BY LinkParts, ExecLink DEF X!TypeOK, ExecClientOK, ExecServerOK

\* They are, of a client that was shown no more than was sent.
LEMMA ExecTyped ==
  X!ExecAssumption /\ LinkOK /\ ExecClientOK /\ ExecServerOK /\ Counted => X!TypeOK
<1> SUFFICES ASSUME X!ExecAssumption, LinkOK, ExecClientOK, ExecServerOK, Counted
             PROVE  X!TypeOK
  OBVIOUS
<1>1. shown \in 0..(2 * Pieces)
  <2>1. /\ Outputs(events) \in Nat /\ Outputs(down) \in Nat
        /\ sent[1] \in 0..Pieces /\ sent[2] \in 0..Pieces /\ Pieces \in Nat
    BY QueueTypes DEF ExecServerOK, X!Relays, X!ExecAssumption
  <2>. QED
    BY <2>1 DEF Counted
<1>. QED
  BY <1>1, ExecParts

\* Initially it holds.
LEMMA ExecInitial == X!Init => ExecInv
<1> SUFFICES ASSUME X!Init PROVE ExecInv
  OBVIOUS
<1>1. LinkOK /\ alive = TRUE /\ attached = TRUE /\ events = <<>> /\ down = <<>> /\ breaks = 0
  BY LinkInitial, ExecLink DEF X!Init, LinkInit, StreamInit
<1>2. ExecClientOK /\ Lives
  BY <1>1 DEF X!Init, ExecClientOK, Lives
<1>3. ExecServerOK /\ Reading
  <2>1. 0 \in 0..Pieces
    BY SessionsAssumption DEF X!ExecAssumption
  <2>. QED
    BY <2>1 DEF X!Init, ExecServerOK, Reading, X!None
<1>4. Counted
  BY <1>1, EmptyQueue DEF X!Init, Counted, X!Relays
<1>5. Spared
  BY <1>1, EmptyQueue DEF X!Init, Spared, KilledPanics
<1>6. Ordered
  BY <1>1, EmptyQueue DEF X!Init, Ordered, Reported, Watching, X!Relays
<1>. QED
  BY <1>1, <1>2, <1>3, <1>4, <1>5, <1>6, ExecTyped, SessionsAssumption DEF ExecInv

\* Every step keeps it.
LEMMA ExecInductive == ExecInv /\ [X!Next]_(X!vars) => ExecInv'
<1> SUFFICES ASSUME ExecInv, [X!Next]_(X!vars) PROVE ExecInv'
  OBVIOUS
<1>1. /\ X!ExecAssumption /\ LinkOK /\ ExecClientOK /\ ExecServerOK
      /\ Lives /\ Reading /\ Counted /\ Spared /\ Ordered
  BY ExecParts, SessionsAssumption DEF ExecInv
<1>2. ExecSteps /\ Onward
  BY <1>1, ExecStepsAre, OnwardStep
<1>3. LinkOK' /\ ExecClientOK' /\ ExecServerOK' /\ Lives' /\ Reading' /\ Counted'
  BY <1>1, <1>2, ExecLinkStep, ExecClientStep, ExecServerStep, LivesStep, ReadingStep, CountedStep
<1>4. Spared'
  BY <1>1, <1>2, SparedStep, KilledStep
<1>5. Ordered'
  BY <1>1, <1>2, OrderedStep
<1>6. X!TypeOK'
  <2>1. shown' \in 0..(2 * Pieces)
    <3>1. /\ Outputs(events)' \in Nat /\ Outputs(down)' \in Nat
          /\ sent'[1] \in 0..Pieces /\ sent'[2] \in 0..Pieces /\ Pieces \in Nat
      BY <1>1, <1>3, OutputsType DEF LinkOK, ExecServerOK, X!Relays, X!ExecAssumption
    <3>. QED
      BY <1>3, <3>1 DEF Counted
  <2>. QED
    BY <1>3, <2>1 DEF X!TypeOK, X!LinkTypeOK, LinkOK, Events, Exit, Close, Error, Reset, X!Exit,
                      X!Close, X!Error, X!Reset, ExecClientOK, ExecServerOK
<1>. QED
  BY <1>3, <1>4, <1>5, <1>6 DEF ExecInv

-----------------------------------------------------------------------------
(* A proxied connection up to its relay. *)

ProxyClientOK ==
  /\ client \in {"greet", "first", "second", "refuse", "reply", "request", "relay", "done"}
  /\ plain \in BOOLEAN /\ failed \in BOOLEAN /\ left \in BOOLEAN /\ late \in BOOLEAN

ProxyServerOK ==
  /\ writer \in H!Relays \cup {H!None}
  /\ target \in [H!Relays -> {"none", "up", "eof", "down"}]

\* The server has connected to a target.  Before a post has failed it has done so
\* exactly when the client was told, and nothing is served late.
Reached == \E u \in H!Relays : target[u] # "none"
Told ==
  /\ client \in {"reply", "request", "relay"} => Reached
  /\ client \in {"greet", "first", "second", "refuse"} /\ ~failed => ~Reached /\ ~late

ProxyInv == H!TypeOK /\ Told

\* The client registers its conn_id, or takes it back.
Registers == /\ registered' \in BOOLEAN /\ events' \in {events, <<>>}
             /\ UNCHANGED <<alive, session, attached, down, breaks>>

\* The link of a proxied handshake is the one of TransferLink.
LEMMA ProxyLink ==
  /\ H!linkVars = linkVars
  /\ H!Exit0 = Exit0 /\ H!Close = Close /\ H!Error = Error
  /\ \A k : H!Data(k) = Data(k) /\ H!Exit(k) = Exit(k)
  /\ (H!Vanish <=> Vanish) /\ (H!ReceiveNone <=> ReceiveNone)
  /\ (H!Dispatch <=> Dispatch) /\ (H!Break <=> Break)
  /\ (H!Reattach <=> Reattach) /\ (H!ServerNotices <=> ServerNotices)
  /\ (H!Restarted <=> Restarted) /\ (H!LinkInit <=> LinkInit)
  /\ (H!LinkTypeOK <=> LinkTypeOK)
  /\ \A e : (H!Receive(e) <=> Receive(e)) /\ (H!Delivered(e) <=> Delivered(e))
  BY DEF linkVars, Exit, Exit0, Close, Error, Reset, Data, StreamInit, Vanish, ReceiveNone,
         Dispatch, Break, Reattach, ServerNotices, Restarted, LinkInit, LinkTypeOK, Receive,
         Delivered, H!linkVars, H!Exit, H!Exit0, H!Close, H!Error, H!Reset, H!Data,
         H!StreamInit, H!Vanish, H!ReceiveNone, H!Dispatch, H!Break, H!Reattach,
         H!ServerNotices, H!Restarted, H!LinkInit, H!LinkTypeOK, H!Receive, H!Delivered

\* Nothing is sent but the Reset of a new session.
LEMMA ProxyLinks == [H!Next]_(H!vars) => (LinkMoves \/ Registers)
<1> SUFFICES ASSUME [H!Next]_(H!vars) PROVE (LinkMoves \/ Registers)
  OBVIOUS
<1> USE ProxyLink DEF LinkMoves, Registers, H!linkVars, linkVars, H!clientVars, H!serverVars
<1>1. CASE H!Accept
  BY <1>1 DEF H!Accept
<1>2. CASE H!Reject
  BY <1>2 DEF H!Reject, H!To
<1>3. CASE H!Connected
  BY <1>3 DEF H!Connected, H!Connecting, H!GoodAck, H!ServeConnect, H!Answered, H!To
<1>4. CASE H!Refused
  BY <1>4 DEF H!Refused, H!Connecting, H!To
<1>5. CASE H!ConnectFails
  BY <1>5 DEF H!ConnectFails, H!Connecting, H!ServeConnect
<1>6. CASE H!Refuse
  BY <1>6 DEF H!Refuse, H!AppGone, H!To, H!Unregister
<1>7. CASE H!Reply
  BY <1>7 DEF H!Reply, H!AppGone, H!To
<1>8. CASE H!Request
  BY <1>8 DEF H!Request, H!To
<1>9. CASE H!RelayOver
  BY <1>9 DEF H!RelayOver, H!Unregister
<1>10. CASE H!ServeLate
  BY <1>10 DEF H!ServeLate, H!ServeConnect
<1>11. CASE H!Link
  BY <1>11 DEF H!Link
<1>12. CASE H!Arrive
  BY <1>12 DEF H!Arrive
<1>13. CASE H!ClientEnds
  BY <1>13 DEF H!ClientEnds
<1>14. CASE H!Restart
  BY <1>14 DEF H!Restart
<1>15. ASSUME NEW t \in H!Relays, H!TargetEof(t) PROVE (LinkMoves \/ Registers)
  BY <1>15 DEF H!TargetEof, H!Ends
<1>16. ASSUME NEW t \in H!Relays, H!TargetFails(t) PROVE (LinkMoves \/ Registers)
  BY <1>16 DEF H!TargetFails, H!Ends
<1>17. ASSUME NEW t \in H!Relays, H!Watchdog(t) PROVE (LinkMoves \/ Registers)
  BY <1>17 DEF H!Watchdog, H!Ends
<1>18. CASE UNCHANGED H!vars
  BY <1>18 DEF H!vars
<1>. QED
  BY <1>1, <1>2, <1>3, <1>4, <1>5, <1>6, <1>7, <1>8, <1>9, <1>10, <1>11, <1>12, <1>13,
     <1>14, <1>15, <1>16, <1>17, <1>18
     DEF H!Next, H!Client

\* The client's part is kept.
LEMMA ProxyClientStep == ProxyClientOK /\ [H!Next]_(H!vars) => ProxyClientOK'
<1> SUFFICES ASSUME ProxyClientOK, [H!Next]_(H!vars) PROVE ProxyClientOK'
  OBVIOUS
<1> USE DEF ProxyClientOK, H!linkVars, linkVars, H!clientVars, H!serverVars
<1>1. CASE H!Accept
  BY <1>1 DEF H!Accept
<1>2. CASE H!Reject
  BY <1>2 DEF H!Reject, H!To
<1>3. CASE H!Connected
  BY <1>3 DEF H!Connected, H!Connecting, H!GoodAck, H!ServeConnect, H!Answered, H!To
<1>4. CASE H!Refused
  BY <1>4 DEF H!Refused, H!Connecting, H!To
<1>5. CASE H!ConnectFails
  BY <1>5 DEF H!ConnectFails, H!Connecting, H!ServeConnect
<1>6. CASE H!Refuse
  BY <1>6 DEF H!Refuse, H!AppGone, H!To, H!Unregister
<1>7. CASE H!Reply
  BY <1>7 DEF H!Reply, H!AppGone, H!To
<1>8. CASE H!Request
  BY <1>8 DEF H!Request, H!To
<1>9. CASE H!RelayOver
  BY <1>9 DEF H!RelayOver, H!Unregister
<1>10. CASE H!ServeLate
  BY <1>10 DEF H!ServeLate, H!ServeConnect
<1>11. CASE H!Link
  BY <1>11 DEF H!Link
<1>12. CASE H!Arrive
  BY <1>12 DEF H!Arrive
<1>13. CASE H!ClientEnds
  BY <1>13 DEF H!ClientEnds
<1>14. CASE H!Restart
  BY <1>14 DEF H!Restart
<1>15. ASSUME NEW t \in H!Relays, H!TargetEof(t) PROVE ProxyClientOK'
  BY <1>15 DEF H!TargetEof, H!Ends
<1>16. ASSUME NEW t \in H!Relays, H!TargetFails(t) PROVE ProxyClientOK'
  BY <1>16 DEF H!TargetFails, H!Ends
<1>17. ASSUME NEW t \in H!Relays, H!Watchdog(t) PROVE ProxyClientOK'
  BY <1>17 DEF H!Watchdog, H!Ends
<1>18. CASE UNCHANGED H!vars
  BY <1>18 DEF H!vars
<1>. QED
  BY <1>1, <1>2, <1>3, <1>4, <1>5, <1>6, <1>7, <1>8, <1>9, <1>10, <1>11, <1>12, <1>13,
     <1>14, <1>15, <1>16, <1>17, <1>18
     DEF H!Next, H!Client

\* The server's part is kept.
LEMMA ProxyServerStep == ProxyServerOK /\ [H!Next]_(H!vars) => ProxyServerOK'
<1> SUFFICES ASSUME ProxyServerOK, [H!Next]_(H!vars) PROVE ProxyServerOK'
  OBVIOUS
<1> USE DEF ProxyServerOK, H!Relays, H!None, H!linkVars, linkVars, H!clientVars, H!serverVars
<1>1. CASE H!Accept
  BY <1>1 DEF H!Accept
<1>2. CASE H!Reject
  BY <1>2 DEF H!Reject, H!To
<1>3. CASE H!Connected
  BY <1>3 DEF H!Connected, H!Connecting, H!GoodAck, H!ServeConnect, H!Answered, H!To
<1>4. CASE H!Refused
  BY <1>4 DEF H!Refused, H!Connecting, H!To
<1>5. CASE H!ConnectFails
  BY <1>5 DEF H!ConnectFails, H!Connecting, H!ServeConnect
<1>6. CASE H!Refuse
  BY <1>6 DEF H!Refuse, H!AppGone, H!To, H!Unregister
<1>7. CASE H!Reply
  BY <1>7 DEF H!Reply, H!AppGone, H!To
<1>8. CASE H!Request
  BY <1>8 DEF H!Request, H!To
<1>9. CASE H!RelayOver
  BY <1>9 DEF H!RelayOver, H!Unregister
<1>10. CASE H!ServeLate
  BY <1>10 DEF H!ServeLate, H!ServeConnect
<1>11. CASE H!Link
  BY <1>11 DEF H!Link
<1>12. CASE H!Arrive
  BY <1>12 DEF H!Arrive
<1>13. CASE H!ClientEnds
  BY <1>13 DEF H!ClientEnds
<1>14. CASE H!Restart
  BY <1>14 DEF H!Restart
<1>15. ASSUME NEW t \in H!Relays, H!TargetEof(t) PROVE ProxyServerOK'
  BY <1>15 DEF H!TargetEof, H!Ends
<1>16. ASSUME NEW t \in H!Relays, H!TargetFails(t) PROVE ProxyServerOK'
  BY <1>16 DEF H!TargetFails, H!Ends
<1>17. ASSUME NEW t \in H!Relays, H!Watchdog(t) PROVE ProxyServerOK'
  BY <1>17 DEF H!Watchdog, H!Ends
<1>18. CASE UNCHANGED H!vars
  BY <1>18 DEF H!vars
<1>. QED
  BY <1>1, <1>2, <1>3, <1>4, <1>5, <1>6, <1>7, <1>8, <1>9, <1>10, <1>11, <1>12, <1>13,
     <1>14, <1>15, <1>16, <1>17, <1>18
     DEF H!Next, H!Client

\* Told is kept.
LEMMA ToldStep == ProxyClientOK /\ ProxyServerOK /\ Told /\ [H!Next]_(H!vars) => Told'
<1> SUFFICES ASSUME ProxyClientOK, ProxyServerOK, Told, [H!Next]_(H!vars) PROVE Told'
  OBVIOUS
<1> USE DEF Told, Reached, ProxyClientOK, ProxyServerOK, H!Relays, H!None, H!linkVars,
            linkVars, H!clientVars, H!serverVars
<1>1. CASE H!Accept
  BY <1>1 DEF H!Accept
<1>2. CASE H!Reject
  BY <1>2 DEF H!Reject, H!To
<1>3. CASE H!Connected
  BY <1>3 DEF H!Connected, H!Connecting, H!GoodAck, H!ServeConnect, H!Answered, H!To
<1>4. CASE H!Refused
  BY <1>4 DEF H!Refused, H!Connecting, H!To
<1>5. CASE H!ConnectFails
  BY <1>5 DEF H!ConnectFails, H!Connecting, H!ServeConnect
<1>6. CASE H!Refuse
  BY <1>6 DEF H!Refuse, H!AppGone, H!To, H!Unregister
<1>7. CASE H!Reply
  BY <1>7 DEF H!Reply, H!AppGone, H!To
<1>8. CASE H!Request
  BY <1>8 DEF H!Request, H!To
<1>9. CASE H!RelayOver
  BY <1>9 DEF H!RelayOver, H!Unregister
<1>10. CASE H!ServeLate
  BY <1>10 DEF H!ServeLate, H!ServeConnect
<1>11. CASE H!Link
  BY <1>11 DEF H!Link
<1>12. CASE H!Arrive
  BY <1>12 DEF H!Arrive
<1>13. CASE H!ClientEnds
  BY <1>13 DEF H!ClientEnds
<1>14. CASE H!Restart
  BY <1>14 DEF H!Restart
<1>15. ASSUME NEW t \in H!Relays, H!TargetEof(t) PROVE Told'
  BY <1>15 DEF H!TargetEof, H!Ends
<1>16. ASSUME NEW t \in H!Relays, H!TargetFails(t) PROVE Told'
  BY <1>16 DEF H!TargetFails, H!Ends
<1>17. ASSUME NEW t \in H!Relays, H!Watchdog(t) PROVE Told'
  BY <1>17 DEF H!Watchdog, H!Ends
<1>18. CASE UNCHANGED H!vars
  BY <1>18 DEF H!vars
<1>. QED
  BY <1>1, <1>2, <1>3, <1>4, <1>5, <1>6, <1>7, <1>8, <1>9, <1>10, <1>11, <1>12, <1>13,
     <1>14, <1>15, <1>16, <1>17, <1>18
     DEF H!Next, H!Client

\* What the client registers is of its type.
LEMMA Registered == LinkOK /\ Registers => LinkOK'
<1> SUFFICES ASSUME LinkOK, Registers PROVE LinkOK'
  OBVIOUS
<1>1. events' \in Seq(Events) /\ Len(events') <= EventCap
  <2>1. <<>> \in Seq(Events) /\ Len(<<>>) <= EventCap
    BY LinkAssumption
  <2>. QED
    BY <2>1 DEF LinkOK, Registers
<1>. QED
  BY <1>1 DEF LinkOK, Registers

\* Initially it holds.
LEMMA ProxyInitial == H!Init => ProxyInv
<1> SUFFICES ASSUME H!Init PROVE ProxyInv
  OBVIOUS
<1>1. LinkOK
  <2>1. /\ alive = TRUE /\ session = TRUE /\ attached = TRUE /\ registered = FALSE
        /\ down = <<>> /\ events = <<>> /\ breaks = 0
    BY DEF H!Init, H!StreamInit
  <2>2. /\ down \in Seq(Events \cup {Reset}) /\ events \in Seq(Events)
        /\ Len(down) = 0 /\ Len(events) = 0
    BY <2>1
  <2>3. alive \in BOOLEAN /\ session \in BOOLEAN /\ attached \in BOOLEAN /\ registered \in BOOLEAN
    BY <2>1
  <2>4. Len(down) <= DownCap /\ Len(events) <= EventCap /\ breaks \in 0..MaxBreaks
    BY <2>1, <2>2, LinkAssumption
  <2>. QED
    BY <2>2, <2>3, <2>4 DEF LinkOK
<1>2. ProxyClientOK /\ ProxyServerOK /\ Told
  BY DEF H!Init, ProxyClientOK, ProxyServerOK, Told, Reached, H!None
<1>. QED
  BY <1>1, <1>2, LinkParts, ProxyLink DEF ProxyInv, H!TypeOK, ProxyClientOK, ProxyServerOK

\* Every step keeps it.
LEMMA ProxyInductive == ProxyInv /\ [H!Next]_(H!vars) => ProxyInv'
<1> SUFFICES ASSUME ProxyInv, [H!Next]_(H!vars) PROVE ProxyInv'
  OBVIOUS
<1>1. LinkOK /\ ProxyClientOK /\ ProxyServerOK /\ Told
  BY LinkParts, ProxyLink DEF ProxyInv, H!TypeOK, ProxyClientOK, ProxyServerOK
<1>2. LinkOK' /\ ProxyClientOK' /\ ProxyServerOK' /\ Told'
  BY <1>1, ProxyLinks, Moved, Registered, ProxyClientStep, ProxyServerStep, ToldStep
<1>3. H!TypeOK'
  BY <1>2 DEF H!TypeOK, H!LinkTypeOK, LinkOK, Events, Exit, Close, Error, Reset, H!Exit,
              H!Close, H!Error, H!Reset, ProxyClientOK, ProxyServerOK
<1>. QED
  BY <1>2, <1>3 DEF ProxyInv

-----------------------------------------------------------------------------
(* All of them. *)

SessionsInv ==
  /\ role \in {"pull", "push", "exec", "proxy"}
  /\ role = "pull"  => PullInv
  /\ role = "push"  => PushInv
  /\ role = "exec"  => ExecInv
  /\ role = "proxy" => ProxyInv

\* Initially it holds.
LEMMA Initial == Init => SessionsInv
  BY PullInitial, PushInitial, ExecInitial, ProxyInitial DEF Init, SessionsInv

\* Every step keeps it.
LEMMA Inductive == SessionsInv /\ [Next]_vars => SessionsInv'
<1> SUFFICES ASSUME SessionsInv, [Next]_vars PROVE SessionsInv'
  OBVIOUS
<1> USE DEF SessionsInv
<1>1. CASE OfPull(L!Next)
  BY <1>1, PullInductive DEF OfPull
<1>2. CASE OfPush(S!Next)
  BY <1>2, PushInductive DEF OfPush
<1>3. CASE OfExec(X!Next)
  BY <1>3, ExecInductive DEF OfExec
<1>4. CASE OfProxy(H!Next)
  BY <1>4, ProxyInductive DEF OfProxy
<1>5. CASE UNCHANGED vars
  <2>1. UNCHANGED <<role, L!vars, S!vars, X!vars, H!vars>>
    BY <1>5 DEF vars, linkVars, notProxy,
                L!vars, L!linkVars, L!clientVars, L!serverVars,
                S!vars, S!linkVars, S!clientVars, S!serverVars,
                X!vars, X!linkVars, X!clientVars, X!serverVars, X!taskVars,
                H!vars, H!linkVars, H!clientVars, H!serverVars
  <2>. QED
    BY <2>1, PullInductive, PushInductive, ExecInductive, ProxyInductive
<1>. QED
  BY <1>1, <1>2, <1>3, <1>4, <1>5 DEF Next

\* So it always holds.
LEMMA Invariance == Spec => []SessionsInv
  BY Initial, Inductive, PTL DEF Spec

\* Every variable of every session stays in its range, every channel within its
\* capacity.
THEOREM TypeCorrect == Spec => []TypeOK
<1>1. SessionsInv => TypeOK
  BY DEF SessionsInv, TypeOK, PullInv, PushInv, ExecInv, ProxyInv
<1>. QED
  BY Invariance, <1>1, PTL

\* pull_session returns Ok only for the whole archive, however many relays feed it
\* and wherever one of them fails, as long as no event is lost with its stream.
THEOREM OkIsWhole == Spec => []OkMeansWhole
<1>1. SessionsInv => OkMeansWhole
  BY DEF SessionsInv, OkMeansWhole, PullInv, PullJudged
<1>. QED
  BY Invariance, <1>1, PTL

\* push_session returns Ok only for an archive that relay_push has unpacked, however
\* often a message was served and whatever was lost.
THEOREM OkIsEarned == Spec => []OkMeansUnpacked
<1>1. SessionsInv => OkMeansUnpacked
  BY DEF SessionsInv, OkMeansUnpacked, S!OkMeansUnpacked, PushInv, PushVouched, Unpacked, Written
<1>. QED
  BY Invariance, <1>1, PTL

\* exec returns the status a command ended with by itself, never the one of a command
\* that relay_pty_connection has killed, as long as its stream has not been away.
THEOREM StatusIsEarned == Spec => []StatusIsOwn
<1>1. SessionsInv => StatusIsOwn
  <2> SUFFICES ASSUME SessionsInv, role = "exec", client = "flush", X!Result = "killed"
               PROVE  breaks > 0
    BY DEF StatusIsOwn, X!StatusIsOwn
  <2>1. alive \in BOOLEAN /\ breaks \in Nat /\ Lives /\ Spared
    BY ExecParts, LinkAssumption DEF SessionsInv, ExecInv, LinkOK
  <2>2. alive /\ saw = "killed"
    BY <2>1 DEF Lives, X!Result
  <2>. QED
    BY <2>1, <2>2 DEF Spared
<1>. QED
  BY Invariance, <1>1, PTL

\* exec that returns the status of the one command it started has shown all of the
\* output that relay_pty_connection sent.
THEOREM OutputIsShown == Spec => []OutputBeforeStatus
<1>1. SessionsInv => OutputBeforeStatus
  BY DEF SessionsInv, OutputBeforeStatus, X!OutputBeforeStatus, X!Result, ExecInv, Ordered, Alone
<1>. QED
  BY Invariance, <1>1, PTL

\* socks5.rs and http_proxy.rs tell the app that it is connected only when the server
\* is, and of a failure only when it is not, unless a post had failed.
THEOREM AnswersAreTrue == Spec => []AnswerIsTrue
<1>1. SessionsInv => AnswerIsTrue
  BY DEF SessionsInv, AnswerIsTrue, H!AnswerIsTrue, ProxyInv, Told, Reached
<1>. QED
  BY Invariance, <1>1, PTL
==============================================================================
