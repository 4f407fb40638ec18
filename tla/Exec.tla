-------------------------------- MODULE Exec ---------------------------------
(* tunnix remote-exec: exec.rs run / session on the client; the Exec arm of    *)
(* handle_send and relay_pty_connection on the server, with the pseudo-terminal *)
(* and the command.  Resizing changes no state that is modelled.               *)
(*                                                                             *)
(* What the command writes is Pieces chunks, what it is typed is one burst.  An *)
(* Exec that is posted twice runs the command twice.  Killing a command is     *)
(* taken to end it.                                                            *)
EXTENDS TransferLink

CONSTANT Pieces   \* of output

\* What Sessions assumes of them.
ExecAssumption == Pieces \in Nat \ {0}

Relays == {1, 2}
None   == 0
Own    == 0   \* the status of a command that ended by itself
Killed == 1   \* and of one that the relay has killed

VARIABLES
  (* the client *)
  client,     \* "announce", "session", "flush", "done"
  attempt,    \* of Exec: "first", "second"
  input,      \* the burst: "none", "posting", "parked" (the POST is), "sent"
  saw,        \* the exit status received: "none", "own", "killed"
  shown,      \* pieces of output written to stdout
  (* the network *)
  late,       \* a first Exec that failed may still be served
  (* the server *)
  writer,     \* the relay that the conn_id's entry in tcp_writers feeds
  relay,      \* "absent", "fail", "run", "gone", "drain", "exit", "close",
              \* "done", "panicked"
  lastTry,    \* client_gone: one attempt per message
  child,      \* "run", "quit", "killed"
  reading,    \* the read task runs
  sent,       \* pieces of output the read task has sent
  writing     \* the write task: "recv", "parked" (on the terminal), "ended"

clientVars == <<client, attempt, input, saw, shown>>
taskVars   == <<lastTry, child, reading, sent, writing>>
serverVars == <<writer, relay, taskVars>>
vars == <<linkVars, clientVars, late, serverVars>>

Init ==
  /\ LinkInit
  /\ client = "announce" /\ attempt = "first" /\ input = "none"
  /\ saw = "none" /\ shown = 0
  /\ late = FALSE
  /\ writer = None /\ relay = [t \in Relays |-> "absent"]
  /\ lastTry = [t \in Relays |-> FALSE] /\ child = [t \in Relays |-> "run"]
  /\ reading = [t \in Relays |-> FALSE] /\ sent = [t \in Relays |-> 0]
  /\ writing = [t \in Relays |-> "ended"]

-----------------------------------------------------------------------------
(* handle_send. *)

\* The terminal may turn out not to be usable asynchronously.
Spawned(t) ==
  /\ relay[t] = "absent" /\ \A u \in Relays : u < t => relay[u] # "absent"
  /\ \E ok \in BOOLEAN :
       /\ relay' = [relay EXCEPT ![t] = IF ok THEN "run" ELSE "fail"]
       /\ reading' = [reading EXCEPT ![t] = ok]
       /\ writing' = [writing EXCEPT ![t] = IF ok THEN "recv" ELSE "ended"]
  /\ UNCHANGED <<lastTry, child, sent>>

\* A second Exec takes the writer from the first.
ServeExec == session /\ \E t \in Relays : Spawned(t) /\ writer' = t

ServeClose == writer' = None

ServeLate ==
  /\ late /\ late' = FALSE
  /\ ServeExec
  /\ UNCHANGED <<linkVars, clientVars>>

-----------------------------------------------------------------------------
(* The client. *)

\* exec returns and the process ends, but not without a Close, served or not, whatever
\* has ended the session.
Gone == /\ Vanish
        /\ client' = "done" /\ attempt' = "first" /\ input' = "none"
        /\ saw' = "none" /\ shown' = 0
Leaves == /\ Gone
          /\ UNCHANGED writer \/ (session /\ ServeClose)

PostExec ==
  /\ alive /\ client = "announce"
  /\ ServeExec
  /\ client' = "session" /\ attempt' = "first"
  /\ UNCHANGED <<linkVars, input, saw, shown, late>>

\* An attempt fails: it was served, will be or not.
FirstExecFails ==
  /\ alive /\ client = "announce" /\ attempt = "first"
  /\ attempt' = "second"
  /\ \/ ServeExec /\ UNCHANGED late
     \/ late' \in BOOLEAN /\ UNCHANGED serverVars
  /\ UNCHANGED <<linkVars, client, input, saw, shown>>

\* The second was served or not; its Close may follow.
SecondExecFails ==
  /\ alive /\ client = "announce" /\ attempt = "second"
  /\ Gone
  /\ \/ ServeExec
     \/ session /\ ServeClose /\ (UNCHANGED <<relay, taskVars>> \/ \E t \in Relays : Spawned(t))
     \/ UNCHANGED serverVars
  /\ UNCHANGED late

\* Exec is disabled, or the command could not be spawned: the ACK says so.
Denied ==
  /\ alive /\ client = "announce" /\ session
  /\ Leaves
  /\ UNCHANGED <<late, relay, taskVars>>

\* The loop is left; nothing more is typed.
Flushes == client' = "flush" /\ input' = IF input \in {"posting", "parked"} THEN input ELSE "sent"

\* stdout may be closed.
Output ==
  /\ alive /\ client = "session"
  /\ \E k \in 1..Pieces : Receive(Data(k))
  /\ \/ shown' = shown + 1 /\ UNCHANGED <<client, input>>
     \/ Flushes /\ UNCHANGED shown
  /\ UNCHANGED <<attempt, saw, late, serverVars>>

Status ==
  /\ alive /\ client = "session"
  /\ \/ Receive(Exit(Own)) /\ saw' = "own"
     \/ Receive(Exit(Killed)) /\ saw' = "killed"
  /\ UNCHANGED <<client, attempt, input, shown, late, serverVars>>

\* Close, or the end of the events.
Ended ==
  /\ alive /\ client = "session"
  /\ Receive(Close) \/ ReceiveNone
  /\ Flushes
  /\ UNCHANGED <<attempt, saw, shown, late, serverVars>>

\* Nothing is flushed.
Bail ==
  /\ alive /\ client = "session"
  /\ events # <<>> /\ Head(events) = Error
  /\ Leaves
  /\ UNCHANGED <<late, relay, taskVars>>

Type ==
  /\ alive /\ client = "session" /\ input = "none"
  /\ input' = "posting"
  /\ UNCHANGED <<linkVars, client, attempt, saw, shown, late, serverVars>>

\* The burst at the terminal.  A command that does not read it leaves the write
\* task parked; one that has left its terminal ends the task with EIO.
Reaches(states) ==
  \E w \in states : /\ writer # None /\ writing[writer] = "recv"
                    /\ writing' = [writing EXCEPT ![writer] = w]

\* The sender's POST of Data, which waits where the relay's channel is full behind a
\* parked write task.
PostInput ==
  /\ alive /\ input = "posting" /\ session
  /\ \/ input' = "sent" /\ (UNCHANGED writing \/ Reaches({"parked", "ended"}))
     \/ input' = "parked" /\ Reaches({"parked"})
  /\ UNCHANGED <<linkVars, client, attempt, saw, shown, late,
                 writer, relay, lastTry, child, reading, sent>>

\* Both attempts fail, served or not: the sender gives up, and the session with it.
PostInputFails ==
  /\ alive /\ input = "posting"
  /\ UNCHANGED writing \/ (session /\ Reaches({"parked", "ended"}))
  /\ IF client = "session" THEN Leaves
     ELSE input' = "sent" /\ UNCHANGED <<linkVars, client, attempt, saw, shown, writer>>
  /\ UNCHANGED <<late, relay, lastTry, child, reading, sent>>

Unparked ==
  /\ alive /\ input = "parked" /\ \A t \in Relays : writing[t] # "parked"
  /\ input' = "sent"
  /\ UNCHANGED <<linkVars, client, attempt, saw, shown, late, serverVars>>

\* The sender's channel is dropped and its last POST waited for; exec returns Result.
Result == IF saw = "none" THEN "error" ELSE saw
Flushed ==
  /\ alive /\ client = "flush" /\ input \notin {"posting", "parked"}
  /\ Leaves
  /\ UNCHANGED <<late, relay, taskVars>>

ClientEnds == Gone /\ UNCHANGED <<late, serverVars>>

-----------------------------------------------------------------------------
(* The server: relay_pty_connection. *)

Running(t)   == relay[t] \notin {"absent", "done", "panicked"}
Moves(t, to) == relay' = [relay EXCEPT ![t] = to]
\* Nothing is kept of the tasks of a relay that has ended, but what was sent.
Ends(t, to)  == /\ Moves(t, to)
                /\ lastTry' = [lastTry EXCEPT ![t] = FALSE]
                /\ child' = [child EXCEPT ![t] = "run"]
                /\ reading' = [reading EXCEPT ![t] = FALSE]
                /\ writing' = [writing EXCEPT ![t] = "ended"]
                /\ UNCHANGED sent

\* send_to_client in vain; a single attempt also fails on a stream that is full.
Lost(t) == Undelivered \/ (lastTry[t] /\ Len(down) = DownCap /\ UNCHANGED linkVars)

\* The terminal could not be set up: the entries are removed and an Error is sent.
SetupFails(t) ==
  /\ relay[t] = "fail" /\ Ends(t, "done")
  /\ writer' = None
  /\ Delivered(Error) \/ Undelivered
  /\ UNCHANGED <<clientVars, late>>

\* The command ends by itself, or it reads its terminal again.
Quit(t) ==
  /\ relay[t] = "run" /\ child[t] = "run"
  /\ child' = [child EXCEPT ![t] = "quit"]
  /\ UNCHANGED <<linkVars, clientVars, late, writer, relay, lastTry, reading, sent, writing>>

Reads(t) ==
  /\ relay[t] = "run" /\ child[t] = "run" /\ writing[t] = "parked"
  /\ writing' = [writing EXCEPT ![t] = "recv"]
  /\ UNCHANGED <<linkVars, clientVars, late, writer, relay, lastTry, child, reading, sent>>

\* The read task.  A command that is killed may have written less.
SendOutput(t) ==
  /\ reading[t] /\ sent[t] < Pieces
  /\ \/ Delivered(Data(sent[t] + 1)) /\ sent' = [sent EXCEPT ![t] = @ + 1]
        /\ UNCHANGED reading
     \/ Undelivered /\ reading' = [reading EXCEPT ![t] = FALSE] /\ UNCHANGED sent
  /\ UNCHANGED <<clientVars, late, writer, relay, lastTry, child, writing>>

\* The select loop, after which a write task that is not parked has nothing to do.
LoopLeft(t, to) ==
  /\ relay[t] = "run" /\ Moves(t, to)
  /\ writing' = [writing EXCEPT ![t] = IF @ = "parked" THEN @ ELSE "ended"]
  /\ UNCHANGED <<linkVars, clientVars, late, writer, reading, sent>>
Kill(t) == child' = [child EXCEPT ![t] = IF @ = "run" THEN "killed" ELSE @]

ChildExits(t) ==
  child[t] = "quit" /\ LoopLeft(t, "drain") /\ UNCHANGED <<child, lastTry>>

\* The write task has ended, as its entry has gone or with EIO.
WriteEnded(t) == writing[t] = "ended" \/ (writing[t] = "recv" /\ writer # t)

\* Mutant: as if the handle could be awaited twice.
WriterGoneAndReports(t) ==
  /\ WriteEnded(t) /\ LoopLeft(t, "drain") /\ Kill(t)
  /\ lastTry' = [lastTry EXCEPT ![t] = TRUE]

\* This takes the write task's result: the relay's second await of the same handle
\* is going to panic.
WriterGone(t) ==
  WriteEnded(t) /\ LoopLeft(t, "gone") /\ Kill(t) /\ UNCHANGED lastTry

\* The stream was closed for SSE_DEAD_GRACE.
Watchdog(t) ==
  /\ ~attached /\ LoopLeft(t, "drain") /\ Kill(t)
  /\ lastTry' = [lastTry EXCEPT ![t] = TRUE]

\* Mutant: the read task is not waited for.
DrainedAtOnce(t) ==
  /\ relay[t] = "drain" /\ Moves(t, "exit")
  /\ writing' = [writing EXCEPT ![t] = "ended"]
  /\ UNCHANGED <<linkVars, clientVars, late, writer, lastTry, child, reading, sent>>

\* The read task has read the end of the output, which a killed command may have cut
\* short, or has given up on the stream.  Or else it is aborted after 2s: that leaves
\* time for the output of the command unless the stream is full or away, and with all
\* of it sent another process may hold the terminal open.  The write task is aborted
\* and awaited.
Overdue(t) == child[t] = "quit" /\ sent[t] < Pieces => ~attached \/ Len(down) = DownCap
Drained(t) ==
  /\ ~reading[t] \/ Overdue(t)
  /\ \/ relay[t] = "drain" /\ Moves(t, "exit")
        /\ reading' = [reading EXCEPT ![t] = FALSE]
        /\ writing' = [writing EXCEPT ![t] = "ended"]
        /\ UNCHANGED <<lastTry, child, sent>>
     \/ relay[t] = "gone" /\ Ends(t, "panicked")
  /\ UNCHANGED <<linkVars, clientVars, late, writer>>

\* ExitStatus, then Close: the first failure is the last message.  The conn_id's
\* entries go with the relay, whosever they are.
CleansUp(t) == Ends(t, "done") /\ writer' = None

SendStatus(t) ==
  /\ relay[t] = "exit"
  /\ \/ /\ Delivered(Exit(IF child[t] = "killed" THEN Killed ELSE Own))
        /\ Moves(t, "close") /\ UNCHANGED <<writer, taskVars>>
     \/ Lost(t) /\ CleansUp(t)
  /\ UNCHANGED <<clientVars, late>>

SendClose(t) ==
  /\ relay[t] = "close" /\ CleansUp(t)
  /\ Delivered(Close) \/ Lost(t)
  /\ UNCHANGED <<clientVars, late>>

\* The terminals go with the server, and the commands with them.
Restart ==
  /\ Restarted
  /\ relay' = [t \in Relays |-> IF Running(t) THEN "done" ELSE relay[t]]
  /\ writer' = None
  /\ lastTry' = [t \in Relays |-> FALSE] /\ child' = [t \in Relays |-> "run"]
  /\ reading' = [t \in Relays |-> FALSE] /\ writing' = [t \in Relays |-> "ended"]
  /\ input' = IF input = "parked" THEN "posting" ELSE input
  /\ UNCHANGED <<client, attempt, saw, shown, late, sent>>

-----------------------------------------------------------------------------
Client == PostExec \/ FirstExecFails \/ SecondExecFails \/ Denied \/ Output \/ Status \/ Ended \/ Bail
          \/ PostInput \/ PostInputFails \/ Unparked \/ Flushed
Relay(t) == SetupFails(t) \/ SendOutput(t) \/ ChildExits(t) \/ WriterGone(t) \/ Watchdog(t) \/ Drained(t)
            \/ SendStatus(t) \/ SendClose(t)
Link == (Dispatch \/ Break \/ Reattach \/ ServerNotices)
        /\ UNCHANGED <<clientVars, late, serverVars>>

Next == Client \/ Type \/ ServeLate \/ (\E t \in Relays : Relay(t) \/ Quit(t) \/ Reads(t))
        \/ Link \/ ClientEnds \/ Restart

\* What goes on by itself, which none of it can for ever: the command, the one who
\* types and the network are free to do nothing more.
Works == Client \/ (\E t \in Relays : Relay(t))
         \/ ((Dispatch \/ Reattach \/ ServerNotices)
              /\ UNCHANGED <<clientVars, late, serverVars>>)

Spec     == Init /\ [][Next]_vars
FairSpec == Spec /\ WF_vars(Works)

-----------------------------------------------------------------------------
(* Properties. *)

\* Every variable stays in its range.
TypeOK ==
  /\ LinkTypeOK
  /\ client \in {"announce", "session", "flush", "done"}
  /\ attempt \in {"first", "second"} /\ shown \in 0..(2 * Pieces) /\ late \in BOOLEAN
  /\ input \in {"none", "posting", "parked", "sent"}
  /\ saw \in {"none", "own", "killed"}
  /\ writer \in Relays \cup {None}
  /\ relay \in [Relays -> {"absent", "fail", "run", "gone", "drain", "exit", "close",
                           "done", "panicked"}]
  /\ lastTry \in [Relays -> BOOLEAN] /\ child \in [Relays -> {"run", "quit", "killed"}]
  /\ reading \in [Relays -> BOOLEAN] /\ sent \in [Relays -> 0..Pieces]
  /\ writing \in [Relays -> {"recv", "parked", "ended"}]

\* wiki/architecture.md, "the child's exit code": the status exec returns is one the
\* command ended with, and not the one of a command that the relay has killed, however
\* often Exec was served, unless the stream was away for SSE_DEAD_GRACE.
StatusIsOwn == client = "flush" /\ Result = "killed" => breaks > 0

\* relay_pty_connection, "Report exit code, then close": exec that returns the status
\* of the one command it started has shown all of the output that was sent.
OutputBeforeStatus ==
  client = "flush" /\ Result = "own" /\ relay[2] = "absent" /\ breaks = 0 => shown = sent[1]

\* exec.rs: "the server-side relay will then kill the child": no command outlives its
\* client.
Quiet == alive \/ \A t \in Relays : ~Running(t)

\* exec has returned, unless its command runs, an event was lost with its stream, or
\* the flush waits for input that nobody reads.
Waits == \/ breaks > 0 \/ (client = "flush" /\ input = "parked")
         \/ client = "session" /\ \E t \in Relays : relay[t] = "run" /\ child[t] = "run"
\* A relay that panicked ends nothing either.
Returned == client = "done" \/ Waits \/ \E t \in Relays : relay[t] = "panicked"

\* wiki/architecture.md: "the child's exit code is returned as `ExitStatus` just before
\* `Close`": exec returns when its command has ended.
StatusIsReturned == []<>(client = "done" \/ Waits)
==============================================================================
