# tunnix in TLA+

tunnix carries TCP connections over plain HTTP. A client process offers SOCKS5
and HTTP proxies; what the proxied application sends goes to the server in POST
requests (`/send/{sid}`), and what the target answers comes back as events of one
long-lived SSE stream (`GET /stream/{sid}`). Remote exec (a PTY) and file transfer
(`push`, `pull`) use the same two channels. Nothing in that arrangement is reliable:
a request can be lost, cut off or answered too late, a stream can end with events
in it, either process can restart, and dozens of tasks share one stream.

This directory models that machinery in TLA+, checks it with TLC and proves every safety
property that the passing runs check with TLAPS, for every value of the constants. All source locations are below `src/src/`
unless they say otherwise.

## 1. Inventory

| Component | State it keeps | Operations | Talks to |
|---|---|---|---|
| Client relay (`relay.rs`) | two tasks per connection, one-shots `upload_tx`, `stop_tx`, flags `failed`, `server_reported`, `response_closed`, the socket | `relay`: read loop, write loop, join, `SO_LINGER` | tunnel (POST, unregister), its mpsc channel, the app's socket |
| Client tunnel, events (`tunnel.rs`) | `response_channels` | `handle_sse_message`, `dispatch_event`, stalled-Close hand-off, register, unregister | every relay, the SSE loop |
| Client tunnel, reconnection (`tunnel.rs`) | `session_id`, `hot`, `reconnect_signal`, `sse_ready`, the failure count | `connect`, `sse_read_loop`, `send_message`, `try_post`, `send_connect` | server, watcher, relays |
| Server sessions and streams (`server.rs`) | `sessions` map, per session `sse_tx` and the maps of connections | `handle_stream`, `send_to_client`, `await_sse_dead` | client's GET, server relays |
| Server relay (`server.rs`) | read task, write task, writer channel, `aborts` Notify, watchdog ticks | `relay_tcp_connection`, the arms of `handle_send` | target's socket, the session |
| Hot reload (`reload.rs`, `main.rs`) | last mtime, last password, last headers, `hot`, `CliOverrides` | `config_watcher_server`, `config_watcher_client` | the file, the SSE loop (rotation) |
| File transfer (`transfer.rs`, `archive.rs`, `server.rs`) | archive threads on bounded channels, the push's entry in `tcp_writers` | `push`, `pull`, `relay_push`, `relay_pull` | session, streams, archive threads |
| Remote exec (`exec.rs`, `server.rs`) | the sender's queue, `saw_exit`; the terminal, the command, read task, write task, `client_gone`, entries in `tcp_writers` and `pty_resize` | `run`, `session`, `relay_pty_connection` | session, streams, the command |
| Proxy handshakes (`socks5.rs`, `http_proxy.rs`, `proxy.rs`) | the registration of a connection being set up | `dispatch`, greeting, Connect, reply, `relay` | tunnel, the app's socket |
| Wire format, encryption (`protocol.rs`, `crypto.rs`) | none but a nonce | encode, decode, derive | everything |
| Configuration, command line, HTTP front | none after start | parsing, routing, health | |

What makes each of them hard, and what being correct means there:

* **Client relay.** Close, a late Error, the end of the upload and the loss of the
  channel arrive in any order around the last chunk of a response. A wrong exit
  either truncates a response silently (a FIN where a reset was due), parks both
  halves on each other, or leaves the server streaming to nobody.
* **Events.** One full channel must not hold the stream that feeds every
  connection, yet a stalled Close must not be lost.
* **Reconnection.** Forced reconnects, rotations of the session id by the
  watcher, restarts of the server and connections being made interleave between
  any two awaits; a single `Notify` permit is what ties them together.
* **Streams.** `send_to_client` says "true" when a chunk is in a channel, not when
  it arrived. A POST whose answer is lost is posted again.
* **Server relay.** Abort, target EOF, target failure, a dead client and a blocked
  writer race; each must end both tasks, and Close may only be said of a complete
  response.
* **Hot reload.** The mtime remembered and the content read belong to different
  moments; flags must win over files.
* **File transfer.** Neither side may take a truncated archive for a whole one, and
  no thread may stay parked on a bounded channel.
* **Remote exec.** The command, both tasks of the terminal, a 2s drain and the watchdog end
  in any order, and an Exec that is posted again runs the command again. The client must
  return the status its command ended with, after all of its output, and leave no command.
* **Proxy handshakes.** The server connects, answers, and is perhaps not heard; the app may
  leave at any point. It must not be told what is not so, and nothing may be held for
  a connection that came to nothing.

`PROJECT.json` lists every hazard at its line with the properties that cover it.

## 2. Modules

| Module | Models | Composition |
|---|---|---|
| `ClientRelay` | one connection on the client: both tasks of `relay`, `dispatch_event`, the socket | implements `ByteStream` for the response |
| `ClientRelay_proofs` | its inductive invariant, five theorems and the refinement | extends `ClientRelay` |
| `ServerRelay` | one connection on the server: both tasks, `handle_send`, the stream, the watchdog | implements `ByteStream` for the response |
| `ServerRelay_proofs` | its inductive invariant, four theorems and the refinement | extends `ServerRelay` |
| `Tunnel` | both ends of the tunnel carrying one connection over a lossy network | implements `ByteStream` in each direction |
| `Tunnel_proofs` | its inductive invariant, four theorems and both refinements | extends `Tunnel` |
| `ByteStream` | abstract: what one direction of a TCP connection promises, its end included | |
| `Reconnect` | the SSE loop, callers of `send_message`, the tail of the client's watcher, servers that restart | |
| `Reconnect_proofs` | its inductive invariant and three theorems | extends `Reconnect` |
| `ConfigFile` | the polling both watchers share | extended by the next two |
| `ReloadServer`, `ReloadClient` | what each watcher makes of a file | |
| `Reload` | a running server or client whose file is edited | instantiates both |
| `Reload_proofs` | its inductive invariant and three theorems | extends `Reload` |
| `TransferLink` | the client's process, stream and event queue, as one session sees them | extended by the modules below |
| `Pull`, `Push` | one transfer each: client, relays, archive threads | |
| `Exec` | a remote command: client, sender, terminal relays and what they run | |
| `Handshake` | a proxied connection up to its relay: client, Connect, targets | |
| `Sessions` | a client's session of any of the four kinds | instantiates the four |
| `TransferLink_proofs` | lemmas: what the link does to a session's events | extends `TransferLink` |
| `Transfers_proofs` | the inductive invariants of pull and push | extends `Sessions`, `TransferLink_proofs` |
| `Sessions_proofs` | those of remote exec and of the handshakes, and six theorems | extends `Transfers_proofs` |

### How the state and the actions correspond to the code

A program counter variable stands at the `await` (or blocking call) a task is in;
one action runs from one await to the next, so that other tasks get exactly the
places to step in that the code gives them. A channel is a sequence or, where only
its length matters, a number. A one-shot is a variable with the value it carries,
`"none"` before it is resolved and `"dropped"` when its sender went away. Payloads
are counted (the relays), numbered (`Tunnel`) or reduced to "an archive's chunks in
order, or anything else" (`TransferLink!Given`).

* `ClientRelay`: `readPc`, `outcome`, `upSig` are the read task, its `Upload` and
  its one-shot; `LeaveUpload` is every way out of its loop with the detached Abort.
  `writePc`, `failed`, `serverReported`, `responseClosed`, `uploadEnded`, `stopSig`
  are the write task. Its select is `biased`, so `RecvUploadEnd` is enabled only
  when the channel is empty and open. `Finish` is the join, `unregister_connection`
  and the closing of the socket: a reset if `SO_LINGER 0` was set or if bytes of the
  app were still unread, a FIN otherwise. `dispatch` is the event
  `dispatch_event` waits with, `DispatchStall` its timeout, `handoff` the task that
  takes over a stalled Close. The server is reduced to the stream of events it can
  produce for one `conn_id`.
* `ServerRelay`: `rPc`/`rWhy` and `wPc`/`wWhy` are the two tasks, `send[t]` the
  attempt of `send_to_client` task `t` is in (its message, the attempts left and
  whether the channel it fetched is still the session's), `ticks[t]` the watchdog's
  `closed_secs`, `aborts` and `permit` the `Notify`, `posting` a Data handler that
  awaits a full writer channel outside the lock.
* `Tunnel`: an attempt of a POST is a pair <<message, number>> in `reqs` until it is
  served (Close is the message behind the last chunk); with `"post" \in lossy` it may still be served after the client has given
  it up. `pipe` is what the current stream holds; a new stream starts empty or with
  a Reset, and whatever the old one held is gone (`"stream" \in lossy`), or was
  empty. `writer`, `reading` and `writing` are how the server's relay ends while its server
  lives: `GiveUp` is an exhausted delivery, a dead stream or a failed target, `CloseFails`,
  `WriteFails`, `WriteWatchdog` and `ServeAbort` are the other ways its writer goes, after which
  `Serve` answers 200 and queues nothing. A task that is `"mute"` has ended by what it
  could not tell the client.
* `Reconnect`: `loop` is the SSE task between two of its awaits, `hotAt` and
  `sidAt` what this attempt captured, one after the other, as `sse_read_loop` does.
  `watcher` stands between the four steps of the watcher's tail: store, rotate,
  clear, notify. `permit` is the permit of `reconnect_signal`, drained after a GET.
* `ConfigFile`: `Poll`, `ReadFile` (after the debounce) and `RetryFile` are one
  round; edits, half-written files and removals fall between any two of them.
* `Pull`, `Push`, `Exec`, `Handshake`: everything the server keeps per relay is a function
  of `t` in `{1, 2}`, because a request whose answer was lost is posted once more and, if
  both are served, starts two relays for one `conn_id`; `writer` is the one that the
  `conn_id`'s entries belong to. `late` holds attempts that were given up and may still be
  served. In `Pull` and `Push` the archive threads are `comp` and `unpack`; each may
  fail at any point. The process of push, pull and remote-exec ends when the command
  returns (`Vanish`), the proxy's does not.
* `Exec`: `client` stands in the announcement, the select loop or the flush; `input` is the
  sender and the POST it is in, which waits (`"parked"`) where the relay's channel is
  full behind a write task that waits for the command. `relay[t]` is
  `relay_pty_connection` between two of its awaits: the loop (`"run"`), the drain
  (`"drain"`, or `"gone"` when the select has taken the write task's result), the two
  messages. `child`, `reading` and `writing` are the command and the two tasks.
* `Handshake`: one action per answer the app or the tunnel waits for. Of the two relays
  there is what releases a target: `RelayOver`, `TargetEof`, `TargetFails`, `Watchdog`.

## 3. What the runs check

`tlc -workers 2 -config <run>.cfg <module>.tla`. States are distinct states.

| Run | Bounds | States | Question |
|---|---|---|---|
| `ClientRelay` | channel 2, socket 1, 2 chunks up, 4 down | 158,692 | Can the app be misled, or anybody be left waiting? |
| `ServerRelay` | channels 1, 2 send attempts, grace 2, 2 chunks up, 1 from the target, 1 stream after the first | 172,741 | Does Close mean complete, and does every death release the target? |
| `Tunnel` | 2 up, 2 down, 1 stream after the first, 1 restart | 5,253,991 | Does what was acknowledged arrive, who hears of it if not, and what of a byte stream survives the network? |
| `Reconnect` | 1 connection, 2 servers, 2 attempts, 1 reload, 1 restart | 1,300,391 | Does the client stay attached to its own session? |
| `Reload` | 2 values of everything, 2 edits | 129,070 | Does the running program follow its file, and not past its flags? |
| `Sessions` | stream, queue and archive channel 1, 3 chunks pulled, 2 pushed, 2 late messages, 1 piece of output, 1 break or restart | 861,436 | Is what the client is told so, does the server let go, does the session return? |
| `ClientRelay_abort` | 1 up, 2 down | violated | finding 1 |
| `Tunnel_gap` | no restart | violated | finding 2 |
| `Reconnect_config` | 1 server, 1 reload | violated | finding 3 |
| `Reconnect_count` | 1 server, no reload | violated | finding 4 |
| `Reload_flags` | 1 edit | violated | finding 5 |
| `Exec_hang` | stream and queue 1, 1 piece of output, 1 break | violated | finding 6 |

**ClientRelay.** `CleanEofIsComplete`: an app whose reads end in a clean EOF has
read every chunk the server sent, and the server did say Close. `CleanExitStopsNobody`: the write half drops its stop one-shot only when the read half
is through, so a good upload is never turned into an Abort. `QueuedResponseSurvives`:
a failure of this client does not reset an app whose complete response is already
queued, which is what `biased` buys. `AbandonedStreamIsAborted`: a relay that ends on its
own failure under a live response has posted an Abort. `ResponseIsByteStream`: what the app reads is a
`ByteStream` of the server's Data events, closed once the relay is handed Close, with
`appSaw` as the end the app reads. The model counts chunks, so the mapping numbers those that were
read from 1: the refinement says that none is read that was not sent, none behind
the end, and EOF only when all were. `FailureTearsDown`,
`BrokenUploadNotParked`, `DispatchReturns`, `AppLearnsTheEnd`: nobody waits for ever,
but for an unanswered POST or an app that stopped reading. A channel of 2
behind a socket of 1 fills while a third chunk is in `write_all` and a fourth is held
by the dispatcher, hence 4 chunks down: every stall, drop and hand-off of a Close
happens with Data, Close and Error in the channel. Two chunks up let one be unread
when the relay ends and one be in a POST.

**ServerRelay.** `FinIsEarned` (the target sees FIN after exactly
what the client posted, and because the client said Close), `HalfCloseKeepsUpload`
(the target ending its output does not cost the client its upload),
`DiscardIsReported` (bytes answered 200 and thrown away are reported or the client
could not be reached). `ResponseIsByteStream`: what the client is sent is a `ByteStream` of the
target's output, in counts again, with Close as its end, which therefore follows the last
chunk of a target that ended cleanly ("Close means everything arrived"); an attempt that is repeated never
queues its chunk twice. The stream has no other end here: what follows an Error is the
client relay's affair. `AbortReleases`, `VanishedReleases`, `BothEndsRelease`: every
way a connection can die frees it. With channels of 1, a second chunk always finds
the first in the way; one reopened stream is enough for a delivery to be caught
between a channel it fetched and the one that replaced it; two ticks of grace are
enough to interrupt the count.

**Tunnel.** `AckedUploadArrives` holds on any network: what `send_message` returned Ok for was
queued for the target, or the server's relay has let go of its writer (it gave up, failed, was
aborted, or its server was replaced) and nothing behind it was queued either. A 200 alone says
less, as `handle_send` gives it for a chunk it throws away too (`server.rs:389-396`).
What becomes of a chunk between the queue and the target is `ServerRelay`'s `DiscardIsReported`.
`LostUploadIsNoticed`: whenever an acknowledged chunk was thrown away there, the client's relay is no longer open, or an Error
or a Reset is on its way to it. Two exemptions are the code's: a stream that is lost takes its
Error or Reset along, and a relay that could not deliver its last message within its attempts, or whose write
task was ended by its watchdog, has no other way to tell (`"mute"`; see section 5). A client's relay that is done
with both directions is not open: it no longer hears an Error that comes late, also in section 5. `DownInOrder` holds
on any network too. `UploadIsByteStream` and `DownloadIsByteStream` are refinements of
`ByteStream`, over numbered chunks and with their clean ends: the upload whenever the outcome of a
request is known to the client, the download whenever a stream loses nothing. The upload ends
with the client's Close, which takes the writer, and has broken off when the writer went
otherwise; the download breaks when the client's relay has failed without a Close. What a network may lose
is chosen in `Init`, so one run covers the four networks, each at its own promise. Two chunks
a side give order, gaps and duplicates; one more stream and one restart let each event and each
request be the one that is cut off, and the next meet its recovery. All six
properties are proved for any number of chunks, streams and restarts (section 4).

**Reconnect.** `LiveOnCurrentSession`: once the watcher is through with a rotation, no
acknowledged connection is left registered on a session whose stream nobody reads.
`FirstResetWipesNobody`: the readiness gate keeps the first Reset from dropping a
connection the server has. `StreamFollowsSession`: no rotation is lost, whatever the
permit was drained for. One connection suffices because callers share nothing but
the permit and `response_channels`; a second server is needed for a reload that moves
the client.

**Reload.** `OverridesWin` for the flags `CliOverrides` knows; `ChangeRotates`: nothing
the stream was opened with changes without a rotation; `Converges`: whatever broken
and missing files were seen on the way, the program ends up running the file it was
left with. Two edits put one before and one after any step of a round.

**Sessions.** What a session tells its user: `OkMeansWhole`, `OkMeansUnpacked` (success
means the whole archive, although a request may start two relays and every thread may
fail), `StatusIsOwn` (exec never returns the status of a command that the relay killed),
`OutputBeforeStatus` (nor its own status before the output that was sent), `AnswerIsTrue`
(an app is told "connected" only once the server is, and "failed" only if it is not, or a
post had failed). `RelayEnds`: no relay of the server holds its threads, its command or
its target for longer than the client, nor, unless its posts fail, than the
session. `SessionReturns`: the session ends, but for the waits that its module names in
`Returned`; each of these is a hazard with a note in `PROJECT.json`. One session at a time is
enough, because sessions share nothing but the stream; how a full queue holds up the others
is `ClientRelay`'s `DispatchReturns`. Three chunks let the compressor be parked on a full
channel when the client goes; two late messages let the announcement and a chunk of a
push both be served twice; with a stream and a queue of one, every second message finds
the first in the way; one break is enough for each message to be the one that is lost.

A property every change of the code would keep says nothing about the code: each
property of a passing run is violated once a single definition is replaced by one of
its faulty variants, which stand beside the definitions they replace. `PROJECT.json`
pairs them.

### Fairness

* Tasks and threads of a live process keep being scheduled and its timers fire: WF on
  each task's own steps. tokio gives that to tasks that do not block.
* A POST has no timeout (`tunnel.rs`: "http_client has no global timeout"), so
  `ClientRelay!Posting` has no fairness; `FailureTearsDown` says so in its conclusion,
  `AppLearnsTheEnd` in its hypothesis. A GET has one (`SSE_CONNECT_TIMEOUT`), hence
  WF on `Reconnect!Attempt`.
* An unbiased `select!` picks at random among its ready branches, so a branch that is
  ready again and again is taken: SF on `ServerRelay!ReadAborted`, whose permit waits
  while the target keeps sending.
* The app, the client as seen by the server, and the network promise nothing. The target
  reads or resets in `ReadingTargetSpec` only; see section 5 for one that does neither.
* `Sessions` and `Exec` have one condition, WF on `Works`, the steps that go on by themselves:
  tasks, timers, blocking I/O of the archive threads, and the server noticing a dead
  client's socket. None of those steps can be taken for ever (each message, chunk and relay is
  finite), so that one condition gives every one of them its turn. What is left out of
  `Works` may never happen: the command ends, reads its input, the user types, the app
  leaves, the target closes. A live client takes each event within
  `DISPATCH_STALL_TIMEOUT` (15s), less than the 30s `send_to_client` spends, so a
  live and attached stream does deliver.
* The watcher's interval keeps ticking: WF on `Reload!Watcher`.

`CHECK_DEADLOCK FALSE` stands in every configuration because every one of these systems
may stop: a connection ends, edits and restarts run out.

## 4. What is proved

Every invariant and every action property of the passing runs is a theorem, and so are the four
refinements; what is left to TLC is named at the end of this section.

`tlapm ClientRelay_proofs.tla` checks six theorems of `ClientRelay!Spec` for every
channel and socket capacity and any number of chunks (`ChanCapAssumption`,
`SockCapAssumption`, `MaxUpAssumption`, `MaxDownAssumption`; only the first is used, and
only for the type of the channel):

| Theorem | Statement |
|---|---|
| `TypeCorrect` | `Spec => []TypeOK` |
| `CleanEof` | `Spec => []CleanEofIsComplete` |
| `CleanExit` | `Spec => []CleanExitStopsNobody` |
| `AbandonedIsAborted` | `Spec => []AbandonedStreamIsAborted` |
| `QueuedResponse` | `Spec => []QueuedResponseSurvives` |
| `ResponseRefines` | `Spec => ResponseIsByteStream` |

None of the invariants but the first is inductive. `CleanEofIsComplete`, for one, says nothing of a
state in which a chunk was lost and the Close is still in the channel. The inductive
invariant `IInv` adds to `TypeOK`:

* `Signals`: what a one-shot or a flag says about the half that sent it: an `Eof` on
  `upSig` with no stop means a real EOF; a write half that knows of the upload's end and
  is still running knows of a good end; a FIN to the app is preceded by the Close.
* `Reports`: a failure of this client has its Abort on the way, and "reported by the
  server" was said by a server that had stopped streaming.
* `Counts`: where every chunk is. While the server streams there is only Data between it
  and the app, and none is missing unless the connection was dropped. A Close in the
  hands of the dispatcher, of the hand-off task or in the channel has the whole rest
  of the response before it, unless an Error is; nothing but an Error follows it.
* `Ahead`: what the app has, and what may still reach it from where a chunk stands, is no
  more than the server sent. `Counts` says so only while the connection is whole; a chunk the app
  is given after a failure has to have been sent too.

`TypeStep`, one lemma per strengthening and `Invariance` show that each is kept by every
action; the first four theorems follow from `IInv`, `QueuedResponse` needs one step more,
since it looks at the channel the moment the write half leaves. For `ResponseRefines` each step
is a step of `ByteStream` or leaves its variables alone: the app's read of a chunk is
`Receive` by `Ahead`, of a FIN `ReadEof` by `Counts` and `Signals`, of a reset `Break`.

`tlapm Tunnel_proofs.tla` checks six theorems of `Tunnel!Spec` for every number of
chunks, reopened streams and restarts (`BoundAssumption`), on each of the four networks:

| Theorem | Statement |
|---|---|
| `TypeCorrect` | `Spec => []TypeOK` |
| `DownloadInOrder` | `Spec => []DownInOrder` |
| `AcknowledgedArrives` | `Spec => []AckedUploadArrives` |
| `LossIsNoticed` | `Spec => []LostUploadIsNoticed` |
| `Upload`, `Download` | `Spec => UploadIsByteStream`, `Spec => DownloadIsByteStream` |

Its `IInv` is `TypeOK` and:

* `Calls`, `Lives`: `send_message` has acknowledged all but the message it is about, and Close
  comes behind all chunks; a server that was restarted has no relay for the connection, and its streams carry a
  Reset and nothing else. Without the second a chunk could follow a Reset.
* `Order`: the chunks on the stream are newer than those dispatched, and in order.
* `Whole`: on a network whose streams end empty, the chunks that were sent and not
  dispatched are exactly what is on the stream, in order, before the Close, up to the first
  Error (`Clear`): a write task that fails may report between any two of them. After a
  restart it only says that a response that was closed stays whole.
* `Kept`: until the writer is dropped, what was answered was queued; from then on nothing is
  queued, so that what was lost is lost with all that follows it.
* `Announced`: once the writer is dropped, on streams that lose nothing, the relay has failed, an
  Error is due or on the stream, the session is not there yet, its Reset is on the stream,
  or a task is mute. It speaks of the writer and not of a lost chunk, which is what a step can keep.
* `Once`: where outcomes are known, at most one attempt is on its way, it is the
  current one and was not served; as long as the writer is kept, the target has all chunks but
  that one. A retry could otherwise double the chunk.

Each has a lemma that every action keeps it (`TypeStep` to `OnceStep`). `Whole` shows that
a Data event the relay is given is the next one, which is `ByteStream`'s `Receive`;
`Once` shows the same of a POST that is served while the writer is kept, and that a Close that is served has all
chunks before it, which is `ReadEof`. The Close a client's relay is given has them too (`Whole`). `SendData`
and `Post` are `Send`, `SendClose` and `PostClose` are `Close`; what fails the client's relay is the
`Break` of the download, what drops the writer (`Released`) that of the upload, and every other step
leaves the abstract variables alone.

`tlapm ServerRelay_proofs.tla` checks five theorems of `ServerRelay!Spec` for every
capacity of the writer's and the stream's channel, every budget of attempts and of ticks,
and any number of chunks and streams (`CapAssumption`, `BudgetAssumption`):

| Theorem | Statement |
|---|---|
| `TypeCorrect` | `Spec => []TypeOK` |
| `HalfClose` | `Spec => []HalfCloseKeepsUpload` |
| `EarnedFin` | `Spec => []FinIsEarned` |
| `ReportedDiscard` | `Spec => []DiscardIsReported` |
| `ResponseRefines` | `Spec => ResponseIsByteStream` |

Its `IInv` is `TypeOK`, `HalfCloseKeepsUpload` and:

* `Deliveries`, `Reasons`: which task is about which message, and why a task has left its
  loop: a Close in its hands means the target's EOF, an Error a failure.
* `Down`: until the target fails, the chunks it sent are those handed to a stream, those in
  its socket and the one in the read task's hands. So none is missing at the Close. A
  failure loses some, so that from then on they are at most as many: a chunk that is queued late
  was sent all the same, which `ResponseRefines` needs.
* `Up`, `Writer`: the chunks the client posted are discarded, queued, being posted or
  written, in the target's buffer or read by it; and why the session may have dropped the
  writer. Together they make a FIN a whole upload.
* `Told`: a task that failed has sent its Error or exhausted its attempts.

`tlapm Reconnect_proofs.tla` checks three theorems of `Reconnect!Spec` for any
connections, servers, rotations, restarts and budget of attempts (`ConnAssumption`,
`BoundAssumption`): `TypeCorrect`, `RotationLeavesNobody` (`Spec => []LiveOnCurrentSession`)
and `FirstReset` (`Spec => []FirstResetWipesNobody`). Its `IInv` is `TypeOK` and:

* `Places`: the watcher's place says whether the session id is still behind the stored
  configuration; a loop that has not exited has failures left.
* `Live`: outside a rotation, a registered connection not only was accepted on the current
  session but has its POST on the way to it, which is what a step later makes it accepted.
* `Ready`: nothing is registered before the first readiness, and that has its Reset
  behind it.

`tlapm Reload_proofs.tla` checks `TypeCorrect`, `FlagsOverFile` (`Spec => []OverridesWin`)
and `ChangesRotate` (`Spec => ChangeRotates`) for any passwords, sites, headers, URLs and
number of edits (`EditsAssumption`, `CliAssumption`, `FileAssumption`: a file that is
missing or does not parse is no configuration). `OverridesWin` is inductive; that `sid` is
bounded by the edits is not, and `Rounds` says what the mtimes that a round compares
have to do with each other: a round is about a write newer than the last one acted on.

`tlapm Sessions_proofs.tla` checks six theorems of `Sessions!Spec`, for every number of chunks
and of pieces of output, every capacity, and any number of breaks and of late attempts
(`LinkAssumption` and `SessionsAssumption`):

| Theorem | Statement |
|---|---|
| `TypeCorrect` | `Spec => []TypeOK` |
| `OkIsWhole` | `Spec => []OkMeansWhole` |
| `OkIsEarned` | `Spec => []OkMeansUnpacked` |
| `StatusIsEarned` | `Spec => []StatusIsOwn` |
| `OutputIsShown` | `Spec => []OutputBeforeStatus` |
| `AnswersAreTrue` | `Spec => []AnswerIsTrue` |

The roles are instances, and the prover cannot cite a theorem of an instantiated module; so what is
proved of them is stated in modules that extend `Sessions`, in the instances' own terms (`L!`,
`S!`, `X!`, `H!`), and lemmas such as `PullLink` say that the link of each is the link of
`TransferLink`. Nothing but a relay's message puts an event on its way (`Moved`, `Sent`). The
invariants are

* of push, `Written` (an unpacker that succeeded had the archive) and `PushVouched` (an
  ExitStatus(0) on its way, or the Ok push returned on one, means that an unpacker
  succeeded);
* of pull, `Packed` (a compressor that succeeded made the archive), `PullVouched` (as long
  as nothing was lost, an ExitStatus(0) that may still be received has the last chunk before
  it, or the unpacker was given it) and `PullJudged` (what the client has made of it). Two
  relays that feed one unpacker do no harm: an unpacker that was given the last chunk has
  all of them in order or is spoilt, whichever relay that chunk came from;
* of exec, `Counted` (the output that was shown and that is still queued was sent), `Spared`
  (until a stream breaks or the client leaves, the only command that was killed is one whose
  relay is about to panic, and no status of one is on its way) and `Ordered` (the status of
  a command that was started once has all of its output ahead of it, and what was shown and what is
  queued add up to what was sent). `ExecSteps` sorts the many actions into the few things they
  can do to the stream, so that each of these is proved over nine cases and not over forty.
  The output in a queue is the cardinality of the positions that hold Data
  (`Outputs`); `Joined` and `Taken` say how appending and taking change it, which
  would otherwise need induction over sequences;
* of a handshake, `Told`: a client that may answer "connected" has a target that was reached;
  as long as no post of its has failed, one that was not told has none, and nothing it
  posted is still to be served.

Together the theorems go with a response from end to end. `ServerRelay` turns the target's
output into a `ByteStream` that ends only when it is complete; `Tunnel` carries a
`ByteStream` to the client, clean end included, where streams lose nothing (finding 2 is what happens
where they do); `ClientRelay` hands the app a `ByteStream` of the events it is given. The output of
each is the input of the next, chunk for chunk, its clean end the closing of the next. That the three
compose is this argument and not a theorem: the models do not share variables.

Model-checked only are the liveness properties `FailureTearsDown`, `BrokenUploadNotParked`,
`DispatchReturns`, `AppLearnsTheEnd`, `AbortReleases`, `VanishedReleases`, `BothEndsRelease`,
`StreamFollowsSession`, `Converges`, `RelayEnds` and `SessionReturns`, since the prover has no rule
for fairness or `ENABLED` here.

## 5. Findings

Each of the first six is the counterexample of a run.

1. `ClientRelay_abort`: after the app's EOF the read half has posted Close and is done
   (`relay.rs:126`). If the app then resets, nobody is left to post the Abort, and the server
   pulls the rest of the response for nobody, against
   `tests/relay_half_close.rs:409`.
2. `Tunnel_gap`: `send_to_client` is content once the chunk is in a channel
   (`server.rs:1190-1194`). A stream that is replaced takes it along, the relay goes
   on over the next stream, and its Close ends the shorter response cleanly, against the
   comment at `server.rs:669`.
3. `Reconnect_config`: `sse_read_loop` reads the configuration, then the session id
   (`tunnel.rs:211-212`); a reload that stores and rotates in between leaves the
   stream on the old headers and URL, and its permit is drained as answered.
4. `Reconnect_count`: a stream that delivered data and was then given up by a forced
   reconnect leaves by `continue` (`tunnel.rs:162-164`) before the count is reset.
5. `Reload_flags`: `CliOverrides` does not know `--server`; the first edit of the file moves
   the client to the file's server (`reload.rs:291-295`), against `README.md:247`.
6. `Exec_hang`: when the write task of a terminal ends first, the select of
   `relay_pty_connection` takes its result (`server.rs:1005`) and `write_task.await`
   (`server.rs:1043`) polls the same handle again, which panics. That is harmless to a client
   that has left, but the task also ends when input finds the terminal closed
   (`server.rs:973`): a key typed as the command exits. No ExitStatus, no Close, and the client
   waits for ever, against `wiki/architecture.md:122`.

Met while modelling, and not given a run:

* `relay.rs:292-293`: dropping a socket with unread bytes in it is a reset, so a complete
  response can still be lost to an app that was still sending (`Finish`, `upBuf > 0`).
* `relay.rs:28-29`: an Error that follows a clean end in both directions finds the relay
  gone; the failed upload is not reported.
* `relay.rs:135-139`: a failure cannot be acted on while the read half is in a POST, which
  has no timeout.
* `protocol.rs:86-91`: Abort releases the target "entirely", but a write to a target that
  does not read is not cancelled (`server.rs:790`).
* `server.rs:792-796`: a failed write is reported; a write task that its watchdog ends
  (`server.rs:781`) discards what was accepted without a report.
* `server.rs:708`, `:741-747`, `:802`: a relay that gives up spends one attempt on its Error, and a
  Close or an Error that exhausts its attempts is told by nothing. "Its Close is not coming either"
  (`:743-744`), but a client that was held up for longer than the budget comes back with its relay open and
  uploads into nothing, each chunk answered 200 (`server.rs:393-396`). `LostUploadIsNoticed` leaves it out
  as `"mute"`, and shows that there is no other way on streams that lose nothing.
* `tunnel.rs:395-404`: on a reconnect, a keepalive can signal readiness before the Reset is
  read; the retried Connect succeeds and the Reset then drops its registration. A Reset
  that is lost with its stream is not sent again.
* `reload.rs:58`, `:196`: an edit between the program's own load and the watcher's first look
  is never picked up; `reload.rs:275`: removing all headers is not seen as a change;
  `reload.rs:251-253`: the first edit rotates the session even if the password did not change
  (`wiki/architecture.md:92` says otherwise). `Converges` leaves the first two out
  (`missed`, `Matches`).
* `transfer.rs:166`: the Close of a failed pull is to stop the server's stream;
  no arm of `handle_send` does that for a pull, which goes on to its end.
* `transfer.rs:84-89`: `push` waits without a timeout. If its Close is not served and a
  chunk was lost or doubled, it waits for ever; so do both transfers when
  ExitStatus and Close are lost with their stream.
* `exec.rs:191-195`: once stdout is closed, `session` waits for its sender before it posts
  Close. If the sender's POST waits for a command that does not read, nothing ends (`Exec!Waits`).
* `server.rs:490`: an Exec that is served twice runs its command twice; the relay of the first
  kills it as its input is taken over, and either relay's end removes the entries of
  the other.
* `server.rs:1033`: output that a slow client or a reconnect holds up for more than 2s after
  the command's end is dropped, and the status is reported all the same (`Overdue`).
* `socks5.rs:137`, `:161`, `:180`, `http_proxy.rs:68`, `:80`, `:86-88`, `:142-147`: the `?`
  returns before `unregister_connection` or `relay`, so a target that was connected, and the
  registration, are kept until the target closes or the process ends
  (`Handshake!left`); so is the target of a Connect that was served although both its posts
  failed. `http_proxy.rs:142-147` is also a tunnel error that the app is not answered, against
  `wiki/architecture.md:74` ("On any tunnel error, sends `HTTP/1.1 502 Bad Gateway`"): `AnswerIsTrue`
  is about the answers that are given and does not cover it.
* `wiki/architecture.md:82-86` describes an earlier relay (unregister at EOF, stop at
  Close).

## 6. What is not modelled

* Of remote exec: the size of the window (`Resize`, `pty_resize`), raw mode, what is typed
  beyond one burst, `EOF` as input. Killing a command is taken to end it: `portable-pty`
  is outside the repository, and a command that survives its signal keeps the relay in
  `wait_handle`, as the code has no second one.
* Of the handshakes: addresses, headers and the text of the answers.
* Encryption and key derivation (arithmetic), bincode, base64 and the line buffer of the
  stream, the HTTP front, parsing and logging (no state that these properties are about).
  A message encrypted before a password change and retried after it is therefore outside
  the models.
* On a TCP relay: the Exit arm (the server sends none there), empty Data, panics of a
  task, a `set_zero_linger` that fails, reuse of a `conn_id` after 2^32 connections.
* tar and zstd: an archive is its chunks in order. That a prefix may happen to parse, which
  `transfer.rs` reckons with, is modelled for a pull, whose client does not trust its unpacker alone
  (`Pull!Unpack`); the unpacker of a push is assumed to take nothing but the whole archive for
  one (`Push!Unpack`), and the "whole" in `OkMeansUnpacked` rests on that.
* The composition of both relays over `Tunnel` in one model: each is checked
  against the environment the other one provides, stated at the head of its module.

## 7. Plan

Done: the relays, the tunnel, reconnection, hot reload, transfers, remote exec, handshakes; every
safety property of theirs proved; `ByteStream` implemented by the tunnel in both directions and by
both relays for the response. Next, in this order:

1. The uploads of both relays as byte streams, as `Tunnel` has them with their clean end: an app's
   EOF is passed on by Close, and a FIN to the target ends it.
2. Chunks numbered in the relays as they are in `Tunnel`, so that their refinements say which chunk is
   read and not only how many.

New runs replace narrower ones or share a combining module, as `Reload` does for
its two watchers and `Sessions` for its four sessions, so that the whole suite stays quick enough to be run on every
change.
