------------------------------ MODULE Sessions -------------------------------
(* The sessions a client may run over its tunnel, one of each kind: a pull, a   *)
(* push, a remote-exec and the handshake of a proxied connection.  They share   *)
(* the stream, TransferLink, and conn_ids on the server that work alike.        *)
EXTENDS TransferLink

CONSTANTS Pulled, ChunkCap, \* of pull: its chunks, what the compressor's channel holds
          Pushed, MaxLate,  \* of push: its chunks, the attempts served late
          Pieces            \* of exec

VARIABLES
  role,                               \* "pull", "push", "exec", "proxy"
  client, failed, fed, unpack, result, comp, relay, attempt, late, writer, \* of several
  made, taken,                                            \* of pull
  posted,                                                 \* of push
  input, saw, shown, lastTry, child, reading, sent, writing, \* of exec
  plain, left, target                                     \* of a handshake

L == INSTANCE Pull WITH Chunks <- Pulled
S == INSTANCE Push WITH Chunks <- Pushed
X == INSTANCE Exec
H == INSTANCE Handshake

ASSUME SessionsAssumption == L!PullAssumption /\ S!PushAssumption /\ X!ExecAssumption

\* What the others do not use.
notPull  == <<attempt, late, writer, posted, input, saw, shown, lastTry, child, reading, sent,
              writing, plain, left, target>>
notPush  == <<made, taken, input, saw, shown, lastTry, child, reading, sent, writing,
              plain, left, target>>
notExec  == <<failed, fed, unpack, result, comp, made, taken, posted, plain, left, target>>
notProxy == <<fed, unpack, result, comp, relay, attempt, made, taken, posted, input, saw, shown,
              lastTry, child, reading, sent, writing>>
vars == <<linkVars, role, client, failed, late, writer, target, plain, left, notProxy>>

NoPull  == made = 0 /\ taken = 0
NoPush  == posted = 0
NoExec  == /\ input = 0 /\ saw = 0 /\ shown = 0 /\ lastTry = 0
           /\ child = 0 /\ reading = 0 /\ sent = 0 /\ writing = 0
NoProxy == plain = 0 /\ left = 0 /\ target = 0
NoUnpacker == fed = 0 /\ unpack = 0 /\ result = 0 /\ comp = 0

Init ==
  \/ role = "pull"  /\ L!Init /\ NoPush /\ NoExec /\ NoProxy /\ attempt = 0 /\ late = 0 /\ writer = 0
  \/ role = "push"  /\ S!Init /\ NoPull /\ NoExec /\ NoProxy
  \/ role = "exec"  /\ X!Init /\ NoPull /\ NoPush /\ NoProxy /\ NoUnpacker /\ failed = 0
  \/ role = "proxy" /\ H!Init /\ NoPull /\ NoPush /\ NoExec /\ NoUnpacker /\ relay = 0 /\ attempt = 0

OfPull(A)  == role = "pull"  /\ A /\ UNCHANGED <<role, notPull>>
OfPush(A)  == role = "push"  /\ A /\ UNCHANGED <<role, notPush>>
OfExec(A)  == role = "exec"  /\ A /\ UNCHANGED <<role, notExec>>
OfProxy(A) == role = "proxy" /\ A /\ UNCHANGED <<role, notProxy>>

Next  == OfPull(L!Next)  \/ OfPush(S!Next)  \/ OfExec(X!Next)  \/ OfProxy(H!Next)
Works == OfPull(L!Works) \/ OfPush(S!Works) \/ OfExec(X!Works) \/ OfProxy(H!Works)

\* Tasks, threads and blocking I/O go on: see Works of each session.
Spec == Init /\ [][Next]_vars /\ WF_vars(Works)

-----------------------------------------------------------------------------
(* Properties: each is stated where its session is modelled. *)

\* Every variable stays in its range.
TypeOK == /\ role \in {"pull", "push", "exec", "proxy"}
          /\ role = "pull"  => L!TypeOK
          /\ role = "push"  => S!TypeOK
          /\ role = "exec"  => X!TypeOK
          /\ role = "proxy" => H!TypeOK

\* transfer.rs, pull_session: "a truncated-but-parseable archive isn't reported as
\* complete".
OkMeansWhole == role = "pull" => L!OkMeansWhole

\* transfer.rs, push_session: success is the server's word for an archive that is
\* unpacked.
OkMeansUnpacked == role = "push" => S!OkMeansUnpacked

\* wiki/architecture.md, "the child's exit code": never that of a command the relay
\* killed.
StatusIsOwn == role = "exec" => X!StatusIsOwn

\* server.rs, relay_pty_connection: the status is reported after the output.
OutputBeforeStatus == role = "exec" => X!OutputBeforeStatus

\* socks5.rs, http_proxy.rs: what the app is told of its target is so.
AnswerIsTrue == role = "proxy" => H!AnswerIsTrue

\* server.rs, relay_pull, relay_push, relay_pty_connection, relay_tcp_connection:
\* whatever happens to a client, no relay of the server holds its threads, its command
\* or its target for ever.
RelayEnds == []<>(/\ role = "pull"  => L!Quiet
                  /\ role = "push"  => S!Quiet
                  /\ role = "exec"  => X!Quiet
                  /\ role = "proxy" => H!Quiet)

\* transfer.rs, exec.rs, socks5.rs, http_proxy.rs: a session returns, but for the cases
\* in which there is nothing left to wake it, which its module names.
SessionReturns == []<>(/\ role = "pull"  => L!Returned
                       /\ role = "push"  => S!Returned
                       /\ role = "exec"  => X!Returned
                       /\ role = "proxy" => H!Returned)
==============================================================================
