------------------------------ MODULE Reconnect ------------------------------
(****************************************************************************)
(* How a client stays attached to its session: the loop of tunnel.rs        *)
(* Tunnel::connect, one attempt of it in sse_read_loop, the callers of      *)
(* send_message that force a reconnect, and the tail of reload.rs           *)
(* config_watcher_client, which replaces the configuration and rotates the  *)
(* session id, against servers that create sessions and restart.            *)
(*                                                                          *)
(* A caller of send_message is a proxied connection posting its Connect.    *)
(****************************************************************************)
EXTENDS Naturals

CONSTANTS Conns,        \* proxied connections
          Urls,         \* servers a configuration may name
          FirstUrl,     \* and the one the client starts with
          MaxAttempts,  \* client.max_reconnect_attempts; 0 is forever
          MaxReloads,   \* bound: configurations stored after the first
          MaxRestarts   \* bound: server restarts

ASSUME ConnAssumption  == Conns # {} /\ FirstUrl \in Urls
ASSUME BoundAssumption == /\ MaxAttempts \in Nat
                          /\ MaxReloads \in Nat /\ MaxRestarts \in Nat

VARIABLES
  (* the configuration and its watcher *)
  hot,        \* HotClientConfig: a version and the server it names
  sid,        \* session_id, numbered by rotation
  watcher,    \* "idle", "stored", "rotated", "cleared": between its awaits
  permit,     \* the permit of reconnect_signal
  (* the SSE task *)
  loop,       \* "load", "sid", "get", "drain", "read", "sleep", "exited"
  hotAt, sidAt, \* what the current attempt captured
  first,      \* ~is_reconnect
  progress,   \* this attempt has yielded a byte
  signaled,   \* and has fired sse_ready
  failures,
  connected,  \* Tunnel::connect: "no", then "ready" or "timeout"
  (* the callers *)
  pc,         \* "new", "registered", "post1", "served1", "wait", "post2",
              \* "served2", "acked", "failed"
  target,     \* the server and session its POST goes to
  chans,      \* response_channels
  (* the servers *)
  sessions,   \* sessions that exist: server, id, and the process they live in
  boot,       \* processes started
  body,       \* the response of the current GET: its session, and a Reset
  accepted,   \* the session that has each connection
  (* for the properties *)
  dry,        \* attempts that ended since the stream last yielded a byte
  wiped       \* connections dropped by the Reset of the session that has them

watchVars  == <<hot, sid, watcher>>
loopVars   == <<loop, hotAt, sidAt, first, progress, signaled, failures, dry>>
callVars   == <<pc, target>>
serverVars == <<sessions, boot, accepted>>
vars == <<watchVars, permit, loopVars, connected, callVars, chans, serverVars,
          body, wiped>>

NoTarget  == [url |-> "none", sid |-> 0]
NoSession == [url |-> "none", sid |-> 0, boot |-> 0]
NoBody    == [session |-> NoSession, reset |-> FALSE]

Init ==
  /\ hot = [ver |-> 0, url |-> FirstUrl] /\ sid = 0 /\ watcher = "idle"
  /\ permit = FALSE
  /\ loop = "load" /\ hotAt = hot /\ sidAt = 0 /\ first = TRUE
  /\ progress = FALSE /\ signaled = FALSE /\ failures = 0 /\ dry = 0
  /\ connected = "no"
  /\ pc = [c \in Conns |-> "new"]
  /\ target = [c \in Conns |-> NoTarget] /\ chans = {}
  /\ sessions = {} /\ boot = 0 /\ body = NoBody
  /\ accepted = [c \in Conns |-> NoSession] /\ wiped = {}

-----------------------------------------------------------------------------
(* One attempt: sse_read_loop. *)

LoadHot ==
  /\ loop = "load"
  /\ hotAt' = hot /\ progress' = FALSE /\ signaled' = FALSE
  /\ loop' = "sid"
  /\ UNCHANGED <<watchVars, permit, sidAt, first, failures, dry, connected,
                 callVars, chans, serverVars, body, wiped>>

\* The session id is read under its lock, after the configuration.
ReadSid ==
  /\ loop = "sid"
  /\ sidAt' = sid
  /\ loop' = "get"
  /\ UNCHANGED <<watchVars, permit, hotAt, first, progress, signaled, failures,
                 dry, connected, callVars, chans, serverVars, body, wiped>>

SessionOf(url, id) == {s \in sessions : s.url = url /\ s.sid = id}

\* server.rs handle_stream: a session that did not exist starts with a Reset.
ServeGet ==
  /\ loop = "get" /\ body = NoBody
  /\ IF SessionOf(hotAt.url, sidAt) = {}
     THEN LET s == [url |-> hotAt.url, sid |-> sidAt, boot |-> boot]
          IN sessions' = sessions \cup {s} /\ body' = [session |-> s, reset |-> TRUE]
     ELSE /\ \E s \in SessionOf(hotAt.url, sidAt) :
               body' = [session |-> s, reset |-> FALSE]
          /\ UNCHANGED sessions
  /\ UNCHANGED <<watchVars, permit, loopVars, connected, callVars, chans, boot,
                 accepted, wiped>>

GetOk ==
  /\ loop = "get" /\ body # NoBody
  /\ loop' = "drain"
  /\ UNCHANGED <<watchVars, permit, hotAt, sidAt, first, progress, signaled,
                 failures, dry, connected, callVars, chans, serverVars, body,
                 wiped>>

\* Counted no further than a property looks.
Dry == IF progress \/ dry > MaxAttempts THEN dry ELSE dry + 1

\* Mutant: the budget is off by one.
EndAttemptLate ==
  /\ failures' = IF progress THEN 0 ELSE failures + 1
  /\ dry' = Dry
  /\ loop' = IF MaxAttempts # 0 /\ failures' > MaxAttempts THEN "exited" ELSE "sleep"
  /\ first' = FALSE /\ body' = NoBody

\* The attempt ended and was not forced to: it counts, and the client gives up
\* or waits.
EndAttempt ==
  /\ failures' = IF progress THEN 0 ELSE failures + 1
  /\ dry' = Dry
  /\ loop' = IF MaxAttempts # 0 /\ failures' >= MaxAttempts THEN "exited" ELSE "sleep"
  /\ first' = FALSE /\ body' = NoBody

\* "forced reconnect": it neither counts nor waits.
ForceReconnect ==
  /\ loop' = "load"
  /\ dry' = Dry
  /\ first' = FALSE /\ body' = NoBody
  /\ UNCHANGED failures

\* An error, a status, or SSE_CONNECT_TIMEOUT; the server may have served it.
GetFails ==
  /\ loop = "get"
  /\ EndAttempt
  /\ UNCHANGED <<watchVars, permit, hotAt, sidAt, progress, signaled, connected,
                 callVars, chans, serverVars, wiped>>

\* Mutant: a permit that belongs to a new session id is consumed too.
DrainAlways ==
  /\ loop = "drain"
  /\ permit' = FALSE /\ loop' = "read"
  /\ UNCHANGED <<watchVars, hotAt, sidAt, first, progress, signaled, failures,
                 dry, connected, callVars, chans, serverVars, body, wiped>>

\* A permit stored while the stream was being opened has had its effect; a new
\* session id means that one is on its way which must not be lost.
Drain ==
  /\ loop = "drain"
  /\ IF sid = sidAt
     THEN permit' = FALSE /\ loop' = "read" /\ UNCHANGED <<first, failures, dry, body>>
     ELSE ForceReconnect /\ UNCHANGED permit
  /\ UNCHANGED <<watchVars, hotAt, sidAt, progress, signaled, connected,
                 callVars, chans, serverVars, wiped>>

\* sse_ready: Tunnel::connect goes on.  The callers it wakes do not depend on it:
\* they post again after RECONNECT_WAIT all the same.
SignalReady ==
  /\ signaled' = TRUE
  /\ connected' = IF connected = "no" THEN "ready" ELSE connected

\* Mutant: the first stream is called ready on any event.
KeepaliveReady ==
  /\ loop = "read"
  /\ progress' = TRUE /\ dry' = 0
  /\ IF signaled THEN UNCHANGED <<signaled, connected>> ELSE SignalReady
  /\ UNCHANGED <<watchVars, permit, loop, hotAt, sidAt, first, failures,
                 callVars, chans, serverVars, body, wiped>>

\* A comment, or on a reconnect any event: handle_stream's select may put one in
\* front of the Reset.
Keepalive ==
  /\ loop = "read"
  /\ progress' = TRUE /\ dry' = 0
  /\ IF first \/ signaled THEN UNCHANGED <<signaled, connected>>
                          ELSE SignalReady
  /\ UNCHANGED <<watchVars, permit, loop, hotAt, sidAt, first, failures,
                 callVars, chans, serverVars, body, wiped>>

\* handle_sse_message clears every channel before readiness is signalled.
TakeReset ==
  /\ loop = "read" /\ body.reset
  /\ body' = [body EXCEPT !.reset = FALSE]
  /\ chans' = {}
  /\ wiped' = wiped \cup {c \in chans : accepted[c] = body.session}
  /\ progress' = TRUE /\ dry' = 0
  /\ IF signaled THEN UNCHANGED <<signaled, connected>> ELSE SignalReady
  /\ UNCHANGED <<watchVars, permit, loop, hotAt, sidAt, first, failures,
                 callVars, serverVars>>

\* The body ended, broke, or was silent for SSE_READ_TIMEOUT.
StreamEnds ==
  /\ loop = "read"
  /\ EndAttempt
  /\ UNCHANGED <<watchVars, permit, hotAt, sidAt, progress, signaled, connected,
                 callVars, chans, serverVars, wiped>>

Forced ==
  /\ loop = "read" /\ permit
  /\ permit' = FALSE
  /\ ForceReconnect
  /\ UNCHANGED <<watchVars, hotAt, sidAt, progress, signaled, connected,
                 callVars, chans, serverVars, wiped>>

Wake ==
  /\ loop = "sleep"
  /\ loop' = "load"
  /\ UNCHANGED <<watchVars, permit, hotAt, sidAt, first, progress, signaled,
                 failures, dry, connected, callVars, chans, serverVars, body,
                 wiped>>

\* Tunnel::connect waits RECONNECT_WAIT for the first stream, and goes on.
StopWaiting ==
  /\ connected = "no" /\ loop # "exited"
  /\ connected' = "timeout"
  /\ UNCHANGED <<watchVars, permit, loopVars, callVars, chans, serverVars, body,
                 wiped>>

-----------------------------------------------------------------------------
(* config_watcher_client, once it has found a change that needs a reconnect. *)

\* Nothing runs on in a process that has exited.
Watching(step) == watcher = step /\ loop # "exited"
At(c, steps)   == pc[c] \in steps /\ loop # "exited"

Idle == Watching("idle") /\ connected # "no"

WatchStore ==
  /\ Idle /\ hot.ver < MaxReloads
  /\ \E u \in Urls : hot' = [ver |-> hot.ver + 1, url |-> u]
  /\ watcher' = "stored"
  /\ UNCHANGED <<sid, permit, loopVars, connected, callVars, chans, serverVars,
                 body, wiped>>

WatchRotate ==
  /\ Watching("stored")
  /\ sid' = sid + 1
  /\ watcher' = "rotated"
  /\ UNCHANGED <<hot, permit, loopVars, connected, callVars, chans, serverVars,
                 body, wiped>>

\* Mutant: the connections of the old session stay registered.
WatchClearNothing ==
  /\ Watching("rotated")
  /\ watcher' = "cleared"
  /\ UNCHANGED <<hot, sid, permit, loopVars, connected, callVars, chans,
                 serverVars, body, wiped>>

WatchClear ==
  /\ Watching("rotated")
  /\ chans' = {}
  /\ watcher' = "cleared"
  /\ UNCHANGED <<hot, sid, permit, loopVars, connected, callVars, serverVars,
                 body, wiped>>

WatchNotify ==
  /\ Watching("cleared")
  /\ permit' = TRUE
  /\ watcher' = "idle"
  /\ UNCHANGED <<hot, sid, loopVars, connected, callVars, chans, serverVars,
                 body, wiped>>

-----------------------------------------------------------------------------
(* A connection: register_connection, then send_message of its Connect. *)

Register(c) ==
  /\ At(c, {"new"}) /\ connected # "no"
  /\ pc' = [pc EXCEPT ![c] = "registered"]
  /\ chans' = chans \cup {c}
  /\ UNCHANGED <<watchVars, permit, loopVars, connected, target, serverVars,
                 body, wiped>>

SendTo(c, step) ==
  /\ target' = [target EXCEPT ![c] = [url |-> hot.url, sid |-> sid]]
  /\ pc' = [pc EXCEPT ![c] = step]
  /\ UNCHANGED <<watchVars, permit, loopVars, connected, chans, serverVars,
                 body, wiped>>

TryPost(c)   == At(c, {"registered"}) /\ SendTo(c, "post1")
RetryPost(c) == At(c, {"wait"}) /\ SendTo(c, "post2")    \* ready, or RECONNECT_WAIT

\* handle_send Connect: the target is reached and the connection is the session's.
ServePost(c) ==
  /\ At(c, {"post1", "post2"})
  /\ \E s \in SessionOf(target[c].url, target[c].sid) :
       accepted' = [accepted EXCEPT ![c] = s]
  /\ pc' = [pc EXCEPT ![c] = IF pc[c] = "post1" THEN "served1" ELSE "served2"]
  /\ target' = [target EXCEPT ![c] = NoTarget]
  /\ UNCHANGED <<watchVars, permit, loopVars, connected, chans, sessions, boot,
                 body, wiped>>

Acknowledged(c) ==
  /\ At(c, {"served1", "served2"})
  /\ pc' = [pc EXCEPT ![c] = "acked"]
  /\ UNCHANGED <<watchVars, permit, loopVars, connected, target, chans,
                 serverVars, body, wiped>>

\* A 503, no connection, or an answer that was lost.
FirstPostFails(c) ==
  /\ At(c, {"post1", "served1"})
  /\ pc' = [pc EXCEPT ![c] = "wait"]
  /\ target' = [target EXCEPT ![c] = NoTarget]
  /\ permit' = TRUE
  /\ UNCHANGED <<watchVars, loopVars, connected, chans, serverVars, body,
                 wiped>>

SecondPostFails(c) ==
  /\ At(c, {"post2", "served2"})
  /\ pc' = [pc EXCEPT ![c] = "failed"]
  /\ target' = [target EXCEPT ![c] = NoTarget]
  /\ chans' = chans \ {c}
  /\ UNCHANGED <<watchVars, permit, loopVars, connected, serverVars, body,
                 wiped>>

\* A server process is replaced; its streams break when the client finds out.
\* One that has no session is as good as new.
Restart(u) ==
  /\ boot < MaxRestarts /\ loop # "exited"
  /\ \E s \in sessions : s.url = u
  /\ boot' = boot + 1
  /\ sessions' = {s \in sessions : s.url # u}
  /\ body' = IF body.session.url = u THEN [body EXCEPT !.reset = FALSE] ELSE body
  /\ UNCHANGED <<watchVars, permit, loopVars, connected, callVars, chans,
                 accepted, wiped>>

-----------------------------------------------------------------------------
Attempt == LoadHot \/ ReadSid \/ GetOk \/ GetFails \/ Drain \/ Forced \/ Wake
Stream  == ServeGet \/ Keepalive \/ TakeReset \/ StreamEnds
Watch   == WatchRotate \/ WatchClear \/ WatchNotify
Call(c) == \/ Register(c) \/ TryPost(c) \/ RetryPost(c) \/ ServePost(c)
           \/ Acknowledged(c) \/ FirstPostFails(c) \/ SecondPostFails(c)

Next == \/ Attempt \/ Stream \/ StopWaiting \/ WatchStore \/ Watch
        \/ \E c \in Conns : Call(c)
        \/ \E u \in Urls : Restart(u)

\* The SSE task and the watcher keep being scheduled; a GET is timed.
Fairness == WF_vars(Attempt) /\ WF_vars(Watch)

Spec     == Init /\ [][Next]_vars
FairSpec == Spec /\ Fairness

-----------------------------------------------------------------------------
(* Properties. *)

Sessions == [url : Urls, sid : 0..MaxReloads, boot : 0..MaxRestarts]

\* Every variable stays in its range, and the count of failures within its
\* budget.
TypeOK ==
  /\ hot \in [ver : 0..MaxReloads, url : Urls] /\ hotAt \in [ver : 0..MaxReloads, url : Urls]
  /\ sid \in 0..MaxReloads /\ sidAt \in 0..MaxReloads
  /\ watcher \in {"idle", "stored", "rotated", "cleared"} /\ permit \in BOOLEAN
  /\ loop \in {"load", "sid", "get", "drain", "read", "sleep", "exited"}
  /\ first \in BOOLEAN /\ progress \in BOOLEAN /\ signaled \in BOOLEAN
  /\ failures \in Nat /\ (MaxAttempts # 0 => failures <= MaxAttempts)
  /\ dry \in 0..MaxAttempts + 1
  /\ connected \in {"no", "ready", "timeout"}
  /\ pc \in [Conns -> {"new", "registered", "post1", "served1", "wait", "post2",
                      "served2", "acked", "failed"}]
  /\ target \in [Conns -> [url : Urls \cup {"none"}, sid : 0..MaxReloads]]
  /\ chans \subseteq Conns /\ wiped \subseteq Conns
  /\ sessions \subseteq Sessions /\ boot \in 0..MaxRestarts
  /\ body \in [session : Sessions \cup {NoSession}, reset : BOOLEAN]
  /\ accepted \in [Conns -> Sessions \cup {NoSession}]

\* A connection that was acknowledged and is still registered lives on the
\* session, and the server, that the client now talks to: a rotation leaves no
\* relay waiting on a session whose stream nobody reads.
LiveOnCurrentSession ==
  \A c \in chans : watcher = "idle" /\ pc[c] = "acked" =>
    accepted[c].sid = sid /\ accepted[c].url = hot.url

\* The first stream is not called ready before its Reset is consumed: unless
\* that took longer than the wait for it, the Reset finds no connection of the
\* session it announces.
FirstResetWipesNobody == first /\ connected # "timeout" => wiped = {}

\* A rotation is never lost, whatever was in progress: the stream moves to the
\* new session id.
StreamFollowsSession == sid # sidAt ~> sid = sidAt \/ loop = "exited"

\* wiki/hot-reload.md: "The SSE loop reconnects with the new client, sending the
\* updated headers on all subsequent requests": the stream is reopened with the
\* configuration that was stored.
StreamFollowsConfig == hot # hotAt ~> hot = hotAt \/ loop = "exited"

\* README: "Any stream that does deliver data resets the count, so ordinary
\* reconnects across a server restart never accumulate toward it": the client
\* exits only after max_reconnect_attempts attempts in a row without a byte.
DataResetsTheCount == loop = "exited" => dry >= MaxAttempts
==============================================================================
