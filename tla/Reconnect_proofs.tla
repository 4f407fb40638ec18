-------------------------- MODULE Reconnect_proofs ---------------------------
(****************************************************************************)
(* Safety of the reconnecting client, for any connections, servers, number  *)
(* of rotations and restarts, and budget of attempts.                       *)
(*                                                                          *)
(* The invariants the run checks are not inductive.  What makes them so:    *)
(*   Places - how far the watcher is with a rotation, and the loop with its *)
(*            budget;                                                       *)
(*   Live   - what a registered connection has on its way, too;             *)
(*   Ready  - the first stream is ready only with its Reset behind it.      *)
(****************************************************************************)
EXTENDS Reconnect, Integers, TLAPS

\* The watcher's place says how many of its four steps it has made, and an
\* attempt that may go on has failures left.
Places ==
  /\ hot.ver = IF watcher = "stored" THEN sid + 1 ELSE sid
  /\ MaxAttempts # 0 /\ loop # "exited" => failures < MaxAttempts

\* What a registered connection has sent, or had served, outside a rotation.
Live ==
  watcher \in {"idle", "cleared"} => \A c \in chans :
    /\ pc[c] \in {"post1", "post2"} => target[c] = [url |-> hot.url, sid |-> sid]
    /\ pc[c] \in {"served1", "served2", "acked"} =>
         accepted[c].url = hot.url /\ accepted[c].sid = sid

\* The first stream is ready once its Reset is consumed, and nothing is
\* registered before.
Ready ==
  /\ connected = "no" => chans = {}
  /\ first /\ connected = "ready" => loop = "read" /\ ~body.reset
  /\ FirstResetWipesNobody

IInv == TypeOK /\ Places /\ Live /\ Ready

\* The parts of TypeOK: the client's own state, its callers, the servers.
Loop ==
  /\ watcher \in {"idle", "stored", "rotated", "cleared"} /\ permit \in BOOLEAN
  /\ loop \in {"load", "sid", "get", "drain", "read", "sleep", "exited"}
  /\ first \in BOOLEAN /\ progress \in BOOLEAN /\ signaled \in BOOLEAN
  /\ connected \in {"no", "ready", "timeout"}

Counted ==
  /\ hot \in [ver : 0..MaxReloads, url : Urls] /\ hotAt \in [ver : 0..MaxReloads, url : Urls]
  /\ sid \in 0..MaxReloads /\ sidAt \in 0..MaxReloads
  /\ failures \in Nat /\ (MaxAttempts # 0 => failures <= MaxAttempts)
  /\ dry \in 0..MaxAttempts + 1
  /\ boot \in 0..MaxRestarts

Steps == {"new", "registered", "post1", "served1", "wait", "post2", "served2", "acked", "failed"}
Targets == [url : Urls \cup {"none"}, sid : 0..MaxReloads]
Callers ==
  /\ pc \in [Conns -> Steps] /\ target \in [Conns -> Targets]
  /\ chans \subseteq Conns /\ wiped \subseteq Conns

Bodies == [session : Sessions \cup {NoSession}, reset : BOOLEAN]
Servers ==
  /\ sessions \subseteq Sessions
  /\ body \in Bodies
  /\ accepted \in [Conns -> Sessions \cup {NoSession}]

\* Together they are TypeOK.
LEMMA Parts == TypeOK <=> Loop /\ Counted /\ Callers /\ Servers
  BY DEF TypeOK, Loop, Counted, Callers, Servers, Steps, Targets, Bodies

\* The loop and the watcher are at one of their awaits.
LEMMA LoopStep == Loop /\ [Next]_vars => Loop'
<1> SUFFICES ASSUME Loop, [Next]_vars PROVE Loop'
  OBVIOUS
<1> USE DEF Loop, watchVars, loopVars, callVars, serverVars
<1>1. CASE LoadHot
  BY <1>1 DEF LoadHot
<1>2. CASE ReadSid
  BY <1>2 DEF ReadSid
<1>3. CASE ServeGet
  BY <1>3 DEF ServeGet, SessionOf
<1>4. CASE GetOk
  BY <1>4 DEF GetOk
<1>5. CASE GetFails
  BY <1>5 DEF GetFails, EndAttempt, Dry, NoBody
<1>6. CASE Drain
  BY <1>6 DEF Drain, ForceReconnect, Dry, NoBody
<1>7. CASE Keepalive
  BY <1>7 DEF Keepalive, SignalReady
<1>8. CASE TakeReset
  BY <1>8 DEF TakeReset, SignalReady
<1>9. CASE StreamEnds
  BY <1>9 DEF StreamEnds, EndAttempt, Dry, NoBody
<1>10. CASE Forced
  BY <1>10 DEF Forced, ForceReconnect, Dry, NoBody
<1>11. CASE Wake
  BY <1>11 DEF Wake
<1>12. CASE StopWaiting
  BY <1>12 DEF StopWaiting
<1>13. CASE WatchStore
  BY <1>13 DEF WatchStore, Idle, Watching
<1>14. CASE WatchRotate
  BY <1>14 DEF WatchRotate, Watching
<1>15. CASE WatchClear
  BY <1>15 DEF WatchClear, Watching
<1>16. CASE WatchNotify
  BY <1>16 DEF WatchNotify, Watching
<1>17. ASSUME NEW c \in Conns, Register(c) PROVE Loop'
  BY <1>17 DEF Register, At
<1>18. ASSUME NEW c \in Conns, TryPost(c) PROVE Loop'
  BY <1>18 DEF TryPost, At, SendTo
<1>19. ASSUME NEW c \in Conns, RetryPost(c) PROVE Loop'
  BY <1>19 DEF RetryPost, At, SendTo
<1>20. ASSUME NEW c \in Conns, ServePost(c) PROVE Loop'
  BY <1>20 DEF ServePost, At, SessionOf, NoTarget
<1>21. ASSUME NEW c \in Conns, Acknowledged(c) PROVE Loop'
  BY <1>21 DEF Acknowledged, At
<1>22. ASSUME NEW c \in Conns, FirstPostFails(c) PROVE Loop'
  BY <1>22 DEF FirstPostFails, At, NoTarget
<1>23. ASSUME NEW c \in Conns, SecondPostFails(c) PROVE Loop'
  BY <1>23 DEF SecondPostFails, At, NoTarget
<1>24. ASSUME NEW u \in Urls, Restart(u) PROVE Loop'
  BY <1>24 DEF Restart
<1>25. CASE UNCHANGED vars
  BY <1>25 DEF vars
<1>. QED
  BY <1>1, <1>2, <1>3, <1>4, <1>5, <1>6, <1>7, <1>8, <1>9, <1>10, <1>11, <1>12, <1>13, <1>14, <1>15, <1>16, <1>17,
     <1>18, <1>19, <1>20, <1>21, <1>22, <1>23, <1>24, <1>25
     DEF Next, Attempt, Stream, Watch, Call

\* What is counted stays in its bounds.
LEMMA CountedStep == Counted /\ Places /\ [Next]_vars => Counted'
<1> SUFFICES ASSUME Counted, Places, [Next]_vars PROVE Counted'
  OBVIOUS
<1> USE BoundAssumption DEF Counted, Places, watchVars, loopVars, callVars, serverVars
<1>1. CASE LoadHot
  BY <1>1 DEF LoadHot
<1>2. CASE ReadSid
  BY <1>2 DEF ReadSid
<1>3. CASE ServeGet
  BY <1>3 DEF ServeGet, SessionOf
<1>4. CASE GetOk
  BY <1>4 DEF GetOk
<1>5. CASE GetFails
  BY <1>5 DEF GetFails, EndAttempt, Dry, NoBody
<1>6. CASE Drain
  BY <1>6 DEF Drain, ForceReconnect, Dry, NoBody
<1>7. CASE Keepalive
  BY <1>7 DEF Keepalive, SignalReady
<1>8. CASE TakeReset
  BY <1>8 DEF TakeReset, SignalReady
<1>9. CASE StreamEnds
  BY <1>9 DEF StreamEnds, EndAttempt, Dry, NoBody
<1>10. CASE Forced
  BY <1>10 DEF Forced, ForceReconnect, Dry, NoBody
<1>11. CASE Wake
  BY <1>11 DEF Wake
<1>12. CASE StopWaiting
  BY <1>12 DEF StopWaiting
<1>13. CASE WatchStore
  BY <1>13 DEF WatchStore, Idle, Watching
<1>14. CASE WatchRotate
  BY <1>14 DEF WatchRotate, Watching
<1>15. CASE WatchClear
  BY <1>15 DEF WatchClear, Watching
<1>16. CASE WatchNotify
  BY <1>16 DEF WatchNotify, Watching
<1>17. ASSUME NEW c \in Conns, Register(c) PROVE Counted'
  BY <1>17 DEF Register, At
<1>18. ASSUME NEW c \in Conns, TryPost(c) PROVE Counted'
  BY <1>18 DEF TryPost, At, SendTo
<1>19. ASSUME NEW c \in Conns, RetryPost(c) PROVE Counted'
  BY <1>19 DEF RetryPost, At, SendTo
<1>20. ASSUME NEW c \in Conns, ServePost(c) PROVE Counted'
  BY <1>20 DEF ServePost, At, SessionOf, NoTarget
<1>21. ASSUME NEW c \in Conns, Acknowledged(c) PROVE Counted'
  BY <1>21 DEF Acknowledged, At
<1>22. ASSUME NEW c \in Conns, FirstPostFails(c) PROVE Counted'
  BY <1>22 DEF FirstPostFails, At, NoTarget
<1>23. ASSUME NEW c \in Conns, SecondPostFails(c) PROVE Counted'
  BY <1>23 DEF SecondPostFails, At, NoTarget
<1>24. ASSUME NEW u \in Urls, Restart(u) PROVE Counted'
  BY <1>24 DEF Restart
<1>25. CASE UNCHANGED vars
  BY <1>25 DEF vars
<1>. QED
  BY <1>1, <1>2, <1>3, <1>4, <1>5, <1>6, <1>7, <1>8, <1>9, <1>10, <1>11, <1>12, <1>13, <1>14, <1>15, <1>16, <1>17,
     <1>18, <1>19, <1>20, <1>21, <1>22, <1>23, <1>24, <1>25
     DEF Next, Attempt, Stream, Watch, Call

\* A caller is at one of its awaits.
LEMMA CallersStep == Counted /\ Callers /\ [Next]_vars => Callers'
<1> SUFFICES ASSUME Counted, Callers, [Next]_vars PROVE Callers'
  OBVIOUS
<1> USE DEF Callers, watchVars, loopVars, callVars, serverVars
<1>1. CASE LoadHot
  BY <1>1 DEF LoadHot
<1>2. CASE ReadSid
  BY <1>2 DEF ReadSid
<1>3. CASE ServeGet
  BY <1>3 DEF ServeGet, SessionOf
<1>4. CASE GetOk
  BY <1>4 DEF GetOk
<1>5. CASE GetFails
  BY <1>5 DEF GetFails, EndAttempt, Dry, NoBody
<1>6. CASE Drain
  BY <1>6 DEF Drain, ForceReconnect, Dry, NoBody
<1>7. CASE Keepalive
  BY <1>7 DEF Keepalive, SignalReady
<1>8. CASE TakeReset
  BY <1>8 DEF TakeReset, SignalReady
<1>9. CASE StreamEnds
  BY <1>9 DEF StreamEnds, EndAttempt, Dry, NoBody
<1>10. CASE Forced
  BY <1>10 DEF Forced, ForceReconnect, Dry, NoBody
<1>11. CASE Wake
  BY <1>11 DEF Wake
<1>12. CASE StopWaiting
  BY <1>12 DEF StopWaiting
<1>13. CASE WatchStore
  BY <1>13 DEF WatchStore, Idle, Watching
<1>14. CASE WatchRotate
  BY <1>14 DEF WatchRotate, Watching
<1>15. CASE WatchClear
  BY <1>15 DEF WatchClear, Watching
<1>16. CASE WatchNotify
  BY <1>16 DEF WatchNotify, Watching
<1>17. ASSUME NEW c \in Conns, Register(c) PROVE Callers'
  BY <1>17 DEF Register, At, Steps
<1>18. ASSUME NEW c \in Conns, TryPost(c) PROVE Callers'
  <2>1. [url |-> hot.url, sid |-> sid] \in Targets
    BY DEF Counted, Targets
  <2>. QED
    BY <1>18, <2>1 DEF TryPost, At, SendTo, Steps
<1>19. ASSUME NEW c \in Conns, RetryPost(c) PROVE Callers'
  <2>1. [url |-> hot.url, sid |-> sid] \in Targets
    BY DEF Counted, Targets
  <2>. QED
    BY <1>19, <2>1 DEF RetryPost, At, SendTo, Steps
<1>20. ASSUME NEW c \in Conns, ServePost(c) PROVE Callers'
  <2>1. NoTarget \in Targets /\ {"served1", "served2"} \subseteq Steps
    BY BoundAssumption DEF Steps, Targets, NoTarget
  <2>2. /\ \E s \in {"served1", "served2"} : pc' = [pc EXCEPT ![c] = s]
        /\ target' = [target EXCEPT ![c] = NoTarget] /\ UNCHANGED <<chans, wiped>>
    BY <1>20 DEF ServePost
  <2>. QED
    BY <2>1, <2>2
<1>21. ASSUME NEW c \in Conns, Acknowledged(c) PROVE Callers'
  BY <1>21 DEF Acknowledged, At, Steps
<1>22. ASSUME NEW c \in Conns, FirstPostFails(c) PROVE Callers'
  <2>1. "wait" \in Steps /\ NoTarget \in Targets
    BY BoundAssumption DEF Steps, Targets, NoTarget
  <2>2. /\ pc' = [pc EXCEPT ![c] = "wait"] /\ target' = [target EXCEPT ![c] = NoTarget]
        /\ chans' \subseteq chans /\ UNCHANGED wiped
    BY <1>22 DEF FirstPostFails
  <2>. QED
    BY <2>1, <2>2
<1>23. ASSUME NEW c \in Conns, SecondPostFails(c) PROVE Callers'
  <2>1. "failed" \in Steps /\ NoTarget \in Targets
    BY BoundAssumption DEF Steps, Targets, NoTarget
  <2>2. /\ pc' = [pc EXCEPT ![c] = "failed"] /\ target' = [target EXCEPT ![c] = NoTarget]
        /\ chans' \subseteq chans /\ UNCHANGED wiped
    BY <1>23 DEF SecondPostFails
  <2>. QED
    BY <2>1, <2>2
<1>24. ASSUME NEW u \in Urls, Restart(u) PROVE Callers'
  BY <1>24 DEF Restart
<1>25. CASE UNCHANGED vars
  BY <1>25 DEF vars
<1>. QED
  BY <1>1, <1>2, <1>3, <1>4, <1>5, <1>6, <1>7, <1>8, <1>9, <1>10, <1>11, <1>12, <1>13, <1>14, <1>15, <1>16, <1>17,
     <1>18, <1>19, <1>20, <1>21, <1>22, <1>23, <1>24, <1>25
     DEF Next, Attempt, Stream, Watch, Call

\* A stream belongs to a session.
LEMMA ServersStep == Counted /\ Servers /\ [Next]_vars => Servers'
<1> SUFFICES ASSUME Counted, Servers, [Next]_vars PROVE Servers'
  OBVIOUS
<1> USE DEF Servers, watchVars, loopVars, callVars, serverVars
<1>1. CASE LoadHot
  BY <1>1 DEF LoadHot
<1>2. CASE ReadSid
  BY <1>2 DEF ReadSid
<1>3. CASE ServeGet
  <2>1. CASE SessionOf(hotAt.url, sidAt) = {}
    <3> DEFINE s == [url |-> hotAt.url, sid |-> sidAt, boot |-> boot]
    <3>1. s \in Sessions
      BY DEF Counted, Sessions
    <3>2. [session |-> s, reset |-> TRUE] \in Bodies
      BY <3>1 DEF Bodies
    <3>3. sessions' = sessions \cup {s} /\ body' = [session |-> s, reset |-> TRUE] /\ UNCHANGED accepted
      BY <1>3, <2>1 DEF ServeGet
    <3>. QED
      BY <3>1, <3>2, <3>3
  <2>2. CASE SessionOf(hotAt.url, sidAt) # {}
    <3>1. PICK s \in SessionOf(hotAt.url, sidAt) : body' = [session |-> s, reset |-> FALSE]
      BY <1>3, <2>2 DEF ServeGet
    <3>2. s \in Sessions
      BY DEF SessionOf
    <3>3. body' \in Bodies
      BY <3>1, <3>2 DEF Bodies
    <3>. QED
      BY <1>3, <2>2, <3>3 DEF ServeGet
  <2>. QED
    BY <2>1, <2>2
<1>4. CASE GetOk
  BY <1>4 DEF GetOk
<1>5. CASE GetFails
  <2>1. NoBody \in Bodies
    BY DEF Bodies, NoBody
  <2>. QED
    BY <1>5, <2>1 DEF GetFails, EndAttempt
<1>6. CASE Drain
  <2>1. NoBody \in Bodies
    BY DEF Bodies, NoBody
  <2>. QED
    BY <1>6, <2>1 DEF Drain, ForceReconnect
<1>7. CASE Keepalive
  BY <1>7 DEF Keepalive, SignalReady
<1>8. CASE TakeReset
  <2>1. [body EXCEPT !.reset = FALSE] \in Bodies
    BY DEF Bodies
  <2>. QED
    BY <1>8, <2>1 DEF TakeReset
<1>9. CASE StreamEnds
  <2>1. NoBody \in Bodies
    BY DEF Bodies, NoBody
  <2>. QED
    BY <1>9, <2>1 DEF StreamEnds, EndAttempt
<1>10. CASE Forced
  <2>1. NoBody \in Bodies
    BY DEF Bodies, NoBody
  <2>. QED
    BY <1>10, <2>1 DEF Forced, ForceReconnect
<1>11. CASE Wake
  BY <1>11 DEF Wake
<1>12. CASE StopWaiting
  BY <1>12 DEF StopWaiting
<1>13. CASE WatchStore
  BY <1>13 DEF WatchStore, Idle, Watching
<1>14. CASE WatchRotate
  BY <1>14 DEF WatchRotate, Watching
<1>15. CASE WatchClear
  BY <1>15 DEF WatchClear, Watching
<1>16. CASE WatchNotify
  BY <1>16 DEF WatchNotify, Watching
<1>17. ASSUME NEW c \in Conns, Register(c) PROVE Servers'
  BY <1>17 DEF Register, At
<1>18. ASSUME NEW c \in Conns, TryPost(c) PROVE Servers'
  BY <1>18 DEF TryPost, At, SendTo
<1>19. ASSUME NEW c \in Conns, RetryPost(c) PROVE Servers'
  BY <1>19 DEF RetryPost, At, SendTo
<1>20. ASSUME NEW c \in Conns, ServePost(c) PROVE Servers'
  BY <1>20 DEF ServePost, At, SessionOf, NoTarget
<1>21. ASSUME NEW c \in Conns, Acknowledged(c) PROVE Servers'
  BY <1>21 DEF Acknowledged, At
<1>22. ASSUME NEW c \in Conns, FirstPostFails(c) PROVE Servers'
  BY <1>22 DEF FirstPostFails, At, NoTarget
<1>23. ASSUME NEW c \in Conns, SecondPostFails(c) PROVE Servers'
  BY <1>23 DEF SecondPostFails, At, NoTarget
<1>24. ASSUME NEW u \in Urls, Restart(u) PROVE Servers'
  <2>1. [body EXCEPT !.reset = FALSE] \in Bodies
    BY DEF Bodies
  <2>. QED
    BY <1>24, <2>1 DEF Restart
<1>25. CASE UNCHANGED vars
  BY <1>25 DEF vars
<1>. QED
  BY <1>1, <1>2, <1>3, <1>4, <1>5, <1>6, <1>7, <1>8, <1>9, <1>10, <1>11, <1>12, <1>13, <1>14, <1>15, <1>16, <1>17,
     <1>18, <1>19, <1>20, <1>21, <1>22, <1>23, <1>24, <1>25
     DEF Next, Attempt, Stream, Watch, Call

\* Every step keeps the types.
LEMMA TypeStep == TypeOK /\ Places /\ [Next]_vars => TypeOK'
<1>1. TypeOK' <=> Loop' /\ Counted' /\ Callers' /\ Servers'
  BY DEF TypeOK, Loop, Counted, Callers, Servers, Steps, Targets, Bodies
<1>. QED
  BY <1>1, Parts, LoopStep, CountedStep, CallersStep, ServersStep

\* The watcher makes its steps in order.
LEMMA PlacesStep == TypeOK /\ Places /\ [Next]_vars => Places'
<1> SUFFICES ASSUME TypeOK, Places, [Next]_vars PROVE Places'
  OBVIOUS
<1> USE BoundAssumption DEF TypeOK, Places, watchVars, loopVars, callVars, serverVars
<1>1. CASE LoadHot
  BY <1>1 DEF LoadHot
<1>2. CASE ReadSid
  BY <1>2 DEF ReadSid
<1>3. CASE ServeGet
  BY <1>3 DEF ServeGet, SessionOf
<1>4. CASE GetOk
  BY <1>4 DEF GetOk
<1>5. CASE GetFails
  BY <1>5 DEF GetFails, EndAttempt, Dry, NoBody
<1>6. CASE Drain
  BY <1>6 DEF Drain, ForceReconnect, Dry, NoBody
<1>7. CASE Keepalive
  BY <1>7 DEF Keepalive, SignalReady
<1>8. CASE TakeReset
  BY <1>8 DEF TakeReset, SignalReady
<1>9. CASE StreamEnds
  BY <1>9 DEF StreamEnds, EndAttempt, Dry, NoBody
<1>10. CASE Forced
  BY <1>10 DEF Forced, ForceReconnect, Dry, NoBody
<1>11. CASE Wake
  BY <1>11 DEF Wake
<1>12. CASE StopWaiting
  BY <1>12 DEF StopWaiting
<1>13. CASE WatchStore
  BY <1>13 DEF WatchStore, Idle, Watching
<1>14. CASE WatchRotate
  BY <1>14 DEF WatchRotate, Watching
<1>15. CASE WatchClear
  BY <1>15 DEF WatchClear, Watching
<1>16. CASE WatchNotify
  BY <1>16 DEF WatchNotify, Watching
<1>17. ASSUME NEW c \in Conns, Register(c) PROVE Places'
  BY <1>17 DEF Register, At
<1>18. ASSUME NEW c \in Conns, TryPost(c) PROVE Places'
  BY <1>18 DEF TryPost, At, SendTo
<1>19. ASSUME NEW c \in Conns, RetryPost(c) PROVE Places'
  BY <1>19 DEF RetryPost, At, SendTo
<1>20. ASSUME NEW c \in Conns, ServePost(c) PROVE Places'
  BY <1>20 DEF ServePost, At, SessionOf, NoTarget
<1>21. ASSUME NEW c \in Conns, Acknowledged(c) PROVE Places'
  BY <1>21 DEF Acknowledged, At
<1>22. ASSUME NEW c \in Conns, FirstPostFails(c) PROVE Places'
  BY <1>22 DEF FirstPostFails, At, NoTarget
<1>23. ASSUME NEW c \in Conns, SecondPostFails(c) PROVE Places'
  BY <1>23 DEF SecondPostFails, At, NoTarget
<1>24. ASSUME NEW u \in Urls, Restart(u) PROVE Places'
  BY <1>24 DEF Restart
<1>25. CASE UNCHANGED vars
  BY <1>25 DEF vars
<1>. QED
  BY <1>1, <1>2, <1>3, <1>4, <1>5, <1>6, <1>7, <1>8, <1>9, <1>10, <1>11, <1>12, <1>13, <1>14, <1>15, <1>16, <1>17,
     <1>18, <1>19, <1>20, <1>21, <1>22, <1>23, <1>24, <1>25
     DEF Next, Attempt, Stream, Watch, Call

\* A rotation leaves nothing registered.
LEMMA LiveStep == TypeOK /\ Live /\ [Next]_vars => Live'
<1> SUFFICES ASSUME TypeOK, Live, [Next]_vars PROVE Live'
  OBVIOUS
<1> USE DEF TypeOK, Live, watchVars, loopVars, callVars, serverVars
<1>1. CASE LoadHot
  BY <1>1 DEF LoadHot
<1>2. CASE ReadSid
  BY <1>2 DEF ReadSid
<1>3. CASE ServeGet
  BY <1>3 DEF ServeGet, SessionOf
<1>4. CASE GetOk
  BY <1>4 DEF GetOk
<1>5. CASE GetFails
  BY <1>5 DEF GetFails, EndAttempt, Dry, NoBody
<1>6. CASE Drain
  BY <1>6 DEF Drain, ForceReconnect, Dry, NoBody
<1>7. CASE Keepalive
  BY <1>7 DEF Keepalive, SignalReady
<1>8. CASE TakeReset
  BY <1>8 DEF TakeReset, SignalReady
<1>9. CASE StreamEnds
  BY <1>9 DEF StreamEnds, EndAttempt, Dry, NoBody
<1>10. CASE Forced
  BY <1>10 DEF Forced, ForceReconnect, Dry, NoBody
<1>11. CASE Wake
  BY <1>11 DEF Wake
<1>12. CASE StopWaiting
  BY <1>12 DEF StopWaiting
<1>13. CASE WatchStore
  BY <1>13 DEF WatchStore, Idle, Watching
<1>14. CASE WatchRotate
  BY <1>14 DEF WatchRotate, Watching
<1>15. CASE WatchClear
  BY <1>15 DEF WatchClear, Watching
<1>16. CASE WatchNotify
  BY <1>16 DEF WatchNotify, Watching
<1>17. ASSUME NEW c \in Conns, Register(c) PROVE Live'
  BY <1>17 DEF Register, At
<1>18. ASSUME NEW c \in Conns, TryPost(c) PROVE Live'
  BY <1>18 DEF TryPost, At, SendTo
<1>19. ASSUME NEW c \in Conns, RetryPost(c) PROVE Live'
  BY <1>19 DEF RetryPost, At, SendTo
<1>20. ASSUME NEW c \in Conns, ServePost(c) PROVE Live'
  BY <1>20 DEF ServePost, At, SessionOf, NoTarget
<1>21. ASSUME NEW c \in Conns, Acknowledged(c) PROVE Live'
  BY <1>21 DEF Acknowledged, At
<1>22. ASSUME NEW c \in Conns, FirstPostFails(c) PROVE Live'
  BY <1>22 DEF FirstPostFails, At, NoTarget
<1>23. ASSUME NEW c \in Conns, SecondPostFails(c) PROVE Live'
  BY <1>23 DEF SecondPostFails, At, NoTarget
<1>24. ASSUME NEW u \in Urls, Restart(u) PROVE Live'
  BY <1>24 DEF Restart
<1>25. CASE UNCHANGED vars
  BY <1>25 DEF vars
<1>. QED
  BY <1>1, <1>2, <1>3, <1>4, <1>5, <1>6, <1>7, <1>8, <1>9, <1>10, <1>11, <1>12, <1>13, <1>14, <1>15, <1>16, <1>17,
     <1>18, <1>19, <1>20, <1>21, <1>22, <1>23, <1>24, <1>25
     DEF Next, Attempt, Stream, Watch, Call

\* The first Reset is read first.
LEMMA ReadyStep == TypeOK /\ Ready /\ [Next]_vars => Ready'
<1> SUFFICES ASSUME TypeOK, Ready, [Next]_vars PROVE Ready'
  OBVIOUS
<1> USE DEF TypeOK, Ready, FirstResetWipesNobody, watchVars, loopVars, callVars, serverVars
<1>1. CASE LoadHot
  BY <1>1 DEF LoadHot
<1>2. CASE ReadSid
  BY <1>2 DEF ReadSid
<1>3. CASE ServeGet
  BY <1>3 DEF ServeGet, SessionOf
<1>4. CASE GetOk
  BY <1>4 DEF GetOk
<1>5. CASE GetFails
  BY <1>5 DEF GetFails, EndAttempt, Dry, NoBody
<1>6. CASE Drain
  BY <1>6 DEF Drain, ForceReconnect, Dry, NoBody
<1>7. CASE Keepalive
  BY <1>7 DEF Keepalive, SignalReady
<1>8. CASE TakeReset
  BY <1>8 DEF TakeReset, SignalReady
<1>9. CASE StreamEnds
  BY <1>9 DEF StreamEnds, EndAttempt, Dry, NoBody
<1>10. CASE Forced
  BY <1>10 DEF Forced, ForceReconnect, Dry, NoBody
<1>11. CASE Wake
  BY <1>11 DEF Wake
<1>12. CASE StopWaiting
  BY <1>12 DEF StopWaiting
<1>13. CASE WatchStore
  BY <1>13 DEF WatchStore, Idle, Watching
<1>14. CASE WatchRotate
  BY <1>14 DEF WatchRotate, Watching
<1>15. CASE WatchClear
  BY <1>15 DEF WatchClear, Watching
<1>16. CASE WatchNotify
  BY <1>16 DEF WatchNotify, Watching
<1>17. ASSUME NEW c \in Conns, Register(c) PROVE Ready'
  BY <1>17 DEF Register, At
<1>18. ASSUME NEW c \in Conns, TryPost(c) PROVE Ready'
  BY <1>18 DEF TryPost, At, SendTo
<1>19. ASSUME NEW c \in Conns, RetryPost(c) PROVE Ready'
  BY <1>19 DEF RetryPost, At, SendTo
<1>20. ASSUME NEW c \in Conns, ServePost(c) PROVE Ready'
  BY <1>20 DEF ServePost, At, SessionOf, NoTarget
<1>21. ASSUME NEW c \in Conns, Acknowledged(c) PROVE Ready'
  BY <1>21 DEF Acknowledged, At
<1>22. ASSUME NEW c \in Conns, FirstPostFails(c) PROVE Ready'
  BY <1>22 DEF FirstPostFails, At, NoTarget
<1>23. ASSUME NEW c \in Conns, SecondPostFails(c) PROVE Ready'
  BY <1>23 DEF SecondPostFails, At, NoTarget
<1>24. ASSUME NEW u \in Urls, Restart(u) PROVE Ready'
  BY <1>24 DEF Restart
<1>25. CASE UNCHANGED vars
  BY <1>25 DEF vars
<1>. QED
  BY <1>1, <1>2, <1>3, <1>4, <1>5, <1>6, <1>7, <1>8, <1>9, <1>10, <1>11, <1>12, <1>13, <1>14, <1>15, <1>16, <1>17,
     <1>18, <1>19, <1>20, <1>21, <1>22, <1>23, <1>24, <1>25
     DEF Next, Attempt, Stream, Watch, Call
-----------------------------------------------------------------------------
\* The invariant holds before the first attempt.
LEMMA Initial == Init => IInv
<1> SUFFICES ASSUME Init PROVE IInv
  OBVIOUS
<1> USE ConnAssumption, BoundAssumption DEF Init
<1>1. Loop /\ Counted
  <2>1. Loop
    BY DEF Loop
  <2>2. 0 \in 0..MaxReloads /\ 0 \in 0..MaxAttempts + 1 /\ 0 \in 0..MaxRestarts
    OBVIOUS
  <2>3. hot \in [ver : 0..MaxReloads, url : Urls] /\ hotAt = hot
    BY <2>2
  <2>. QED
    BY <2>1, <2>2, <2>3 DEF Counted
<1>2. Callers
  <2>1. "new" \in Steps /\ NoTarget \in Targets
    BY DEF Steps, Targets, NoTarget
  <2>. QED
    BY <2>1 DEF Callers
<1>3. Servers
  <2>1. NoBody \in Bodies
    BY DEF NoBody, Bodies
  <2>. QED
    BY <2>1 DEF Servers
<1>4. Places /\ Live /\ Ready
  BY DEF Places, Live, Ready, FirstResetWipesNobody
<1>. QED
  BY <1>1, <1>2, <1>3, <1>4, Parts DEF IInv

\* Every step of the client, its callers and the servers keeps it.
LEMMA Inductive == IInv /\ [Next]_vars => IInv'
  BY TypeStep, PlacesStep, LiveStep, ReadyStep DEF IInv

\* So it always holds.
LEMMA Invariance == Spec => []IInv
  BY Initial, Inductive, PTL DEF Spec

\* Every variable stays in its range, the failures within their budget.
THEOREM TypeCorrect == Spec => []TypeOK
<1>1. IInv => TypeOK
  BY DEF IInv
<1>. QED
  BY Invariance, <1>1, PTL

\* config_watcher_client's order (store, rotate, clear, notify) leaves no
\* acknowledged connection registered on a session that was given up.
THEOREM RotationLeavesNobody == Spec => []LiveOnCurrentSession
<1>1. IInv => LiveOnCurrentSession
  BY DEF IInv, Live, LiveOnCurrentSession
<1>. QED
  BY Invariance, <1>1, PTL

\* sse_read_loop signals the first readiness behind the Reset, which therefore
\* drops no connection of the session it announces.
THEOREM FirstReset == Spec => []FirstResetWipesNobody
<1>1. IInv => FirstResetWipesNobody
  BY DEF IInv, Ready
<1>. QED
  BY Invariance, <1>1, PTL
==============================================================================
