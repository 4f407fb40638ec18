---------------------------- MODULE Reload_proofs ----------------------------
(****************************************************************************)
(* Safety of hot reload, for any passwords, sites, headers, URLs and number *)
(* of edits.                                                                *)
(*                                                                          *)
(* OverridesWin is inductive.  That a client rotates at most once per edit, *)
(* which bounds sid in TypeOK, is not:                                      *)
(*   Rounds - what the mtimes a round compares say of each other.           *)
(****************************************************************************)
EXTENDS Reload, Integers, TLAPS

\* A round is about a write that is newer than the last one acted on, and than
\* the file the program started from.
Rounds ==
  /\ mtime = edits + 1
  /\ mtime = 1 => content # Missing
  /\ watch = "off" => lastMtime = 0
  /\ watch = "idle" /\ mtime = 1 => lastMtime = 1
  /\ watch \in {"debounce", "retry", "apply"} => lastMtime < seen /\ 2 <= seen
  /\ role = "client" /\ sid # 0 => sid < lastMtime

IInv == TypeOK /\ OverridesWin /\ Rounds

\* Initially it holds.
LEMMA Initial == Init => IInv
<1> SUFFICES ASSUME Init PROVE IInv
  OBVIOUS
<1>1. CASE role = "server" /\ Server!Init /\ lastHeaders = Client!Empty /\ sid = 0
  <2>1. PICK c \in Server!Configs :
          /\ overrides.password \/ c.password # Server!Empty
          /\ Server!FileInit(c)
          /\ hot = [password |-> IF overrides.password THEN CliPassword ELSE c.password,
                    site |-> c.site, allow |-> overrides.allow \/ c.allow]
    BY <1>1 DEF Server!Init
  <2>2. content = c /\ mtime = 1 /\ edits = 0 /\ missed = FALSE
        /\ watch = "off" /\ lastMtime = 0 /\ seen = 0 /\ parsed = c
    BY <2>1 DEF Server!FileInit
  <2>3. overrides \in [password : BOOLEAN, allow : BOOLEAN] /\ lastPassword = Server!Empty
    BY <1>1 DEF Server!Init
  <2>4. Server!TypeOK
    <3>1. /\ c.password \in Passwords \cup {Server!Empty} /\ c.site \in Sites
          /\ c.allow \in BOOLEAN /\ overrides.allow \in BOOLEAN
      BY <2>3 DEF Server!Configs
    <3>2. (IF overrides.password THEN CliPassword ELSE c.password) \in Passwords
      BY <2>1, <3>1, CliAssumption
    <3>3. (overrides.allow \/ c.allow) \in BOOLEAN
      BY <3>1, Zenon
    <3>4. hot \in [password : Passwords, site : Sites, allow : BOOLEAN]
      <4> DEFINE p == IF overrides.password THEN CliPassword ELSE c.password
                 a == overrides.allow \/ c.allow
      <4>1. hot = [password |-> p, site |-> c.site, allow |-> a]
        BY <2>1
      <4>2. p \in Passwords /\ c.site \in Sites /\ a \in BOOLEAN
        BY <3>1, <3>2, <3>3
      <4> HIDE DEF p, a
      <4>. QED
        BY <4>1, <4>2
    <3>5. /\ mtime \in 1..MaxEdits + 1 /\ edits \in 0..MaxEdits
          /\ lastMtime \in 0..mtime /\ seen \in 0..mtime
      BY <2>2, EditsAssumption
    <3>6. missed \in BOOLEAN /\ watch \in {"off", "idle", "debounce", "retry", "apply"}
      BY <2>2
    <3>7. content \in Server!Configs \cup {Broken, Missing} /\ parsed \in Server!Configs
      BY <2>2
    <3>. QED
      BY <2>2, <2>3, <3>4, <3>5, <3>6, <3>7 DEF Server!TypeOK
  <2>5. Rounds
    BY <1>1, <2>1, <2>2, FileAssumption DEF Rounds
  <2>. QED
    BY <1>1, <2>1, <2>3, <2>4, <2>5 DEF IInv, TypeOK, OverridesWin, Server!OverridesWin
<1>2. CASE role = "client" /\ Client!Init
  <2>1. PICK c \in Client!Configs :
          /\ Client!FileInit(c)
          /\ hot = [f \in Client!Flags |-> IF f \in overrides THEN Cli ELSE c[f]]
          /\ hot["password"] # Client!Empty /\ hot["headers"] # Client!Invalid
    BY <1>2 DEF Client!Init
  <2>2. content = c /\ mtime = 1 /\ edits = 0 /\ missed = FALSE
        /\ watch = "off" /\ lastMtime = 0 /\ seen = 0 /\ parsed = c
    BY <2>1 DEF Client!FileInit
  <2>3. /\ overrides \subseteq Client!Flags /\ lastPassword = Client!Empty
        /\ lastHeaders = Client!Empty /\ sid = 0
    BY <1>2 DEF Client!Init
  <2>4. Client!TypeOK
    <3>1. /\ c["password"] \in Passwords \cup {Client!Empty} /\ c["url"] \in Urls
          /\ c["headers"] \in Headers \cup {Client!Empty, Client!Invalid}
      BY DEF Client!Configs
    <3>2. /\ DOMAIN hot = Client!Flags
          /\ hot["password"] \in Passwords \cup {Cli} /\ hot["url"] \in Urls \cup {Cli}
          /\ hot["headers"] \in Headers \cup {Client!Empty, Cli}
      <4>1. /\ DOMAIN hot = Client!Flags
            /\ hot["password"] \in {Cli, c["password"]} /\ hot["url"] \in {Cli, c["url"]}
            /\ hot["headers"] \in {Cli, c["headers"]}
        BY <2>1 DEF Client!Flags
      <4>. QED
        BY <2>1, <3>1, <4>1
    <3>3. /\ mtime \in 1..MaxEdits + 1 /\ edits \in 0..MaxEdits
          /\ lastMtime \in 0..mtime /\ seen \in 0..mtime
      BY <2>2, EditsAssumption
    <3>4. missed \in BOOLEAN /\ watch \in {"off", "idle", "debounce", "retry", "apply"}
      BY <2>2
    <3>5. content \in Client!Configs \cup {Broken, Missing} /\ parsed \in Client!Configs
      BY <2>2
    <3>. QED
      BY <2>2, <2>3, <3>2, <3>3, <3>4, <3>5, EditsAssumption DEF Client!TypeOK
  <2>5. Rounds
    BY <1>2, <2>1, <2>2, <2>3, FileAssumption DEF Rounds
  <2>. QED
    BY <1>2, <2>1, <2>3, <2>4, <2>5
    DEF IInv, TypeOK, OverridesWin, Client!KnownFlagsWin
<1>. QED
  BY <1>1, <1>2 DEF Init

\* A server's steps keep it.
LEMMA ServerStep == IInv /\ OfServer(Server!Next) => IInv'
<1> SUFFICES ASSUME IInv, OfServer(Server!Next) PROVE IInv'
  OBVIOUS
<1>1. role = "server" /\ role' = "server" /\ Server!Next
  BY DEF OfServer
<1>2. Server!TypeOK /\ Server!OverridesWin /\ Rounds
  BY <1>1 DEF IInv, TypeOK, OverridesWin
<1> SUFFICES Server!TypeOK' /\ Server!OverridesWin' /\ Rounds'
  BY <1>1 DEF IInv, TypeOK, OverridesWin
<1> DEFINE Kept == UNCHANGED <<overrides, hot, lastPassword>>
<1>3. CASE Server!Edit(Server!Configs) /\ Kept
  BY <1>1, <1>2, <1>3, EditsAssumption
  DEF Server!Edit, Server!pollVars, Server!TypeOK, Server!OverridesWin, Rounds
<1>4. CASE Server!Start /\ Kept
  BY <1>1, <1>2, <1>4, EditsAssumption
  DEF Server!Start, Server!fileVars, Server!TypeOK, Server!OverridesWin, Rounds
<1>5. CASE Server!Poll /\ Kept
  BY <1>1, <1>2, <1>5, EditsAssumption
  DEF Server!Poll, Server!fileVars, Server!TypeOK, Server!OverridesWin, Rounds
<1>6. CASE Server!ReadFile /\ Kept
  BY <1>1, <1>2, <1>6, EditsAssumption
  DEF Server!ReadFile, Server!TakeFile, Server!Parses, Server!fileVars, Server!TypeOK,
      Server!OverridesWin, Rounds
<1>7. CASE Server!RetryFile /\ Kept
  BY <1>1, <1>2, <1>7, EditsAssumption
  DEF Server!RetryFile, Server!TakeFile, Server!Parses, Server!fileVars, Server!TypeOK,
      Server!OverridesWin, Rounds
<1>8. CASE Server!Apply
  <2> DEFINE next == [password |-> IF Server!Rekeys THEN parsed.password ELSE hot.password,
                      site |-> parsed.site,
                      allow |-> IF overrides.allow THEN hot.allow ELSE parsed.allow]
  <2>1. /\ watch = "apply" /\ watch' = "idle" /\ lastMtime' = seen
        /\ UNCHANGED <<content, mtime, edits, missed, seen, parsed, overrides>>
    BY <1>8 DEF Server!Apply, Server!Stamp, Server!fileVars
  <2>2. \/ hot' = next /\ lastPassword' = parsed.password
        \/ UNCHANGED <<hot, lastPassword>>
    BY <1>8 DEF Server!Apply
  <2>3. Rounds'
    BY <1>1, <1>2, <2>1 DEF Rounds, Server!TypeOK
  <2>4. next \in [password : Passwords, site : Sites, allow : BOOLEAN]
    BY <1>2 DEF Server!TypeOK, Server!Configs, Server!Rekeys
  <2>5. Server!TypeOK'
    <3>1. /\ hot' \in [password : Passwords, site : Sites, allow : BOOLEAN]
          /\ lastPassword' \in Passwords \cup {Server!Empty}
      BY <1>2, <2>2, <2>4 DEF Server!TypeOK, Server!Configs
    <3>. QED
      BY <1>2, <2>1, <3>1 DEF Server!TypeOK
  <2>6. Server!OverridesWin'
    BY <1>2, <2>1, <2>2 DEF Server!OverridesWin, Server!Rekeys
  <2>. QED
    BY <2>3, <2>5, <2>6
<1>. QED
  BY <1>1, <1>3, <1>4, <1>5, <1>6, <1>7, <1>8
  DEF Server!Next, Server!Watcher, Server!Polling

\* A client's steps keep it.
LEMMA ClientStep == IInv /\ OfClient(Client!Next) => IInv'
<1> SUFFICES ASSUME IInv, OfClient(Client!Next) PROVE IInv'
  OBVIOUS
<1>1. role = "client" /\ role' = "client" /\ Client!Next
  BY DEF OfClient
<1>2. Client!TypeOK /\ Client!KnownFlagsWin /\ Rounds
  BY <1>1 DEF IInv, TypeOK, OverridesWin
<1> SUFFICES Client!TypeOK' /\ Client!KnownFlagsWin' /\ Rounds'
  BY <1>1 DEF IInv, TypeOK, OverridesWin
<1> DEFINE Kept == UNCHANGED Client!Running
<1>3. CASE Client!Edit(Client!Configs) /\ Kept
  BY <1>1, <1>2, <1>3, EditsAssumption
  DEF Client!Edit, Client!pollVars, Client!Running, Client!TypeOK, Client!KnownFlagsWin, Rounds
<1>4. CASE Client!Start /\ Kept
  BY <1>1, <1>2, <1>4, EditsAssumption
  DEF Client!Start, Client!fileVars, Client!Running, Client!TypeOK, Client!KnownFlagsWin, Rounds
<1>5. CASE Client!Poll /\ Kept
  BY <1>1, <1>2, <1>5, EditsAssumption
  DEF Client!Poll, Client!fileVars, Client!Running, Client!TypeOK, Client!KnownFlagsWin, Rounds
<1>6. CASE Client!ReadFile /\ Kept
  BY <1>1, <1>2, <1>6, EditsAssumption
  DEF Client!ReadFile, Client!TakeFile, Client!Parses, Client!fileVars, Client!Running,
      Client!TypeOK, Client!KnownFlagsWin, Rounds
<1>7. CASE Client!RetryFile /\ Kept
  BY <1>1, <1>2, <1>7, EditsAssumption
  DEF Client!RetryFile, Client!TakeFile, Client!Parses, Client!fileVars, Client!Running,
      Client!TypeOK, Client!KnownFlagsWin, Rounds
<1>8. CASE Client!Apply
  <2> DEFINE next == [f \in Client!Flags |->
               CASE f = "password" -> IF Client!Rekeys THEN parsed.password ELSE hot[f]
                 [] f = "headers"  -> IF Client!Rebuilds THEN parsed.headers ELSE hot[f]
                 [] f = "url"      -> parsed.url]
  <2>1. /\ watch = "apply" /\ watch' = "idle" /\ lastMtime' = seen
        /\ UNCHANGED <<content, mtime, edits, missed, seen, parsed, overrides>>
    BY <1>8 DEF Client!Apply, Client!Stamp, Client!fileVars
  <2>2. \/ /\ hot' = next
           /\ lastPassword' = parsed.password /\ lastHeaders' = parsed.headers
           /\ sid' \in {sid, sid + 1}
        \/ UNCHANGED <<hot, lastPassword, lastHeaders, sid>>
    BY <1>8 DEF Client!Apply
  <2>3. Rounds' /\ sid' \in 0..MaxEdits
    <3>1. sid' \in {sid, sid + 1}
      BY <2>2
    <3>2. /\ sid \in Nat /\ seen \in 0..mtime /\ mtime = edits + 1 /\ edits \in 0..MaxEdits
          /\ lastMtime \in Nat /\ lastMtime < seen /\ 2 <= seen /\ (sid # 0 => sid < lastMtime)
      BY <1>1, <1>2, <2>1, EditsAssumption DEF Rounds, Client!TypeOK
    <3>3. sid' \in Nat /\ sid' < seen /\ sid' \in 0..MaxEdits
      BY <3>1, <3>2, EditsAssumption
    <3>. QED
      BY <1>1, <1>2, <2>1, <3>3 DEF Rounds, Client!TypeOK
  <2>4. Client!TypeOK'
    <3>1. /\ DOMAIN hot' = Client!Flags
          /\ hot'["password"] \in Passwords \cup {Cli} /\ hot'["url"] \in Urls \cup {Cli}
          /\ hot'["headers"] \in Headers \cup {Client!Empty, Cli}
      <4>1. CASE hot' = next
        BY <4>1, <1>2
        DEF Client!TypeOK, Client!Configs, Client!Flags, Client!Rekeys, Client!Rebuilds
      <4>2. CASE hot' = hot
        BY <4>2, <1>2 DEF Client!TypeOK
      <4>. QED
        BY <2>2, <4>1, <4>2
    <3>2. /\ lastPassword' \in Passwords \cup {Client!Empty}
          /\ lastHeaders' \in Headers \cup {Client!Empty, Client!Invalid}
      BY <1>2, <2>2 DEF Client!TypeOK, Client!Configs
    <3>. QED
      BY <1>2, <2>1, <2>3, <3>1, <3>2 DEF Client!TypeOK
  <2>5. Client!KnownFlagsWin'
    <3> SUFFICES ASSUME NEW f \in overrides \ {"url"} PROVE hot'[f] = Cli
      BY <2>1 DEF Client!KnownFlagsWin
    <3>1. f \in {"password", "headers"} /\ hot[f] = Cli
      BY <1>2 DEF Client!TypeOK, Client!Flags, Client!KnownFlagsWin
    <3>2. hot' = next => hot'[f] = hot[f]
      BY <3>1 DEF Client!Rekeys, Client!Rebuilds, Client!Flags
    <3>. QED
      BY <2>2, <3>1, <3>2
  <2>. QED
    BY <2>3, <2>4, <2>5
<1>. QED
  BY <1>1, <1>3, <1>4, <1>5, <1>6, <1>7, <1>8
  DEF Client!Next, Client!Watcher, Client!Polling

\* Every step keeps it.
LEMMA Inductive == IInv /\ [Next]_vars => IInv'
<1> SUFFICES ASSUME IInv, UNCHANGED vars PROVE IInv'
  BY ServerStep, ClientStep DEF Next
<1>1. CASE role = "server"
  BY <1>1 DEF vars, fileVars, pollVars, clientOnly, IInv, TypeOK, OverridesWin, Rounds,
              Server!TypeOK, Server!OverridesWin
<1>2. CASE role = "client"
  BY <1>2 DEF vars, fileVars, pollVars, clientOnly, IInv, TypeOK, OverridesWin, Rounds,
              Client!TypeOK, Client!KnownFlagsWin
<1>. QED
  BY <1>1, <1>2 DEF IInv, TypeOK

\* So it always holds.
LEMMA Invariance == Spec => []IInv
  BY Initial, Inductive, PTL DEF Spec

\* Every variable stays in its range; a client rotates at most once per edit.
THEOREM TypeCorrect == Spec => []TypeOK
<1>1. IInv => TypeOK
  BY DEF IInv
<1>. QED
  BY Invariance, <1>1, PTL

\* The flags that CliOverrides records win over every file that the watchers of
\* reload.rs take, whatever is written and however often.
THEOREM FlagsOverFile == Spec => []OverridesWin
<1>1. IInv => OverridesWin
  BY DEF IInv
<1>. QED
  BY Invariance, <1>1, PTL

\* config_watcher_client never changes what the stream was opened with without a
\* new session id.
THEOREM ChangesRotate == Spec => ChangeRotates
<1>1. IInv /\ [Next]_vars => [role = "client" /\ hot' # hot => sid' # sid]_vars
  <2> SUFFICES ASSUME IInv, Next, role = "client", hot' # hot PROVE sid' # sid
    BY DEF vars
  <2>1. Client!Next /\ sid \in Nat
    BY DEF Next, OfServer, OfClient, IInv, TypeOK, Client!TypeOK
  <2>2. Client!Apply
    BY <2>1 DEF Client!Next, Client!Watcher, Client!Running
  <2>3. sid' = sid + 1
    BY <2>2 DEF Client!Apply, Client!NeedsReconnect
  <2>. QED
    BY <2>1, <2>3
<1>. QED
  BY Invariance, <1>1, PTL DEF Spec, ChangeRotates
==============================================================================
