---------------------------- MODULE ReloadClient -----------------------------
(* reload.rs config_watcher_client: what a change of the file does to the      *)
(* configuration and the session of a running client (HotClientConfig,         *)
(* session_id).  How the stream follows a rotation is modelled in Reconnect.   *)
EXTENDS ConfigFile

CONSTANTS Passwords,  \* non-empty passwords
          Headers,    \* header maps of which a client can be built
          Urls,       \* server URLs
          Cli         \* [password, headers, url]: what the flags give

VARIABLES
  overrides,  \* the flags given: --password, --cookie (headers), --server (url)
  hot,        \* the password crypto is derived from, headers, server_base_url
  lastPassword, lastHeaders,
  sid         \* rotations of session_id

vars == <<fileVars, pollVars, overrides, hot, lastPassword, lastHeaders, sid>>

Empty   == "empty"      \* an empty password, or no headers
Invalid == "invalid"    \* headers of which no client can be built
Flags   == {"password", "headers", "url"}
Configs == [password : Passwords \cup {Empty},
            headers  : Headers \cup {Empty, Invalid}, url : Urls]

\* main.rs: flags over the file, no start without a password or with headers of
\* which no client can be built.
Init ==
  /\ overrides \in SUBSET Flags
  /\ \E c \in Configs :
       /\ FileInit(c)
       /\ hot = [f \in Flags |-> IF f \in overrides THEN Cli ELSE c[f]]
       /\ hot["password"] # Empty /\ hot["headers"] # Invalid
  /\ lastPassword = Empty /\ lastHeaders = Empty /\ sid = 0

\* Mutants: a flag loses to the file; headers are taken without building a client.
RebuildsOverFlag == parsed.headers # lastHeaders /\ parsed.headers # Invalid

RebuildsAnything == "headers" \notin overrides /\ parsed.headers # lastHeaders

Rekeys   == /\ "password" \notin overrides
            /\ parsed.password # Empty /\ parsed.password # lastPassword
Rebuilds == /\ "headers" \notin overrides
            /\ parsed.headers # lastHeaders /\ parsed.headers # Invalid

\* Mutant: a new URL does not ask for a reconnect.
NeedsReconnectForKeysOnly == Rekeys \/ Rebuilds

\* Anything that changes asks for a new session.
NeedsReconnect == Rekeys \/ Rebuilds \/ parsed.url # hot["url"]

Apply ==
  /\ watch = "apply"
  /\ watch' = "idle"
  /\ IF Rekeys \/ Rebuilds \/ parsed.url # hot["url"]
     THEN /\ hot' = [f \in Flags |->
               CASE f = "password" -> IF Rekeys THEN parsed.password ELSE hot[f]
                 [] f = "headers"  -> IF Rebuilds THEN parsed.headers ELSE hot[f]
                 [] f = "url"      -> parsed.url]
          /\ lastPassword' = parsed.password /\ lastHeaders' = parsed.headers
          /\ sid' = IF NeedsReconnect THEN sid + 1 ELSE sid
     ELSE UNCHANGED <<hot, lastPassword, lastHeaders, sid>>
  /\ Stamp
  /\ UNCHANGED <<fileVars, seen, parsed, overrides>>

Running == <<overrides, hot, lastPassword, lastHeaders, sid>>

Watcher == Apply \/ (Polling /\ UNCHANGED Running)

Next == Watcher \/ (Edit(Configs) /\ UNCHANGED Running)

-----------------------------------------------------------------------------
\* Every variable stays in its range.
TypeOK ==
  /\ content \in Configs \cup {Broken, Missing} /\ parsed \in Configs
  /\ mtime \in 1..MaxEdits + 1 /\ edits \in 0..MaxEdits /\ missed \in BOOLEAN
  /\ watch \in {"off", "idle", "debounce", "retry", "apply"}
  /\ lastMtime \in 0..mtime /\ seen \in 0..mtime
  /\ overrides \subseteq Flags /\ DOMAIN hot = Flags
  /\ hot["password"] \in Passwords \cup {Cli} /\ hot["url"] \in Urls \cup {Cli}
  /\ hot["headers"] \in Headers \cup {Empty, Cli}
  /\ lastPassword \in Passwords \cup {Empty}
  /\ lastHeaders \in Headers \cup {Empty, Invalid}
  /\ sid \in 0..MaxEdits

\* A flag that the watcher knows of wins over the file, across any changes.
KnownFlagsWin == \A f \in overrides \ {"url"} : hot[f] = Cli

\* What of a file a client that has taken it runs: no password and no headers are
\* taken for no change.
Matches(c) ==
  /\ "password" \in overrides \/ c.password \in {Empty, hot["password"]}
  /\ "headers" \in overrides \/ c.headers \in {Empty, Invalid, hot["headers"]}
  /\ "url" \in overrides \/ c.url = hot["url"]
==============================================================================
