---------------------------- MODULE ReloadServer -----------------------------
(* reload.rs config_watcher_server: what a change of the file does to the      *)
(* configuration a running server works with (HotServerConfig).                *)
EXTENDS ConfigFile

CONSTANTS Passwords,  \* non-empty passwords
          Sites,      \* path_prefix, root_redirect, root_html, health_response
          CliPassword \* the value of --password, when it is given

VARIABLES
  overrides,    \* CliOverrides: the flags --password and --allow-exec
  hot,          \* the password crypto is derived from, the site, allow_exec
  lastPassword

vars == <<fileVars, pollVars, overrides, hot, lastPassword>>

Empty   == "empty"
Configs == [password : Passwords \cup {Empty}, site : Sites, allow : BOOLEAN]

\* main.rs: flags over the file, and no start without a password.
Init ==
  /\ overrides \in [password : BOOLEAN, allow : BOOLEAN]
  /\ \E c \in Configs :
       /\ overrides.password \/ c.password # Empty
       /\ FileInit(c)
       /\ hot = [password |-> IF overrides.password THEN CliPassword ELSE c.password,
                 site |-> c.site, allow |-> overrides.allow \/ c.allow]
  /\ lastPassword = Empty

\* Mutants: a flag loses to the file; an empty password is derived.
RekeysOverFlag ==
  parsed.password # Empty /\ parsed.password # lastPassword
RekeysEmpty ==
  ~overrides.password /\ parsed.password # lastPassword

\* A password is derived anew when it differs from the last one applied.
Rekeys ==
  ~overrides.password /\ parsed.password # Empty /\ parsed.password # lastPassword

\* Nothing is stored, nor is the password remembered, when nothing changed.
Apply ==
  /\ watch = "apply"
  /\ watch' = "idle"
  /\ LET next == [password |-> IF Rekeys THEN parsed.password ELSE hot.password,
                  site     |-> parsed.site,
                  allow    |-> IF overrides.allow THEN hot.allow ELSE parsed.allow]
     IN IF Rekeys \/ next # hot
        THEN hot' = next /\ lastPassword' = parsed.password
        ELSE UNCHANGED <<hot, lastPassword>>
  /\ Stamp
  /\ UNCHANGED <<fileVars, seen, parsed, overrides>>

Watcher == Apply \/ (Polling /\ UNCHANGED <<overrides, hot, lastPassword>>)

Next == Watcher \/ (Edit(Configs) /\ UNCHANGED <<overrides, hot, lastPassword>>)

-----------------------------------------------------------------------------
\* Every variable stays in its range.
TypeOK ==
  /\ content \in Configs \cup {Broken, Missing} /\ parsed \in Configs
  /\ mtime \in 1..MaxEdits + 1 /\ edits \in 0..MaxEdits /\ missed \in BOOLEAN
  /\ watch \in {"off", "idle", "debounce", "retry", "apply"}
  /\ lastMtime \in 0..mtime /\ seen \in 0..mtime
  /\ overrides \in [password : BOOLEAN, allow : BOOLEAN]
  /\ hot \in [password : Passwords, site : Sites, allow : BOOLEAN]
  /\ lastPassword \in Passwords \cup {Empty}

\* wiki/hot-reload.md, "CLI always wins, even across multiple file changes".
OverridesWin == /\ overrides.password => hot.password = CliPassword
                /\ overrides.allow => hot.allow

\* What of a file a server that has taken it runs.
Matches(c) == /\ overrides.password \/ c.password = Empty \/ hot.password = c.password
              /\ hot.site = c.site
              /\ overrides.allow \/ hot.allow = c.allow
==============================================================================
