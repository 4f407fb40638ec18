------------------------------- MODULE Reload --------------------------------
(* A running server or client whose configuration file is edited: the polling  *)
(* they share, ConfigFile, over what each makes of a file, ReloadServer and    *)
(* ReloadClient.                                                               *)
EXTENDS ConfigFile

CONSTANTS Passwords, Sites, Headers, Urls,
          CliPassword,  \* the server's --password
          Cli           \* what each flag of the client gives

ASSUME CliAssumption == CliPassword \in Passwords /\ Cli \notin Passwords \cup Headers \cup Urls

VARIABLES
  role,         \* "server", "client"
  overrides, hot, lastPassword,   \* of either
  lastHeaders, sid                \* of a client

Server == INSTANCE ReloadServer
Client == INSTANCE ReloadClient

ASSUME FileAssumption == {Broken, Missing} \cap (Server!Configs \cup Client!Configs) = {}

clientOnly == <<lastHeaders, sid>>
vars == <<fileVars, pollVars, role, overrides, hot, lastPassword, clientOnly>>

Init ==
  \/ role = "server" /\ Server!Init /\ lastHeaders = Client!Empty /\ sid = 0
  \/ role = "client" /\ Client!Init

OfServer(A) == role = "server" /\ A /\ UNCHANGED <<role, clientOnly>>
OfClient(A) == role = "client" /\ A /\ UNCHANGED role

Watcher == OfServer(Server!Watcher) \/ OfClient(Client!Watcher)

Next == OfServer(Server!Next) \/ OfClient(Client!Next)

\* The interval keeps ticking and the task keeps being scheduled.
Spec == Init /\ [][Next]_vars /\ WF_vars(Watcher)

-----------------------------------------------------------------------------
\* Every variable stays in its range.
TypeOK == /\ role \in {"server", "client"}
          /\ role = "server" => Server!TypeOK
          /\ role = "client" => Client!TypeOK

\* wiki/hot-reload.md, "CLI always wins, even across multiple file changes": the
\* flags that CliOverrides records win over every file the watcher takes.
OverridesWin == /\ role = "server" => Server!OverridesWin
                /\ role = "client" => Client!KnownFlagsWin

\* The session id is rotated whenever what the stream was opened with changes, so
\* that no stream outlives the configuration it belongs to.
ChangeRotates == [][role = "client" /\ hot' # hot => sid' # sid]_vars

Matches == /\ role = "server" => Server!Matches(content)
           /\ role = "client" => Client!Matches(content)

\* README: "Changes to config.toml are picked up automatically every few seconds":
\* whatever half-written, broken and missing files the watcher saw on the way, the
\* program ends up running the file it was left with, as long as that file was
\* written under the watcher's eyes.
Converges == <>[](Parses /\ ~missed) => <>[](Parses /\ Matches)

\* README: "CLI overrides are never clobbered by file changes".
FlagsWin == role = "client" => \A f \in overrides : hot[f] = Cli
==============================================================================
