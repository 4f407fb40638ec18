----------------------------- MODULE ConfigFile ------------------------------
(* The polling half of reload.rs config_watcher_server and                    *)
(* config_watcher_client, which are the same code: a file that is edited under *)
(* a task that compares its mtime with the last one it acted on.  What a       *)
(* parsed file is, and what is done with one, is the extending module's.       *)
EXTENDS Naturals

CONSTANTS MaxEdits,         \* bound: writes and removals of the file
          Broken, Missing   \* what the file is when it does not parse, or is not there

ASSUME EditsAssumption == MaxEdits \in Nat

VARIABLES
  content,    \* a parsed configuration, Broken or Missing
  mtime,      \* grows with every write
  edits,
  missed,     \* the last write fell between the program's load and the watcher
  watch,      \* "off", "idle", "debounce", "retry", "apply"
  lastMtime,
  seen,       \* the mtime this round was started by
  parsed      \* what this round read

fileVars  == <<content, mtime, edits, missed>>
pollVars  == <<watch, lastMtime, seen, parsed>>

Parses == content \notin {Broken, Missing}

\* The program has loaded the file and has not started the watcher.
FileInit(initial) ==
  /\ content = initial /\ mtime = 1 /\ edits = 0 /\ missed = FALSE
  /\ watch = "off" /\ lastMtime = 0 /\ seen = 0 /\ parsed = initial

\* A write, a half-finished one (Broken) included, or a removal.
Edit(configs) ==
  /\ edits < MaxEdits /\ edits' = edits + 1
  /\ content' \in configs \cup {Broken, Missing}
  /\ mtime' = mtime + 1
  /\ missed' = (watch = "off")
  /\ UNCHANGED pollVars

\* An mtime that cannot be read is UNIX_EPOCH.
Start ==
  /\ watch = "off"
  /\ lastMtime' = IF content = Missing THEN 0 ELSE mtime
  /\ watch' = "idle"
  /\ UNCHANGED <<fileVars, seen, parsed>>

Poll ==
  /\ watch = "idle" /\ content # Missing /\ mtime # lastMtime
  /\ seen' = mtime
  /\ watch' = "debounce"
  /\ UNCHANGED <<fileVars, lastMtime, parsed>>

TakeFile == parsed' = content /\ watch' = "apply" /\ UNCHANGED lastMtime

\* After 200ms.
ReadFile ==
  /\ watch = "debounce"
  /\ IF Parses THEN TakeFile
     ELSE watch' = "retry" /\ UNCHANGED <<lastMtime, parsed>>
  /\ UNCHANGED <<fileVars, seen>>

\* After another 500ms; a second failure leaves lastMtime for the next round.
RetryFile ==
  /\ watch = "retry"
  /\ IF Parses THEN TakeFile
     ELSE watch' = "idle" /\ UNCHANGED <<lastMtime, parsed>>
  /\ UNCHANGED <<fileVars, seen>>

\* Mutant: the file's mtime is asked for again after it was read.
StampNow == lastMtime' = mtime

\* The mtime acted on is the one seen before the file was read, so that an edit
\* since then starts another round.
Stamp == lastMtime' = seen

Polling == Start \/ Poll \/ ReadFile \/ RetryFile
==============================================================================
