----------------------------- MODULE LogSystem -----------------------------
(***************************************************************************)
(* The log and its numbered predecessors (log_system.py).  What is logged  *)
(* between two rotations is a generation, a number; the suffix of a file   *)
(* is a number too.  Each rename is a step, so that the process can die    *)
(* between two of them.                                                    *)
(***************************************************************************)
EXTENDS Naturals, Sequences

VARIABLES log_file,    \* the generation in the file without a suffix, 0 if there is none
          old_logs,    \* suffix -> generation
          calls,       \* the suffixes of the active calls of rotateLog, innermost first
          last_gen     \* the latest generation

logVars == <<log_file, old_logs, calls, last_gen>>

\* rotateLog takes the last digit for the whole number: 9 is followed by 10, and
\* 19 by 110.
Bump(n) == IF n % 10 = 9 THEN 100 * (n \div 10) + 10 ELSE n + 1

LogInit == log_file = 0 /\ old_logs = <<>> /\ calls = <<>> /\ last_gen = 0

\* Slip: a log that was rotated is not opened again.
OpenLogOnce ==
  /\ last_gen' = IF log_file = 0 THEN last_gen + 1 ELSE last_gen
  /\ log_file' = IF old_logs = <<>> THEN last_gen' ELSE log_file
  /\ UNCHANGED <<old_logs, calls>>

\* open(log_file, 'a').
OpenLog ==
  /\ last_gen' = IF log_file = 0 THEN last_gen + 1 ELSE last_gen
  /\ log_file' = last_gen'
  /\ UNCHANGED <<old_logs, calls>>

\* Renamed to .0, over whatever a process left there that died in a rotation.
RotateLogs ==
  /\ old_logs' = [s \in DOMAIN old_logs \cup {0} |-> IF s = 0 THEN log_file ELSE old_logs[s]]
  /\ log_file' = 0
  /\ calls' = <<0>>
  /\ UNCHANGED last_gen

rotating == calls # <<>>
new_log_file == Bump(Head(calls))

RotateNext ==
  /\ rotating /\ new_log_file \in DOMAIN old_logs
  /\ calls' = <<new_log_file>> \o calls
  /\ UNCHANGED <<log_file, old_logs, last_gen>>

\* Slip: the file is renamed over the next one, which is not moved first.
RenameOver ==
  /\ rotating
  /\ old_logs' = [s \in (DOMAIN old_logs \ {Head(calls)}) \cup {new_log_file} |->
                    IF s = new_log_file THEN old_logs[Head(calls)] ELSE old_logs[s]]
  /\ calls' = Tail(calls)
  /\ UNCHANGED <<log_file, last_gen>>

Rename ==
  /\ rotating /\ new_log_file \notin DOMAIN old_logs
  /\ old_logs' = [s \in (DOMAIN old_logs \ {Head(calls)}) \cup {new_log_file} |->
                    IF s = new_log_file THEN old_logs[Head(calls)] ELSE old_logs[s]]
  /\ calls' = Tail(calls)
  /\ UNCHANGED <<log_file, last_gen>>

RotateLog == RotateNext \/ Rename

Abandon == calls' = <<>> /\ UNCHANGED <<log_file, old_logs, last_gen>>
=============================================================================
