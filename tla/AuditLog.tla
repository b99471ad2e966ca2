------------------------------- MODULE AuditLog -------------------------------
(***************************************************************************)
(* The audit log (internal/services/audit): one file handle behind a       *)
(* mutex, opened when it is first needed, closed by Reload and at the end  *)
(* of Start, over a file system whose files can be unwritable, full or     *)
(* rotated away.                                                           *)
(***************************************************************************)
EXTENDS Naturals, Sequences, SequencesExt

CONSTANTS
  Paths,        \* where the log may be configured to be
  MaxEvents     \* bound: WriteEvent calls
ASSUME AuditAssumption == Paths # {} /\ MaxEvents \in Nat

VARIABLES
  logPath,
  file,         \* s.file: where the open handle was opened and whether the
                \* file is still there, or NoFile
  starting,     \* where Start is: "no", "running", "ended"
  health,
  logs,         \* the events in the file at each path
  disk,         \* of each path: "ok", "closed" to opening, "full" for writing
  events        \* WriteEvent calls so far
auditVars == <<logPath, file, starting, health, logs, disk, events>>

NoFile == [path |-> "none", linked |-> FALSE]

AuditInit ==
  /\ logPath \in Paths
  /\ file = NoFile
  /\ starting = "no"
  /\ health = "ok"
  /\ logs = [p \in Paths |-> <<>>]
  /\ disk = [p \in Paths |-> "ok"]
  /\ events = 0
-----------------------------------------------------------------------------
\* openLogLocked: the handle it gives, NoFile where it fails.
OpenLog(p) == IF disk[p] = "closed" THEN NoFile ELSE [path |-> p, linked |-> TRUE]

\* Mutant of Contents: the file is opened with O_TRUNC.
ContentsTruncated(handle) ==
  IF handle = NoFile THEN logs ELSE [logs EXCEPT ![handle.path] = <<>>]

\* The files once handle has been opened: O_APPEND leaves them alone.
Contents(handle) == logs

\* Opening sets the health, a failure leaves that to the caller.
Healthy(handle) == IF handle = NoFile THEN health ELSE "ok"

\* Start up to its wait: it opens without looking whether WriteEvent has.
Start ==
  /\ starting = "no"
  /\ LET handle == OpenLog(logPath)
     IN  /\ file' = IF handle = NoFile THEN file ELSE handle
         /\ logs' = Contents(handle)
         /\ starting' = IF handle = NoFile THEN "ended" ELSE "running"
         /\ health' = IF handle = NoFile THEN "down" ELSE "ok"
  /\ UNCHANGED <<logPath, disk, events>>

\* The context ends and Start closes the handle.
Done ==
  /\ starting = "running"
  /\ starting' = "ended"
  /\ file' = NoFile
  /\ UNCHANGED <<logPath, health, logs, disk, events>>

\* Mutant of Reload: an open handle is kept.
ReloadKeeps(p) ==
  /\ p # logPath
  /\ logPath' = p
  /\ file' = IF file = NoFile THEN OpenLog(p) ELSE file
  /\ UNCHANGED <<starting, health, logs, disk, events>>

\* Reload to another path: the old handle is closed, the new one may fail.
Reload(p) ==
  /\ p # logPath
  /\ logPath' = p
  /\ file' = OpenLog(p)
  /\ logs' = Contents(OpenLog(p))
  /\ health' = Healthy(OpenLog(p))
  /\ UNCHANGED <<starting, disk, events>>

\* WriteEvent: an event that cannot be written is dropped without a word.
WriteEvent ==
  /\ events < MaxEvents
  /\ events' = events + 1
  /\ LET handle == IF file = NoFile THEN OpenLog(logPath) ELSE file
         before == IF file = NoFile THEN Contents(handle) ELSE logs
     IN  /\ file' = handle
         /\ health' = IF file = NoFile THEN Healthy(handle) ELSE health
         /\ logs' = IF handle.linked /\ disk[handle.path] # "full"
                      THEN [before EXCEPT ![handle.path] = Append(@, events')]
                      ELSE before
  /\ UNCHANGED <<logPath, starting, disk>>

\* A disk fills up, permissions change.
DiskChanges ==
  /\ \E p \in Paths : \E d \in {"ok", "closed", "full"} : disk' = [disk EXCEPT ![p] = d]
  /\ UNCHANGED <<logPath, file, starting, health, logs, events>>

\* logrotate moves the file away; an open handle goes with it.
Rotate ==
  /\ \E p \in Paths :
       /\ logs[p] # <<>>
       /\ logs' = [logs EXCEPT ![p] = <<>>]
       /\ file' = IF file.path = p THEN [file EXCEPT !.linked = FALSE] ELSE file
  /\ UNCHANGED <<logPath, starting, health, disk, events>>

AuditNext ==
  \/ Start \/ Done \/ WriteEvent \/ DiskChanges \/ Rotate
  \/ \E p \in Paths : Reload(p)
-----------------------------------------------------------------------------
AuditTypeOK ==
  /\ logPath \in Paths
  /\ file \in {NoFile} \union [path : Paths, linked : BOOLEAN]
  /\ starting \in {"no", "running", "ended"} /\ health \in {"ok", "down"}
  /\ \A p \in Paths : logs[p] \in Seq(1..MaxEvents)

\* Nothing this program does takes an event out of a log or changes one,
\* however often the log is opened again: by Start after a late WriteEvent, by
\* WriteEvent after the end of Start, by Reload there and back (audit.go:146).
AppendOnly == [][Rotate \/ \A p \in Paths : IsPrefix(logs[p], logs'[p])]_auditVars

\* An event goes to the log that is configured when it is written, and it does
\* reach it unless the disk refuses or the file was moved from under the open
\* handle: also right after a Reload and after the end of Start (audit.go:108).
WrittenAsConfigured ==
  [][events' # events =>
       /\ \A p \in Paths \ {logPath} : logs'[p] = logs[p]
       /\ disk[logPath] = "ok" /\ file \in {NoFile, [path |-> logPath, linked |-> TRUE]} =>
            logs'[logPath] = Append(logs[logPath], events')]_auditVars
=============================================================================
