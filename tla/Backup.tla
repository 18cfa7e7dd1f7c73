------------------------------- MODULE Backup -------------------------------
(***************************************************************************)
(* The database file and its backups (db/bolt.go): one when the process    *)
(* starts, by New, and one on every tick, by backupLoop, each in a file    *)
(* named for its minute, while main or an interrupt Closes the database.   *)
(* The loop takes no lock. A process may die at any step.                  *)
(***************************************************************************)
EXTENDS Naturals

CONSTANTS
    MaxMinute,  \* bound: minutes that pass
    MaxCommit,  \* bound: transactions committed
    NoFile,     \* no file
    Part        \* a file that restores to nothing

ASSUME BackupAssumption == {MaxMinute, MaxCommit} \subseteq Nat /\ {NoFile, Part} \cap Nat = {}

Minute == 0 .. MaxMinute

VARIABLES
    minute,     \* the clock
    commits,    \* the state of the database: the transactions committed
    handle,     \* b.db: "open", "closed", or "nil" without a process or after Close
    loop,       \* "none", "start" in New, "wait" in the select, "tick" in a tick's doBackup
    due,        \* a tick waits for the loop; ticked: the minute of the last tick
    ticked,
    stage,      \* of doBackup: "none", "created" its file, "copying", "copied" and not flushed
    fn,         \* the file it writes: its minute
    snap,       \* the state its transaction reads
    file,       \* the files: NoFile, Part, or the state they restore to
    started,    \* history: the state and the minute when the process started
    spoiled     \* history: files whose writer died or could not flush

doBackupVars == <<stage, fn, snap>>
backupVars == <<minute, commits, handle, loop, due, ticked, doBackupVars, file, started, spoiled>>

BackupInit ==
    /\ minute = 0 /\ commits = 0 /\ started = <<0, 0>>
    /\ handle = "nil" /\ loop = "none" /\ due = FALSE /\ ticked = 0
    /\ stage = "none" /\ fn = 0 /\ snap = 0
    /\ file = [m \in Minute |-> NoFile]
    /\ spoiled = {}

\* The process is gone, at whatever step.
Gone ==
    /\ handle' = "nil" /\ loop' = "none" /\ due' = FALSE /\ stage' = "none"
    /\ spoiled' = IF stage = "none" THEN spoiled ELSE spoiled \cup {fn}
    /\ UNCHANGED <<minute, commits, ticked, fn, snap, file, started>>

\* doBackup creates or truncates this minute's file.
Create ==
    /\ stage = "none"
    /\ stage' = "created" /\ fn' = minute
    /\ file' = [file EXCEPT ![minute] = Part] /\ spoiled' = spoiled \ {minute}
    /\ UNCHANGED snap

\* doBackup is done: the loop goes on, or New starts it, whose first tick is a minute away.
Done ==
    /\ stage' = "none" /\ loop' = "wait"
    /\ ticked' = IF loop = "start" THEN minute ELSE ticked

\* New: open the file, and the first backup.
New ==
    /\ loop = "none"
    /\ handle' = "open" /\ loop' = "start" /\ due' = FALSE /\ started' = <<commits, minute>>
    /\ Create
    /\ UNCHANGED <<minute, commits, ticked>>

\* The ticker, once in every b.every of at least a minute; a tick too many is dropped.
Tick ==
    /\ loop \in {"wait", "tick"} /\ minute > ticked
    /\ due' = TRUE /\ ticked' = minute
    /\ UNCHANGED <<minute, commits, handle, loop, doBackupVars, file, started, spoiled>>

\* backupLoop, which may take a tick when quit is closed too.
TickBackup ==
    /\ loop = "wait" /\ due
    /\ due' = FALSE /\ loop' = "tick"
    /\ Create
    /\ UNCHANGED <<minute, commits, handle, ticked, started>>

Quit ==
    /\ loop = "wait" /\ handle = "nil"
    /\ loop' = "quit"
    /\ UNCHANGED <<minute, commits, handle, due, ticked, doBackupVars, file, started, spoiled>>

\* View, of a handle read without the lock: without one, the process panics.
View ==
    /\ stage = "created"
    /\ \/ handle = "open" /\ stage' = "copying" /\ snap' = commits
          /\ UNCHANGED <<minute, commits, handle, loop, due, ticked, fn, file, started, spoiled>>
       \/ handle = "nil" /\ Gone

\* A mutant: the file of a copy that failed stays.
NotCopiedKept ==
    /\ stage = "copying" \/ (stage = "created" /\ handle = "closed")
    /\ IF loop = "start" THEN Gone
       ELSE Done /\ UNCHANGED <<minute, commits, handle, due, fn, snap, file, started, spoiled>>
\* The copy fails, or the database is closed: the file is removed, even if its minute had a
\* good one before. New then fails, and main dies of it.
NotCopied ==
    /\ stage = "copying" \/ (stage = "created" /\ handle = "closed")
    /\ file' = [file EXCEPT ![fn] = NoFile]
    /\ IF loop = "start"
       THEN handle' = "nil" /\ loop' = "none" /\ due' = FALSE /\ stage' = "none" /\ UNCHANGED ticked
       ELSE Done /\ UNCHANGED <<handle, due>>
    /\ UNCHANGED <<minute, commits, fn, snap, started, spoiled>>

Copied ==
    /\ stage = "copying"
    /\ stage' = "copied"
    /\ UNCHANGED <<minute, commits, handle, loop, due, ticked, fn, snap, file, started, spoiled>>

\* The deferred closes: nobody looks at the error of the last write.
Flush ==
    /\ stage = "copied"
    /\ \/ file' = [file EXCEPT ![fn] = snap] /\ UNCHANGED spoiled
       \/ spoiled' = spoiled \cup {fn} /\ UNCHANGED file
    /\ Done
    /\ UNCHANGED <<minute, commits, handle, due, fn, snap, started>>

\* Close, under the lock that New holds too; the file closes when no transaction reads it.
CloseFile ==
    /\ loop # "start" /\ handle = "open" /\ stage # "copying"
    /\ handle' = "closed"
    /\ UNCHANGED <<minute, commits, loop, due, ticked, doBackupVars, file, started, spoiled>>

Close ==
    /\ handle = "closed"
    /\ handle' = "nil"
    /\ UNCHANGED <<minute, commits, loop, due, ticked, doBackupVars, file, started, spoiled>>

Commit ==
    /\ handle = "open" /\ loop # "start" /\ commits < MaxCommit
    /\ commits' = commits + 1
    /\ UNCHANGED <<minute, handle, loop, due, ticked, doBackupVars, file, started, spoiled>>

\* An exit, a crash, a kill.
Die == loop # "none" /\ Gone

Minutes ==
    /\ minute < MaxMinute /\ minute' = minute + 1
    /\ UNCHANGED <<commits, handle, loop, due, ticked, doBackupVars, file, started, spoiled>>

BackupNext ==
    \/ New \/ Tick \/ TickBackup \/ Quit \/ View \/ NotCopied \/ Copied \/ Flush
    \/ CloseFile \/ Close \/ Commit \/ Die \/ Minutes

BackupSpec == BackupInit /\ [][BackupNext]_backupVars

-----------------------------------------------------------------------------
\* A file that nobody writes restores to a state the database has been in, unless its writer
\* died or could not flush it: a copy that fails removes its file (bolt.go:131-134). While
\* the bot runs there is a backup of the state it started from or a later one (bolt.go:75):
\* no tick of it takes that file. Close meets the loop at any step.
BackupsWhole ==
    /\ \A m \in Minute \ spoiled :
        file[m] \in {NoFile} \cup 0 .. commits \/ (stage # "none" /\ fn = m)
    /\ loop \in {"wait", "tick"} =>
        started[2] \in spoiled \/ file[started[2]] \in started[1] .. commits
=============================================================================
