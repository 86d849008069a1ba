----------------------------- MODULE StoreOpening -----------------------------
(***************************************************************************)
(* How server processes open one store: EliteStore.__init__ backs the      *)
(* database up if its schema is old, migrates it in place, and puts the    *)
(* backup back when the migration raises, unless that raises too; a        *)
(* failure after the migration, in the graph's tables, puts nothing back.  *)
(* Every IDE window is a process and does this by itself; nothing excludes *)
(* two of them.                                                            *)
(*                                                                         *)
(* A file is named by the order of its creation. Replacing the database,   *)
(* or removing its write-ahead log, leaves open connections on the file    *)
(* they have, which nobody who opens the path afterwards sees.             *)
(***************************************************************************)
EXTENDS Naturals, Sequences, FiniteSets

CONSTANTS
  Openers,      \* server processes
  LegacyRows,   \* rows written before the privacy rules, in raw form
  UserRows,     \* rows recorded by users meanwhile
  KeepBackups,  \* backups[3:] are removed
  MaxSeconds,   \* bound: seconds that pass; they name the backups
  MaxStarts,    \* bound: starts of processes
  MaxFiles      \* bound: replacements of the database file

ASSUME OpeningAssumption ==
  /\ KeepBackups \in Nat \ {0}
  /\ MaxSeconds \in Nat \ {0} /\ MaxStarts \in Nat /\ MaxFiles \in Nat \ {0}
  /\ LegacyRows \cap UserRows = {}

VARIABLES
  files,     \* content of each file, its log included
  saved,     \* what of it a checkpoint has moved into the main file
  path,      \* the file elite.db names; 0 when there is none
  backups,   \* the second of each kept backup |-> its content
  second,    \* the time, for the names of backups
  starts,    \* how many processes were started
  opener,    \* what each process does
  acked,     \* history: rows whose recording was acknowledged
  exposed,   \* history: rows recorded while a backup could still be put back
  torn       \* history: a process died, a copy was taken, or the replacement failed,
             \* after the removal of the log and before the replacement

disk == <<files, saved, path>>
openHistory == <<acked, exposed, torn>>
openVars == <<disk, backups, second, starts, opener, openHistory>>

Content == [versions : SUBSET {6, 7}, raw : SUBSET LegacyRows, rows : SUBSET UserRows]
Fresh == [versions |-> {}, raw |-> {}, rows |-> {}]
Present == IF path = 0 THEN Fresh ELSE files[path]

\* at: where a process is; file: the file its connection has; backup: the name
\* of its backup, 0 for none; todo: rows it still has to sanitize; copy: the
\* content to put back; base: history, the content when it started; alone:
\* history, there was a store and no other process ran since.
Closed == [at |-> "closed", file |-> 0, backup |-> 0, todo |-> {}, copy |-> Fresh,
           base |-> Fresh, alone |-> FALSE]

\* How a process stops: its window was closed or it died, _init_db raised and what
\* there was to restore is restored, the restore raised, or the graph's tables did
\* after the migration.
Stopped == {"closed", "failed", "unrestored", "migrated"}
Attached == {"read", "sanitize", "ledger", "finish", "graph", "open"}
Opening == {"backup", "connect", "read", "sanitize", "ledger", "finish", "raised", "replace"}
Running(w) == opener[w].at \notin Stopped
MayRestore(w) == opener[w].at \in Opening /\ opener[w].backup # 0

\* Some process has removed the log and not yet replaced the file.
Replacing == \E w \in Openers : opener[w].at = "replace"

\* SQLite: when the last connection of a file is closed, its log is moved into
\* the main file.
AfterClose(w) ==
  LET f == opener[w].file
      shared == \E v \in Openers \ {w} : opener[v].at \in Attached /\ opener[v].file = f
  IN IF opener[w].at \in Attached /\ ~shared THEN [saved EXCEPT ![f] = files[f]] ELSE saved

\* Slip, for mutation: one more than the limit stays.
KeptOneMore(all) ==
  LET newest == {s \in DOMAIN all : Cardinality({t \in DOMAIN all : t > s}) <= KeepBackups}
  IN [s \in newest |-> all[s]]

\* The three newest of backup_dir.glob(...), by modification time.
Kept(all) ==
  LET newest == {s \in DOMAIN all : Cardinality({t \in DOMAIN all : t > s}) < KeepBackups}
  IN [s \in newest |-> all[s]]

Goes(w, label) == opener' = [opener EXCEPT ![w].at = label]

-----------------------------------------------------------------------------
OpenInit ==
  /\ \/ files = <<>> /\ path = 0
     \/ files = <<[Fresh EXCEPT !.raw = LegacyRows]>> /\ path = 1
     \/ files = <<[Fresh EXCEPT !.versions = {6}]>> /\ path = 1
  /\ saved = files
  /\ backups = <<>> /\ second = 1 /\ starts = 0
  /\ opener = [w \in Openers |-> Closed]
  /\ acked = {} /\ exposed = {} /\ torn = FALSE

NextSecond ==
  /\ second < MaxSeconds /\ second' = second + 1
  /\ UNCHANGED <<disk, backups, starts, opener, openHistory>>

\* EliteStore.__init__ up to the version check of create_migration_backup.
OpenStart(w) ==
  /\ ~Running(w) /\ starts < MaxStarts
  /\ Len(files) + 2 * Cardinality({v \in Openers : Running(v)}) + 2 <= MaxFiles
  /\ starts' = starts + 1
  /\ opener' = [v \in Openers |->
       IF v = w
         THEN [Closed EXCEPT !.at = IF path = 0 \/ 7 \in Present.versions THEN "connect"
                                    ELSE "backup",
                             !.base = Present,
                             !.alone = path # 0 /\ \A u \in Openers : ~Running(u)]
         ELSE [opener[v] EXCEPT !.alone = FALSE]]
  /\ UNCHANGED <<disk, backups, second, openHistory>>

\* The backup is taken from the given content.
BackupOf(w, content, all) ==
  /\ opener[w].at = "backup"
  /\ backups' = Kept([s \in DOMAIN backups \cup {second} |->
                        IF s \in all THEN backups[s] ELSE content])
  /\ opener' = [opener EXCEPT ![w].at = "connect", ![w].backup = second]
  /\ torn' = (torn \/ Replacing)
  /\ UNCHANGED <<disk, second, starts, acked, exposed>>

\* Slip, for mutation: a copy of the main file, without the log.
BackupMainFile(w) == BackupOf(w, IF path = 0 THEN Fresh ELSE saved[path], DOMAIN backups \ {second})

\* Slip, for mutation: a backup of this very second is kept.
BackupOnce(w) == BackupOf(w, Present, DOMAIN backups)

\* create_migration_backup: the online backup, its name, and the removal of
\* older ones.
Backup(w) == BackupOf(w, Present, DOMAIN backups \ {second})

\* The first connection creates the file; the tables are created if they are
\* not there, and columns added before are left alone.
Connect(w) ==
  /\ opener[w].at = "connect"
  /\ IF path = 0
       THEN files' = Append(files, Fresh) /\ saved' = Append(saved, Fresh) /\ path' = Len(files) + 1
       ELSE UNCHANGED disk
  /\ opener' = [opener EXCEPT ![w].at = "read", ![w].file = path']
  /\ UNCHANGED <<backups, second, starts, openHistory>>

File(w) == files[opener[w].file]

\* Slip, for mutation: the ledger is written first.
ReadLedgerEager(w) ==
  /\ opener[w].at = "read"
  /\ opener' = [opener EXCEPT
       ![w].at = IF 6 \in File(w).versions THEN "finish" ELSE "sanitize", ![w].todo = File(w).raw]
  /\ files' = [files EXCEPT ![opener[w].file].versions = @ \cup {6}]
  /\ UNCHANGED <<saved, path, backups, second, starts, openHistory>>

\* _run_privacy_migration: SELECT version = 6, then the rows to look at.
ReadLedger(w) ==
  /\ opener[w].at = "read"
  /\ opener' = [opener EXCEPT
       ![w].at = IF 6 \in File(w).versions THEN "finish" ELSE "sanitize", ![w].todo = File(w).raw]
  /\ UNCHANGED <<disk, backups, second, starts, openHistory>>

\* One UPDATE, committed by itself.
Sanitize(w) ==
  /\ opener[w].at = "sanitize"
  /\ IF opener[w].todo = {}
       THEN Goes(w, "ledger") /\ UNCHANGED files
       ELSE \E r \in opener[w].todo :
              /\ files' = [files EXCEPT ![opener[w].file].raw = @ \ {r}]
              /\ opener' = [opener EXCEPT ![w].todo = @ \ {r}]
  /\ UNCHANGED <<saved, path, backups, second, starts, openHistory>>

\* A statement of _init_db raises: close_all, and on to the restore.
Raise(w) ==
  /\ saved' = AfterClose(w)
  /\ Goes(w, "raised")
  /\ UNCHANGED <<files, path, backups, second, starts, openHistory>>

\* INSERT INTO schema_migrations VALUES (6): a duplicate key raises.
WriteLedger(w) ==
  /\ opener[w].at = "ledger"
  /\ \/ /\ 6 \in File(w).versions
        /\ Raise(w)
     \/ /\ 6 \notin File(w).versions
        /\ files' = [files EXCEPT ![opener[w].file].versions = @ \cup {6}]
        /\ Goes(w, "finish")
        /\ UNCHANGED <<saved, path, backups, second, starts, openHistory>>

\* INSERT OR IGNORE of the current version.
Finish(w) ==
  /\ opener[w].at = "finish"
  /\ files' = [files EXCEPT ![opener[w].file].versions = @ \cup {7}]
  /\ opener' = [opener EXCEPT ![w].at = "graph"]
  /\ UNCHANGED <<saved, path, backups, second, starts, openHistory>>

\* TemporalGraphStore(self.db_path), outside the try: its tables are there.
LinkGraph(w) ==
  /\ opener[w].at = "graph"
  /\ Goes(w, "open")
  /\ UNCHANGED <<disk, backups, second, starts, openHistory>>

\* A full disk, a lock that stays held, an unreadable page: before the try of
\* __init__, inside it, or after it, where nothing closes the connection but the
\* end of the process.
Fault(w) ==
  \/ /\ opener[w].at \in Attached \cap Opening
     /\ Raise(w)
  \/ /\ opener[w].at = "backup"
     /\ Goes(w, "failed")
     /\ UNCHANGED <<disk, backups, second, starts, openHistory>>
  \/ /\ opener[w].at = "graph"
     /\ saved' \in {saved, AfterClose(w)}
     /\ Goes(w, "migrated")
     /\ UNCHANGED <<files, path, backups, second, starts, openHistory>>

\* restore_migration_backup up to the removal of the log: from now on the path
\* names the main file alone, unless a connection that is still there moves
\* its log into it. Without a backup there is nothing to restore.
Restore(w) ==
  /\ opener[w].at = "raised"
  /\ \/ /\ opener[w].backup = 0
        /\ Goes(w, "failed") /\ UNCHANGED disk
     \/ /\ opener[w].backup \in DOMAIN backups
        /\ \E left \in {saved[path], files[path]} :
             /\ files' = Append(files, left) /\ saved' = Append(saved, left)
             /\ path' = Len(files) + 1
             /\ opener' = [opener EXCEPT ![w].at = "replace",
                                         ![w].copy = backups[opener[w].backup]]
  /\ UNCHANGED <<backups, second, starts, openHistory>>

\* os.replace(temporary, destination)
Replace(w) ==
  /\ opener[w].at = "replace"
  /\ files' = Append(files, opener[w].copy) /\ saved' = Append(saved, opener[w].copy)
  /\ path' = Len(files) + 1
  /\ Goes(w, "failed")
  /\ UNCHANGED <<backups, second, starts, openHistory>>

\* restore_migration_backup raises: the backup is gone or no longer sound, the
\* copy or the removal of the log fails, or the replacement does.
RestoreFault(w) ==
  /\ \/ opener[w].at = "raised" /\ opener[w].backup # 0
     \/ opener[w].at = "replace"
  /\ torn' = (torn \/ opener[w].at = "replace")
  /\ Goes(w, "unrestored")
  /\ UNCHANGED <<disk, backups, second, starts, acked, exposed>>

\* A user records something in an open window.
Record(w, r) ==
  /\ opener[w].at = "open" /\ r \notin acked
  /\ files' = [files EXCEPT ![opener[w].file].rows = @ \cup {r}]
  /\ acked' = acked \cup {r}
  /\ exposed' = IF opener[w].file # path \/ \E v \in Openers : MayRestore(v)
                  THEN exposed \cup {r} ELSE exposed
  /\ UNCHANGED <<saved, path, backups, second, starts, opener, torn>>

\* SQLite moves the log into the main file now and then.
Checkpoint(w) ==
  /\ opener[w].at = "open"
  /\ saved[opener[w].file] # File(w)
  /\ saved' = [saved EXCEPT ![opener[w].file] = File(w)]
  /\ UNCHANGED <<files, path, backups, second, starts, opener, openHistory>>

Close(w) ==
  /\ opener[w].at = "open"
  /\ saved' = AfterClose(w)
  /\ Goes(w, "closed")
  /\ UNCHANGED <<files, path, backups, second, starts, openHistory>>

OpenCrash(w) ==
  /\ Running(w)
  /\ torn' = (torn \/ opener[w].at = "replace")
  /\ Goes(w, "closed")
  /\ UNCHANGED <<disk, backups, second, starts, acked, exposed>>

Opener(w) ==
  \/ OpenStart(w) \/ Backup(w) \/ Connect(w) \/ ReadLedger(w) \/ Sanitize(w)
  \/ WriteLedger(w) \/ Finish(w) \/ LinkGraph(w) \/ Fault(w)
  \/ Restore(w) \/ Replace(w) \/ RestoreFault(w)
  \/ \E r \in UserRows : Record(w, r)
  \/ Checkpoint(w) \/ Close(w) \/ OpenCrash(w)

OpenNext == NextSecond \/ \E w \in Openers : Opener(w)

OpenSpec == OpenInit /\ [][OpenNext]_openVars

-----------------------------------------------------------------------------
OpenTypeOK ==
  /\ path \in 0..Len(files)
  /\ files \in Seq(Content) /\ saved \in Seq(Content) /\ Len(saved) = Len(files)
  /\ DOMAIN backups \subseteq 1..MaxSeconds /\ Cardinality(DOMAIN backups) <= KeepBackups
  /\ \A s \in DOMAIN backups : backups[s] \in Content
  /\ second \in 1..MaxSeconds /\ starts \in 0..MaxStarts
  /\ opener \in [Openers ->
       [at : Opening \cup Stopped \cup {"graph", "open"}, file : 0..Len(files), backup : 0..MaxSeconds,
        todo : SUBSET LegacyRows, copy : Content, base : Content, alone : BOOLEAN]]
  /\ \A w \in Openers : opener[w].at \in Attached => opener[w].file # 0
  /\ acked \subseteq UserRows /\ exposed \subseteq acked /\ torn \in BOOLEAN

\* Whatever processes migrate at once, die or put backups back: a database, a
\* main file without its log, or a backup that says the privacy migration was
\* made holds no raw row (_run_privacy_migration).
LedgerMeansSanitized ==
  \A c \in {files[f] : f \in DOMAIN files} \cup {saved[f] : f \in DOMAIN saved}
           \cup {backups[s] : s \in DOMAIN backups} :
    6 \in c.versions => c.raw = {}

\* A row whose recording was acknowledged is in the store, unless it was
\* recorded while another process was opening with a backup in its hand or on a
\* file that had been replaced, or a restore died or failed half way or had its
\* middle copied by another's backup (create_migration_backup,
\* restore_migration_backup).
LostOnlyIfRaced == torn \/ Replacing \/ acked \ exposed \subseteq Present.rows

\* An opening that fails while no other process runs leaves the store as it found
\* it, but for two exceptions: after a restore that itself raised, wherever it did,
\* no row of users is missing and no raw row is there that was not; and a failure
\* after the migration leaves the store migrated (EliteStore.__init__,
\* restore_migration_backup).
LoneFailureRestores ==
  \A w \in Openers : opener[w].alone =>
    LET base == opener[w].base IN
    /\ opener[w].at = "failed" => Present = base
    /\ opener[w].at = "unrestored" =>
         Present.rows = base.rows /\ Present.raw \subseteq base.raw
    /\ opener[w].at = "migrated" =>
         Present = [versions |-> {6, 7}, raw |-> {}, rows |-> base.rows]

\* What docs/scientific_delivery_protocol.md:202 supposes of backup and
\* rollback: no acknowledged row is lost by a failed upgrade.
AckedRowsKept == torn \/ Replacing \/ acked \subseteq Present.rows
=============================================================================
