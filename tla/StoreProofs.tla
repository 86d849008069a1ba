------------------------------ MODULE StoreProofs ------------------------------
(***************************************************************************)
(* Theorems about what several processes do to one store: how they open,   *)
(* migrate and restore it (StoreOpening), what becomes of the rows they    *)
(* write (StoreWrites), of the steps of a run (WorkflowSteps) and of its   *)
(* memory items (QuarantinedMemory); for any number of processes, rows,    *)
(* steps and items. One of them is a refinement: what the transactions of  *)
(* the pool do, seen through the committed tables, is what AtomicRecords   *)
(* says.                                                                   *)
(***************************************************************************)
EXTENDS StoreOpening, StoreWrites, WorkflowSteps, QuarantinedMemory, FiniteSetTheorems, TLAPS

-----------------------------------------------------------------------------
(* StoreOpening                                                            *)

\* Contents whose ledger does not claim too much.
Clean == {c \in Content : (6 \in c.versions => c.raw = {}) /\ (7 \in c.versions => 6 \in c.versions)}

OpenerType ==
  [at : Opening \cup Stopped \cup {"graph", "open"}, file : Nat, backup : Nat,
   todo : SUBSET LegacyRows, copy : Clean, base : Clean, alone : BOOLEAN]

DiskShape ==
  /\ files \in Seq(Clean) /\ saved \in Seq(Clean) /\ Len(saved) = Len(files)
  /\ path \in 0..Len(files) /\ second \in Nat \ {0}
  /\ DOMAIN backups \subseteq 1..second
  /\ \A s \in DOMAIN backups : backups[s] \in Clean

\* Where a process has come to.
OpenerShape ==
  /\ opener \in [Openers -> OpenerType]
  /\ \A w \in Openers :
       /\ opener[w].at \in Attached => opener[w].file \in 1..Len(files)
       /\ opener[w].at \in Attached \cup {"raised", "replace"} => path # 0

\* A process that has read the ledger has every raw row before it, and none
\* when it comes to write the ledger; then the ledger has the migration.
Sanitizing ==
  \A w \in Openers :
    /\ opener[w].at = "sanitize" => files[opener[w].file].raw \subseteq opener[w].todo
    /\ opener[w].at = "ledger" => files[opener[w].file].raw = {}
    /\ opener[w].at = "finish" => 6 \in files[opener[w].file].versions

OpenShape == DiskShape /\ OpenerShape /\ Sanitizing

-----------------------------------------------------------------------------
(* Contents.                                                               *)

LEMMA FreshIsClean ==
  /\ Fresh \in Clean
  /\ [Fresh EXCEPT !.raw = LegacyRows] \in Clean
  /\ [Fresh EXCEPT !.versions = {6}] \in Clean
  BY DEF Fresh, Clean, Content

LEMMA PresentIsClean ==
  ASSUME DiskShape
  PROVE  Present \in Clean
  BY FreshIsClean DEF DiskShape, Present

LEMMA CleanSteps ==
  ASSUME NEW c \in Clean
  PROVE  /\ \A r \in LegacyRows : LET d == [c EXCEPT !.raw = @ \ {r}]
            IN d \in Clean /\ d.raw = c.raw \ {r} /\ d.versions = c.versions /\ d.rows = c.rows
         /\ \A r \in UserRows : LET d == [c EXCEPT !.rows = @ \cup {r}]
            IN d \in Clean /\ d.raw = c.raw /\ d.versions = c.versions /\ d.rows = c.rows \cup {r}
         /\ 6 \in c.versions => LET d == [c EXCEPT !.versions = @ \cup {7}]
            IN d \in Clean /\ d.raw = c.raw /\ d.versions = c.versions \cup {7} /\ d.rows = c.rows
         /\ c.raw = {} => LET d == [c EXCEPT !.versions = @ \cup {6}]
            IN d \in Clean /\ d.raw = c.raw /\ d.versions = c.versions \cup {6} /\ d.rows = c.rows
  BY DEF Clean, Content

LEMMA ClosedType == Closed \in OpenerType /\ Closed.at = "closed"
  BY FreshIsClean DEF Closed, OpenerType, Stopped

-----------------------------------------------------------------------------
(* The three kinds of steps: a new file, a change of a file, and neither.  *)

\* Nothing of the files changes that another process could notice.
Elsewhere(w) == \A v \in Openers \ {w} :
  \/ opener'[v] = opener[v]
  \/ opener'[v] = [opener[v] EXCEPT !.alone = FALSE]

\* The files that are there lose raw rows and get no new ones.
Shrinks ==
  /\ Len(files) <= Len(files')
  /\ \A f \in 1..Len(files) :
       files'[f].raw \subseteq files[f].raw /\ files[f].versions \subseteq files'[f].versions
  /\ path # 0 => path' # 0

LEMMA OthersStay ==
  ASSUME OpenShape, NEW w \in Openers, Shrinks, Elsewhere(w), DOMAIN opener' = Openers,
         Len(files') \in Nat, NEW v \in Openers, v # w
  PROVE  /\ opener'[v] \in OpenerType
         /\ opener'[v].at \in Attached => opener'[v].file \in 1..Len(files')
         /\ opener'[v].at \in Attached \cup {"raised", "replace"} => path' # 0
         /\ opener'[v].at = "sanitize" => files'[opener'[v].file].raw \subseteq opener'[v].todo
         /\ opener'[v].at = "ledger" => files'[opener'[v].file].raw = {}
         /\ opener'[v].at = "finish" => 6 \in files'[opener'[v].file].versions
<1>1. opener[v] \in OpenerType
  BY DEF OpenShape, OpenerShape
<1>2. /\ opener'[v] \in OpenerType /\ opener'[v].at = opener[v].at
      /\ opener'[v].file = opener[v].file /\ opener'[v].todo = opener[v].todo
  <2>1. CASE opener'[v] = opener[v]
    BY <1>1, <2>1
  <2>2. CASE opener'[v] = [opener[v] EXCEPT !.alone = FALSE]
    <3>1. \A c \in OpenerType : LET d == [c EXCEPT !.alone = FALSE]
                                IN d \in OpenerType /\ d.at = c.at /\ d.file = c.file /\ d.todo = c.todo
      BY DEF OpenerType
    <3> QED BY <1>1, <2>2, <3>1
  <2> QED BY <2>1, <2>2 DEF Elsewhere
<1>3. "sanitize" \in Attached /\ "ledger" \in Attached /\ "finish" \in Attached
  BY DEF Attached
<1>4. Len(files) \in Nat
  BY DEF OpenShape, DiskShape
<1>5. opener[v].at \in Attached => opener'[v].file \in 1..Len(files) /\ opener'[v].file \in 1..Len(files')
  BY <1>2, <1>4 DEF OpenShape, OpenerShape, Shrinks
<1> QED BY <1>2, <1>3, <1>5 DEF OpenShape, OpenerShape, Sanitizing, Shrinks

\* A step of one process that leaves the others what they are.
LEMMA OneStep ==
  ASSUME OpenShape, NEW w \in Openers, NEW new \in OpenerType, opener' = [opener EXCEPT ![w] = new],
         DiskShape', Shrinks,
         new.at \in Attached => new.file \in 1..Len(files'),
         new.at \in Attached \cup {"raised", "replace"} => path' # 0,
         new.at = "sanitize" => files'[new.file].raw \subseteq new.todo,
         new.at = "ledger" => files'[new.file].raw = {},
         new.at = "finish" => 6 \in files'[new.file].versions
  PROVE  OpenShape'
<1>1. opener \in [Openers -> OpenerType]
  BY DEF OpenShape, OpenerShape
<1>2. Elsewhere(w) /\ DOMAIN opener' = Openers /\ opener'[w] = new /\ opener' \in [Openers -> OpenerType]
  BY <1>1 DEF Elsewhere
<1>3. Len(files') \in Nat
  BY DEF DiskShape
<1>4. OpenerShape' /\ Sanitizing'
  BY <1>2, <1>3, OthersStay DEF OpenerShape, Sanitizing
<1> QED BY <1>4 DEF OpenShape

\* A step that changes no file.
LEMMA QuietDisk ==
  ASSUME OpenShape, UNCHANGED <<files, path, backups, second>>,
         saved' = saved \/ \E f \in 1..Len(files) : saved' = [saved EXCEPT ![f] = files[f]]
  PROVE  DiskShape' /\ Shrinks
  BY DEF OpenShape, DiskShape, Shrinks

\* A step that changes one file.
LEMMA OneFile ==
  ASSUME OpenShape, NEW f \in 1..Len(files), NEW c \in Clean, c.raw \subseteq files[f].raw,
         files[f].versions \subseteq c.versions,
         files' = [files EXCEPT ![f] = c], UNCHANGED <<saved, path, backups, second>>
  PROVE  DiskShape' /\ Shrinks /\ files'[f] = c /\ Len(files') = Len(files)
  BY DEF OpenShape, DiskShape, Shrinks

\* A step that makes a new file of the path.
LEMMA NewFile ==
  ASSUME OpenShape, NEW c \in Clean, files' = Append(files, c), saved' = Append(saved, c),
         path' = Len(files) + 1, UNCHANGED <<backups, second>>
  PROVE  DiskShape' /\ Shrinks /\ path' \in 1..Len(files') /\ path' # 0
<1>1. files' \in Seq(Clean) /\ saved' \in Seq(Clean)
  BY DEF OpenShape, DiskShape
<1>2. Len(files') = Len(files) + 1 /\ Len(saved') = Len(saved) + 1 /\ Len(files) \in Nat
  BY DEF OpenShape, DiskShape
<1>3. \A g \in 1..Len(files) : files'[g] = files[g]
  BY DEF OpenShape, DiskShape
<1> QED BY <1>1, <1>2, <1>3 DEF OpenShape, DiskShape, Shrinks

-----------------------------------------------------------------------------
LEMMA OpenShapeInit == OpenInit => OpenShape
<1> SUFFICES ASSUME OpenInit PROVE OpenShape
  OBVIOUS
<1>1. /\ files \in Seq(Clean) /\ saved = files /\ path \in 0..Len(files)
  <2>1. CASE files = << >> /\ path = 0
    BY <2>1 DEF OpenInit
  <2>2. ASSUME NEW c \in Clean, files = <<c>>, path = 1
        PROVE  files \in Seq(Clean) /\ path \in 0..Len(files)
    BY <2>2
  <2> QED BY <2>1, <2>2, FreshIsClean DEF OpenInit
<1>2. DiskShape
  BY <1>1 DEF OpenInit, DiskShape
<1>3. opener \in [Openers -> OpenerType] /\ \A w \in Openers : opener[w].at = "closed"
  BY ClosedType DEF OpenInit
<1> QED BY <1>2, <1>3 DEF OpenShape, OpenerShape, Sanitizing, Attached

\* The steps of a process, each with what it leaves of the disk.
LEMMA OpenerStep ==
  ASSUME OpenShape, NEW w \in Openers, Opener(w)
  PROVE  OpenShape'
<1> DEFINE me == opener[w]
<1>0. me \in OpenerType /\ opener \in [Openers -> OpenerType] /\ DiskShape
      /\ (me.at \in Attached => me.file \in 1..Len(files) /\ files[me.file] \in Clean /\ path # 0)
      /\ (me.at \in {"raised", "replace"} => path # 0)
  BY DEF OpenShape, DiskShape, OpenerShape
<1>1. CASE OpenStart(w)
  <2> DEFINE begin == [Closed EXCEPT !.at = IF path = 0 \/ 7 \in Present.versions THEN "connect" ELSE "backup",
                                     !.base = Present,
                                     !.alone = path # 0 /\ \A u \in Openers : ~Running(u)]
  <2>1. opener' = [v \in Openers |-> IF v = w THEN begin ELSE [opener[v] EXCEPT !.alone = FALSE]]
        /\ UNCHANGED <<files, saved, path, backups, second>>
    BY <1>1 DEF OpenStart, disk
  <2>2. begin \in OpenerType /\ begin.at \in {"connect", "backup"}
    <3>1. \A at \in {"connect", "backup"}, b \in BOOLEAN : \A base \in Clean :
            LET c == [Closed EXCEPT !.at = at, !.base = base, !.alone = b]
            IN c \in OpenerType /\ c.at = at
      BY ClosedType DEF OpenerType, Opening
    <3>2. (path # 0 /\ \A u \in Openers : ~Running(u)) \in BOOLEAN
      OBVIOUS
    <3>3. Present \in Clean
      BY <1>0, PresentIsClean
    <3> QED BY <3>1, <3>2, <3>3
  <2> HIDE DEF begin
  <2>3. DiskShape' /\ Shrinks
    BY <2>1, QuietDisk
  <2>4. opener'[w] = begin /\ DOMAIN opener' = Openers /\ Elsewhere(w)
    BY <2>1 DEF Elsewhere
  <2>5. begin.at \notin Attached \cup {"raised", "replace"} /\ {"sanitize", "ledger", "finish"} \subseteq Attached
    BY <2>2 DEF Attached
  <2>6. Len(files') \in Nat
    BY <2>3 DEF DiskShape
  <2>7. opener' \in [Openers -> OpenerType]
    BY <2>1, <2>2, <2>3, <2>4, <2>6, OthersStay
  <2>8. OpenerShape' /\ Sanitizing'
    BY <2>2, <2>3, <2>4, <2>5, <2>6, <2>7, OthersStay DEF OpenerShape, Sanitizing
  <2> QED BY <2>3, <2>8 DEF OpenShape
<1>2. CASE Backup(w)
  <2> DEFINE all == [s \in DOMAIN backups \cup {second} |->
                       IF s \in DOMAIN backups \ {second} THEN backups[s] ELSE Present]
             new == [me EXCEPT !.at = "connect", !.backup = second]
  <2>1. /\ backups' = Kept(all) /\ opener' = [opener EXCEPT ![w] = new]
        /\ UNCHANGED <<files, saved, path, second>>
    BY <1>2 DEF Backup, BackupOf, disk
  <2>2. \A s \in DOMAIN all : all[s] \in Clean
    BY <1>0, PresentIsClean DEF DiskShape
  <2>3. DOMAIN backups' \subseteq 1..second /\ \A s \in DOMAIN backups' : backups'[s] \in Clean
    <3>1. DOMAIN all \subseteq 1..second
      BY <1>0 DEF DiskShape
    <3> HIDE DEF all
    <3> QED BY <2>1, <2>2, <3>1 DEF Kept
  <2>4. DiskShape' /\ Shrinks
    <3>1. UNCHANGED <<files, saved, path, second>> /\ DiskShape
      BY <1>0, <2>1
    <3> QED BY <2>3, <3>1 DEF DiskShape, Shrinks
  <2>5. new \in OpenerType /\ new.at = "connect"
    BY <1>0 DEF OpenerType, Opening, DiskShape
  <2> HIDE DEF new
  <2> QED BY <2>1, <2>4, <2>5, OneStep DEF Attached
<1>3. CASE Connect(w)
  <2> DEFINE new == [me EXCEPT !.at = "read", !.file = path']
  <2>1. opener' = [opener EXCEPT ![w] = new] /\ UNCHANGED <<backups, second>>
    BY <1>3 DEF Connect
  <2>2. DiskShape' /\ Shrinks /\ path' \in 1..Len(files') /\ path' # 0
    <3>1. CASE path = 0
      BY <1>3, <3>1, FreshIsClean, NewFile DEF Connect
    <3>2. CASE path # 0
      <4>1. UNCHANGED <<files, saved, path>>
        BY <1>3, <3>2 DEF Connect, disk
      <4> QED BY <1>0, <2>1, <3>2, <4>1, QuietDisk DEF DiskShape
    <3> QED BY <3>1, <3>2
  <2>3. path' \in Nat
    BY <2>2 DEF DiskShape
  <2>4. new \in OpenerType /\ new.at = "read" /\ new.file = path'
    BY <1>0, <2>3 DEF OpenerType, Opening
  <2> HIDE DEF new
  <2> QED BY <2>1, <2>2, <2>4, OneStep
<1>4. CASE ReadLedger(w)
  <2> DEFINE new == [me EXCEPT !.at = IF 6 \in File(w).versions THEN "finish" ELSE "sanitize", !.todo = File(w).raw]
  <2>1. opener' = [opener EXCEPT ![w] = new] /\ UNCHANGED <<files, saved, path, backups, second>> /\ me.at = "read"
    BY <1>4 DEF ReadLedger, disk
  <2>2. DiskShape' /\ Shrinks
    BY <2>1, QuietDisk
  <2>3. File(w) \in Clean /\ me.file \in 1..Len(files) /\ path # 0
    BY <1>0, <2>1 DEF Attached, File
  <2>4. /\ new \in OpenerType /\ new.at \in {"finish", "sanitize"} /\ new.file = me.file
        /\ new.todo = File(w).raw /\ (new.at = "finish" => 6 \in File(w).versions)
    BY <1>0, <2>3 DEF OpenerType, Opening, Clean, Content
  <2> HIDE DEF new
  <2> QED BY <2>1, <2>2, <2>3, <2>4, OneStep DEF File
<1>5. CASE Sanitize(w)
  <2>0. me.at = "sanitize" /\ UNCHANGED <<saved, path, backups, second>> /\ me.file \in 1..Len(files)
        /\ files[me.file] \in Clean /\ path # 0 /\ files[me.file].raw \subseteq me.todo
        /\ me.todo \subseteq LegacyRows
    BY <1>0, <1>5 DEF Sanitize, Attached, OpenShape, Sanitizing, OpenerType
  <2>1. CASE me.todo = {}
    <3> DEFINE new == [me EXCEPT !.at = "ledger"]
    <3>1. opener' = [opener EXCEPT ![w] = new] /\ UNCHANGED files
      BY <1>5, <2>1 DEF Sanitize, Goes
    <3>2. new \in OpenerType /\ new.at = "ledger" /\ new.file = me.file
      BY <1>0 DEF OpenerType, Opening
    <3>3. DiskShape' /\ Shrinks
      BY <2>0, <3>1, QuietDisk
    <3> HIDE DEF new
    <3> QED BY <2>0, <2>1, <3>1, <3>2, <3>3, OneStep
  <2>2. CASE me.todo # {}
    <3>1. PICK r \in me.todo :
            /\ files' = [files EXCEPT ![me.file].raw = @ \ {r}]
            /\ opener' = [opener EXCEPT ![w].todo = @ \ {r}]
      BY <1>5, <2>2 DEF Sanitize
    <3> DEFINE new == [me EXCEPT !.todo = @ \ {r}]
               c == [files[me.file] EXCEPT !.raw = @ \ {r}]
    <3>2. c \in Clean /\ c.raw = files[me.file].raw \ {r} /\ c.versions = files[me.file].versions
      BY <2>0, CleanSteps
    <3>3. opener' = [opener EXCEPT ![w] = new] /\ files' = [files EXCEPT ![me.file] = c]
      BY <3>1
    <3>4. new \in OpenerType /\ new.at = "sanitize" /\ new.file = me.file /\ new.todo = me.todo \ {r}
      BY <1>0, <2>0 DEF OpenerType
    <3> HIDE DEF new, c
    <3>5. DiskShape' /\ Shrinks /\ files'[me.file] = c /\ Len(files') = Len(files)
      BY <2>0, <3>2, <3>3, OneFile
    <3>6. c.raw \subseteq new.todo
      BY <2>0, <3>2, <3>4
    <3> QED BY <2>0, <3>3, <3>4, <3>5, <3>6, OneStep
  <2> QED BY <2>1, <2>2
<1>6. CASE WriteLedger(w) /\ 6 \notin File(w).versions
  <2> DEFINE new == [me EXCEPT !.at = "finish"]
             c == [files[me.file] EXCEPT !.versions = @ \cup {6}]
  <2>1. me.at = "ledger" /\ UNCHANGED <<saved, path, backups, second>> /\ me.file \in 1..Len(files)
        /\ files[me.file] \in Clean /\ path # 0 /\ files[me.file].raw = {}
    BY <1>0, <1>6 DEF WriteLedger, Attached, OpenShape, Sanitizing, Raise
  <2>2. opener' = [opener EXCEPT ![w] = new] /\ files' = [files EXCEPT ![me.file] = c]
    BY <1>6 DEF WriteLedger, Goes
  <2>3. c \in Clean /\ c.raw = files[me.file].raw /\ c.versions = files[me.file].versions \cup {6}
    BY <2>1, CleanSteps
  <2>4. new \in OpenerType /\ new.at = "finish" /\ new.file = me.file
    BY <1>0 DEF OpenerType, Opening
  <2> HIDE DEF new, c
  <2>5. DiskShape' /\ Shrinks /\ files'[me.file] = c /\ Len(files') = Len(files)
    BY <2>1, <2>2, <2>3, OneFile
  <2> QED BY <2>1, <2>2, <2>3, <2>4, <2>5, OneStep
<1>7. CASE Finish(w)
  <2> DEFINE new == [me EXCEPT !.at = "graph"]
             c == [files[me.file] EXCEPT !.versions = @ \cup {7}]
  <2>1. me.at = "finish" /\ UNCHANGED <<saved, path, backups, second>> /\ me.file \in 1..Len(files)
        /\ files[me.file] \in Clean /\ path # 0 /\ 6 \in files[me.file].versions
    BY <1>0, <1>7 DEF Finish, Attached, OpenShape, Sanitizing
  <2>2. opener' = [opener EXCEPT ![w] = new] /\ files' = [files EXCEPT ![me.file] = c]
    BY <1>7 DEF Finish
  <2>3. c \in Clean /\ c.raw = files[me.file].raw /\ c.versions = files[me.file].versions \cup {7}
    BY <2>1, CleanSteps
  <2>4. new \in OpenerType /\ new.at = "graph" /\ new.file = me.file
    BY <1>0 DEF OpenerType
  <2> HIDE DEF new, c
  <2>5. DiskShape' /\ Shrinks /\ files'[me.file] = c /\ Len(files') = Len(files)
    BY <2>1, <2>2, <2>3, OneFile
  <2> QED BY <2>1, <2>2, <2>4, <2>5, OneStep
<1>8. CASE \E r \in UserRows : Record(w, r)
  <2>0. PICK r \in UserRows : Record(w, r)
    BY <1>8
  <2> DEFINE c == [files[me.file] EXCEPT !.rows = @ \cup {r}]
  <2>1. me.at = "open" /\ UNCHANGED <<saved, path, backups, second, opener>> /\ me.file \in 1..Len(files)
        /\ files[me.file] \in Clean /\ path # 0 /\ files' = [files EXCEPT ![me.file] = c]
    BY <1>0, <2>0 DEF Record, Attached
  <2>2. c \in Clean /\ c.raw = files[me.file].raw /\ c.versions = files[me.file].versions
    BY <2>1, CleanSteps
  <2> HIDE DEF c
  <2>3. DiskShape' /\ Shrinks /\ files'[me.file] = c /\ Len(files') = Len(files)
    BY <2>1, <2>2, OneFile
  <2>4. opener' = [opener EXCEPT ![w] = me]
    BY <1>0, <2>1
  <2> QED BY <1>0, <2>1, <2>3, <2>4, OneStep
<1>9. CASE Checkpoint(w)
  <2>1. me.at = "open" /\ UNCHANGED <<files, path, backups, second, opener>> /\ me.file \in 1..Len(files)
        /\ path # 0 /\ saved' = [saved EXCEPT ![me.file] = files[me.file]]
    BY <1>0, <1>9 DEF Checkpoint, Attached, File
  <2>2. DiskShape' /\ Shrinks
    BY <2>1, QuietDisk
  <2>3. opener' = [opener EXCEPT ![w] = me]
    BY <1>0, <2>1
  <2> QED BY <1>0, <2>1, <2>2, <2>3, OneStep
<1>10. ASSUME NEW at \in {"raised"} \cup Stopped, opener' = [opener EXCEPT ![w].at = at],
              at = "raised" => path # 0,
              saved' = AfterClose(w) \/ saved' = saved, UNCHANGED <<files, path, backups, second>>
       PROVE  OpenShape'
  <2> DEFINE new == [me EXCEPT !.at = at]
  <2>1. opener' = [opener EXCEPT ![w] = new]
    BY <1>10
  <2>2. new \in OpenerType /\ new.at = at
    BY <1>0, <1>10 DEF OpenerType, Opening, Stopped
  <2>3. saved' = saved \/ \E f \in 1..Len(files) : saved' = [saved EXCEPT ![f] = files[f]]
    BY <1>0, <1>10 DEF AfterClose
  <2>4. DiskShape' /\ Shrinks
    BY <1>10, <2>3, QuietDisk
  <2>5. new.at \notin Attached /\ new.at # "replace" /\ {"sanitize", "ledger", "finish"} \subseteq Attached
    BY <1>10, <2>2 DEF Attached, Stopped
  <2> HIDE DEF new
  <2> QED BY <1>10, <2>1, <2>2, <2>4, <2>5, OneStep
<1>14. CASE LinkGraph(w)
  <2> DEFINE new == [me EXCEPT !.at = "open"]
  <2>1. me.at = "graph" /\ UNCHANGED <<files, saved, path, backups, second>> /\ opener' = [opener EXCEPT ![w] = new]
    BY <1>14 DEF LinkGraph, Goes, disk
  <2>2. new \in OpenerType /\ new.at = "open" /\ new.file = me.file /\ me.file \in 1..Len(files) /\ path # 0
    BY <1>0, <2>1 DEF OpenerType, Attached
  <2>3. DiskShape' /\ Shrinks
    BY <2>1, QuietDisk
  <2> HIDE DEF new
  <2> QED BY <2>1, <2>2, <2>3, OneStep
<1>11. CASE \/ Fault(w) \/ Close(w) \/ OpenCrash(w) \/ RestoreFault(w)
            \/ WriteLedger(w) /\ 6 \in File(w).versions
  <2>1. "ledger" \in Attached /\ {"failed", "closed", "unrestored", "migrated"} \subseteq Stopped
    BY DEF Attached, Stopped
  <2> QED BY <1>0, <1>10, <1>11, <2>1 DEF Fault, Close, OpenCrash, RestoreFault, WriteLedger, Raise, Goes, disk
<1>12. CASE Restore(w)
  <2>0. me.at = "raised" /\ UNCHANGED <<backups, second>> /\ path # 0
    BY <1>0, <1>12 DEF Restore
  <2>1. CASE me.backup # 0
    <3>0. me.backup \in DOMAIN backups
      BY <1>12, <2>1 DEF Restore
    <3>1. PICK left \in {saved[path], files[path]} :
              /\ files' = Append(files, left) /\ saved' = Append(saved, left)
              /\ path' = Len(files) + 1
              /\ opener' = [opener EXCEPT ![w].at = "replace", ![w].copy = backups[me.backup]]
      BY <1>12, <2>1 DEF Restore
    <3> DEFINE new == [me EXCEPT !.at = "replace", !.copy = backups[me.backup]]
    <3>2. left \in Clean /\ backups[me.backup] \in Clean
      BY <1>0, <2>0, <3>0 DEF DiskShape
    <3>3. new \in OpenerType /\ new.at = "replace"
      BY <1>0, <3>2 DEF OpenerType, Opening
    <3>4. opener' = [opener EXCEPT ![w] = new]
      BY <3>1
    <3>5. DiskShape' /\ Shrinks /\ path' # 0
      BY <2>0, <3>1, <3>2, NewFile
    <3> HIDE DEF new
    <3> QED BY <3>3, <3>4, <3>5, OneStep DEF Attached
  <2>2. CASE me.backup = 0
    <3>1. opener' = [opener EXCEPT ![w].at = "failed"] /\ UNCHANGED <<files, saved, path>>
      BY <1>0, <1>12, <2>2 DEF Restore, Goes, disk, DiskShape
    <3> QED BY <1>10, <2>0, <3>1 DEF Stopped
  <2> QED BY <2>1, <2>2
<1>13. CASE Replace(w)
  <2> DEFINE new == [me EXCEPT !.at = "failed"]
  <2>1. /\ files' = Append(files, me.copy) /\ saved' = Append(saved, me.copy)
        /\ path' = Len(files) + 1 /\ opener' = [opener EXCEPT ![w] = new]
        /\ UNCHANGED <<backups, second>>
    BY <1>13 DEF Replace, Goes
  <2>2. me.copy \in Clean
    BY <1>0 DEF OpenerType
  <2>3. new \in OpenerType /\ new.at = "failed"
    BY <1>0 DEF OpenerType, Stopped
  <2>4. DiskShape' /\ Shrinks
    BY <2>1, <2>2, NewFile
  <2> HIDE DEF new
  <2> QED BY <2>1, <2>3, <2>4, OneStep DEF Attached
<1> QED BY <1>1, <1>2, <1>3, <1>4, <1>5, <1>6, <1>7, <1>8, <1>9, <1>11, <1>12, <1>13, <1>14 DEF Opener

LEMMA OpenShapeNext == OpenShape /\ [OpenNext]_openVars => OpenShape'
<1> SUFFICES ASSUME OpenShape, [OpenNext]_openVars PROVE OpenShape'
  OBVIOUS
<1>1. CASE NextSecond
  BY <1>1 DEF NextSecond, disk, OpenShape, DiskShape, OpenerShape, Sanitizing
<1>2. CASE UNCHANGED openVars
  BY <1>2 DEF openVars, disk, OpenShape, DiskShape, OpenerShape, Sanitizing
<1> QED BY <1>1, <1>2, OpenerStep DEF OpenNext

\* However many processes migrate one store at once, die, or put backups back:
\* nothing whose ledger says that the privacy migration was made holds a raw
\* row (_run_privacy_migration).
THEOREM NoRawRowBehindLedger == OpenSpec => []LedgerMeansSanitized
<1>1. OpenShape => LedgerMeansSanitized
  BY DEF OpenShape, DiskShape, Clean, LedgerMeansSanitized
<1> QED BY <1>1, OpenShapeInit, OpenShapeNext, PTL DEF OpenSpec

-----------------------------------------------------------------------------
(* The types.                                                              *)

\* Kept backups are told apart by how many newer ones there are.
LEMMA FewAreKept ==
  ASSUME NEW all, NEW n \in Nat, DOMAIN all \subseteq 1..n
  PROVE  Cardinality(DOMAIN Kept(all)) <= KeepBackups
<1> DEFINE newer(s) == {t \in DOMAIN all : t > s}
           newest == {s \in DOMAIN all : Cardinality(newer(s)) < KeepBackups}
           place == [s \in newest |-> Cardinality(newer(s))]
<1>1. IsFiniteSet(DOMAIN all)
  <2>1. IsFiniteSet(1..n)
    BY FS_Interval
  <2> QED BY <2>1, FS_Subset
<1>2. \A s \in DOMAIN all : IsFiniteSet(newer(s)) /\ Cardinality(newer(s)) \in Nat
  BY <1>1, FS_Subset, FS_CardinalityType
<1>3. ASSUME NEW s \in DOMAIN all, NEW t \in DOMAIN all, s < t
      PROVE  Cardinality(newer(t)) < Cardinality(newer(s))
  <2>1. t \in newer(s) /\ newer(t) \subseteq newer(s) \ {t}
    BY <1>3
  <2>2. /\ IsFiniteSet(newer(s) \ {t})
        /\ Cardinality(newer(s) \ {t}) = Cardinality(newer(s)) - 1
    BY <1>2, <2>1, FS_RemoveElement
  <2>3. Cardinality(newer(t)) <= Cardinality(newer(s) \ {t})
    BY <2>1, <2>2, FS_Subset
  <2> HIDE DEF newer
  <2> QED BY <1>2, <2>2, <2>3
<1>4. place \in Injection(newest, 0..(KeepBackups - 1))
  <2>1. place \in [newest -> 0..(KeepBackups - 1)]
    <3> HIDE DEF newer
    <3> QED BY <1>2, OpeningAssumption
  <2>2. ASSUME NEW s \in newest, NEW t \in newest, place[s] = place[t]
        PROVE  s = t
    <3>1. s \in Nat /\ t \in Nat
      OBVIOUS
    <3>2. Cardinality(newer(s)) = Cardinality(newer(t)) /\ Cardinality(newer(s)) \in Nat
      BY <1>2, <2>2
    <3> HIDE DEF newer
    <3>3. ~(s < t) /\ ~(t < s)
      BY <1>3, <3>2
    <3> QED BY <3>1, <3>3
  <2> QED BY <2>1, <2>2 DEF Injection, IsInjective
<1>5. IsFiniteSet(0..(KeepBackups - 1)) /\ Cardinality(0..(KeepBackups - 1)) = KeepBackups
  BY FS_Interval, OpeningAssumption
<1>6. Cardinality(newest) <= KeepBackups
  BY <1>4, <1>5, FS_Injection
<1>7. DOMAIN Kept(all) = newest
  BY DEF Kept
<1> QED BY <1>6, <1>7

\* What the shape of the store leaves open of the types: the bounds, and that no
\* process has a file or a backup that has not been made.
OpenBounds ==
  /\ second <= MaxSeconds /\ starts \in 0..MaxStarts
  /\ Cardinality(DOMAIN backups) <= KeepBackups
  /\ \A w \in Openers : opener[w].file <= Len(files) /\ opener[w].backup <= MaxSeconds
  /\ acked \subseteq UserRows /\ exposed \subseteq acked /\ torn \in BOOLEAN

LEMMA OpenBoundsInit == OpenInit => OpenBounds
<1> SUFFICES ASSUME OpenInit PROVE OpenBounds
  OBVIOUS
<1>1. Cardinality(DOMAIN backups) = 0
  BY FS_EmptySet DEF OpenInit
<1>2. Len(files) \in Nat
  BY OpenShapeInit DEF OpenShape, DiskShape
<1>3. \A w \in Openers : opener[w].file = 0 /\ opener[w].backup = 0
  BY DEF OpenInit, Closed
<1>4. second = 1 /\ starts = 0 /\ acked = {} /\ exposed = {} /\ torn = FALSE
  BY DEF OpenInit
<1>5. second <= MaxSeconds /\ starts \in 0..MaxStarts /\ Cardinality(DOMAIN backups) <= KeepBackups
  BY <1>1, <1>4, OpeningAssumption
<1>6. \A w \in Openers : opener[w].file <= Len(files) /\ opener[w].backup <= MaxSeconds
  BY <1>2, <1>3, OpeningAssumption
<1>7. acked \subseteq UserRows /\ exposed \subseteq acked /\ torn \in BOOLEAN
  BY <1>4
<1> QED BY <1>5, <1>6, <1>7 DEF OpenBounds

\* A file that was made stays made.
LEMMA FilesGrow ==
  ASSUME OpenShape, NEW w \in Openers, Opener(w)
  PROVE  Len(files) <= Len(files')
<1>1. files \in Seq(Clean) /\ Len(files) \in Nat
  BY DEF OpenShape, DiskShape
<1>2. CASE files' = files
  BY <1>1, <1>2
<1>3. ASSUME NEW f, NEW c, files' = [files EXCEPT ![f] = c] PROVE Len(files') = Len(files)
  BY <1>1, <1>3
<1>4. ASSUME NEW c, files' = Append(files, c) PROVE Len(files') = Len(files) + 1
  BY <1>1, <1>4
<1>5. CASE OpenStart(w) \/ Backup(w) \/ ReadLedger(w) \/ LinkGraph(w) \/ Fault(w) \/ RestoreFault(w)
            \/ Checkpoint(w) \/ Close(w) \/ OpenCrash(w)
  BY <1>2, <1>5 DEF OpenStart, Backup, BackupOf, ReadLedger, LinkGraph, Fault, RestoreFault, Raise,
     Checkpoint, Close, OpenCrash, disk
<1>6. CASE Connect(w) \/ Restore(w) \/ Replace(w)
  BY <1>1, <1>2, <1>4, <1>6 DEF Connect, Restore, Replace, disk
<1>7. CASE Sanitize(w)
  <2>1. files' = files \/ \E c : files' = [files EXCEPT ![opener[w].file] = c]
    BY <1>7, Zenon DEF Sanitize
  <2> QED BY <1>2, <1>3, <1>1, <2>1
<1>8. CASE WriteLedger(w)
  BY <1>1, <1>2, <1>3, <1>8 DEF WriteLedger, Raise
<1>9. CASE Finish(w)
  BY <1>1, <1>3, <1>9 DEF Finish
<1>10. ASSUME NEW r \in UserRows, Record(w, r) PROVE Len(files) <= Len(files')
  <2>1. PICK c : files' = [files EXCEPT ![opener[w].file] = c]
    BY <1>10 DEF Record
  <2> QED BY <1>1, <1>3, <2>1
<1> QED BY <1>5, <1>6, <1>7, <1>8, <1>9, <1>10 DEF Opener

\* Where the file and the backup of a process come from.
LEMMA OwnedBefore ==
  ASSUME OpenShape, NEW w \in Openers, Opener(w), NEW v \in Openers
  PROVE  /\ opener'[v].file \in {opener[v].file, 0, path'}
         /\ opener'[v].backup \in {opener[v].backup, 0, second}
<1> DEFINE me == opener[w]
<1>0. opener \in [Openers -> OpenerType]
  BY DEF OpenShape, OpenerShape
<1>1. \A c \in OpenerType : \A at, x :
        /\ LET d == [c EXCEPT !.alone = x] IN d.file = c.file /\ d.backup = c.backup
        /\ LET d == [c EXCEPT !.at = at] IN d.file = c.file /\ d.backup = c.backup
        /\ LET d == [c EXCEPT !.todo = x] IN d.file = c.file /\ d.backup = c.backup
        /\ LET d == [c EXCEPT !.at = at, !.todo = x] IN d.file = c.file /\ d.backup = c.backup
        /\ LET d == [c EXCEPT !.at = at, !.copy = x] IN d.file = c.file /\ d.backup = c.backup
        /\ LET d == [c EXCEPT !.at = at, !.file = x] IN d.file = x /\ d.backup = c.backup
        /\ LET d == [c EXCEPT !.at = at, !.backup = x] IN d.file = c.file /\ d.backup = x
  BY DEF OpenerType
<1>2. ASSUME NEW new, opener' = [opener EXCEPT ![w] = new],
             new.file \in {me.file, path'}, new.backup \in {me.backup, second}
      PROVE  /\ opener'[v].file \in {opener[v].file, 0, path'}
             /\ opener'[v].backup \in {opener[v].backup, 0, second}
  BY <1>0, <1>2
<1>3. ASSUME NEW at, NEW x,
             \/ opener' = opener
             \/ opener' = [opener EXCEPT ![w].at = at]
             \/ opener' = [opener EXCEPT ![w].todo = x]
             \/ opener' = [opener EXCEPT ![w].at = at, ![w].todo = x]
             \/ opener' = [opener EXCEPT ![w].at = at, ![w].copy = x]
             \/ opener' = [opener EXCEPT ![w].at = at, ![w].file = x] /\ x = path'
             \/ opener' = [opener EXCEPT ![w].at = at, ![w].backup = x] /\ x = second
      PROVE  /\ opener'[v].file \in {opener[v].file, 0, path'}
             /\ opener'[v].backup \in {opener[v].backup, 0, second}
  <2>1. CASE opener' = opener
    BY <2>1
  <2>2. CASE opener' = [opener EXCEPT ![w] = [me EXCEPT !.at = at]]
    BY <1>0, <1>1, <1>2, <2>2
  <2>3. CASE opener' = [opener EXCEPT ![w] = [me EXCEPT !.todo = x]]
    BY <1>0, <1>1, <1>2, <2>3
  <2>4. CASE opener' = [opener EXCEPT ![w] = [me EXCEPT !.at = at, !.todo = x]]
    BY <1>0, <1>1, <1>2, <2>4
  <2>5. CASE opener' = [opener EXCEPT ![w] = [me EXCEPT !.at = at, !.copy = x]]
    BY <1>0, <1>1, <1>2, <2>5
  <2>6. CASE opener' = [opener EXCEPT ![w] = [me EXCEPT !.at = at, !.file = x]] /\ x = path'
    BY <1>0, <1>1, <1>2, <2>6
  <2>7. CASE opener' = [opener EXCEPT ![w] = [me EXCEPT !.at = at, !.backup = x]] /\ x = second
    BY <1>0, <1>1, <1>2, <2>7
  <2> QED BY <1>3, <2>1, <2>2, <2>3, <2>4, <2>5, <2>6, <2>7
<1>4. CASE OpenStart(w)
  <2>1. CASE v = w
    BY <1>4, <2>1 DEF OpenStart, Closed
  <2>2. CASE v # w
    <3>1. opener'[v] = [opener[v] EXCEPT !.alone = FALSE]
      BY <1>4, <2>2 DEF OpenStart
    <3> QED BY <1>0, <1>1, <3>1
  <2> QED BY <2>1, <2>2
<1>5. CASE Backup(w)
  BY <1>3, <1>5 DEF Backup, BackupOf
<1>6. CASE Connect(w)
  BY <1>3, <1>6 DEF Connect
<1>7. CASE ReadLedger(w)
  BY <1>3, <1>7 DEF ReadLedger
<1>8. CASE Sanitize(w)
  BY <1>3, <1>8 DEF Sanitize, Goes
<1>9. CASE WriteLedger(w)
  BY <1>3, <1>9 DEF WriteLedger, Raise, Goes
<1>10. CASE Finish(w)
  BY <1>3, <1>10 DEF Finish
<1>11. CASE Fault(w)
  BY <1>3, <1>11 DEF Fault, Raise, Goes
<1>12. CASE Restore(w)
  BY <1>3, <1>12 DEF Restore, Goes
<1>13. CASE Replace(w) \/ Close(w) \/ OpenCrash(w) \/ LinkGraph(w) \/ RestoreFault(w)
  BY <1>3, <1>13 DEF Replace, Close, OpenCrash, LinkGraph, RestoreFault, Goes
<1>14. CASE Checkpoint(w) \/ \E r \in UserRows : Record(w, r)
  BY <1>3, <1>14 DEF Checkpoint, Record
<1> QED
  BY <1>4, <1>5, <1>6, <1>7, <1>8, <1>9, <1>10, <1>11, <1>12, <1>13, <1>14 DEF Opener

\* The steps of a process keep the bounds.
LEMMA OpenerBounds ==
  ASSUME OpenShape, OpenBounds, NEW w \in Openers, Opener(w)
  PROVE  OpenBounds'
<1>1. second' = second /\ starts' \in 0..MaxStarts
  <2>1. CASE OpenStart(w)
    <3>1. second' = second /\ starts' = starts + 1 /\ starts < MaxStarts
      BY <2>1 DEF OpenStart
    <3> QED BY <3>1, OpeningAssumption DEF OpenBounds
  <2>2. CASE ~OpenStart(w)
    BY <2>2 DEF Opener, Backup, BackupOf, Connect, ReadLedger, Sanitize, WriteLedger, Raise, Finish, LinkGraph, Fault,
       Restore, Replace, RestoreFault, Record, Checkpoint, Close, OpenCrash, OpenBounds
  <2> QED BY <2>1, <2>2 DEF OpenStart
<1>2. Cardinality(DOMAIN backups') <= KeepBackups
  <2>1. CASE Backup(w)
    <3> DEFINE all == [s \in DOMAIN backups \cup {second} |->
                         IF s \in DOMAIN backups \ {second} THEN backups[s] ELSE Present]
    <3>1. backups' = Kept(all)
      BY <2>1 DEF Backup, BackupOf
    <3>2. DOMAIN all \subseteq 1..second /\ second \in Nat
      BY DEF OpenShape, DiskShape
    <3> HIDE DEF all
    <3> QED BY <3>1, <3>2, FewAreKept
  <2>2. CASE ~Backup(w)
    <3>1. backups' = backups
      BY <2>2 DEF Opener, OpenStart, Connect, ReadLedger, Sanitize, WriteLedger, Raise, Finish, LinkGraph, Fault,
         Restore, Replace, RestoreFault, Record, Checkpoint, Close, OpenCrash
    <3> QED BY <3>1 DEF OpenBounds
  <2> QED BY <2>1, <2>2
<1>3. \A v \in Openers : opener'[v].file <= Len(files') /\ opener'[v].backup <= MaxSeconds
  <2> TAKE v \in Openers
  <2>1. OpenShape'
    BY OpenerStep
  <2>2. Len(files) \in Nat /\ Len(files') \in Nat /\ path' \in 0..Len(files') /\ second \in Nat
    BY <2>1 DEF OpenShape, DiskShape
  <2>3. opener[v].file \in Nat /\ opener[v].backup \in Nat
    BY DEF OpenShape, OpenerShape, OpenerType
  <2> QED BY <2>2, <2>3, FilesGrow, OwnedBefore, OpeningAssumption DEF OpenBounds
<1>4. acked' \subseteq UserRows /\ exposed' \subseteq acked' /\ torn' \in BOOLEAN
  <2>1. CASE \E r \in UserRows : Record(w, r)
    BY <2>1 DEF Record, OpenBounds
  <2>2. CASE ~\E r \in UserRows : Record(w, r)
    <3>1. acked' = acked /\ exposed' = exposed
      BY <2>2 DEF Opener, OpenStart, Backup, BackupOf, Connect, ReadLedger, Sanitize, WriteLedger, Raise, Finish,
         LinkGraph, Fault, Restore, Replace, RestoreFault, Checkpoint, Close, OpenCrash, openHistory
    <3>2. torn' \in BOOLEAN
      BY <2>2 DEF Opener, OpenStart, Backup, BackupOf, Connect, ReadLedger, Sanitize, WriteLedger, Raise, Finish,
         LinkGraph, Fault, Restore, Replace, RestoreFault, Checkpoint, Close, OpenCrash, openHistory, OpenBounds
    <3> QED BY <3>1, <3>2 DEF OpenBounds
  <2> QED BY <2>1, <2>2
<1> QED BY <1>1, <1>2, <1>3, <1>4 DEF OpenBounds

LEMMA OpenBoundsNext == OpenShape /\ OpenBounds /\ [OpenNext]_openVars => OpenBounds'
<1> SUFFICES ASSUME OpenShape, OpenBounds, [OpenNext]_openVars PROVE OpenBounds'
  OBVIOUS
<1>1. CASE NextSecond
  <2>1. second' <= MaxSeconds
    BY <1>1, OpeningAssumption DEF NextSecond, OpenShape, DiskShape
  <2> QED BY <1>1, <2>1 DEF NextSecond, disk, openHistory, OpenBounds
<1>2. CASE UNCHANGED openVars
  BY <1>2 DEF openVars, disk, openHistory, OpenBounds
<1> QED BY <1>1, <1>2, OpenerBounds DEF OpenNext

\* However many processes open one store: no more backups are kept than the limit,
\* a process never has a file or a backup that was not made, and no row counts as
\* exposed that was not acknowledged (EliteStore.__init__, create_migration_backup,
\* restore_migration_backup).
THEOREM OpenTypeCorrect == OpenSpec => []OpenTypeOK
<1>1. OpenShape /\ OpenBounds => OpenTypeOK
  <2> SUFFICES ASSUME OpenShape, OpenBounds PROVE OpenTypeOK
    OBVIOUS
  <2>1. files \in Seq(Content) /\ saved \in Seq(Content) /\ \A s \in DOMAIN backups : backups[s] \in Content
    BY DEF OpenShape, DiskShape, Clean
  <2>2. Len(files) \in Nat /\ second \in 1..MaxSeconds /\ DOMAIN backups \subseteq 1..MaxSeconds
    BY OpeningAssumption DEF OpenShape, DiskShape, OpenBounds
  <2>3. opener \in [Openers ->
          [at : Opening \cup Stopped \cup {"graph", "open"}, file : 0..Len(files), backup : 0..MaxSeconds,
           todo : SUBSET LegacyRows, copy : Content, base : Content, alone : BOOLEAN]]
    <3>1. \A w \in Openers : opener[w] \in OpenerType /\ opener[w].file \in 0..Len(files)
                             /\ opener[w].backup \in 0..MaxSeconds
      BY <2>2, OpeningAssumption DEF OpenShape, OpenerShape, OpenerType, OpenBounds
    <3>2. \A c \in OpenerType : c.file \in 0..Len(files) /\ c.backup \in 0..MaxSeconds =>
            c \in [at : Opening \cup Stopped \cup {"graph", "open"}, file : 0..Len(files), backup : 0..MaxSeconds,
                   todo : SUBSET LegacyRows, copy : Content, base : Content, alone : BOOLEAN]
      BY DEF OpenerType, Clean
    <3> QED BY <3>1, <3>2 DEF OpenShape, OpenerShape
  <2>4. \A w \in Openers : opener[w].at \in Attached => opener[w].file # 0
    BY <2>2 DEF OpenShape, OpenerShape
  <2> QED BY <2>1, <2>2, <2>3, <2>4 DEF OpenShape, DiskShape, OpenBounds, OpenTypeOK
<1> QED BY <1>1, OpenShapeInit, OpenShapeNext, OpenBoundsInit, OpenBoundsNext, PTL DEF OpenSpec

-----------------------------------------------------------------------------
(* An opening that fails alone.                                            *)

\* A process that opens alone finds nothing changed as long as it has no backup, and has
\* what it found in its backup from then on. Without a backup the store is of the present
\* version, so that nothing is sanitized.
WithoutBackup(w) ==
  /\ opener[w].at \notin {"sanitize", "ledger", "replace"}
  /\ opener[w].at \in {"connect", "read", "finish", "raised"} =>
       Present = opener[w].base /\ 7 \in opener[w].base.versions
WithBackup(w) ==
  /\ opener[w].at \in {"connect", "read", "sanitize", "ledger", "finish", "raised"} =>
       opener[w].backup \in DOMAIN backups /\ backups[opener[w].backup] = opener[w].base
  /\ opener[w].at = "replace" => opener[w].copy = opener[w].base
\* Nobody records anything beside it. Its closing moved the log into the main file before
\* the restore.
LoneContent(w) ==
  /\ opener[w].at \notin {"closed", "open"} =>
       Present.rows = opener[w].base.rows /\ Present.raw \subseteq opener[w].base.raw
  /\ opener[w].at \in {"graph", "migrated"} => 7 \in Present.versions
  /\ opener[w].at = "raised" => saved[path] = files[path]
LoneAt(w) ==
  /\ path # 0 /\ \A v \in Openers \ {w} : ~Running(v)
  /\ opener[w].at \in {"backup", "connect", "failed"} => Present = opener[w].base
  /\ opener[w].at \in Attached \ {"open"} => opener[w].file = path
  /\ IF opener[w].backup = 0 THEN WithoutBackup(w) ELSE WithBackup(w)
LoneShape == \A w \in Openers : opener[w].alone => LoneAt(w) /\ LoneContent(w)

\* The newest backup is never one of those that are removed.
LEMMA NewestIsKept ==
  ASSUME NEW all, NEW s \in DOMAIN all, s \in Nat, DOMAIN all \subseteq 1..s
  PROVE  s \in DOMAIN Kept(all) /\ Kept(all)[s] = all[s]
<1>1. {t \in DOMAIN all : t > s} = {}
  OBVIOUS
<1>2. Cardinality({t \in DOMAIN all : t > s}) < KeepBackups
  BY <1>1, FS_EmptySet, OpeningAssumption
<1> QED BY <1>2 DEF Kept

\* Whoever steps is running, but for who starts, and steps alone.
LEMMA OnlyTheRunningStep ==
  ASSUME OpenShape, NEW w \in Openers, Opener(w), ~OpenStart(w)
  PROVE  Running(w) /\ \E new : opener' = [opener EXCEPT ![w] = new] /\ new.alone = opener[w].alone
<1> DEFINE me == opener[w]
<1>0. me \in OpenerType /\ opener \in [Openers -> OpenerType]
  BY DEF OpenShape, OpenerShape
<1>a. \A at, x : /\ [me EXCEPT !.at = at].alone = me.alone
                 /\ [me EXCEPT !.todo = x].alone = me.alone
                 /\ [me EXCEPT !.at = at, !.backup = x].alone = me.alone
                 /\ [me EXCEPT !.at = at, !.file = x].alone = me.alone
                 /\ [me EXCEPT !.at = at, !.todo = x].alone = me.alone
                 /\ [me EXCEPT !.at = at, !.copy = x].alone = me.alone
  BY <1>0 DEF OpenerType
<1> HIDE DEF me
<1>b. ASSUME NEW at, opener' = [opener EXCEPT ![w].at = at]
      PROVE  \E new : opener' = [opener EXCEPT ![w] = new] /\ new.alone = opener[w].alone
  <2>1. opener' = [opener EXCEPT ![w] = [me EXCEPT !.at = at]]
    BY <1>b DEF me
  <2> QED BY <1>a, <2>1 DEF me
<1>c. ASSUME NEW new, opener' = [opener EXCEPT ![w] = new], new.alone = me.alone
      PROVE  \E n : opener' = [opener EXCEPT ![w] = n] /\ n.alone = opener[w].alone
  BY <1>c DEF me
<1>1. CASE Backup(w)
  <2>1. opener' = [opener EXCEPT ![w] = [me EXCEPT !.at = "connect", !.backup = second]] /\ me.at = "backup"
    BY <1>1 DEF Backup, BackupOf, me
  <2>2. [me EXCEPT !.at = "connect", !.backup = second].alone = me.alone
    BY <1>a
  <2> QED BY <1>c, <2>1, <2>2 DEF Running, Stopped, me
<1>2. CASE Connect(w)
  <2>1. opener' = [opener EXCEPT ![w] = [me EXCEPT !.at = "read", !.file = path']] /\ me.at = "connect"
    BY <1>2 DEF Connect, me
  <2>2. [me EXCEPT !.at = "read", !.file = path'].alone = me.alone
    BY <1>a
  <2> QED BY <1>c, <2>1, <2>2 DEF Running, Stopped, me
<1>3. CASE ReadLedger(w)
  <2>1. PICK at, todo : opener' = [opener EXCEPT ![w] = [me EXCEPT !.at = at, !.todo = todo]]
    BY <1>3 DEF ReadLedger, me
  <2>2. me.at = "read"
    BY <1>3 DEF ReadLedger, me
  <2>3. [me EXCEPT !.at = at, !.todo = todo].alone = me.alone
    BY <1>a
  <2> QED BY <1>c, <2>1, <2>2, <2>3 DEF Running, Stopped, me
<1>4. CASE Sanitize(w)
  <2>1. me.at = "sanitize"
    BY <1>4 DEF Sanitize, me
  <2>2. \E new : opener' = [opener EXCEPT ![w] = new] /\ new.alone = opener[w].alone
    <3>1. CASE me.todo = {}
      BY <1>4, <1>b, <3>1 DEF Sanitize, Goes, me
    <3>2. CASE me.todo # {}
      <4>1. PICK todo : opener' = [opener EXCEPT ![w] = [me EXCEPT !.todo = todo]]
        BY <1>4, <3>2 DEF Sanitize, me
      <4> QED BY <1>a, <4>1 DEF me
    <3> QED BY <3>1, <3>2
  <2> QED BY <2>1, <2>2 DEF Running, Stopped, me
<1>5. CASE WriteLedger(w) \/ Fault(w)
  <2>1. me.at \in Attached \cup {"backup"}
    BY <1>5 DEF WriteLedger, Fault, Attached, me
  <2>2. \E at : opener' = [opener EXCEPT ![w].at = at]
    BY <1>5 DEF WriteLedger, Fault, Raise, Goes
  <2> QED BY <1>b, <2>1, <2>2 DEF Running, Stopped, Attached, me
<1>6. CASE Finish(w) \/ LinkGraph(w) \/ RestoreFault(w)
  BY <1>6, <1>b DEF Finish, LinkGraph, RestoreFault, Goes, Running, Stopped
<1>7. CASE Restore(w)
  <2>1. me.at = "raised"
    BY <1>7 DEF Restore, me
  <2>2. \E new : opener' = [opener EXCEPT ![w] = new] /\ new.alone = opener[w].alone
    <3>1. CASE me.backup # 0
      <4>1. opener' = [opener EXCEPT ![w] = [me EXCEPT !.at = "replace", !.copy = backups[me.backup]]]
        BY <1>7, <3>1 DEF Restore, me
      <4>2. [me EXCEPT !.at = "replace", !.copy = backups[me.backup]].alone = me.alone
        BY <1>a
      <4> QED BY <1>c, <4>1, <4>2
    <3>2. CASE me.backup = 0
      <4>1. 0 \notin DOMAIN backups
        BY DEF OpenShape, DiskShape
      <4> QED BY <1>7, <1>b, <3>2, <4>1 DEF Restore, Goes, me
    <3> QED BY <3>1, <3>2
  <2> QED BY <2>1, <2>2 DEF Running, Stopped, me
<1>8. CASE Replace(w) \/ Close(w) \/ OpenCrash(w)
  BY <1>8, <1>b DEF Replace, Close, OpenCrash, Goes, Running, Stopped
<1>9. CASE (\E r \in UserRows : Record(w, r)) \/ Checkpoint(w)
  <2>1. opener[w].at = "open" /\ opener' = opener
    BY <1>9 DEF Record, Checkpoint
  <2>2. opener' = [opener EXCEPT ![w] = opener[w]]
    BY <1>0, <2>1
  <2> QED BY <2>1, <2>2 DEF Running, Stopped
<1> QED BY <1>1, <1>2, <1>3, <1>4, <1>5, <1>6, <1>7, <1>8, <1>9 DEF Opener

LEMMA LoneOpenerStep ==
  ASSUME OpenShape, LoneShape, NEW w \in Openers, Opener(w), ~OpenStart(w),
         opener[w].alone, NEW new, opener' = [opener EXCEPT ![w] = new]
  PROVE  LoneAt(w)'
<1> DEFINE me == opener[w]
<1>0. /\ me \in OpenerType /\ opener \in [Openers -> OpenerType] /\ DiskShape
      /\ (me.at \in Attached => me.file \in 1..Len(files) /\ files[me.file] \in Clean)
      /\ path \in 1..Len(files) /\ Present = files[path] /\ Present \in Clean
  BY PresentIsClean DEF OpenShape, DiskShape, OpenerShape, LoneShape, LoneAt, Present
<1>a. /\ path # 0 /\ \A v \in Openers \ {w} : ~Running(v)
      /\ me.at \in {"backup", "connect", "failed"} => Present = me.base
      /\ me.at \in Attached \ {"open"} => me.file = path
      /\ me.backup = 0 => WithoutBackup(w)
      /\ me.backup # 0 => WithBackup(w)
  BY DEF LoneShape, LoneAt
<1>b. opener'[w] = new /\ \A v \in Openers \ {w} : ~Running(v)'
  BY <1>0, <1>a DEF Running
<1> DEFINE Fits(at, backup) ==
             /\ at \in {"backup", "connect", "failed"} => Present' = new.base
             /\ at \in Attached \ {"open"} => new.file = path'
             /\ backup = 0 =>
                  /\ at \notin {"sanitize", "ledger", "replace"}
                  /\ at \in {"connect", "read", "finish", "raised"} =>
                       Present' = new.base /\ 7 \in new.base.versions
             /\ backup # 0 =>
                  /\ at \in {"connect", "read", "sanitize", "ledger", "finish", "raised"} =>
                       backup \in DOMAIN backups' /\ backups'[backup] = new.base
                  /\ at = "replace" => new.copy = new.base
<1>c. ASSUME path' # 0, Fits(new.at, new.backup) PROVE LoneAt(w)'
  BY <1>b, <1>c DEF LoneAt, WithoutBackup, WithBackup
<1>d. ASSUME NEW at, new = [me EXCEPT !.at = at], UNCHANGED <<files, path, backups>>, at \in {"failed"} => Present = me.base,
             at \in Attached \ {"open"} => me.at \in Attached \ {"open"},
             at \in {"sanitize", "ledger", "finish", "raised"} => me.at \in {"read", "sanitize", "ledger", "finish"},
             at \in {"sanitize", "ledger"} => me.at \in {"sanitize", "ledger"},
             at \notin {"backup", "connect", "read", "replace"}
      PROVE  LoneAt(w)'
  <2>1. /\ new.at = at /\ new.backup = me.backup /\ new.base = me.base /\ new.file = me.file /\ Present' = Present
    BY <1>0, <1>d DEF OpenerType, Present
  <2> QED BY <1>a, <1>c, <1>d, <2>1 DEF WithoutBackup, WithBackup
<1>1. CASE Backup(w)
  <2> DEFINE all == [s \in DOMAIN backups \cup {second} |->
                       IF s \in DOMAIN backups \ {second} THEN backups[s] ELSE Present]
  <2>1. /\ me.at = "backup" /\ backups' = Kept(all) /\ UNCHANGED <<files, path>>
        /\ new = [me EXCEPT !.at = "connect", !.backup = second]
    BY <1>0, <1>1, <1>b DEF Backup, BackupOf, disk
  <2>2. DOMAIN all \subseteq 1..second /\ second \in DOMAIN all /\ second \in Nat /\ all[second] = Present
    BY <1>0 DEF DiskShape
  <2> HIDE DEF all
  <2>3. second \in DOMAIN backups' /\ backups'[second] = Present
    BY <2>1, <2>2, NewestIsKept
  <2>4. new.at = "connect" /\ new.backup = second /\ new.base = me.base /\ second # 0 /\ Present' = Present
    BY <1>0, <2>1 DEF OpenerType, DiskShape, Present
  <2> QED BY <1>a, <1>c, <2>1, <2>3, <2>4 DEF Attached
<1>2. CASE Connect(w)
  <2>1. me.at = "connect" /\ UNCHANGED <<files, path, backups>> /\ new = [me EXCEPT !.at = "read", !.file = path']
    BY <1>0, <1>2, <1>a, <1>b DEF Connect, disk
  <2>2. /\ new.at = "read" /\ new.file = path' /\ new.backup = me.backup /\ new.base = me.base
        /\ Present' = Present
    BY <1>0, <2>1 DEF OpenerType, Present
  <2> QED BY <1>a, <1>c, <2>1, <2>2 DEF WithoutBackup, WithBackup
<1>3. CASE ReadLedger(w)
  <2>1. /\ me.at = "read" /\ UNCHANGED <<files, path, backups>>
        /\ new = [me EXCEPT !.at = IF 6 \in File(w).versions THEN "finish" ELSE "sanitize", !.todo = File(w).raw]
    BY <1>0, <1>3, <1>b DEF ReadLedger, disk
  <2>2. /\ new.at = IF 6 \in File(w).versions THEN "finish" ELSE "sanitize"
        /\ new.file = me.file /\ new.backup = me.backup /\ new.base = me.base /\ Present' = Present
    BY <1>0, <2>1 DEF OpenerType, Present
  <2>3. me.file = path
    BY <1>a, <2>1 DEF Attached
  <2>4. me.backup = 0 => Present = me.base /\ 7 \in me.base.versions /\ 6 \in File(w).versions
    BY <1>0, <1>a, <2>1, <2>3 DEF WithoutBackup, File, Clean
  <2> QED BY <1>a, <1>c, <2>1, <2>2, <2>3, <2>4 DEF WithBackup
<1>4. CASE Sanitize(w)
  <2>1. /\ me.at = "sanitize" /\ me.backup # 0 /\ UNCHANGED <<path, backups>> /\ me.file = path
        /\ me.backup \in DOMAIN backups /\ backups[me.backup] = me.base
    BY <1>4, <1>a DEF Sanitize, Attached, WithoutBackup, WithBackup
  <2>2. /\ new.at \in {"sanitize", "ledger"} /\ new.file = me.file /\ new.backup = me.backup /\ new.base = me.base
    <3>1. CASE me.todo = {}
      <4>1. new = [me EXCEPT !.at = "ledger"]
        BY <1>0, <1>4, <1>b, <3>1 DEF Sanitize, Goes
      <4> QED BY <1>0, <4>1 DEF OpenerType
    <3>2. CASE me.todo # {}
      <4>1. \E r : new = [me EXCEPT !.todo = @ \ {r}]
        BY <1>0, <1>4, <1>b, <3>2 DEF Sanitize
      <4> QED BY <1>0, <2>1, <4>1 DEF OpenerType
    <3> QED BY <3>1, <3>2
  <2> QED BY <1>a, <1>c, <2>1, <2>2
<1>5. CASE WriteLedger(w)
  <2>1. /\ me.at = "ledger" /\ me.backup # 0 /\ UNCHANGED <<path, backups>> /\ me.file = path
        /\ me.backup \in DOMAIN backups /\ backups[me.backup] = me.base
    BY <1>5, <1>a DEF WriteLedger, Raise, Attached, WithoutBackup, WithBackup
  <2>2. \E at \in {"raised", "finish"} : new = [me EXCEPT !.at = at]
    BY <1>0, <1>5, <1>b DEF WriteLedger, Raise, Goes
  <2>3. /\ new.at \in {"raised", "finish"} /\ new.file = me.file /\ new.backup = me.backup /\ new.base = me.base
    BY <1>0, <2>2 DEF OpenerType
  <2> QED BY <1>a, <1>c, <2>1, <2>3
<1>6. CASE Finish(w)
  <2>1. path' = path /\ new = [me EXCEPT !.at = "graph"] /\ me.at = "finish"
    BY <1>0, <1>6, <1>b DEF Finish
  <2>2. new.at = "graph" /\ new.file = path'
    BY <1>0, <1>a, <2>1 DEF OpenerType, Attached
  <2> QED BY <1>a, <1>c, <2>1, <2>2
<1>12. CASE LinkGraph(w)
  <2>1. path' = path /\ new = [me EXCEPT !.at = "open"]
    BY <1>0, <1>12, <1>b DEF LinkGraph, Goes, disk
  <2>2. new.at = "open"
    BY <1>0, <2>1 DEF OpenerType
  <2> QED BY <1>a, <1>c, <2>1, <2>2
<1>13. CASE RestoreFault(w)
  <2>1. path' = path /\ new = [me EXCEPT !.at = "unrestored"]
    BY <1>0, <1>13, <1>b DEF RestoreFault, Goes, disk
  <2>2. new.at = "unrestored"
    BY <1>0, <2>1 DEF OpenerType
  <2> QED BY <1>a, <1>c, <2>1, <2>2 DEF Attached
<1>7. CASE Fault(w)
  <2>1. CASE me.at \in Attached \cap Opening /\ Raise(w)
    <3>1. new = [me EXCEPT !.at = "raised"] /\ UNCHANGED <<files, path, backups>>
      BY <1>0, <1>b, <2>1 DEF Raise, Goes
    <3>2. me.at \in {"read", "sanitize", "ledger", "finish"} /\ "raised" \notin Attached
      BY <2>1 DEF Attached, Opening
    <3> QED BY <1>d, <3>1, <3>2
  <2>2. CASE me.at = "backup" /\ Goes(w, "failed") /\ UNCHANGED disk /\ UNCHANGED backups
    <3>1. new = [me EXCEPT !.at = "failed"] /\ UNCHANGED <<files, path, backups>>
      BY <1>0, <1>b, <2>2 DEF Goes, disk
    <3>2. Present = me.base /\ "failed" \notin Attached
      BY <1>a, <2>2 DEF Attached
    <3> QED BY <1>d, <3>1, <3>2
  <2>3. CASE me.at = "graph" /\ Goes(w, "migrated") /\ path' = path
    <3>1. new = [me EXCEPT !.at = "migrated"]
      BY <1>0, <1>b, <2>3 DEF Goes
    <3>2. new.at = "migrated" /\ new.backup = me.backup /\ new.base = me.base
      BY <1>0, <3>1 DEF OpenerType
    <3> QED BY <1>a, <1>c, <2>3, <3>2 DEF Attached
  <2> QED BY <1>7, <2>1, <2>2, <2>3 DEF Fault
<1>8. CASE Restore(w)
  <2>0. me.at = "raised" /\ backups' = backups
    BY <1>8 DEF Restore
  <2>1. CASE me.backup # 0
    <3>1. me.backup # 0 /\ backups[me.backup] = me.base
      BY <1>0, <1>a, <2>0, <2>1 DEF WithBackup, DiskShape
    <3>2. new = [me EXCEPT !.at = "replace", !.copy = backups[me.backup]] /\ path' = Len(files) + 1
      BY <1>0, <1>8, <1>b, <2>1 DEF Restore
    <3>3. new.at = "replace" /\ new.copy = me.base /\ new.base = me.base /\ new.backup = me.backup /\ path' # 0
      BY <1>0, <3>1, <3>2 DEF OpenerType
    <3> QED BY <1>c, <3>1, <3>3 DEF Attached
  <2>2. CASE me.backup = 0
    <3>1. new = [me EXCEPT !.at = "failed"] /\ UNCHANGED <<files, path, backups>>
      BY <1>0, <1>8, <1>b, <2>0, <2>2 DEF Restore, Goes, disk, DiskShape
    <3>2. Present = me.base /\ "failed" \notin Attached
      BY <1>a, <2>0, <2>2 DEF WithoutBackup, WithBackup, Attached
    <3> QED BY <1>d, <3>1, <3>2
  <2> QED BY <2>1, <2>2
<1>9. CASE Replace(w)
  <2>1. /\ me.at = "replace" /\ files' = Append(files, me.copy) /\ path' = Len(files) + 1
        /\ new = [me EXCEPT !.at = "failed"] /\ backups' = backups
    BY <1>0, <1>9, <1>b DEF Replace, Goes
  <2>2. me.copy = me.base /\ me.backup # 0
    BY <1>a, <2>1 DEF WithoutBackup, WithBackup
  <2>3. Present' = me.base /\ path' # 0
    BY <1>0, <2>1, <2>2 DEF Present, DiskShape
  <2>4. new.at = "failed" /\ new.base = me.base
    BY <1>0, <2>1 DEF OpenerType
  <2> QED BY <1>c, <2>3, <2>4 DEF Attached
<1>10. CASE (\E r \in UserRows : Record(w, r)) \/ Checkpoint(w)
  <2>1. new = me /\ me.at = "open" /\ path' = path
    BY <1>0, <1>10, <1>b DEF Record, Checkpoint
  <2> QED BY <1>a, <1>c, <2>1
<1>11. CASE Close(w) \/ OpenCrash(w)
  <2>1. new = [me EXCEPT !.at = "closed"] /\ path' = path
    BY <1>0, <1>11, <1>b DEF Close, OpenCrash, Goes, disk
  <2>2. new.at = "closed"
    BY <1>0, <2>1 DEF OpenerType
  <2> QED BY <1>a, <1>c, <2>1, <2>2 DEF Attached
<1> QED BY <1>1, <1>2, <1>3, <1>4, <1>5, <1>6, <1>7, <1>8, <1>9, <1>10, <1>11,
       <1>12, <1>13 DEF Opener

LEMMA LoneContentStep ==
  ASSUME OpenShape, LoneShape, NEW w \in Openers, Opener(w), ~OpenStart(w),
         opener[w].alone, NEW new, opener' = [opener EXCEPT ![w] = new]
  PROVE  LoneContent(w)'
<1> DEFINE me == opener[w]
<1>0. /\ me \in OpenerType /\ opener \in [Openers -> OpenerType] /\ DiskShape
      /\ path \in 1..Len(files) /\ path # 0 /\ Present = files[path]
      /\ Present \in Clean /\ me.base \in Clean
      /\ opener'[w] = new
  BY PresentIsClean DEF OpenShape, DiskShape, OpenerShape, OpenerType, LoneShape, LoneAt, Present
<1>a. /\ \A v \in Openers \ {w} : ~Running(v)
      /\ me.at \in Attached \ {"open"} => me.file = path
      /\ me.backup # 0 => WithBackup(w)
      /\ me.backup = 0 => WithoutBackup(w)
      /\ LoneContent(w)
  BY DEF LoneShape, LoneAt
<1>b. \A at, x : /\ LET n == [me EXCEPT !.at = at] IN n.at = at /\ n.base = me.base
                 /\ LET n == [me EXCEPT !.at = at, !.backup = x] IN n.at = at /\ n.base = me.base
                 /\ LET n == [me EXCEPT !.at = at, !.file = x] IN n.at = at /\ n.base = me.base
                 /\ LET n == [me EXCEPT !.at = at, !.todo = x] IN n.at = at /\ n.base = me.base
                 /\ LET n == [me EXCEPT !.at = at, !.copy = x] IN n.at = at /\ n.base = me.base
                 /\ LET n == [me EXCEPT !.todo = x] IN n.at = me.at /\ n.base = me.base
  BY <1>0 DEF OpenerType
<1>c. ASSUME NEW at, new.at = at, new.base = me.base, UNCHANGED <<files, path>>, me.at \notin {"closed", "open"},
             at # "raised", at \in {"graph", "migrated"} => me.at = "graph"
      PROVE  LoneContent(w)'
  <2>1. Present' = Present
    BY <1>c DEF Present
  <2> QED BY <1>0, <1>a, <1>c, <2>1 DEF LoneContent
<1>d. ASSUME new.base = me.base, new.at # "raised", path' # 0, Present'.rows = me.base.rows,
             Present'.raw \subseteq me.base.raw, new.at \in {"graph", "migrated"} => 7 \in Present'.versions
      PROVE  LoneContent(w)'
  BY <1>0, <1>d DEF LoneContent
<1>e. ASSUME new.at \in {"closed", "open"} PROVE LoneContent(w)'
  BY <1>0, <1>e DEF LoneContent
\* Closing the last connection moves the log into the main file.
<1>f. ASSUME Raise(w), me.at \in Attached \ {"open"} PROVE LoneContent(w)'
  <2>1. new = [me EXCEPT !.at = "raised"] /\ UNCHANGED <<files, path>> /\ saved' = AfterClose(w) /\ me.file = path
    BY <1>0, <1>a, <1>f DEF Raise, Goes
  <2>2. \A v \in Openers \ {w} : opener[v].at \notin Attached
    BY <1>a DEF Running, Stopped, Attached
  <2>3. saved' = [saved EXCEPT ![path] = files[path]]
    BY <1>f, <2>1, <2>2 DEF AfterClose
  <2>4. saved'[path] = files[path]
    BY <1>0, <2>3 DEF DiskShape
  <2>5. new.at = "raised" /\ new.base = me.base
    BY <1>b, <2>1
  <2>6. Present' = Present /\ me.at \notin {"closed", "open"}
    BY <1>f, <2>1 DEF Present, Attached
  <2> QED BY <1>0, <1>a, <2>1, <2>4, <2>5, <2>6 DEF LoneContent
\* One file changes, and not its rows.
<1>g. ASSUME NEW c \in Clean, files' = [files EXCEPT ![path] = c], path' = path,
             c.rows = Present.rows, c.raw \subseteq Present.raw, me.at \notin {"closed", "open"},
             new.base = me.base, new.at # "raised", new.at \in {"graph", "migrated"} => 7 \in c.versions
      PROVE  LoneContent(w)'
  <2>1. Present' = c
    BY <1>0, <1>g DEF Present, DiskShape
  <2>2. Present.rows = me.base.rows /\ Present.raw \subseteq me.base.raw
    BY <1>a, <1>g DEF LoneContent
  <2>3. Present'.rows = me.base.rows /\ Present'.raw \subseteq me.base.raw
    BY <1>g, <2>1, <2>2
  <2> QED BY <1>0, <1>d, <1>g, <2>1, <2>3
<1>1. CASE Backup(w)
  <2>1. new = [me EXCEPT !.at = "connect", !.backup = second] /\ me.at = "backup" /\ UNCHANGED <<files, path>>
    BY <1>0, <1>1 DEF Backup, BackupOf, disk
  <2> QED BY <1>b, <1>c, <2>1
<1>2. CASE Connect(w)
  <2>1. new = [me EXCEPT !.at = "read", !.file = path'] /\ me.at = "connect" /\ UNCHANGED <<files, path>>
    BY <1>0, <1>2 DEF Connect, disk
  <2> QED BY <1>b, <1>c, <2>1
<1>3. CASE ReadLedger(w)
  <2>1. PICK at \in {"finish", "sanitize"} : new = [me EXCEPT !.at = at, !.todo = File(w).raw]
    BY <1>0, <1>3 DEF ReadLedger
  <2>2. me.at = "read" /\ UNCHANGED <<files, path>>
    BY <1>3 DEF ReadLedger, disk
  <2>3. new.at = at /\ new.base = me.base
    BY <1>b, <2>1
  <2> QED BY <1>c, <2>2, <2>3
<1>4. CASE Sanitize(w)
  <2>1. me.at = "sanitize" /\ path' = path /\ me.file = path /\ me.todo \subseteq LegacyRows
    BY <1>0, <1>4, <1>a DEF Sanitize, Attached, OpenerType
  <2>2. CASE me.todo = {}
    <3>1. new = [me EXCEPT !.at = "ledger"] /\ files' = files
      BY <1>0, <1>4, <2>2 DEF Sanitize, Goes
    <3> QED BY <1>b, <1>c, <2>1, <3>1
  <2>3. CASE me.todo # {}
    <3>1. PICK r \in me.todo : /\ files' = [files EXCEPT ![path].raw = @ \ {r}]
                               /\ new = [me EXCEPT !.todo = @ \ {r}]
      BY <1>0, <1>4, <2>1, <2>3 DEF Sanitize
    <3> DEFINE c == [Present EXCEPT !.raw = @ \ {r}]
    <3>5. Present \in Clean /\ r \in LegacyRows
      BY <1>0, <2>1
    <3>2. c \in Clean /\ c.raw = Present.raw \ {r} /\ c.rows = Present.rows
      BY <3>5, CleanSteps
    <3>4. files' = [files EXCEPT ![path] = c]
      BY <1>0, <3>1
    <3>3. new.at = "sanitize" /\ new.base = me.base
      BY <1>b, <2>1, <3>1
    <3> HIDE DEF c
    <3> QED BY <1>g, <2>1, <3>2, <3>3, <3>4
  <2> QED BY <2>2, <2>3
<1>5. CASE WriteLedger(w)
  <2>1. me.at = "ledger" /\ me.file = path /\ "ledger" \in Attached \ {"open"}
    BY <1>5, <1>a DEF WriteLedger, Attached
  <2>2. CASE Raise(w)
    BY <1>f, <2>1, <2>2
  <2>3. CASE ~Raise(w)
    <3> DEFINE c == [Present EXCEPT !.versions = @ \cup {6}]
    <3>1. /\ files' = [files EXCEPT ![path] = c] /\ path' = path
          /\ new = [me EXCEPT !.at = "finish"]
      BY <1>0, <1>5, <2>1, <2>3 DEF WriteLedger, Goes
    <3>2. Present.raw = {}
      BY <1>0, <2>1 DEF OpenShape, Sanitizing
    <3>3. c \in Clean /\ c.raw = Present.raw /\ c.rows = Present.rows
      BY <1>0, <3>2, CleanSteps
    <3>4. new.at = "finish" /\ new.base = me.base
      BY <1>b, <3>1
    <3> HIDE DEF c
    <3> QED BY <1>g, <2>1, <3>1, <3>3, <3>4
  <2> QED BY <2>2, <2>3
<1>6. CASE Finish(w)
  <2>1. me.at = "finish" /\ me.file = path
    BY <1>6, <1>a DEF Finish, Attached
  <2> DEFINE c == [Present EXCEPT !.versions = @ \cup {7}]
  <2>2. /\ files' = [files EXCEPT ![path] = c] /\ path' = path /\ new = [me EXCEPT !.at = "graph"]
    BY <1>0, <1>6, <2>1 DEF Finish
  <2>3. 6 \in Present.versions
    BY <1>0, <2>1 DEF OpenShape, Sanitizing
  <2>4. c \in Clean /\ c.raw = Present.raw /\ c.rows = Present.rows /\ 7 \in c.versions
    BY <1>0, <2>3, CleanSteps
  <2>5. new.at = "graph" /\ new.base = me.base
    BY <1>b, <2>2
  <2> HIDE DEF c
  <2> QED BY <1>g, <2>1, <2>2, <2>4, <2>5
<1>7. CASE LinkGraph(w) \/ Close(w) \/ OpenCrash(w)
  <2>1. \E at \in {"open", "closed"} : new = [me EXCEPT !.at = at]
    BY <1>0, <1>7 DEF LinkGraph, Close, OpenCrash, Goes
  <2> QED BY <1>b, <1>e, <2>1
<1>8. CASE Fault(w)
  <2>1. CASE me.at \in Attached \cap Opening /\ Raise(w)
    BY <1>f, <2>1 DEF Opening
  <2>2. CASE me.at = "backup" /\ Goes(w, "failed") /\ UNCHANGED disk
    <3>1. new = [me EXCEPT !.at = "failed"] /\ UNCHANGED <<files, path>>
      BY <1>0, <2>2 DEF Goes, disk
    <3> QED BY <1>b, <1>c, <2>2, <3>1
  <2>3. CASE me.at = "graph" /\ Goes(w, "migrated") /\ UNCHANGED <<files, path>>
    <3>1. new = [me EXCEPT !.at = "migrated"]
      BY <1>0, <2>3 DEF Goes
    <3> QED BY <1>b, <1>c, <2>3, <3>1
  <2> QED BY <1>8, <2>1, <2>2, <2>3 DEF Fault
<1>9. CASE Restore(w)
  <2>1. me.at = "raised" /\ Present.rows = me.base.rows /\ Present.raw \subseteq me.base.raw
        /\ saved[path] = files[path]
    BY <1>9, <1>a DEF Restore, LoneContent
  <2>2. CASE me.backup = 0 /\ Goes(w, "failed") /\ UNCHANGED disk
    <3>1. new = [me EXCEPT !.at = "failed"] /\ UNCHANGED <<files, path>>
      BY <1>0, <2>2 DEF Goes, disk
    <3> QED BY <1>b, <1>c, <2>1, <3>1
  <2>3. ASSUME NEW left \in {saved[path], files[path]}, files' = Append(files, left), path' = Len(files) + 1,
               new = [me EXCEPT !.at = "replace", !.copy = backups[me.backup]]
        PROVE  LoneContent(w)'
    <3>1. Present' = Present /\ path' # 0
      BY <1>0, <2>1, <2>3 DEF Present, DiskShape
    <3>2. new.at = "replace" /\ new.base = me.base
      BY <1>b, <2>3
    <3> QED BY <1>d, <2>1, <3>1, <3>2
  <2>4. opener' = [opener EXCEPT ![w].at = "replace", ![w].copy = backups[me.backup]] =>
          new = [me EXCEPT !.at = "replace", !.copy = backups[me.backup]]
    BY <1>0
  <2> QED BY <1>9, <2>2, <2>3, <2>4 DEF Restore
<1>10. CASE Replace(w)
  <2>1. /\ me.at = "replace" /\ files' = Append(files, me.copy) /\ path' = Len(files) + 1
        /\ new = [me EXCEPT !.at = "failed"]
    BY <1>0, <1>10 DEF Replace, Goes
  <2>2. me.copy = me.base
    BY <1>a, <2>1 DEF WithoutBackup, WithBackup
  <2>3. Present' = me.base /\ path' # 0
    BY <1>0, <2>1, <2>2 DEF Present, DiskShape
  <2>4. new.at = "failed" /\ new.base = me.base
    BY <1>b, <2>1
  <2> QED BY <1>d, <2>3, <2>4
<1>11. CASE RestoreFault(w)
  <2>1. new = [me EXCEPT !.at = "unrestored"] /\ UNCHANGED <<files, path>> /\ me.at \in {"raised", "replace"}
    BY <1>0, <1>11 DEF RestoreFault, Goes, disk
  <2> QED BY <1>b, <1>c, <2>1
<1>12. CASE (\E r \in UserRows : Record(w, r)) \/ Checkpoint(w)
  <2>1. new = me /\ me.at = "open"
    BY <1>0, <1>12 DEF Record, Checkpoint
  <2> QED BY <1>e, <2>1
<1> QED BY <1>1, <1>2, <1>3, <1>4, <1>5, <1>6, <1>7, <1>8, <1>9, <1>10, <1>11, <1>12 DEF Opener

LEMMA LoneStart ==
  ASSUME OpenShape, NEW w \in Openers, OpenStart(w), NEW v \in Openers, opener'[v].alone
  PROVE  LoneAt(v)' /\ LoneContent(v)'
<1> DEFINE begin == [Closed EXCEPT !.at = IF path = 0 \/ 7 \in Present.versions THEN "connect" ELSE "backup",
                                   !.base = Present,
                                   !.alone = path # 0 /\ \A u \in Openers : ~Running(u)]
<1>1. /\ opener' = [u \in Openers |-> IF u = w THEN begin ELSE [opener[u] EXCEPT !.alone = FALSE]]
      /\ UNCHANGED <<files, path, backups>>
  BY DEF OpenStart, disk
<1>2. /\ begin.at = (IF path = 0 \/ 7 \in Present.versions THEN "connect" ELSE "backup")
      /\ begin.base = Present /\ begin.backup = 0
      /\ (begin.alone <=> path # 0 /\ \A u \in Openers : ~Running(u))
  BY DEF Closed
<1> HIDE DEF begin
<1>3. \A u \in Openers \ {w} : opener'[u].alone = FALSE /\ opener'[u].at = opener[u].at
  BY <1>1 DEF OpenShape, OpenerShape, OpenerType
<1>4. v = w /\ opener'[w] = begin
  BY <1>1, <1>3
<1>5. path # 0 /\ \A u \in Openers \ {w} : ~Running(u)'
  BY <1>2, <1>3, <1>4 DEF Running
<1>6. Present' = Present
  BY <1>1 DEF Present
<1>7. WithoutBackup(w)'
  BY <1>2, <1>4, <1>5, <1>6 DEF WithoutBackup
<1>8. opener'[w].at \notin Attached
  BY <1>2, <1>4 DEF Attached
<1>9. LoneContent(w)'
  BY <1>2, <1>4, <1>6 DEF LoneContent
<1> QED BY <1>1, <1>2, <1>4, <1>5, <1>6, <1>7, <1>8, <1>9 DEF LoneAt

LEMMA LoneShapeInit == OpenInit => LoneShape
  BY DEF OpenInit, LoneShape, Closed

LEMMA LoneShapeNext == OpenShape /\ LoneShape /\ [OpenNext]_openVars => LoneShape'
<1> SUFFICES ASSUME OpenShape, LoneShape, [OpenNext]_openVars, NEW v \in Openers, opener'[v].alone
             PROVE  LoneAt(v)' /\ LoneContent(v)'
  BY DEF LoneShape
<1>1. CASE UNCHANGED <<files, saved, path, backups, opener>>
  BY <1>1 DEF LoneShape, LoneAt, LoneContent, WithoutBackup, WithBackup, Present, Running
<1>2. ASSUME NEW w \in Openers, Opener(w), ~OpenStart(w) PROVE LoneAt(v)' /\ LoneContent(v)'
  <2>1. PICK new : opener' = [opener EXCEPT ![w] = new] /\ new.alone = opener[w].alone
    BY <1>2, OnlyTheRunningStep
  <2>2. CASE v = w
    <3>1. opener[w].alone
      BY <2>1, <2>2 DEF OpenShape, OpenerShape
    <3> QED BY <1>2, <2>1, <2>2, <3>1, LoneOpenerStep, LoneContentStep
  <2>3. CASE v # w
    <3>1. opener'[v] = opener[v]
      BY <2>1, <2>3 DEF OpenShape, OpenerShape
    <3> QED BY <1>2, <2>3, <3>1, OnlyTheRunningStep DEF LoneShape, LoneAt
  <2> QED BY <2>2, <2>3
<1> QED BY <1>1, <1>2, LoneStart DEF OpenNext, NextSecond, openVars, disk

\* An opening that fails while no other process runs leaves the store as it found it, but
\* for two exceptions: after a restore that itself raised no row of users is missing and no
\* raw row is there that was not, and a failure after the migration leaves the store
\* migrated (EliteStore.__init__, restore_migration_backup).
THEOREM LoneOpeningRestores == OpenSpec => []LoneFailureRestores
<1>1. OpenShape /\ LoneShape => LoneFailureRestores
  <2> SUFFICES ASSUME OpenShape, LoneShape, NEW w \in Openers, opener[w].alone
               PROVE  /\ opener[w].at = "failed" => Present = opener[w].base
                      /\ opener[w].at = "unrestored" =>
                           Present.rows = opener[w].base.rows /\ Present.raw \subseteq opener[w].base.raw
                      /\ opener[w].at = "migrated" =>
                           Present = [versions |-> {6, 7}, raw |-> {}, rows |-> opener[w].base.rows]
    BY DEF LoneFailureRestores
  <2>1. LoneAt(w) /\ LoneContent(w) /\ Present \in Clean
    BY PresentIsClean DEF LoneShape, OpenShape
  <2>2. ASSUME opener[w].at = "migrated"
        PROVE  Present = [versions |-> {6, 7}, raw |-> {}, rows |-> opener[w].base.rows]
    <3>1. 7 \in Present.versions /\ Present.rows = opener[w].base.rows
      BY <2>1, <2>2 DEF LoneContent
    <3>2. Present.versions = {6, 7} /\ Present.raw = {}
      BY <2>1, <3>1 DEF Clean, Content
    <3> QED BY <2>1, <3>1, <3>2 DEF Clean, Content
  <2>3. opener[w].at = "unrestored" =>
          Present.rows = opener[w].base.rows /\ Present.raw \subseteq opener[w].base.raw
    BY <2>1 DEF LoneContent
  <2> QED BY <2>1, <2>2, <2>3 DEF LoneAt
<1> QED BY <1>1, OpenShapeInit, OpenShapeNext, LoneShapeInit, LoneShapeNext, PTL DEF OpenSpec
-----------------------------------------------------------------------------
(* Acknowledged rows.                                                      *)

KeptRows == acked \ exposed

\* What a process that may put content back has to put back.
HoldsKept(w) ==
  /\ MayRestore(w) /\ opener[w].backup \in DOMAIN backups =>
       KeptRows \subseteq backups[opener[w].backup].rows
  /\ opener[w].at = "replace" => KeptRows \subseteq opener[w].copy.rows

\* What was recorded while nobody could put a backup back is in the store, in every backup
\* that somebody can still put back, and in the content that is about to replace the store.
RaceShape ==
  /\ path = 0 => acked = {}
  /\ \A w \in Openers : opener[w].at = "replace" => opener[w].backup # 0
  /\ torn \/ Replacing \/ KeptRows \subseteq Present.rows
  /\ torn \/ \A w \in Openers : HoldsKept(w)

\* A process comes no closer to putting a backup back than it was.
Calm(v) ==
  /\ \/ opener'[v].backup = opener[v].backup /\ opener'[v].copy = opener[v].copy
     \/ opener'[v].backup = 0 /\ opener'[v].at # "replace"
  /\ opener'[v].at \in Opening /\ opener'[v].backup # 0 => opener[v].at \in Opening
  /\ opener'[v].at = "replace" => opener[v].at = "replace"
  /\ torn' \/ (opener[v].at = "replace" => opener'[v].at = "replace")

LEMMA CalmStep ==
  ASSUME RaceShape, UNCHANGED <<path, backups, acked, exposed>>, Present'.rows = Present.rows,
         torn => torn', \A v \in Openers : Calm(v)
  PROVE  RaceShape'
<1>1. KeptRows' = KeptRows
  BY DEF KeptRows
<1>2. \A v \in Openers : opener'[v].at = "replace" => opener'[v].backup # 0
  BY DEF RaceShape, Calm
<1>3. torn' \/ Replacing' \/ KeptRows' \subseteq Present'.rows
  BY <1>1 DEF RaceShape, Calm, Replacing
<1>4. ASSUME ~torn', NEW v \in Openers PROVE HoldsKept(v)'
  <2>1. HoldsKept(v) /\ Calm(v)
    BY <1>4 DEF RaceShape
  <2> QED BY <1>1, <2>1 DEF HoldsKept, Calm, MayRestore
<1> QED BY <1>2, <1>3, <1>4 DEF RaceShape

\* The same for a step of one process.
LEMMA CalmProcess ==
  ASSUME OpenShape, RaceShape, UNCHANGED <<path, backups, acked, exposed>>, Present'.rows = Present.rows,
         torn => torn', NEW w \in Openers, NEW new, opener' = [opener EXCEPT ![w] = new],
         new.backup = opener[w].backup, new.copy = opener[w].copy, new.at # "replace",
         new.at \in Opening => opener[w].at \in Opening,
         torn' \/ opener[w].at # "replace"
  PROVE  RaceShape'
<1>1. opener \in [Openers -> OpenerType]
  BY DEF OpenShape, OpenerShape
<1>2. \A v \in Openers : Calm(v)
  BY <1>1 DEF Calm
<1> QED BY <1>2, CalmStep

LEMMA SameRows ==
  ASSUME OpenShape, path' = path,
         files' = files \/ \E f \in 1..Len(files) : \E c : c.rows = files[f].rows /\ files' = [files EXCEPT ![f] = c]
  PROVE  Present'.rows = Present.rows
  BY DEF OpenShape, DiskShape, Present

\* A backup holds the store, and the newest is never removed.
LEMMA RaceBackup ==
  ASSUME OpenShape, RaceShape, NEW w \in Openers, Backup(w)
  PROVE  RaceShape'
<1> DEFINE all == [s \in DOMAIN backups \cup {second} |->
                     IF s \in DOMAIN backups \ {second} THEN backups[s] ELSE Present]
           new == [opener[w] EXCEPT !.at = "connect", !.backup = second]
<1>1. /\ backups' = Kept(all) /\ opener' = [opener EXCEPT ![w] = new]
      /\ torn' = (torn \/ Replacing) /\ UNCHANGED <<files, path, acked, exposed>>
  BY DEF Backup, BackupOf, disk
<1>2. opener \in [Openers -> OpenerType]
  BY DEF OpenShape, OpenerShape
<1>3. new.at = "connect" /\ new.backup = second /\ second # 0
  BY <1>2 DEF OpenerType, OpenShape, DiskShape
<1>4. \A s \in DOMAIN all : all[s] = Present \/ (s # second /\ s \in DOMAIN backups /\ all[s] = backups[s])
  OBVIOUS
<1> HIDE DEF all, new
<1>5. \A s \in DOMAIN backups' : backups'[s] = Present \/ (s # second /\ s \in DOMAIN backups /\ backups'[s] = backups[s])
  BY <1>1, <1>4 DEF Kept
<1>6. Present' = Present /\ KeptRows' = KeptRows
  BY <1>1 DEF Present, KeptRows
<1>7. /\ opener'[w] = new /\ \A v \in Openers \ {w} : opener'[v] = opener[v]
  BY <1>1, <1>2
<1>8. torn' \/ KeptRows \subseteq Present.rows
  BY <1>1 DEF RaceShape
<1>9. ASSUME ~torn', NEW v \in Openers PROVE HoldsKept(v)'
  <2>1. HoldsKept(v) /\ KeptRows \subseteq Present.rows
    BY <1>1, <1>8, <1>9 DEF RaceShape
  <2>2. CASE v = w
    BY <1>3, <1>5, <1>6, <1>7, <2>1, <2>2 DEF HoldsKept
  <2>3. CASE v # w
    BY <1>5, <1>6, <1>7, <2>1, <2>3 DEF HoldsKept, MayRestore
  <2> QED BY <2>2, <2>3
<1>10. \A v \in Openers : opener'[v].at = "replace" => opener'[v].backup # 0
  BY <1>3, <1>7 DEF RaceShape
<1> QED BY <1>1, <1>6, <1>8, <1>9, <1>10 DEF RaceShape

LEMMA RaceConnect ==
  ASSUME OpenShape, RaceShape, NEW w \in Openers, Connect(w)
  PROVE  RaceShape'
<1> DEFINE new == [opener[w] EXCEPT !.at = "read", !.file = path']
<1>1. /\ opener' = [opener EXCEPT ![w] = new] /\ opener[w].at = "connect"
      /\ UNCHANGED <<backups, acked, exposed, torn>>
  BY DEF Connect, openHistory
<1>2. opener \in [Openers -> OpenerType]
  BY DEF OpenShape, OpenerShape
<1>3. new.at = "read" /\ new.backup = opener[w].backup /\ new.copy = opener[w].copy
  BY <1>2 DEF OpenerType
<1> HIDE DEF new
<1>4. CASE path # 0
  <2>1. UNCHANGED <<files, path>>
    BY <1>4 DEF Connect, disk
  <2>2. Present' = Present
    BY <2>1 DEF Present
  <2> QED BY <1>1, <1>3, <2>1, <2>2, CalmProcess DEF Opening
<1>5. CASE path = 0
  <2>1. KeptRows' = {} /\ acked' = {}
    BY <1>1, <1>5 DEF KeptRows, RaceShape
  <2>2. \A v \in Openers : opener'[v].at = "replace" => opener'[v].backup # 0
    BY <1>1, <1>2, <1>3 DEF RaceShape
  <2> QED BY <2>1, <2>2 DEF RaceShape, HoldsKept
<1> QED BY <1>4, <1>5

LEMMA RaceRecord ==
  ASSUME OpenShape, RaceShape, NEW w \in Openers, NEW r \in UserRows, Record(w, r)
  PROVE  RaceShape'
<1> DEFINE f == opener[w].file
           c == [files[f] EXCEPT !.rows = @ \cup {r}]
<1>1. /\ opener[w].at = "open" /\ r \notin acked /\ files' = [files EXCEPT ![f] = c] /\ acked' = acked \cup {r}
      /\ UNCHANGED <<path, backups, opener, torn>>
  BY DEF Record
<1>2. f \in 1..Len(files) /\ path \in 1..Len(files) /\ files \in Seq(Clean) /\ files[f] \in Clean
  BY <1>1 DEF OpenShape, DiskShape, OpenerShape, Attached
<1>3. c.rows = files[f].rows \cup {r}
  BY <1>2, CleanSteps
<1> HIDE DEF c, f
<1>4. Present = files[path] /\ Present' = files'[path]
  BY <1>1, <1>2 DEF Present
<1>5. Present.rows \subseteq Present'.rows /\ (f = path => Present'.rows = Present.rows \cup {r})
  BY <1>1, <1>2, <1>3, <1>4
<1>6. CASE exposed' = exposed \cup {r}
  <2>1. KeptRows' \subseteq KeptRows
    BY <1>1, <1>6 DEF KeptRows
  <2> QED BY <1>1, <1>2, <1>5, <2>1 DEF RaceShape, HoldsKept, MayRestore, Replacing
<1>7. CASE exposed' = exposed /\ f = path /\ \A v \in Openers : ~MayRestore(v)
  <2>1. KeptRows' \subseteq KeptRows \cup {r}
    BY <1>1, <1>7 DEF KeptRows
  <2>2. ~Replacing
    BY <1>7 DEF Replacing, MayRestore, RaceShape, Opening
  <2>3. \A v \in Openers : HoldsKept(v)'
    BY <1>1, <1>7, <2>2 DEF HoldsKept, MayRestore, Replacing
  <2> QED BY <1>1, <1>2, <1>5, <1>7, <2>1, <2>2, <2>3 DEF RaceShape
<1> QED BY <1>6, <1>7 DEF Record, f

LEMMA RaceRestore ==
  ASSUME OpenShape, RaceShape, NEW w \in Openers, Restore(w), opener[w].backup \in DOMAIN backups
  PROVE  RaceShape'
<1> DEFINE new == [opener[w] EXCEPT !.at = "replace", !.copy = backups[opener[w].backup]]
<1>0. opener[w].backup # 0
  BY DEF OpenShape, DiskShape
<1>1. /\ opener' = [opener EXCEPT ![w] = new] /\ opener[w].at = "raised" /\ path' = Len(files) + 1
      /\ UNCHANGED <<backups, acked, exposed, torn>>
  BY <1>0 DEF Restore, openHistory
<1>2. opener \in [Openers -> OpenerType] /\ Len(files) \in Nat /\ opener[w].backup # 0
  BY DEF OpenShape, OpenerShape, DiskShape
<1>3. /\ new.at = "replace" /\ new.backup = opener[w].backup /\ new.copy = backups[opener[w].backup]
  BY <1>2 DEF OpenerType
<1> HIDE DEF new
<1>4. /\ opener'[w] = new /\ \A v \in Openers \ {w} : opener'[v] = opener[v]
  BY <1>1, <1>2
<1>5. KeptRows' = KeptRows /\ path' # 0 /\ Replacing'
  BY <1>1, <1>2, <1>3, <1>4 DEF KeptRows, Replacing
<1>6. ASSUME ~torn, NEW v \in Openers PROVE HoldsKept(v)'
  <2>1. HoldsKept(v) /\ "raised" \in Opening
    BY <1>6 DEF RaceShape, Opening
  <2>2. CASE v = w
    BY <1>1, <1>2, <1>3, <1>4, <1>5, <2>1, <2>2 DEF HoldsKept, MayRestore
  <2>3. CASE v # w
    BY <1>1, <1>4, <1>5, <2>1, <2>3 DEF HoldsKept, MayRestore
  <2> QED BY <2>2, <2>3
<1>7. \A v \in Openers : opener'[v].at = "replace" => opener'[v].backup # 0
  BY <1>2, <1>3, <1>4 DEF RaceShape
<1> QED BY <1>1, <1>5, <1>6, <1>7 DEF RaceShape

LEMMA RaceReplace ==
  ASSUME OpenShape, RaceShape, NEW w \in Openers, Replace(w)
  PROVE  RaceShape'
<1> DEFINE new == [opener[w] EXCEPT !.at = "failed"]
<1>1. /\ opener' = [opener EXCEPT ![w] = new] /\ opener[w].at = "replace" /\ path' = Len(files) + 1
      /\ files' = Append(files, opener[w].copy) /\ UNCHANGED <<backups, acked, exposed, torn>>
  BY DEF Replace, Goes, openHistory
<1>2. opener \in [Openers -> OpenerType] /\ Len(files) \in Nat /\ files \in Seq(Clean)
  BY DEF OpenShape, OpenerShape, DiskShape
<1>3. new.at = "failed" /\ "failed" \notin Opening
  BY <1>2 DEF OpenerType, Opening
<1> HIDE DEF new
<1>4. /\ opener'[w] = new /\ \A v \in Openers \ {w} : opener'[v] = opener[v]
  BY <1>1, <1>2
<1>5. KeptRows' = KeptRows /\ path' # 0 /\ Present' = opener[w].copy
  BY <1>1, <1>2 DEF KeptRows, Present
<1>6. ASSUME ~torn, NEW v \in Openers PROVE HoldsKept(v)'
  <2>1. HoldsKept(v)
    BY <1>6 DEF RaceShape
  <2> QED BY <1>1, <1>3, <1>4, <1>5, <2>1 DEF HoldsKept, MayRestore
<1>7. torn \/ KeptRows \subseteq Present'.rows
  BY <1>1, <1>5 DEF RaceShape, HoldsKept
<1>8. \A v \in Openers : opener'[v].at = "replace" => opener'[v].backup # 0
  BY <1>3, <1>4 DEF RaceShape
<1> QED BY <1>1, <1>5, <1>6, <1>7, <1>8 DEF RaceShape

LEMMA RaceOpenerStep ==
  ASSUME OpenShape, RaceShape, NEW w \in Openers, Opener(w)
  PROVE  RaceShape'
<1> DEFINE me == opener[w]
<1>0. me \in OpenerType /\ opener \in [Openers -> OpenerType]
      /\ (me.at \in Attached => me.file \in 1..Len(files) /\ files[me.file] \in Clean)
  BY DEF OpenShape, DiskShape, OpenerShape
<1>a. \A at, x : LET n1 == [me EXCEPT !.at = at]
                     n2 == [me EXCEPT !.todo = x]
                     n3 == [me EXCEPT !.at = at, !.todo = x]
                 IN /\ n1.at = at /\ n1.backup = me.backup /\ n1.copy = me.copy
                    /\ n2.at = me.at /\ n2.backup = me.backup /\ n2.copy = me.copy
                    /\ n3.at = at /\ n3.backup = me.backup /\ n3.copy = me.copy
  BY <1>0 DEF OpenerType
\* A step that only moves the process, and changes no row.
<1>b. ASSUME NEW at, opener' = [opener EXCEPT ![w].at = at], UNCHANGED <<path, backups, acked, exposed>>,
             Present'.rows = Present.rows, torn => torn', at # "replace", torn' \/ me.at # "replace",
             at \in Opening => me.at \in Opening
      PROVE  RaceShape'
  <2> DEFINE new == [me EXCEPT !.at = at]
  <2>1. opener' = [opener EXCEPT ![w] = new]
    BY <1>b
  <2>2. new.at = at /\ new.backup = me.backup /\ new.copy = me.copy
    BY <1>a
  <2> HIDE DEF new
  <2> QED BY <1>b, <2>1, <2>2, CalmProcess
<1>1. CASE OpenStart(w)
  <2>1. UNCHANGED <<files, path, backups, acked, exposed, torn>> /\ ~Running(w)
    BY <1>1 DEF OpenStart, disk, openHistory
  <2>2. /\ opener'[w].backup = 0 /\ opener'[w].at # "replace"
        /\ \A v \in Openers \ {w} : opener'[v] = [opener[v] EXCEPT !.alone = FALSE]
    <3>1. \A at, base, b : LET c == [Closed EXCEPT !.at = at, !.base = base, !.alone = b]
                           IN c.backup = 0 /\ c.at = at
      BY DEF Closed
    <3> DEFINE begin == [Closed EXCEPT !.at = IF path = 0 \/ 7 \in Present.versions THEN "connect" ELSE "backup",
                                       !.base = Present,
                                       !.alone = path # 0 /\ \A u \in Openers : ~Running(u)]
    <3>2. opener' = [v \in Openers |-> IF v = w THEN begin ELSE [opener[v] EXCEPT !.alone = FALSE]]
      BY <1>1 DEF OpenStart
    <3>3. begin.backup = 0 /\ begin.at # "replace"
      BY DEF Closed
    <3> HIDE DEF begin
    <3> QED BY <3>2, <3>3
  <2>3. opener[w].at # "replace"
    BY <2>1 DEF Running, Stopped
  <2>4. ASSUME NEW v \in Openers PROVE Calm(v)
    <3>1. CASE v = w
      BY <2>2, <2>3, <3>1 DEF Calm
    <3>2. CASE v # w
      <4>1. opener[v] \in OpenerType /\ opener'[v] = [opener[v] EXCEPT !.alone = FALSE]
        BY <1>0, <2>2, <3>2
      <4>2. /\ opener'[v].at = opener[v].at /\ opener'[v].backup = opener[v].backup
            /\ opener'[v].copy = opener[v].copy
        BY <4>1 DEF OpenerType
      <4> QED BY <4>2 DEF Calm
    <3> QED BY <3>1, <3>2
  <2>5. Present' = Present
    BY <2>1 DEF Present
  <2> QED BY <2>1, <2>4, <2>5, CalmStep
<1>2. CASE ReadLedger(w)
  <2>1. PICK at \in {"finish", "sanitize"} : opener' = [opener EXCEPT ![w].at = at, ![w].todo = File(w).raw]
    BY <1>2 DEF ReadLedger
  <2> DEFINE new == [me EXCEPT !.at = at, !.todo = File(w).raw]
  <2>2. opener' = [opener EXCEPT ![w] = new] /\ UNCHANGED <<files, path, backups, acked, exposed, torn>> /\ me.at = "read"
    BY <1>2, <2>1 DEF ReadLedger, disk, openHistory
  <2>3. new.at \in {"finish", "sanitize"} /\ new.backup = me.backup /\ new.copy = me.copy
    BY <1>a
  <2> HIDE DEF new
  <2>4. Present' = Present
    BY <2>2 DEF Present
  <2> QED BY <2>2, <2>3, <2>4, CalmProcess DEF Opening
<1>3. CASE Sanitize(w)
  <2>1. me.at = "sanitize" /\ UNCHANGED <<path, backups, acked, exposed, torn>> /\ me.file \in 1..Len(files)
        /\ files[me.file] \in Clean /\ me.todo \subseteq LegacyRows
    BY <1>0, <1>3 DEF Sanitize, openHistory, Attached, OpenerType
  <2>2. CASE me.todo = {}
    <3>1. opener' = [opener EXCEPT ![w].at = "ledger"] /\ files' = files
      BY <1>3, <2>2 DEF Sanitize, Goes
    <3>2. Present' = Present
      BY <2>1, <3>1 DEF Present
    <3> QED BY <1>b, <2>1, <3>1, <3>2 DEF Opening
  <2>3. CASE me.todo # {}
    <3>1. PICK r \in me.todo :
            /\ files' = [files EXCEPT ![me.file].raw = @ \ {r}]
            /\ opener' = [opener EXCEPT ![w].todo = @ \ {r}]
      BY <1>3, <2>3 DEF Sanitize
    <3> DEFINE new == [me EXCEPT !.todo = @ \ {r}]
               c == [files[me.file] EXCEPT !.raw = @ \ {r}]
    <3>2. c.rows = files[me.file].rows /\ files' = [files EXCEPT ![me.file] = c]
      BY <2>1, <3>1, CleanSteps
    <3>3. opener' = [opener EXCEPT ![w] = new] /\ new.at = me.at /\ new.backup = me.backup /\ new.copy = me.copy
      BY <1>a, <3>1
    <3> HIDE DEF new, c
    <3>4. Present'.rows = Present.rows
      BY <2>1, <3>2, SameRows
    <3> QED BY <2>1, <3>3, <3>4, CalmProcess
  <2> QED BY <2>2, <2>3
<1>4. CASE WriteLedger(w)
  <2>1. me.at = "ledger" /\ UNCHANGED <<path, backups, acked, exposed, torn>> /\ me.file \in 1..Len(files)
        /\ files[me.file] \in Clean
    BY <1>0, <1>4 DEF WriteLedger, Raise, openHistory, Attached
  <2>2. CASE 6 \in File(w).versions
    <3>1. opener' = [opener EXCEPT ![w].at = "raised"] /\ files' = files
      BY <1>4, <2>2 DEF WriteLedger, Raise, Goes
    <3>2. Present' = Present
      BY <2>1, <3>1 DEF Present
    <3> QED BY <1>b, <2>1, <3>1, <3>2 DEF Opening
  <2>3. CASE 6 \notin File(w).versions
    <3> DEFINE c == [files[me.file] EXCEPT !.versions = @ \cup {6}]
    <3>1. opener' = [opener EXCEPT ![w].at = "finish"] /\ files' = [files EXCEPT ![me.file] = c]
      BY <1>4, <2>3 DEF WriteLedger, Goes
    <3>2. c.rows = files[me.file].rows
      BY <2>1 DEF Clean, Content
    <3> HIDE DEF c
    <3>3. Present'.rows = Present.rows
      BY <2>1, <3>1, <3>2, SameRows
    <3> QED BY <1>b, <2>1, <3>1, <3>3 DEF Opening
  <2> QED BY <2>2, <2>3
<1>5. CASE Finish(w)
  <2> DEFINE c == [files[me.file] EXCEPT !.versions = @ \cup {7}]
  <2>1. /\ me.at = "finish" /\ UNCHANGED <<path, backups, acked, exposed, torn>> /\ me.file \in 1..Len(files)
        /\ files[me.file] \in Clean /\ opener' = [opener EXCEPT ![w].at = "graph"]
        /\ files' = [files EXCEPT ![me.file] = c]
    BY <1>0, <1>5 DEF Finish, openHistory, Attached
  <2>2. c.rows = files[me.file].rows
    BY <2>1 DEF Clean, Content
  <2> HIDE DEF c
  <2>3. Present'.rows = Present.rows
    BY <2>1, <2>2, SameRows
  <2> QED BY <1>b, <2>1, <2>3 DEF Opening
<1>6. CASE Fault(w)
  <2>1. PICK at \in {"raised", "failed", "migrated"} :
          opener' = [opener EXCEPT ![w].at = at] /\ (at = "raised" => me.at \in Opening)
    BY <1>6 DEF Fault, Raise, Goes
  <2>5. UNCHANGED <<files, path, backups, acked, exposed, torn>>
    BY <1>6 DEF Fault, Raise, disk, openHistory
  <2>6. me.at \in (Attached \ {"open"}) \cup {"backup"}
    <3>1. me.at \in Attached \cap Opening \/ me.at = "backup" \/ me.at = "graph"
      BY <1>6 DEF Fault
    <3> QED BY <3>1 DEF Opening, Attached
  <2>2. UNCHANGED <<files, path, backups, acked, exposed, torn>> /\ me.at \in (Attached \ {"open"}) \cup {"backup"}
    BY <2>5, <2>6
  <2>3. Present' = Present
    BY <2>2 DEF Present
  <2>4. me.at # "replace" /\ {"failed", "migrated"} \cap Opening = {}
    BY <2>2 DEF Opening, Attached
  <2> QED BY <1>b, <2>1, <2>2, <2>3, <2>4
<1>10. CASE LinkGraph(w) \/ RestoreFault(w)
  <2>1. PICK at \in {"open", "unrestored"} : opener' = [opener EXCEPT ![w].at = at]
    BY <1>10 DEF LinkGraph, RestoreFault, Goes
  <2>2. /\ UNCHANGED <<files, path, backups, acked, exposed>> /\ (torn => torn')
        /\ torn' \/ me.at # "replace"
    <3>1. CASE LinkGraph(w)
      BY <3>1 DEF LinkGraph, disk, openHistory
    <3>2. CASE RestoreFault(w)
      BY <3>2 DEF RestoreFault, disk
    <3> QED BY <1>10, <3>1, <3>2
  <2>3. Present' = Present /\ at \notin Opening /\ at # "replace"
    BY <2>2 DEF Present, Opening
  <2> QED BY <1>b, <2>1, <2>2, <2>3
<1>7. CASE Restore(w) /\ me.backup = 0
  <2>0. me.backup \notin DOMAIN backups
    BY <1>7 DEF OpenShape, DiskShape
  <2>1. /\ opener' = [opener EXCEPT ![w].at = "failed"] /\ me.at = "raised"
        /\ UNCHANGED <<files, path, backups, acked, exposed, torn>>
    BY <1>7, <2>0 DEF Restore, Goes, disk, openHistory
  <2>2. Present' = Present
    BY <2>1 DEF Present
  <2> QED BY <1>b, <2>1, <2>2 DEF Opening
<1>8. CASE Checkpoint(w)
  <2>1. UNCHANGED <<files, path, backups, opener, acked, exposed, torn>>
    BY <1>8 DEF Checkpoint, openHistory
  <2>2. Present' = Present /\ \A v \in Openers : Calm(v)
    BY <2>1 DEF Present, Calm
  <2> QED BY <2>1, <2>2, CalmStep
<1>9. CASE Close(w) \/ OpenCrash(w)
  <2>1. opener' = [opener EXCEPT ![w].at = "closed"] /\ UNCHANGED <<files, path, backups, acked, exposed>>
    BY <1>9 DEF Close, OpenCrash, Goes, disk, openHistory
  <2>2. torn => torn'
    BY <1>9 DEF Close, OpenCrash, openHistory
  <2>3. torn' \/ me.at # "replace"
    <3>1. CASE Close(w)
      BY <3>1 DEF Close
    <3>2. CASE OpenCrash(w)
      BY <3>2 DEF OpenCrash
    <3> QED BY <1>9, <3>1, <3>2
  <2>4. Present' = Present /\ "closed" \notin Opening
    BY <2>1 DEF Present, Opening
  <2> QED BY <1>b, <2>1, <2>2, <2>3, <2>4
<1>11. CASE Restore(w)
  <2>1. me.backup = 0 \/ me.backup \in DOMAIN backups
    BY <1>11 DEF Restore
  <2> QED BY <1>7, <1>11, <2>1, RaceRestore
<1> QED BY <1>1, <1>2, <1>3, <1>4, <1>5, <1>6, <1>8, <1>9, <1>10, <1>11,
           RaceBackup, RaceConnect, RaceRecord, RaceReplace DEF Opener

LEMMA RaceShapeInit == OpenInit => RaceShape
  BY DEF OpenInit, RaceShape, KeptRows, HoldsKept, MayRestore, Closed, Opening

LEMMA RaceShapeNext == OpenShape /\ RaceShape /\ [OpenNext]_openVars => RaceShape'
<1> SUFFICES ASSUME OpenShape, RaceShape, [OpenNext]_openVars PROVE RaceShape'
  OBVIOUS
<1>1. CASE UNCHANGED <<files, path, backups, opener, openHistory>>
  <2>1. Present' = Present /\ \A v \in Openers : Calm(v)
    BY <1>1 DEF Present, Calm
  <2> QED BY <1>1, <2>1, CalmStep DEF openHistory
<1> QED BY <1>1, RaceOpenerStep DEF OpenNext, NextSecond, openVars, disk

\* A row whose recording was acknowledged is in the store, unless it was recorded while
\* another process was opening with a backup in its hand or on a file that had been
\* replaced, or a restore died or failed half way or had its middle copied by another's
\* backup (create_migration_backup, restore_migration_backup).
THEOREM AcknowledgedRowsStay == OpenSpec => []LostOnlyIfRaced
<1>1. RaceShape => LostOnlyIfRaced
  BY DEF RaceShape, KeptRows, LostOnlyIfRaced
<1> QED BY <1>1, OpenShapeInit, OpenShapeNext, RaceShapeInit, RaceShapeNext, PTL DEF OpenSpec

-----------------------------------------------------------------------------
(* StoreWrites                                                             *)

PartNames == {"row", "vec", "node", "steps"}
Seen == [state : {"UNRESOLVED", "TRUE", "FALSE"}, evidence : Writers \cup {NoWriter}]
WorkType ==
  [at : {"idle", "look", "write", "commit", "decide"}, record : SUBSET Records,
   todo : Seq(PartNames), buffer : SUBSET (Records \X PartNames)]
JudgeType ==
  [at : {"idle", "state", "reread", "evidence", "done"}, occurred : BOOLEAN, why : BOOLEAN,
   seen : SUBSET Seen]

InTransaction == {"look", "write", "commit"}

\* Who has the lock is in a transaction, and nobody else is.
LockFits == \A w \in Writers : lock = w <=> work[w].at \in InTransaction

\* No record is being written twice at a time.
OneWriterEach == \A v, w \in Writers : v # w => work[v].record \cap work[w].record = {}

\* What is left to be written goes with what has been.
Halfway(kind, todo, parts) ==
  \/ kind = "mistake" /\ todo = <<"row", "vec", "node">> /\ parts = {}
  \/ kind = "mistake" /\ todo = <<"vec", "node">> /\ parts = {"row"}
  \/ kind = "mistake" /\ todo = <<"node">> /\ parts \in {{"row"}, {"row", "vec"}}
  \/ kind = "run" /\ todo = <<"row", "steps">> /\ parts = {}
  \/ kind = "run" /\ todo = <<"steps">> /\ parts = {"row"}

\* No twin is stored with its embedding, or nobody has looked.
NoTwinStored(r) == r \in unchecked \/ \A s \in Similar(r) : ~Committed(s, "vec")
Untouched(r) == \A part \in PartNames : ~Committed(r, part)

\* A transaction that stores r.
Storing(r, row) ==
  /\ r \in Transactional /\ Untouched(r) /\ row.record = {r}
  /\ \E parts \in SUBSET PartNames :
       /\ row.buffer = {r} \X parts
       /\ \/ row.at = "look" /\ Kind[r] = "mistake" /\ parts = {} /\ row.todo = <<"row", "vec", "node">>
          \/ row.at = "write" /\ Halfway(Kind[r], row.todo, parts) /\ NoTwinStored(r)
          \/ row.at = "commit" /\ parts = {}
          \/ row.at = "commit" /\ parts \in Shape(Kind[r]) /\ NoTwinStored(r)

\* A decision on its way.
Deciding(r, row) ==
  /\ r \in Records \ Transactional /\ row.record = {r} /\ row.at = "decide"
  /\ ~Committed(r, "node")
  /\ \/ row.todo = <<"row", "vec", "node">> /\ ~Committed(r, "row")
     \/ row.todo \in {<<"vec", "node">>, <<"node">>} /\ Committed(r, "row")

Suits(row) == row = NoWork \/ \E r \in Records : Storing(r, row) \/ Deciding(r, row)
WorkFits == \A w \in Writers : Suits(work[w])

\* A record of a transaction is stored in one of its shapes.
StoredWhole ==
  \A r \in Transactional :
    Untouched(r) \/ \E parts \in Shape(Kind[r]) : \A part \in PartNames : Committed(r, part) <=> part \in parts

\* Who has written the state of a prediction has seen it resolved since.
ResolvedSeen ==
  \A w \in Writers :
    /\ judge[w].at = "reread" => node.state # "UNRESOLVED"
    /\ judge[w].at = "evidence" => \A n \in judge[w].seen : n.state # "UNRESOLVED"

WriteShape ==
  /\ WriteTypeOK /\ LockFits /\ OneWriterEach /\ WorkFits /\ StoredWhole
  /\ NoTwins /\ DecisionNodeFollows /\ ResolvedSeen

-----------------------------------------------------------------------------
(* Types and shapes.                                                       *)

LEMMA TupleFacts ==
  /\ Head(<<"row", "vec", "node">>) = "row" /\ Tail(<<"row", "vec", "node">>) = <<"vec", "node">>
  /\ Head(<<"vec", "node">>) = "vec" /\ Tail(<<"vec", "node">>) = <<"node">>
  /\ Head(<<"node">>) = "node" /\ Tail(<<"node">>) = << >>
  /\ Head(<<"row", "steps">>) = "row" /\ Tail(<<"row", "steps">>) = <<"steps">>
  /\ Head(<<"steps">>) = "steps" /\ Tail(<<"steps">>) = << >>
  /\ Len(<<"row", "vec", "node">>) = 3 /\ Len(<<"vec", "node">>) = 2 /\ Len(<<"node">>) = 1
  /\ Len(<<"row", "steps">>) = 2 /\ Len(<<"steps">>) = 1
  OBVIOUS

LEMMA TodoType ==
  /\ <<"row", "vec", "node">> \in Seq(PartNames) /\ <<"vec", "node">> \in Seq(PartNames)
  /\ <<"node">> \in Seq(PartNames) /\ <<"row", "steps">> \in Seq(PartNames)
  /\ <<"steps">> \in Seq(PartNames) /\ << >> \in Seq(PartNames)
  BY DEF PartNames

LEMMA PartsAre ==
  /\ Parts["mistake"] = <<"row", "vec", "node">> /\ Parts["decision"] = <<"row", "vec", "node">>
  /\ Parts["run"] = <<"row", "steps">>
  BY DEF Parts

LEMMA KindIs ==
  ASSUME NEW r \in Records
  PROVE  /\ Kind[r] \in {"mistake", "run", "decision"}
         /\ r \in Transactional <=> Kind[r] # "decision"
         /\ Kind[r] # "mistake" => Similar(r) = {}
  BY KindAssumption, TwinsAssumption DEF Transactional, Similar

LEMMA NoWorkType ==
  NoWork \in WorkType /\ NoWork.at = "idle" /\ NoWork.record = {}
  BY DEF NoWork, WorkType

\* One more part is written, or an embedding is left out.
LEMMA HalfwayStep ==
  ASSUME NEW kind, NEW todo, NEW parts, Halfway(kind, todo, parts), NEW more,
         \/ more = parts \cup {Head(todo)}
         \/ Head(todo) = "vec" /\ more = parts
  PROVE  /\ todo \in Seq(PartNames) /\ Tail(todo) \in Seq(PartNames) /\ Head(todo) \in PartNames
         /\ Len(todo) = 1 => more \in Shape(kind)
         /\ Len(todo) # 1 => Halfway(kind, Tail(todo), more)
<1>1. CASE kind = "mistake" /\ todo = <<"row", "vec", "node">> /\ parts = {}
  BY <1>1, TupleFacts, TodoType DEF Halfway, PartNames
<1>2. CASE kind = "mistake" /\ todo = <<"vec", "node">> /\ parts = {"row"}
  <2>1. more \in {{"row"}, {"row", "vec"}}
    BY <1>2, TupleFacts
  <2> QED BY <1>2, <2>1, TupleFacts, TodoType DEF Halfway, PartNames
<1>3. CASE kind = "mistake" /\ todo = <<"node">> /\ parts \in {{"row"}, {"row", "vec"}}
  <2>1. more \in {{"row", "node"}, {"row", "vec", "node"}}
    BY <1>3, TupleFacts
  <2> QED BY <1>3, <2>1, TupleFacts, TodoType DEF Shape, PartNames
<1>4. CASE kind = "run" /\ todo = <<"row", "steps">> /\ parts = {}
  BY <1>4, TupleFacts, TodoType DEF Halfway, PartNames
<1>5. CASE kind = "run" /\ todo = <<"steps">> /\ parts = {"row"}
  <2>1. more = {"row", "steps"}
    BY <1>5, TupleFacts
  <2> QED BY <1>5, <2>1, TupleFacts, TodoType DEF Shape, PartNames
<1> QED BY <1>1, <1>2, <1>3, <1>4, <1>5 DEF Halfway

LEMMA ShapeFacts ==
  ASSUME NEW kind, NEW parts \in Shape(kind)
  PROVE  "row" \in parts /\ parts \subseteq PartNames /\ (kind # "mistake" /\ kind # "decision" => "vec" \notin parts \/ kind # "run")
  BY DEF Shape, PartNames

\* Who has nothing of a record yet may begin it.
LEMMA NewRecordUntouched ==
  ASSUME WriteShape, NEW r \in Transactional, ~Committed(r, "row")
  PROVE  Untouched(r)
<1>1. \A parts \in Shape(Kind[r]) : "row" \in parts
  BY ShapeFacts
<1> QED BY <1>1 DEF WriteShape, StoredWhole, PartNames

-----------------------------------------------------------------------------
(* A step of one writer, and what it means for the others.                 *)

\* The tables get parts of the writer's record and of no other.
Adds(w) ==
  /\ tables \subseteq tables'
  /\ \A r \in Records, part \in PartNames :
       <<r, part>> \in tables' /\ <<r, part>> \notin tables => r \in work[w].record
  /\ \A r \in Records : r \notin work[w].record => (r \in unchecked' <=> r \in unchecked)

LEMMA FitsStays ==
  ASSUME tables' = tables, work' = work, unchecked' = unchecked, NEW w \in Writers, Suits(work[w])
  PROVE  Suits(work[w])'
<1>1. CASE work[w] = NoWork
  BY <1>1 DEF Suits
<1>2. ASSUME NEW r \in Records, Storing(r, work[w])
      PROVE  Suits(work[w])'
  <2>1. Storing(r, work[w])'
    BY <1>2 DEF Storing, Untouched, NoTwinStored, Committed
  <2> QED BY <2>1 DEF Suits
<1>3. ASSUME NEW r \in Records, Deciding(r, work[w])
      PROVE  Suits(work[w])'
  <2>1. Deciding(r, work[w])'
    BY <1>3 DEF Deciding, Committed
  <2> QED BY <2>1 DEF Suits
<1> QED BY <1>1, <1>2, <1>3 DEF Suits

LEMMA OthersFit ==
  ASSUME WriteShape, NEW w \in Writers, NEW v \in Writers, v # w, Adds(w), work'[v] = work[v],
         tables' = tables \/ work[v].at \notin InTransaction
  PROVE  Suits(work[v])'
<1>1. Suits(work[v]) /\ work[v].record \cap work[w].record = {}
  BY DEF WriteShape, WorkFits, OneWriterEach
<1>2. CASE work[v] = NoWork
  BY <1>2 DEF Suits
<1>3. ASSUME NEW r \in Records, Storing(r, work[v])
      PROVE  Suits(work[v])'
  <2>1. tables' = tables
    BY <1>3 DEF Storing, InTransaction
  <2>3. r \in unchecked' <=> r \in unchecked
    <3>1. r \notin work[w].record
      BY <1>1, <1>3 DEF Storing
    <3> QED BY <3>1 DEF Adds
  <2>2. Storing(r, work[v])'
    BY <1>3, <2>1, <2>3 DEF Storing, Untouched, NoTwinStored, Committed
  <2> QED BY <2>2 DEF Suits
<1>4. ASSUME NEW r \in Records, Deciding(r, work[v])
      PROVE  Suits(work[v])'
  <2>1. r \notin work[w].record
    BY <1>1, <1>4 DEF Deciding
  <2>2. \A part \in PartNames : <<r, part>> \in tables' <=> <<r, part>> \in tables
    BY <2>1 DEF Adds
  <2>3. Deciding(r, work[v])'
    BY <1>4, <2>2 DEF Deciding, Committed, PartNames
  <2> QED BY <2>3 DEF Suits
<1> QED BY <1>1, <1>2, <1>3, <1>4 DEF Suits

LEMMA WorkStep ==
  ASSUME WriteShape, NEW w \in Writers, NEW new \in WorkType, work' = [work EXCEPT ![w] = new],
         Adds(w), tables' = tables \/ lock \in {w, NoWriter},
         lock' = lock \/ (lock \in {w, NoWriter} /\ lock' \in {w, NoWriter}),
         lock' = w <=> new.at \in InTransaction,
         \A v \in Writers \ {w} : new.record \cap work[v].record = {},
         Suits(new)'
  PROVE  LockFits' /\ OneWriterEach' /\ WorkFits' /\ work' \in [Writers -> WorkType]
<1>1. work \in [Writers -> WorkType]
  BY DEF WriteShape, WriteTypeOK, WorkType, PartNames
<1>2. work' \in [Writers -> WorkType] /\ work'[w] = new /\ \A v \in Writers : v # w => work'[v] = work[v]
  BY <1>1
<1>3. LockFits'
  <2>1. \A v \in Writers : v # w => (lock' = v <=> lock = v)
    BY NoWriterAssumption
  <2> QED BY <1>2, <2>1 DEF WriteShape, LockFits
<1>4. OneWriterEach'
  BY <1>2 DEF WriteShape, OneWriterEach
<1>5. \A v \in Writers : v # w => (tables' = tables \/ work[v].at \notin InTransaction)
  BY NoWriterAssumption DEF WriteShape, LockFits
<1>6. \A v \in Writers : v # w => Suits(work[v])'
  BY <1>2, <1>5, OthersFit
<1>7. WorkFits'
  BY <1>2, <1>6 DEF WorkFits, Suits, Storing, Deciding
<1> QED BY <1>2, <1>3, <1>4, <1>7

\* As long as nobody gives a decision up unnoticed.
LEMMA DecisionsStay ==
  ASSUME WriteShape, NEW w \in Writers, tables' = tables, orphaned \subseteq orphaned',
         \A v \in Writers : v # w => work'[v] = work[v],
         \/ work[w].record \cap (Records \ Transactional) = {}
         \/ work'[w].record = work[w].record
         \/ work[w].record \subseteq orphaned'
  PROVE  DecisionNodeFollows'
<1> SUFFICES ASSUME NEW r \in Records \ Transactional
             PROVE  /\ Committed(r, "node")' => Committed(r, "row")'
                    /\ Committed(r, "row")' /\ ~Committed(r, "node")' =>
                         r \in orphaned' \/ \E v \in Writers : work'[v].record = {r}
  BY DEF DecisionNodeFollows
<1>1. /\ Committed(r, "node") => Committed(r, "row")
      /\ Committed(r, "row") /\ ~Committed(r, "node") =>
           r \in orphaned \/ \E v \in Writers : work[v].record = {r}
  BY DEF WriteShape, DecisionNodeFollows
<1> QED BY <1>1 DEF Committed

\* The parts that say something about the tables hold on while these stay.
LEMMA TablesStay ==
  ASSUME WriteShape, tables' = tables,
         \A r \in Records : Committed(r, "vec") /\ r \in unchecked => r \in unchecked'
  PROVE  StoredWhole' /\ NoTwins'
  BY DEF WriteShape, StoredWhole, NoTwins, Untouched, Committed

-----------------------------------------------------------------------------
(* The steps of a recording.                                               *)

ShapeKept ==
  /\ tables' \subseteq Records \X PartNames /\ orphaned' \subseteq Records
  /\ lock' \in Writers \cup {NoWriter} /\ work' \in [Writers -> WorkType]
  /\ unchecked' \subseteq Records
  /\ LockFits' /\ OneWriterEach' /\ WorkFits' /\ StoredWhole' /\ NoTwins' /\ DecisionNodeFollows'

\* Steps that leave the tables alone and give up no decision.
LEMMA QuietStep ==
  ASSUME WriteShape, NEW w \in Writers, NEW new \in WorkType, work' = [work EXCEPT ![w] = new],
         tables' = tables, orphaned \subseteq orphaned', orphaned' \subseteq Records,
         \/ unchecked' = unchecked
         \/ /\ unchecked' \subseteq Records
            /\ \A r \in Records : r \notin work[w].record => (r \in unchecked' <=> r \in unchecked)
            /\ \A r \in work[w].record : ~Committed(r, "vec"),
         lock' = lock \/ (lock \in {w, NoWriter} /\ lock' \in {w, NoWriter}),
         lock' = w <=> new.at \in InTransaction,
         \A v \in Writers \ {w} : new.record \cap work[v].record = {},
         \/ work[w].record \cap (Records \ Transactional) = {}
         \/ new.record = work[w].record
         \/ work[w].record \subseteq orphaned',
         Suits(new)'
  PROVE  ShapeKept
<1>1. Adds(w)
  BY DEF Adds
<1>5. /\ unchecked' \subseteq Records
      /\ \A r \in Records : Committed(r, "vec") /\ r \in unchecked => r \in unchecked'
  BY DEF WriteShape, WriteTypeOK
<1>2. LockFits' /\ OneWriterEach' /\ WorkFits' /\ work' \in [Writers -> WorkType]
  BY <1>1, WorkStep
<1>3. work \in [Writers -> WorkType] /\ tables \subseteq Records \X PartNames /\ lock \in Writers \cup {NoWriter}
  BY DEF WriteShape, WriteTypeOK, WorkType, PartNames
<1>4. work'[w] = new /\ \A v \in Writers : v # w => work'[v] = work[v]
  BY <1>3
<1> QED BY <1>2, <1>3, <1>4, <1>5, DecisionsStay, TablesStay DEF ShapeKept

\* What a writer in a transaction is at.
LEMMA InStoring ==
  ASSUME WriteShape, NEW w \in Writers, work[w].at \in InTransaction
  PROVE  \E r \in Records : Storing(r, work[w]) /\ lock = w /\ work[w].record \cap (Records \ Transactional) = {}
<1>1. Suits(work[w]) /\ lock = w
  BY DEF WriteShape, WorkFits, LockFits
<1>2. PICK r \in Records : Storing(r, work[w]) \/ Deciding(r, work[w])
  BY <1>1, NoWorkType DEF Suits, InTransaction
<1>3. Storing(r, work[w])
  BY <1>2 DEF Deciding, InTransaction
<1> QED BY <1>1, <1>3 DEF Storing

LEMMA InDeciding ==
  ASSUME WriteShape, NEW w \in Writers, work[w].at = "decide"
  PROVE  \E r \in Records : Deciding(r, work[w])
<1>1. PICK r \in Records : Storing(r, work[w]) \/ Deciding(r, work[w])
  BY NoWorkType DEF WriteShape, WorkFits, Suits
<1> QED BY <1>1 DEF Storing

LEMMA IdleNow ==
  ASSUME WriteShape, NEW w \in Writers, Idle(w)
  PROVE  work[w].record = {} /\ lock # w
<1>1. Suits(work[w]) /\ work[w].at = "idle"
  BY DEF WriteShape, WorkFits, Idle
<1> QED BY <1>1, NoWorkType DEF Suits, Storing, Deciding, WriteShape, LockFits, InTransaction

\* How a transaction can stand in the middle, and at its end.
LEMMA MidStoring ==
  ASSUME NEW r \in Transactional, Untouched(r), NEW row, row.record = {r}, NEW parts \in SUBSET PartNames,
         row.buffer = {r} \X parts, row.at = "write", Halfway(Kind[r], row.todo, parts), NoTwinStored(r)
  PROVE  Storing(r, row)
  BY DEF Storing

LEMMA EmptyCommit ==
  ASSUME NEW r \in Transactional, Untouched(r), NEW row, row.record = {r}, NEW parts \in SUBSET PartNames,
         row.buffer = {r} \X parts, row.at = "commit", parts = {}
  PROVE  Storing(r, row)
  BY DEF Storing

LEMMA FullCommit ==
  ASSUME NEW r \in Transactional, Untouched(r), NEW row, row.record = {r}, NEW parts \in SUBSET PartNames,
         row.buffer = {r} \X parts, row.at = "commit", parts \in Shape(Kind[r]), NoTwinStored(r)
  PROVE  Storing(r, row)
  BY DEF Storing

LEMMA BeginRecordKept ==
  ASSUME WriteShape, NEW w \in Writers, NEW r \in Records, BeginRecord(w, r)
  PROVE  ShapeKept
<1> DEFINE new == [at |-> IF Kind[r] = "mistake" THEN "look" ELSE "write",
                   record |-> {r}, todo |-> Parts[Kind[r]], buffer |-> {}]
<1>1. /\ work' = [work EXCEPT ![w] = new] /\ tables' = tables /\ orphaned' = orphaned /\ unchecked' = unchecked
      /\ lock = NoWriter /\ lock' = w /\ Idle(w) /\ Unrecorded(r) /\ Kind[r] # "decision"
  BY DEF BeginRecord
<1>2. Kind[r] \in {"mistake", "run"} /\ r \in Transactional
  BY <1>1, KindIs
<1>3. /\ new.at = IF Kind[r] = "mistake" THEN "look" ELSE "write"
      /\ new.record = {r} /\ new.todo = Parts[Kind[r]] /\ new.buffer = {}
  OBVIOUS
<1>4. new.todo \in Seq(PartNames)
  BY <1>2, <1>3, PartsAre, TodoType
<1>5. new \in WorkType
  BY <1>2, <1>4 DEF WorkType
<1> HIDE DEF new
<1>6. Untouched(r)
  BY <1>1, <1>2, NewRecordUntouched DEF Unrecorded
<1>7. Storing(r, new)
  <2>1. new.buffer = {r} \X {} /\ {} \in SUBSET PartNames
    BY <1>3
  <2>2. CASE Kind[r] = "mistake"
    BY <1>2, <1>3, <1>6, <2>1, <2>2, PartsAre DEF Storing
  <2>3. CASE Kind[r] = "run"
    <3>1. NoTwinStored(r) /\ Halfway(Kind[r], new.todo, {})
      BY <1>3, <2>3, PartsAre, KindIs DEF NoTwinStored, Halfway
    <3> QED BY <1>2, <1>3, <1>6, <2>1, <2>3, <3>1 DEF Storing
  <2> QED BY <1>2, <2>2, <2>3
<1>8. Suits(new)'
  BY <1>1, <1>7 DEF Suits, Storing, Untouched, NoTwinStored, Committed
<1>9. \A v \in Writers \ {w} : new.record \cap work[v].record = {}
  <2>1. ASSUME NEW v \in Writers \ {w}, r \in work[v].record
        PROVE  FALSE
    <3>1. Suits(work[v]) /\ work[v].record # {r}
      BY <1>1 DEF WriteShape, WorkFits, Unrecorded
    <3> QED BY <2>1, <3>1, NoWorkType DEF Suits, Storing, Deciding
  <2> QED BY <1>3, <2>1
<1>10. work[w].record = {}
  BY <1>1, IdleNow
<1>11. new.at \in InTransaction
  BY <1>3 DEF InTransaction
<1>12. orphaned \subseteq Records
  BY DEF WriteShape, WriteTypeOK
<1> QED BY <1>1, <1>5, <1>8, <1>9, <1>10, <1>11, <1>12, QuietStep

LEMMA BeginDecisionKept ==
  ASSUME WriteShape, NEW w \in Writers, NEW r \in Records, BeginDecision(w, r)
  PROVE  ShapeKept
<1> DEFINE new == [at |-> "decide", record |-> {r}, todo |-> Parts["decision"], buffer |-> {}]
<1>1. /\ work' = [work EXCEPT ![w] = new] /\ tables' = tables /\ orphaned' = orphaned /\ unchecked' = unchecked
      /\ lock' = lock /\ Idle(w) /\ Unrecorded(r) /\ Kind[r] = "decision"
  BY DEF BeginDecision
<1>2. new.at = "decide" /\ new.record = {r} /\ new.todo = <<"row", "vec", "node">> /\ new \in WorkType
  BY PartsAre, TodoType DEF WorkType
<1> HIDE DEF new
<1>3. r \in Records \ Transactional /\ ~Committed(r, "row") /\ ~Committed(r, "node")
  BY <1>1, KindIs DEF Unrecorded, WriteShape, DecisionNodeFollows
<1>4. Suits(new)'
  BY <1>1, <1>2, <1>3 DEF Suits, Deciding, Committed
<1>5. \A v \in Writers \ {w} : new.record \cap work[v].record = {}
  <2>1. ASSUME NEW v \in Writers \ {w}, r \in work[v].record
        PROVE  FALSE
    <3>1. Suits(work[v]) /\ work[v].record # {r}
      BY <1>1 DEF WriteShape, WorkFits, Unrecorded
    <3> QED BY <2>1, <3>1, NoWorkType DEF Suits, Storing, Deciding
  <2> QED BY <1>2, <2>1
<1>6. work[w].record = {} /\ lock # w
  BY <1>1, IdleNow
<1>7. orphaned \subseteq Records /\ new.at \notin InTransaction
  BY <1>2 DEF WriteShape, WriteTypeOK, InTransaction
<1> QED BY <1>1, <1>2, <1>4, <1>5, <1>6, <1>7, QuietStep

LEMMA LookKept ==
  ASSUME WriteShape, NEW w \in Writers, Look(w)
  PROVE  ShapeKept
<1>0. work[w] \in WorkType /\ orphaned \subseteq Records
  BY DEF WriteShape, WriteTypeOK, WorkType, PartNames
<1>1. PICK r \in Records : Storing(r, work[w]) /\ lock = w /\ work[w].record \cap (Records \ Transactional) = {}
  BY InStoring DEF Look, InTransaction
<1>2. /\ tables' = tables /\ orphaned' = orphaned /\ lock' = lock
      /\ work[w].at = "look" /\ work[w].record = {r}
  BY <1>1 DEF Look, Storing
<1>3. PICK at \in {"commit", "write"} :
        /\ work' = [work EXCEPT ![w].at = at]
        /\ at = "write" => r \in unchecked' \/ \A s \in Similar(r) : ~Committed(s, "vec")
  BY <1>2 DEF Look
<1>13. /\ unchecked' \subseteq Records
       /\ \A s \in Records : s # r => (s \in unchecked' <=> s \in unchecked)
  BY <1>2 DEF Look, WriteShape, WriteTypeOK
<1>4. PICK new : new = [work[w] EXCEPT !.at = at]
  OBVIOUS
<1>5. /\ new \in WorkType /\ new.at = at /\ new.record = {r}
      /\ new.todo = work[w].todo /\ new.buffer = work[w].buffer
  BY <1>0, <1>2, <1>4 DEF WorkType
<1>6. PICK parts \in SUBSET PartNames :
        /\ new.buffer = {r} \X parts /\ parts = {}
        /\ Kind[r] = "mistake" /\ new.todo = <<"row", "vec", "node">>
  BY <1>1, <1>2, <1>5 DEF Storing
<1>7. r \in Transactional /\ Untouched(r)
  BY <1>1 DEF Storing
<1>8. Suits(new)'
  <2>1. Untouched(r)' /\ (at = "write" => NoTwinStored(r)')
    BY <1>2, <1>3, <1>7 DEF Untouched, NoTwinStored, Committed
  <2>2. Halfway(Kind[r], new.todo, parts)
    BY <1>6 DEF Halfway
  <2>3. Storing(r, new)'
    <3>1. /\ new.record = {r} /\ new.buffer = {r} \X parts /\ parts = {} /\ new.at \in {"commit", "write"}
          /\ new.at = "write" => NoTwinStored(r)'
      BY <1>5, <1>6, <2>1
    <3> QED BY <1>7, <2>1, <2>2, <3>1 DEF Storing
  <2> QED BY <2>3 DEF Suits
<1>14. \A s \in work[w].record : ~Committed(s, "vec")
  BY <1>2, <1>7 DEF Untouched, PartNames
<1>9. \A v \in Writers \ {w} : new.record \cap work[v].record = {}
  BY <1>2, <1>5 DEF WriteShape, OneWriterEach
<1>10. lock' = w /\ new.at \in InTransaction
  BY <1>1, <1>2, <1>5 DEF InTransaction
<1>11. orphaned \subseteq orphaned' /\ orphaned' \subseteq Records
  BY <1>0, <1>2
<1>12. work' = [work EXCEPT ![w] = new]
  BY <1>3, <1>4
<1> QED BY <1>1, <1>2, <1>5, <1>8, <1>9, <1>10, <1>11, <1>12, <1>13, <1>14, QuietStep

LEMMA WriteRecordKept ==
  ASSUME WriteShape, NEW w \in Writers, WriteRecord(w)
  PROVE  ShapeKept
<1>0. work[w] \in WorkType /\ orphaned \subseteq Records /\ work[w].at = "write"
  BY DEF WriteShape, WriteTypeOK, WorkType, PartNames, WriteRecord
<1>1. PICK r \in Records : Storing(r, work[w]) /\ lock = w /\ work[w].record \cap (Records \ Transactional) = {}
  BY <1>0, InStoring DEF InTransaction
<1>2. PICK parts \in SUBSET PartNames :
        work[w].buffer = {r} \X parts /\ Halfway(Kind[r], work[w].todo, parts) /\ NoTwinStored(r)
  BY <1>0, <1>1 DEF Storing
<1>3. PICK buffer : Written(w, buffer) /\ UNCHANGED <<tables, lock, unchecked>>
  BY DEF WriteRecord, Written
<1>4. work[w].record = {r}
  BY <1>1 DEF Storing
<1>5. PICK more : /\ buffer = {r} \X more
                  /\ \/ more = parts \cup {Head(work[w].todo)}
                     \/ Head(work[w].todo) = "vec" /\ more = parts
  <2>1. CASE buffer = work[w].buffer \cup {<<t, Head(work[w].todo)>> : t \in work[w].record}
    <3>1. buffer = {r} \X (parts \cup {Head(work[w].todo)})
      BY <1>2, <1>4, <2>1
    <3> QED BY <3>1
  <2>2. CASE Head(work[w].todo) = "vec" /\ buffer = work[w].buffer
    BY <1>2, <2>2
  <2> QED BY <1>3, <2>1, <2>2 DEF Written
<1>6. /\ work[w].todo \in Seq(PartNames) /\ Tail(work[w].todo) \in Seq(PartNames) /\ Head(work[w].todo) \in PartNames
      /\ Len(work[w].todo) = 1 => more \in Shape(Kind[r])
      /\ Len(work[w].todo) # 1 => Halfway(Kind[r], Tail(work[w].todo), more)
  BY <1>2, <1>5, HalfwayStep
<1>7. more \in SUBSET PartNames /\ buffer \in SUBSET (Records \X PartNames)
  BY <1>2, <1>5, <1>6
<1>8. PICK at \in {"commit", "write"} :
        /\ at = "commit" <=> Len(work[w].todo) = 1
        /\ work' = [work EXCEPT ![w].buffer = buffer, ![w].todo = Tail(@), ![w].at = at]
  BY <1>3 DEF Written
<1>9. PICK new : new = [work[w] EXCEPT !.buffer = buffer, !.todo = Tail(@), !.at = at]
  OBVIOUS
<1>10. /\ new \in WorkType /\ new.at = at /\ new.record = {r}
       /\ new.todo = Tail(work[w].todo) /\ new.buffer = {r} \X more
  <2>1. \A t \in Seq(PartNames) :
          LET d == [work[w] EXCEPT !.buffer = buffer, !.todo = t, !.at = at]
          IN d \in WorkType /\ d.at = at /\ d.record = work[w].record /\ d.todo = t /\ d.buffer = buffer
    BY <1>0, <1>7 DEF WorkType
  <2>2. new = [work[w] EXCEPT !.buffer = buffer, !.todo = Tail(work[w].todo), !.at = at]
    BY <1>0, <1>9 DEF WorkType
  <2> QED BY <1>4, <1>5, <1>6, <2>1, <2>2
<1>11. Storing(r, new)
  <2>1. r \in Transactional /\ Untouched(r)
    BY <1>1 DEF Storing
  <2>2. CASE at = "commit"
    BY <1>2, <1>6, <1>7, <1>8, <1>10, <2>1, <2>2, FullCommit
  <2>3. CASE at = "write"
    BY <1>2, <1>6, <1>7, <1>8, <1>10, <2>1, <2>3, MidStoring
  <2> QED BY <2>2, <2>3
<1>12. Suits(new)'
  BY <1>3, <1>11 DEF Suits, Storing, Untouched, NoTwinStored, Committed
<1>13. \A v \in Writers \ {w} : new.record \cap work[v].record = {}
  BY <1>4, <1>10 DEF WriteShape, OneWriterEach
<1>14. /\ tables' = tables /\ unchecked' = unchecked /\ lock' = lock /\ lock' = w
       /\ new.at \in InTransaction
  BY <1>1, <1>3, <1>10 DEF InTransaction
<1>15. orphaned \subseteq orphaned' /\ orphaned' \subseteq Records
  BY <1>0, <1>3 DEF Written
<1>16. work' = [work EXCEPT ![w] = new]
  BY <1>8, <1>9
<1> QED BY <1>1, <1>4, <1>10, <1>12, <1>13, <1>14, <1>15, <1>16, QuietStep

LEMMA GiveUpKept ==
  ASSUME WriteShape, NEW w \in Writers, Rollback(w) \/ CutDecision(w)
  PROVE  ShapeKept
<1>0. orphaned \subseteq Records /\ work[w] \in WorkType
  BY DEF WriteShape, WriteTypeOK, WorkType, PartNames
<1>1. work' = [work EXCEPT ![w] = NoWork] /\ tables' = tables /\ unchecked' = unchecked
  BY DEF Rollback, CutDecision
<1>2. Suits(NoWork)' /\ NoWork.at \notin InTransaction
  BY NoWorkType DEF Suits, InTransaction
<1>3. CASE Rollback(w)
  <2>1. work[w].record \cap (Records \ Transactional) = {}
    BY <1>3, InStoring DEF Rollback, WriteShape, LockFits
  <2>2. lock = w /\ lock' = NoWriter /\ lock' # w /\ orphaned' = orphaned
    BY <1>3, NoWriterAssumption DEF Rollback
  <2> QED BY <1>0, <1>1, <1>2, <2>1, <2>2, NoWorkType, QuietStep
<1>4. CASE CutDecision(w)
  <2>1. lock' = lock /\ lock # w /\ orphaned' = orphaned \cup work[w].record
    BY <1>4 DEF CutDecision, WriteShape, LockFits, InTransaction
  <2>2. orphaned' \subseteq Records
    BY <1>0, <2>1 DEF WorkType
  <2> QED BY <1>0, <1>1, <1>2, <2>1, <2>2, NoWorkType, QuietStep
<1> QED BY <1>3, <1>4

LEMMA CommitKept ==
  ASSUME WriteShape, NEW w \in Writers, CommitRecord(w)
  PROVE  ShapeKept
<1>0. work[w] \in WorkType /\ orphaned \subseteq Records /\ work[w].at = "commit" /\ tables \subseteq Records \X PartNames
  BY DEF WriteShape, WriteTypeOK, WorkType, PartNames, CommitRecord
<1>1. PICK r \in Records : Storing(r, work[w]) /\ lock = w /\ work[w].record \cap (Records \ Transactional) = {}
  BY <1>0, InStoring DEF InTransaction
<1>2. /\ tables' = tables \cup work[w].buffer /\ lock' = NoWriter /\ orphaned' = orphaned /\ unchecked' = unchecked
      /\ work' = [work EXCEPT ![w] = NoWork] /\ work[w].record = {r} /\ r \in Transactional /\ Untouched(r)
  BY <1>1 DEF CommitRecord, Storing
<1>3. PICK parts \in SUBSET PartNames :
        /\ work[w].buffer = {r} \X parts
        /\ parts = {} \/ (parts \in Shape(Kind[r]) /\ NoTwinStored(r))
  BY <1>0, <1>1 DEF Storing
<1>4. /\ \A s \in Records, part \in PartNames : s # r => (Committed(s, part)' <=> Committed(s, part))
      /\ \A part \in PartNames : Committed(r, part)' <=> part \in parts
  BY <1>2, <1>3 DEF Committed, Untouched
<1>5. Adds(w) /\ tables' \subseteq Records \X PartNames /\ unchecked' \subseteq Records
  BY <1>0, <1>2, <1>3 DEF Adds, WriteShape, WriteTypeOK
<1>6. LockFits' /\ OneWriterEach' /\ WorkFits' /\ work' \in [Writers -> WorkType]
  <2>1. Suits(NoWork)' /\ NoWork.at \notin InTransaction /\ NoWork.record = {} /\ lock' # w
    BY <1>2, NoWorkType, NoWriterAssumption DEF Suits, InTransaction
  <2>2. lock \in {w, NoWriter} /\ lock' \in {w, NoWriter}
    BY <1>1, <1>2
  <2> QED BY <1>2, <1>5, <2>1, <2>2, NoWorkType, WorkStep
<1>7. StoredWhole'
  <2> SUFFICES ASSUME NEW s \in Transactional
               PROVE  \/ \A part \in PartNames : ~Committed(s, part)'
                      \/ \E ps \in Shape(Kind[s]) : \A part \in PartNames : Committed(s, part)' <=> part \in ps
    BY DEF StoredWhole, Untouched
  <2>1. CASE s = r
    BY <1>3, <1>4, <2>1
  <2>2. CASE s # r
    <3>1. s \in Records
      BY DEF Transactional
    <3> QED BY <1>4, <2>2, <3>1 DEF WriteShape, StoredWhole, Untouched
  <2> QED BY <2>1, <2>2
<1>8. NoTwins'
  <2> SUFFICES ASSUME NEW s \in Records, NEW t \in Records, {s, t} \in Twins, s # t,
                      Committed(s, "vec")', Committed(t, "vec")', s \notin unchecked, t \notin unchecked
               PROVE  FALSE
    BY <1>2 DEF NoTwins
  <2>1. "vec" \in PartNames
    BY DEF PartNames
  <2>2. CASE s # r /\ t # r
    BY <1>4, <2>1, <2>2 DEF WriteShape, NoTwins
  <2>3. ASSUME NEW u \in Records, u # r, {r, u} \in Twins, r \notin unchecked, Committed(r, "vec")', Committed(u, "vec")'
        PROVE  FALSE
    <3>1. Committed(u, "vec") /\ "vec" \in parts
      BY <1>4, <2>1, <2>3
    <3>2. u \in Similar(r) /\ NoTwinStored(r)
      BY <1>3, <2>3, <3>1 DEF Similar
    <3> QED BY <2>3, <3>1, <3>2 DEF NoTwinStored
  <2>4. {s, t} = {t, s}
    OBVIOUS
  <2> QED BY <2>2, <2>3, <2>4
<1>9. DecisionNodeFollows'
  <2> SUFFICES ASSUME NEW s \in Records \ Transactional
               PROVE  /\ Committed(s, "node")' => Committed(s, "row")'
                      /\ Committed(s, "row")' /\ ~Committed(s, "node")' =>
                           s \in orphaned' \/ \E v \in Writers : work'[v].record = {s}
    BY DEF DecisionNodeFollows
  <2>1. s # r /\ "node" \in PartNames /\ "row" \in PartNames
    BY <1>2 DEF PartNames
  <2>2. /\ Committed(s, "node") => Committed(s, "row")
        /\ Committed(s, "row") /\ ~Committed(s, "node") =>
             s \in orphaned \/ \E v \in Writers : work[v].record = {s}
    BY DEF WriteShape, DecisionNodeFollows
  <2>3. \A v \in Writers : work[v].record = {s} => work'[v].record = {s}
    <3>1. work[w].record # {s} /\ \A v \in Writers : v # w => work'[v] = work[v]
      BY <1>2, <2>1 DEF WriteShape, WriteTypeOK
    <3> QED BY <3>1
  <2> QED BY <1>2, <1>4, <2>1, <2>2, <2>3
<1> QED BY <1>0, <1>2, <1>5, <1>6, <1>7, <1>8, <1>9 DEF ShapeKept

\* What a decision has next: its embedding may be left out.
LEMMA WriteDecisionKept ==
  ASSUME WriteShape, NEW w \in Writers, WriteDecision(w)
  PROVE  ShapeKept
<1>0. work[w] \in WorkType /\ orphaned \subseteq Records /\ work[w].at = "decide" /\ tables \subseteq Records \X PartNames
      /\ work \in [Writers -> WorkType]
  BY DEF WriteShape, WriteTypeOK, WorkType, PartNames, WriteDecision
<1>1. PICK r \in Records : Deciding(r, work[w])
  BY <1>0, InDeciding
<1>2. /\ r \in Records \ Transactional /\ work[w].record = {r} /\ ~Committed(r, "node")
      /\ \/ work[w].todo = <<"row", "vec", "node">> /\ ~Committed(r, "row")
         \/ work[w].todo \in {<<"vec", "node">>, <<"node">>} /\ Committed(r, "row")
  BY <1>1 DEF Deciding
<1>a. PICK part, next, new :
        /\ part = Head(work[w].todo) /\ next = Tail(work[w].todo)
        /\ new = IF Len(work[w].todo) = 1 THEN NoWork ELSE [work[w] EXCEPT !.todo = next]
  OBVIOUS
<1>3. /\ work' = [work EXCEPT ![w] = new] /\ lock = NoWriter /\ lock' = lock /\ orphaned' = orphaned /\ unchecked' = unchecked
      /\ tables' = tables \cup {<<r, part>>} \/ (part = "vec" /\ tables' = tables)
  <2>1. work[w].record \X {part} = {<<r, part>>}
    BY <1>2
  <2> QED BY <1>2, <1>a, <2>1 DEF WriteDecision
<1>4. part \in {"row", "vec", "node"} /\ part \in PartNames
  BY <1>2, <1>a, TupleFacts DEF PartNames
<1>5. /\ tables' \subseteq Records \X PartNames /\ Adds(w) /\ unchecked' \subseteq Records
      /\ \A s \in Records, q \in PartNames : s # r => (Committed(s, q)' <=> Committed(s, q))
      /\ \A q \in PartNames : q # part => (Committed(r, q)' <=> Committed(r, q))
      /\ part # "vec" => Committed(r, part)'
  BY <1>0, <1>2, <1>3, <1>4 DEF Adds, Committed, WriteShape, WriteTypeOK
<1>6. /\ new = NoWork \/ (new.at = "decide" /\ new.record = {r})
      /\ new \in WorkType /\ new.record \subseteq {r}
      /\ part # "node" => new # NoWork /\ new.record = {r}
      /\ Suits(new)'
  <2>1. CASE work[w].todo = <<"node">>
    <3>1. new = NoWork /\ part = "node"
      BY <1>a, <2>1, TupleFacts
    <3> QED BY <3>1, NoWorkType DEF Suits
  <2>2. CASE work[w].todo \in {<<"row", "vec", "node">>, <<"vec", "node">>}
    <3>1. /\ next \in {<<"vec", "node">>, <<"node">>} /\ next \in Seq(PartNames)
          /\ new = [work[w] EXCEPT !.todo = next] /\ part \in {"row", "vec"}
      <4>1. CASE work[w].todo = <<"row", "vec", "node">>
        BY <1>a, <4>1, TupleFacts, TodoType
      <4>2. CASE work[w].todo = <<"vec", "node">>
        BY <1>a, <4>2, TupleFacts, TodoType
      <4> QED BY <2>2, <4>1, <4>2
    <3>2. new \in WorkType /\ new.at = "decide" /\ new.record = {r} /\ new.todo = next
      BY <1>0, <1>2, <3>1 DEF WorkType
    <3>3. Committed(r, "row")' /\ ~Committed(r, "node")'
      <4>1. part = "row" \/ Committed(r, "row")
        BY <1>2, <1>a, <2>2, <3>1, TupleFacts
      <4>2. "row" \in PartNames /\ "node" \in PartNames
        BY DEF PartNames
      <4> QED BY <1>2, <1>5, <3>1, <4>1, <4>2
    <3>4. Deciding(r, new)'
      BY <1>2, <3>1, <3>2, <3>3 DEF Deciding
    <3>5. new # NoWork /\ part # "node"
      BY <3>1, <3>2, NoWorkType
    <3> QED BY <3>2, <3>4, <3>5 DEF Suits
  <2> QED BY <1>2, <2>1, <2>2
<1>7. LockFits' /\ OneWriterEach' /\ WorkFits' /\ work' \in [Writers -> WorkType]
  <2>1. new.at \notin InTransaction /\ lock' # w
    BY <1>3, <1>6, NoWorkType, NoWriterAssumption DEF InTransaction
  <2>2. \A v \in Writers \ {w} : new.record \cap work[v].record = {}
    BY <1>2, <1>6 DEF WriteShape, OneWriterEach
  <2> QED BY <1>3, <1>5, <1>6, <2>1, <2>2, WorkStep
<1>8. StoredWhole'
  <2>1. \A s \in Transactional : s \in Records /\ s # r
    BY <1>2 DEF Transactional
  <2> QED BY <1>5, <2>1 DEF WriteShape, StoredWhole, Untouched
<1>9. NoTwins'
  <2>1. \A s, t \in Records : {s, t} \in Twins => s # r /\ t # r
    <3>1. Kind[r] = "decision"
      BY <1>2, KindIs
    <3>2. \A s, t \in Records : {s, t} \in Twins => Kind[s] = "mistake" /\ {t, s} \in Twins
      BY TwinsAssumption
    <3> QED BY <3>1, <3>2, TwinsAssumption
  <2>2. "vec" \in PartNames
    BY DEF PartNames
  <2> QED BY <1>3, <1>5, <2>1, <2>2 DEF WriteShape, NoTwins
<1>10. DecisionNodeFollows'
  <2> SUFFICES ASSUME NEW s \in Records \ Transactional
               PROVE  /\ Committed(s, "node")' => Committed(s, "row")'
                      /\ Committed(s, "row")' /\ ~Committed(s, "node")' =>
                           s \in orphaned' \/ \E v \in Writers : work'[v].record = {s}
    BY DEF DecisionNodeFollows
  <2>0. "node" \in PartNames /\ "row" \in PartNames
    BY DEF PartNames
  <2>1. CASE s = r
    <3>1. CASE part = "node"
      <4>1. Committed(r, "row")
        BY <1>2, <1>a, <3>1, TupleFacts
      <4> QED BY <1>5, <2>0, <2>1, <3>1, <4>1
    <3>2. CASE part # "node"
      <4>1. work'[w].record = {r} /\ ~Committed(r, "node")'
        BY <1>0, <1>2, <1>3, <1>5, <1>6, <2>0, <3>2
      <4> QED BY <2>1, <4>1
    <3> QED BY <3>1, <3>2
  <2>2. CASE s # r
    <3>1. /\ Committed(s, "node") => Committed(s, "row")
          /\ Committed(s, "row") /\ ~Committed(s, "node") =>
               s \in orphaned \/ \E v \in Writers : work[v].record = {s}
      BY DEF WriteShape, DecisionNodeFollows
    <3>2. \A v \in Writers : work[v].record = {s} => work'[v].record = {s}
      <4>1. work[w].record # {s} /\ \A v \in Writers : v # w => work'[v] = work[v]
        BY <1>0, <1>2, <1>3, <2>2
      <4> QED BY <4>1
    <3> QED BY <1>3, <1>5, <2>0, <2>2, <3>1, <3>2
  <2> QED BY <2>1, <2>2
<1> QED BY <1>0, <1>3, <1>5, <1>7, <1>8, <1>9, <1>10 DEF ShapeKept

-----------------------------------------------------------------------------
(* The steps of a resolution.                                              *)

Resolution(w) ==
  \/ \E occurred, why \in BOOLEAN : BeginVerdict(w, occurred, why)
  \/ WriteState(w) \/ Reread(w) \/ WriteEvidence(w) \/ CutVerdict(w)

Recording(w) ==
  \/ \E r \in Records : BeginRecord(w, r) \/ BeginDecision(w, r)
  \/ Look(w) \/ WriteRecord(w) \/ CommitRecord(w) \/ Rollback(w) \/ WriteDecision(w) \/ CutDecision(w)

\* A step of a resolution leaves the recordings alone, and the other way round.
LEMMA StepsApart ==
  ASSUME NEW w \in Writers
  PROVE  /\ Resolution(w) => UNCHANGED <<tables, lock, work, orphaned, unchecked>>
         /\ Recording(w) => UNCHANGED <<node, judge>>
  BY DEF Resolution, Recording, BeginVerdict, WriteState, Reread, WriteEvidence, CutVerdict, BeginRecord,
     BeginDecision, Look, WriteRecord, Written, CommitRecord, Rollback, WriteDecision, CutDecision

LEMMA RecordingKept ==
  ASSUME WriteShape, NEW w \in Writers, Recording(w)
  PROVE  ShapeKept
  BY BeginRecordKept, BeginDecisionKept, LookKept, WriteRecordKept, GiveUpKept, CommitKept, WriteDecisionKept
  DEF Recording

ResolutionKept == node' \in Seen /\ judge' \in [Writers -> JudgeType] /\ ResolvedSeen'
                  /\ (node.state # "UNRESOLVED" => node'.state # "UNRESOLVED")

LEMMA StepOfResolution ==
  ASSUME WriteShape, NEW w \in Writers, Resolution(w)
  PROVE  ResolutionKept
<1>0. node \in Seen /\ judge \in [Writers -> JudgeType] /\ judge[w] \in JudgeType
  BY DEF WriteShape, WriteTypeOK, JudgeType, Seen
<1>1. ASSUME NEW new \in JudgeType, judge' = [judge EXCEPT ![w] = new], node' \in Seen,
             node.state # "UNRESOLVED" => node'.state # "UNRESOLVED",
             new.at = "reread" => node'.state # "UNRESOLVED",
             new.at = "evidence" => \A n \in new.seen : n.state # "UNRESOLVED"
      PROVE  ResolutionKept
  BY <1>0, <1>1 DEF ResolutionKept, WriteShape, ResolvedSeen
<1>2. ASSUME NEW occurred \in BOOLEAN, NEW why \in BOOLEAN, BeginVerdict(w, occurred, why)
      PROVE  ResolutionKept
  <2> DEFINE new == [at |-> "state", occurred |-> occurred, why |-> why, seen |-> {node}]
  <2>1. new \in JudgeType /\ new.at = "state"
    BY <1>0 DEF JudgeType
  <2>2. judge' = [judge EXCEPT ![w] = new] /\ node' = node
    BY <1>2 DEF BeginVerdict
  <2> HIDE DEF new
  <2> QED BY <1>0, <1>1, <2>1, <2>2
<1>3. CASE WriteState(w)
  <2> DEFINE at == IF judge[w].why THEN "reread" ELSE "done"
             new == [judge[w] EXCEPT !.at = at]
  <2>1. at \in {"reread", "done"}
    OBVIOUS
  <2>2. judge' = [judge EXCEPT ![w] = new]
    BY <1>3 DEF WriteState
  <2> HIDE DEF at
  <2>3. new \in JudgeType /\ new.at = at
    BY <1>0, <2>1 DEF JudgeType
  <2>4. PICK seen \in judge[w].seen :
          node' = [seen EXCEPT !.state = IF judge[w].occurred THEN "TRUE" ELSE "FALSE"]
    BY <1>3 DEF WriteState
  <2>5. seen \in Seen
    BY <1>0 DEF JudgeType
  <2>6. \A st \in {"TRUE", "FALSE"} :
          LET n == [seen EXCEPT !.state = st] IN n \in Seen /\ n.state = st
    BY <2>5 DEF Seen
  <2>7. node' \in Seen /\ node'.state # "UNRESOLVED"
    BY <2>4, <2>6
  <2> HIDE DEF new
  <2> QED BY <1>1, <2>1, <2>2, <2>3, <2>7
<1>4. CASE Reread(w)
  <2> DEFINE new == [judge[w] EXCEPT !.at = "evidence", !.seen = {node}]
  <2>1. judge' = [judge EXCEPT ![w] = new] /\ node' = node /\ node.state # "UNRESOLVED"
    BY <1>4 DEF Reread, WriteShape, ResolvedSeen
  <2>2. new \in JudgeType /\ new.at = "evidence" /\ new.seen = {node}
    BY <1>0 DEF JudgeType
  <2> HIDE DEF new
  <2> QED BY <1>0, <1>1, <2>1, <2>2
<1>5. CASE WriteEvidence(w)
  <2> DEFINE new == [judge[w] EXCEPT !.at = "done"]
  <2>1. PICK seen \in judge[w].seen : node' = [seen EXCEPT !.evidence = w]
    BY <1>5 DEF WriteEvidence
  <2>2. judge' = [judge EXCEPT ![w] = new] /\ seen.state # "UNRESOLVED" /\ seen \in Seen
    BY <1>0, <1>5 DEF WriteEvidence, WriteShape, ResolvedSeen, JudgeType
  <2>3. new \in JudgeType /\ new.at = "done"
    BY <1>0 DEF JudgeType
  <2>4. node' \in Seen /\ node'.state # "UNRESOLVED"
    BY <2>1, <2>2 DEF Seen
  <2> HIDE DEF new
  <2> QED BY <1>1, <2>2, <2>3, <2>4
<1>6. CASE CutVerdict(w)
  <2>1. judge' = [judge EXCEPT ![w] = NoVerdict] /\ node' = node
    BY <1>6 DEF CutVerdict
  <2>2. NoVerdict \in JudgeType /\ NoVerdict.at = "idle"
    BY DEF NoVerdict, JudgeType
  <2> QED BY <1>0, <1>1, <2>1, <2>2
<1> QED BY <1>2, <1>3, <1>4, <1>5, <1>6 DEF Resolution

LEMMA CountKept ==
  ASSUME WriteShape, WriteNext
  PROVE  writes' \in 0..MaxWrites
<1>1. writes' = writes \/ Called
  BY DEF WriteNext, BeginVerdict, WriteState, Reread, WriteEvidence, CutVerdict, BeginRecord,
     BeginDecision, Look, WriteRecord, Written, CommitRecord, Rollback, WriteDecision, CutDecision
<1> QED BY <1>1, MaxWritesAssumption DEF Called, WriteShape, WriteTypeOK

-----------------------------------------------------------------------------
LEMMA WriteShapeInit == WriteInit => WriteShape
<1> SUFFICES ASSUME WriteInit PROVE WriteShape
  OBVIOUS
<1>1. work \in [Writers -> WorkType] /\ \A w \in Writers : work[w] = NoWork
  BY NoWorkType DEF WriteInit
<1>2. NoVerdict \in JudgeType /\ NoVerdict.at = "idle"
  BY DEF NoVerdict, JudgeType
<1>3. judge \in [Writers -> JudgeType] /\ \A w \in Writers : judge[w] = NoVerdict
  BY <1>2 DEF WriteInit
<1>4. node \in Seen
  BY DEF WriteInit, Seen
<1>5. WriteTypeOK
  BY <1>1, <1>3, <1>4, MaxWritesAssumption DEF WriteInit, WriteTypeOK, WorkType, JudgeType, PartNames, Seen
<1>6. LockFits /\ OneWriterEach /\ WorkFits
  BY <1>1, NoWorkType, NoWriterAssumption DEF WriteInit, LockFits, OneWriterEach, WorkFits, Suits, InTransaction
<1>7. StoredWhole /\ NoTwins /\ DecisionNodeFollows
  BY DEF WriteInit, StoredWhole, NoTwins, DecisionNodeFollows, Untouched, Committed
<1>8. ResolvedSeen
  BY <1>2, <1>3 DEF ResolvedSeen
<1> QED BY <1>5, <1>6, <1>7, <1>8 DEF WriteShape

LEMMA WriteShapeNext == WriteShape /\ [WriteNext]_writeVars => WriteShape'
<1> SUFFICES ASSUME WriteShape, [WriteNext]_writeVars PROVE WriteShape'
  OBVIOUS
<1>1. ASSUME WriteNext, NEW w \in Writers, Recording(w)
      PROVE  WriteShape'
  <2>1. ShapeKept /\ UNCHANGED <<node, judge>> /\ writes' \in 0..MaxWrites
    BY <1>1, RecordingKept, StepsApart, CountKept
  <2>2. ResolvedSeen'
    BY <2>1 DEF WriteShape, ResolvedSeen
  <2>3. WriteTypeOK'
    BY <2>1 DEF ShapeKept, WriteShape, WriteTypeOK, WorkType, PartNames
  <2> QED BY <2>1, <2>2, <2>3 DEF ShapeKept, WriteShape
<1>2. ASSUME WriteNext, NEW w \in Writers, Resolution(w)
      PROVE  WriteShape'
  <2>1. ResolutionKept /\ UNCHANGED <<tables, lock, work, orphaned, unchecked>> /\ writes' \in 0..MaxWrites
    BY <1>2, StepOfResolution, StepsApart, CountKept
  <2>2. WriteTypeOK'
    BY <2>1 DEF ResolutionKept, WriteShape, WriteTypeOK, JudgeType, Seen
  <2>3. LockFits' /\ OneWriterEach' /\ StoredWhole' /\ NoTwins' /\ DecisionNodeFollows'
    BY <2>1 DEF WriteShape, LockFits, OneWriterEach, StoredWhole, NoTwins, DecisionNodeFollows, Untouched, Committed
  <2>4. WorkFits'
    BY <2>1, FitsStays DEF WriteShape, WorkFits
  <2> QED BY <2>1, <2>2, <2>3, <2>4 DEF ResolutionKept, WriteShape
<1>3. CASE UNCHANGED writeVars
  <2>1. UNCHANGED <<tables, lock, work, node, judge, writes, orphaned, unchecked>>
    BY <1>3 DEF writeVars
  <2>2. WriteTypeOK' /\ ResolvedSeen'
    BY <2>1 DEF WriteShape, WriteTypeOK, ResolvedSeen
  <2>3. LockFits' /\ OneWriterEach' /\ StoredWhole' /\ NoTwins' /\ DecisionNodeFollows'
    BY <2>1 DEF WriteShape, LockFits, OneWriterEach, StoredWhole, NoTwins, DecisionNodeFollows, Untouched, Committed
  <2>4. WorkFits'
    BY <2>1, FitsStays DEF WriteShape, WorkFits
  <2> QED BY <2>2, <2>3, <2>4 DEF WriteShape
<1>4. WriteNext => \E w \in Writers : Recording(w) \/ Resolution(w)
  BY DEF WriteNext, Recording, Resolution
<1> QED BY <1>1, <1>2, <1>3, <1>4

\* The variables of StoreWrites keep their types.
THEOREM WritesTypeCorrect == WriteSpec => []WriteTypeOK
<1>1. WriteShape => WriteTypeOK
  BY DEF WriteShape
<1> QED BY <1>1, WriteShapeInit, WriteShapeNext, PTL DEF WriteSpec

\* Two mistakes that the duplicate check would call one are both stored with their
\* embeddings only if the look of one of them raised, however many writers record
\* them at once (record_mistake).
THEOREM OneOfTwins == WriteSpec => []NoTwins
<1>1. WriteShape => NoTwins
  BY DEF WriteShape
<1> QED BY <1>1, WriteShapeInit, WriteShapeNext, PTL DEF WriteSpec

\* A decision has its row before its node, and lacks the node only while it is
\* being recorded or when that was cut short (record_decision).
THEOREM NodeFollowsRow == WriteSpec => []DecisionNodeFollows
<1>1. WriteShape => DecisionNodeFollows
  BY DEF WriteShape
<1> QED BY <1>1, WriteShapeInit, WriteShapeNext, PTL DEF WriteSpec

\* A resolved prediction stays resolved, whatever overlaps (resolve_prediction).
THEOREM ResolutionLasts == WriteSpec => StaysResolved
<1>1. WriteShape /\ [WriteNext]_writeVars => [node.state # "UNRESOLVED" => node'.state # "UNRESOLVED"]_node
  <2>1. ASSUME WriteShape, NEW w \in Writers, Recording(w) \/ Resolution(w)
        PROVE  node' = node \/ (node.state # "UNRESOLVED" => node'.state # "UNRESOLVED")
    BY <2>1, StepOfResolution, StepsApart DEF ResolutionKept
  <2>2. WriteNext => \E w \in Writers : Recording(w) \/ Resolution(w)
    BY DEF WriteNext, Recording, Resolution
  <2> QED BY <2>1, <2>2 DEF writeVars
<1> QED BY <1>1, WriteShapeInit, WriteShapeNext, PTL DEF WriteSpec, StaysResolved

-----------------------------------------------------------------------------
(* The refinement.                                                         *)

\* What the transactions have committed.
Transacted == {x \in tables : x[1] \in Transactional}

LEMMA RecordingAppears ==
  ASSUME WriteShape, NEW w \in Writers, Recording(w)
  PROVE  Transacted' = Transacted \/ \E r \in Transactional : Whole!Appear(r)
<1>1. CASE tables' = tables
  BY <1>1 DEF Transacted
<1>2. CASE CommitRecord(w)
  <2>1. work[w].at = "commit"
    BY <1>2 DEF CommitRecord
  <2>2. PICK r \in Records : Storing(r, work[w])
    BY <2>1, InStoring DEF InTransaction
  <2>3. r \in Transactional /\ Untouched(r)
    BY <2>2 DEF Storing
  <2>4. PICK parts \in SUBSET PartNames :
          work[w].buffer = {r} \X parts /\ (parts = {} \/ parts \in Shape(Kind[r]))
    BY <2>1, <2>2 DEF Storing
  <2>5. tables' = tables \cup ({r} \X parts)
    BY <1>2, <2>4 DEF CommitRecord
  <2>6. CASE parts = {}
    BY <2>5, <2>6 DEF Transacted
  <2>7. CASE parts \in Shape(Kind[r])
    <3>1. Transacted' = Transacted \cup ({r} \X parts)
      BY <2>3, <2>5 DEF Transacted
    <3>2. \A x \in Transacted : x[1] # r
      <4> SUFFICES ASSUME NEW x \in Transacted, x[1] = r PROVE FALSE
        OBVIOUS
      <4>1. x \in tables /\ tables \subseteq Records \X PartNames
        BY DEF Transacted, WriteShape, WriteTypeOK, PartNames
      <4>2. x = <<r, x[2]>> /\ x[2] \in PartNames
        BY <4>1
      <4> QED BY <2>3, <4>1, <4>2 DEF Untouched, Committed
    <3>3. parts \in [s \in Records |-> Shape(Kind[s])][r]
      BY <2>7
    <3>4. Whole!Appear(r)
      BY <3>1, <3>2, <3>3 DEF Whole!Appear, Whole!Absent, Transacted
    <3> QED BY <2>3, <3>4
  <2> QED BY <2>4, <2>6, <2>7
<1>3. CASE WriteDecision(w)
  <2>1. PICK r \in Records : Deciding(r, work[w])
    BY <1>3, InDeciding DEF WriteDecision
  <2>2. work[w].record = {r} /\ r \notin Transactional
    BY <2>1 DEF Deciding
  <2>3. tables' = tables \cup ({r} \X {Head(work[w].todo)}) \/ tables' = tables
    BY <1>3, <2>2 DEF WriteDecision
  <2> QED BY <2>2, <2>3 DEF Transacted
<1> QED BY <1>1, <1>2, <1>3 DEF Recording, BeginRecord, BeginDecision, Look, WriteRecord, Rollback, CutDecision

\* Through its committed tables, the store is a store of whole records: what a
\* transaction of the pool records appears at once and with all its parts, or
\* never (ThreadLocalPool.transaction, record_mistake, record_workflow_run).
THEOREM TransactionsAreAtomic == WriteSpec => RecordsAreWhole
<1>1. WriteInit => Transacted = {}
  BY DEF WriteInit, Transacted
<1>2. WriteShape /\ [WriteNext]_writeVars => [\E r \in Transactional : Whole!Appear(r)]_Transacted
  <2>1. ASSUME WriteShape, NEW w \in Writers, Recording(w) \/ Resolution(w)
        PROVE  Transacted' = Transacted \/ \E r \in Transactional : Whole!Appear(r)
    <3>1. CASE Recording(w)
      BY <2>1, <3>1, RecordingAppears
    <3>2. CASE Resolution(w)
      BY <3>2, StepsApart DEF Transacted
    <3> QED BY <2>1, <3>1, <3>2
  <2>2. WriteNext => \E w \in Writers : Recording(w) \/ Resolution(w)
    BY DEF WriteNext, Recording, Resolution
  <2>3. UNCHANGED writeVars => Transacted' = Transacted
    BY DEF writeVars, Transacted
  <2> QED BY <2>1, <2>2, <2>3
<1> QED BY <1>1, <1>2, WriteShapeInit, WriteShapeNext, PTL DEF WriteSpec, RecordsAreWhole, Whole!AtomicSpec, Transacted

-----------------------------------------------------------------------------
(* WorkflowSteps                                                           *)

Calls == [step : Steps, to : Statuses, tool : {"elite_verify", "workflow_update_step"}]

LEMMA AggregateType == \A rows : Aggregate(rows) \in RunStatuses
<1> SUFFICES ASSUME NEW rows PROVE Aggregate(rows) \in RunStatuses
  OBVIOUS
<1>1. CASE \E i \in DOMAIN rows : rows[i] = "failed"
  BY <1>1 DEF Aggregate, RunStatuses, Finished
<1>2. CASE ~(\E i \in DOMAIN rows : rows[i] = "failed")
           /\ \E i \in DOMAIN rows : rows[i] = "blocked"
  BY <1>2 DEF Aggregate, RunStatuses, Finished
<1>3. CASE ~(\E i \in DOMAIN rows : rows[i] = "failed")
           /\ ~(\E i \in DOMAIN rows : rows[i] = "blocked")
  BY <1>3 DEF Aggregate, RunStatuses
<1> QED BY <1>1, <1>2, <1>3

\* A fresh run is planned.
LEMMA AggregatePending == Aggregate(Pending) = "planned"
<1>1. 1 \in DOMAIN Pending /\ Pending[1] = "pending"
  BY NAssumption DEF Pending, Steps
<1>2. \A i \in DOMAIN Pending : Pending[i] = "pending"
  BY DEF Pending
<1> QED BY <1>1, <1>2 DEF Aggregate, Finished

-----------------------------------------------------------------------------
(* What the actions do to the variables that the invariants are about.     *)

LEMMA CallEffect ==
  ASSUME NEW s \in Sessions, Call(s)
  PROVE  \E i \in Steps, to \in Statuses, tool \in {"elite_verify", "workflow_update_step"} :
           /\ pc[s] = "idle"
           /\ pc' = [pc EXCEPT ![s] = "update"]
           /\ call' = [call EXCEPT ![s] = [step |-> i, to |-> to, tool |-> tool]]
           /\ tool = "elite_verify" /\ to \in Finished =>
                \A j \in 1..(i - 1) : status[j] \in Finished
           /\ found' \in {found, [found EXCEPT ![s] = status]}
           /\ calls < MaxCalls /\ calls' = calls + 1
           /\ UNCHANGED <<status, run_status, ever, earned, held, alone, settled>>
<1>1. PICK i \in Steps, to \in Requested : Progress(s, i, to) \/ UpdateStep(s, i, to)
  BY DEF Call
<1>2. to \in Statuses
  BY RequestedAssumption
<1>3. CASE Progress(s, i, to)
  BY <1>2, <1>3 DEF Progress, BeginUpdate, Goto, table, history
<1>4. CASE UpdateStep(s, i, to)
  BY <1>2, <1>4 DEF UpdateStep, BeginUpdate, Goto, table, history
<1> QED BY <1>1, <1>3, <1>4

-----------------------------------------------------------------------------
LEMMA TypeInit == StepsInit => StepsTypeOK
  BY CallsAssumption, NAssumption
  DEF StepsInit, StepsTypeOK, NoStepCall, Pending, Steps, Statuses, RunStatuses

LEMMA TypeNext == StepsTypeOK /\ [StepsNext]_stepsVars => StepsTypeOK'
<1> SUFFICES ASSUME StepsTypeOK, [StepsNext]_stepsVars PROVE StepsTypeOK'
  OBVIOUS
<1>0. NoStepCall \in Calls /\ Pending \in [Steps -> Statuses]
  BY NAssumption DEF NoStepCall, Pending, Calls, Steps, Statuses
<1>1. CASE UNCHANGED stepsVars
  BY <1>1 DEF stepsVars, StepsTypeOK
<1>2. ASSUME NEW s \in Sessions, Call(s)
      PROVE  StepsTypeOK'
  <2>1. PICK i \in Steps, to \in Statuses, tool \in {"elite_verify", "workflow_update_step"} :
           /\ pc' = [pc EXCEPT ![s] = "update"]
           /\ call' = [call EXCEPT ![s] = [step |-> i, to |-> to, tool |-> tool]]
           /\ found' \in {found, [found EXCEPT ![s] = status]}
           /\ calls < MaxCalls /\ calls' = calls + 1
           /\ UNCHANGED <<status, run_status, ever, earned, held, alone, settled>>
    BY <1>2, CallEffect
  <2>2. calls' \in 0..MaxCalls
    BY <2>1, CallsAssumption DEF StepsTypeOK
  <2>3. found' \in [Sessions -> [Steps -> Statuses]]
    BY <2>1 DEF StepsTypeOK
  <2>4. call' \in [Sessions -> Calls]
    BY <2>1 DEF StepsTypeOK, Calls
  <2> QED BY <2>1, <2>2, <2>3, <2>4 DEF StepsTypeOK, Calls
<1>3. ASSUME NEW s \in Sessions, UpdateRow(s)
      PROVE  StepsTypeOK'
  <2>1. call[s].step \in Steps /\ call[s].to \in Statuses
    BY DEF StepsTypeOK
  <2>2. /\ status' \in [Steps -> Statuses]
        /\ ever' \subseteq Steps /\ earned' \subseteq Steps
        /\ alone' \in [Sessions -> BOOLEAN]
    BY <1>3, <2>1 DEF UpdateRow, StepsTypeOK
  <2>3. held' \subseteq RunStatuses
    BY <1>3, AggregateType DEF UpdateRow, StepsTypeOK
  <2> QED BY <1>3, <2>2, <2>3 DEF UpdateRow, Goto, StepsTypeOK
<1>4. ASSUME NEW s \in Sessions, Select(s)
      PROVE  StepsTypeOK'
  BY <1>4 DEF Select, Goto, StepsTypeOK, table, history
<1>5. ASSUME NEW s \in Sessions, Write(s) \/ StepCrash(s)
      PROVE  StepsTypeOK'
  <2>1. Discard(s) /\ UNCHANGED <<status, calls, ever, earned, held>>
    BY <1>5 DEF Write, StepCrash, table
  <2>2. /\ call' \in [Sessions -> Calls]
        /\ found' \in [Sessions -> [Steps -> Statuses]]
        /\ alone' \in [Sessions -> BOOLEAN]
        /\ pc' \in [Sessions -> {"idle", "update", "select", "write"}]
    BY <1>0, <2>1 DEF Discard, Goto, StepsTypeOK, Calls
  <2>3. run_status' \in RunStatuses /\ settled' \in BOOLEAN
    BY <1>5, AggregateType DEF Write, StepCrash, StepsTypeOK, table
  <2> QED BY <2>1, <2>2, <2>3 DEF StepsTypeOK, Calls
<1> QED BY <1>1, <1>2, <1>3, <1>4, <1>5 DEF StepsNext

\* Every variable has its type.
THEOREM StepsTypeCorrect == StepsSpec => []StepsTypeOK
  BY TypeInit, TypeNext, PTL DEF StepsSpec

-----------------------------------------------------------------------------
(* NoSkipAhead: what a session checked about earlier steps may be undone    *)
(* before its UPDATE, but not that those steps were finished once.         *)

SkipInv ==
  /\ NoSkipAhead
  /\ \A i \in Steps : status[i] \in Finished => i \in ever
  /\ \A s \in Sessions :
       pc[s] = "update" /\ call[s].tool = "elite_verify" /\ call[s].to \in Finished =>
         \A j \in 1..(call[s].step - 1) : j \in ever

LEMMA SkipNext == StepsTypeOK /\ SkipInv /\ [StepsNext]_stepsVars => SkipInv'
<1> SUFFICES ASSUME StepsTypeOK, SkipInv, [StepsNext]_stepsVars PROVE SkipInv'
  OBVIOUS
<1>1. CASE UNCHANGED stepsVars
  BY <1>1 DEF stepsVars, SkipInv, NoSkipAhead
<1>2. ASSUME NEW s \in Sessions, Call(s)
      PROVE  SkipInv'
  <2>1. PICK i \in Steps, to \in Statuses, tool \in {"elite_verify", "workflow_update_step"} :
           /\ pc' = [pc EXCEPT ![s] = "update"]
           /\ call' = [call EXCEPT ![s] = [step |-> i, to |-> to, tool |-> tool]]
           /\ tool = "elite_verify" /\ to \in Finished =>
                \A j \in 1..(i - 1) : status[j] \in Finished
           /\ UNCHANGED <<status, ever, earned>>
    BY <1>2, CallEffect
  <2>2. \A j \in 1..(i - 1) : j \in Steps
    BY NAssumption DEF Steps
  <2>3. ASSUME NEW t \in Sessions, pc'[t] = "update", call'[t].tool = "elite_verify",
               call'[t].to \in Finished
        PROVE  \A j \in 1..(call'[t].step - 1) : j \in ever
    <3>1. CASE t = s
      BY <2>1, <2>2, <2>3, <3>1 DEF StepsTypeOK, SkipInv
    <3>2. CASE t # s
      BY <2>1, <2>3, <3>2 DEF StepsTypeOK, SkipInv
    <3> QED BY <3>1, <3>2
  <2> QED BY <2>1, <2>3 DEF SkipInv, NoSkipAhead
<1>3. ASSUME NEW s \in Sessions, UpdateRow(s)
      PROVE  SkipInv'
  <2>1. ever \subseteq ever'
    BY <1>3 DEF UpdateRow
  <2>2. ASSUME NEW i \in Steps, status'[i] \in Finished
        PROVE  i \in ever'
    BY <1>3, <2>1, <2>2 DEF UpdateRow, StepsTypeOK, SkipInv
  <2>3. ASSUME NEW i \in earned', NEW j \in 1..(i - 1)
        PROVE  j \in ever'
    <3>1. CASE i \in earned
      BY <2>1, <3>1 DEF SkipInv, NoSkipAhead
    <3>2. CASE i \notin earned
      BY <1>3, <2>1, <2>3, <3>2 DEF UpdateRow, SkipInv
    <3> QED BY <3>1, <3>2
  <2>4. ASSUME NEW t \in Sessions, pc'[t] = "update"
        PROVE  pc[t] = "update" /\ call'[t] = call[t]
    BY <1>3, <2>4 DEF UpdateRow, Goto, StepsTypeOK
  <2> QED BY <2>1, <2>2, <2>3, <2>4 DEF SkipInv, NoSkipAhead
<1>4. ASSUME NEW s \in Sessions, Select(s) \/ Write(s) \/ StepCrash(s)
      PROVE  SkipInv'
  <2>1. UNCHANGED <<status, ever, earned>>
    BY <1>4 DEF Select, Write, StepCrash, table, history
  <2>2. ASSUME NEW t \in Sessions, pc'[t] = "update"
        PROVE  pc[t] = "update" /\ call'[t] = call[t]
    BY <1>4, <2>2 DEF Select, Write, StepCrash, Discard, Goto, StepsTypeOK
  <2> QED BY <2>1, <2>2 DEF SkipInv, NoSkipAhead
<1> QED BY <1>1, <1>2, <1>3, <1>4 DEF StepsNext

\* No step is marked passed or skipped through elite_verify before every
\* earlier step has at some time been passed or skipped, although the check and
\* the update are separate statements (gateway.py check="progress").
THEOREM NoStepSkipsAhead == StepsSpec => []NoSkipAhead
<1>1. StepsInit => SkipInv
  BY DEF StepsInit, SkipInv, NoSkipAhead, Pending, Finished
<1>2. SkipInv => NoSkipAhead
  BY DEF SkipInv
<1> QED BY <1>1, <1>2, SkipNext, StepsTypeCorrect, PTL DEF StepsSpec

-----------------------------------------------------------------------------
(* StatusWasTrue: the statuses a session has read are those of one moment.  *)

TrueInv ==
  /\ StatusWasTrue
  /\ Aggregate(status) \in held
  /\ \A s \in Sessions : pc[s] = "write" => Aggregate(found[s]) \in held

LEMMA TrueNext == StepsTypeOK /\ TrueInv /\ [StepsNext]_stepsVars => TrueInv'
<1> SUFFICES ASSUME StepsTypeOK, TrueInv, [StepsNext]_stepsVars PROVE TrueInv'
  OBVIOUS
<1>1. CASE UNCHANGED stepsVars
  BY <1>1 DEF stepsVars, TrueInv, StatusWasTrue
<1>2. ASSUME NEW s \in Sessions, Call(s)
      PROVE  TrueInv'
  <2>1. /\ pc' = [pc EXCEPT ![s] = "update"]
        /\ found' \in {found, [found EXCEPT ![s] = status]}
        /\ UNCHANGED <<status, run_status, held>>
    BY <1>2, CallEffect
  <2>2. ASSUME NEW t \in Sessions, pc'[t] = "write"
        PROVE  pc[t] = "write" /\ found'[t] = found[t]
    BY <2>1, <2>2 DEF StepsTypeOK
  <2> QED BY <2>1, <2>2 DEF TrueInv, StatusWasTrue
<1>3. ASSUME NEW s \in Sessions, UpdateRow(s)
      PROVE  TrueInv'
  <2>1. held' = held \cup {Aggregate(status')} /\ UNCHANGED <<run_status, found>>
    BY <1>3 DEF UpdateRow
  <2>2. ASSUME NEW t \in Sessions, pc'[t] = "write"
        PROVE  pc[t] = "write"
    BY <1>3, <2>2 DEF UpdateRow, Goto, StepsTypeOK
  <2>3. Aggregate(status)' = Aggregate(status')
    BY DEF Aggregate
  <2>4. \A t \in Sessions : Aggregate(found[t])' = Aggregate(found[t])
    BY <2>1 DEF Aggregate
  <2> QED BY <2>1, <2>2, <2>3, <2>4 DEF TrueInv, StatusWasTrue
<1>4. ASSUME NEW s \in Sessions, Select(s)
      PROVE  TrueInv'
  <2>1. found' = [found EXCEPT ![s] = status] /\ UNCHANGED <<status, run_status, held>>
    BY <1>4 DEF Select, table, history
  <2>2. ASSUME NEW t \in Sessions, pc'[t] = "write"
        PROVE  \/ pc[t] = "write" /\ found'[t] = found[t]
               \/ found'[t] = status
    BY <1>4, <2>1, <2>2 DEF Select, Goto, StepsTypeOK
  <2> QED BY <2>1, <2>2 DEF TrueInv, StatusWasTrue
<1>5. ASSUME NEW s \in Sessions, Write(s) \/ StepCrash(s)
      PROVE  TrueInv'
  <2>1. /\ UNCHANGED <<status, held>>
        /\ \/ run_status' = run_status
           \/ pc[s] = "write" /\ run_status' = Aggregate(found[s])
    <3>1. CASE Write(s)
      BY <3>1 DEF Write
    <3>2. CASE StepCrash(s)
      BY <3>2 DEF StepCrash, table
    <3> QED BY <1>5, <3>1, <3>2
  <2>2. ASSUME NEW t \in Sessions, pc'[t] = "write"
        PROVE  pc[t] = "write" /\ found'[t] = found[t]
    BY <1>5, <2>2 DEF Write, StepCrash, Discard, Goto, StepsTypeOK
  <2> QED BY <2>1, <2>2 DEF TrueInv, StatusWasTrue
<1> QED BY <1>1, <1>2, <1>3, <1>4, <1>5 DEF StepsNext

\* The status of the run is one its steps really had at some single moment, for
\* any interleaving of updates and crashes.
THEOREM StatusIsTrue == StepsSpec => []StatusWasTrue
<1>1. StepsInit => TrueInv
  BY AggregatePending DEF StepsInit, TrueInv, StatusWasTrue
<1>2. TrueInv => StatusWasTrue
  BY DEF TrueInv
<1> QED BY <1>1, <1>2, TrueNext, StepsTypeCorrect, PTL DEF StepsSpec

-----------------------------------------------------------------------------
(* LoneUpdateHeals: a lone update writes the statuses as they are.         *)

LoneInv ==
  /\ settled => run_status = Aggregate(status) /\ \A s \in Sessions : ~Midway(s)
  /\ \A s \in Sessions : alone[s] =>
       /\ \A u \in Sessions \ {s} : ~Midway(u)
       /\ pc[s] = "write" => found[s] = status

LEMMA LoneNext == StepsTypeOK /\ LoneInv /\ [StepsNext]_stepsVars => LoneInv'
<1> SUFFICES ASSUME StepsTypeOK, LoneInv, [StepsNext]_stepsVars PROVE LoneInv'
  OBVIOUS
<1>1. CASE UNCHANGED stepsVars
  BY <1>1 DEF stepsVars, LoneInv, Midway
<1>2. ASSUME NEW s \in Sessions, Call(s)
      PROVE  LoneInv'
  <2>1. /\ pc[s] = "idle" /\ pc' = [pc EXCEPT ![s] = "update"]
        /\ found' \in {found, [found EXCEPT ![s] = status]}
        /\ UNCHANGED <<status, run_status, alone, settled>>
    BY <1>2, CallEffect
  <2>2. \A t \in Sessions :
          /\ Midway(t)' = Midway(t)
          /\ pc'[t] = "write" => pc[t] = "write" /\ found'[t] = found[t]
    BY <2>1 DEF StepsTypeOK, Midway
  <2> QED BY <2>1, <2>2 DEF LoneInv
<1>3. ASSUME NEW s \in Sessions, UpdateRow(s)
      PROVE  LoneInv'
  <2>1. /\ pc' = [pc EXCEPT ![s] = "select"] /\ settled' = FALSE
        /\ alone' = [t \in Sessions |-> t = s /\ \A u \in Sessions \ {s} : ~Midway(u)]
    BY <1>3 DEF UpdateRow, Goto
  <2>2. \A t \in Sessions \ {s} : Midway(t)' = Midway(t)
    BY <2>1 DEF StepsTypeOK, Midway
  <2>3. pc'[s] = "select"
    BY <2>1 DEF StepsTypeOK
  <2> QED BY <2>1, <2>2, <2>3 DEF LoneInv
<1>4. ASSUME NEW s \in Sessions, Select(s)
      PROVE  LoneInv'
  <2>1. /\ pc[s] = "select" /\ pc' = [pc EXCEPT ![s] = "write"]
        /\ found' = [found EXCEPT ![s] = status]
        /\ UNCHANGED <<status, run_status, alone, settled>>
    BY <1>4 DEF Select, Goto, table, history
  <2>2. \A t \in Sessions :
          /\ Midway(t)' = Midway(t)
          /\ pc'[t] = "write" =>
               \/ pc[t] = "write" /\ found'[t] = found[t]
               \/ found'[t] = status
    BY <2>1 DEF StepsTypeOK, Midway
  <2> QED BY <2>1, <2>2 DEF LoneInv
<1>5. ASSUME NEW s \in Sessions, Write(s)
      PROVE  LoneInv'
  <2>1. /\ pc[s] = "write" /\ pc' = [pc EXCEPT ![s] = "idle"]
        /\ run_status' = Aggregate(found[s]) /\ settled' = alone[s]
        /\ alone' = [alone EXCEPT ![s] = FALSE]
        /\ found' = [found EXCEPT ![s] = Pending] /\ status' = status
    BY <1>5 DEF Write, Discard, Goto
  <2>2. \A t \in Sessions \ {s} :
          /\ Midway(t)' = Midway(t) /\ alone'[t] = alone[t]
          /\ pc'[t] = pc[t] /\ found'[t] = found[t]
    BY <2>1 DEF StepsTypeOK, Midway
  <2>3. ~Midway(s)' /\ ~alone'[s]
    BY <2>1 DEF StepsTypeOK, Midway
  <2>4. settled' => run_status' = Aggregate(status)' /\ \A t \in Sessions : ~Midway(t)'
    BY <2>1, <2>2, <2>3 DEF LoneInv
  <2>5. ASSUME NEW t \in Sessions, alone'[t]
        PROVE  /\ \A u \in Sessions \ {t} : ~Midway(u)'
               /\ pc'[t] = "write" => found'[t] = status'
    BY <2>1, <2>2, <2>3, <2>5 DEF LoneInv
  <2> QED BY <2>4, <2>5 DEF LoneInv
<1>6. ASSUME NEW s \in Sessions, StepCrash(s)
      PROVE  LoneInv'
  <2>1. /\ pc' = [pc EXCEPT ![s] = "idle"]
        /\ alone' = [alone EXCEPT ![s] = FALSE]
        /\ found' = [found EXCEPT ![s] = Pending]
        /\ UNCHANGED <<status, run_status, settled>>
    BY <1>6 DEF StepCrash, Discard, Goto, table
  <2>2. \A t \in Sessions \ {s} :
          /\ Midway(t)' = Midway(t) /\ alone'[t] = alone[t]
          /\ pc'[t] = pc[t] /\ found'[t] = found[t]
    BY <2>1 DEF StepsTypeOK, Midway
  <2>3. ~Midway(s)' /\ ~alone'[s]
    BY <2>1 DEF StepsTypeOK, Midway
  <2> QED BY <2>1, <2>2, <2>3 DEF LoneInv
<1> QED BY <1>1, <1>2, <1>3, <1>4, <1>5, <1>6 DEF StepsNext

\* An update that no other update overlaps leaves the status of the run in
\* agreement with its steps, whatever races and crashes came before.
THEOREM LoneUpdateSettles == StepsSpec => []LoneUpdateHeals
<1>1. StepsInit => LoneInv
  BY AggregatePending DEF StepsInit, LoneInv, Midway
<1>2. LoneInv => LoneUpdateHeals
  BY DEF LoneInv, LoneUpdateHeals
<1> QED BY <1>1, <1>2, LoneNext, StepsTypeCorrect, PTL DEF StepsSpec

-----------------------------------------------------------------------------
(* QuarantinedMemory                                                       *)

CallType ==
  [at : {"idle", "update", "select", "answer", "answered", "looked"},
   tool : {"gateway", "context", "pull", "approve"}, about : SUBSET Items, id : Nat,
   said : {"nothing", "quarantined", "trusted"}, grade : Grade, moved : BOOLEAN]

\* No two items have the same id.
IdsAreUnique == \A i, j \in DOMAIN items : items[i].id = items[j].id => i = j

\* The id that somebody has looked up was given away already, and no item but
\* the one looked at has it.
IdMeansItem ==
  \A w \in MemCallers : caller[w].at = "looked" =>
    /\ caller[w].id <= lastId
    /\ RowsWithId(caller[w].id) \subseteq caller[w].about

\* A caller that is about to change the row of a remote item does so with a
\* grade that puts it in quarantine.
RemoteUpdatesDoubt ==
  \A w \in MemCallers : caller[w].at = "update" /\ caller[w].about \cap RemoteItems # {} =>
    Doubtful(caller[w].grade)

MemShape ==
  /\ MemTypeOK
  /\ items \in [DOMAIN items -> Row]

FitShape == MemShape /\ IdsAreUnique /\ IdMeansItem /\ RemoteUpdatesDoubt /\ VisibleIsFit

-----------------------------------------------------------------------------
(* Rows and calls.                                                         *)

LEMMA RemoteGradeType == RemoteGrade \in Grade /\ Doubtful(RemoteGrade)
  BY DEF RemoteGrade, Grade, Doubtful

LEMMA RowType ==
  ASSUME NEW g \in Grade, NEW id \in Nat
  PROVE  /\ Doubtful(g) \in BOOLEAN
         /\ [id |-> id, grade |-> g, quarantined |-> Doubtful(g)] \in Row
<1>1. Doubtful(g) \in BOOLEAN
  BY DEF Doubtful
<1> QED BY <1>1 DEF Row

\* The row of an item that has been approved.
LEMMA ApprovedRow ==
  ASSUME NEW row \in Row
  PROVE  LET new == [row EXCEPT !.grade = [@ EXCEPT !.low = FALSE], !.quarantined = FALSE]
         IN /\ new \in Row /\ new.id = row.id
            /\ ~new.quarantined /\ ~new.grade.low
            /\ new.grade.sensitive = row.grade.sensitive /\ new.grade.unsure = row.grade.unsure
<1> DEFINE grade == [row.grade EXCEPT !.low = FALSE]
           new == [row EXCEPT !.grade = [@ EXCEPT !.low = FALSE], !.quarantined = FALSE]
<1>1. row.grade \in Grade
  BY DEF Row
<1>2. /\ grade \in Grade /\ ~grade.low
      /\ grade.sensitive = row.grade.sensitive /\ grade.unsure = row.grade.unsure
  BY <1>1 DEF Grade
<1>3. new = [row EXCEPT !.grade = grade, !.quarantined = FALSE]
  OBVIOUS
<1> HIDE DEF grade, new
<1>4. new \in Row /\ new.id = row.id /\ new.grade = grade /\ ~new.quarantined
  BY <1>2, <1>3 DEF Row
<1> QED BY <1>2, <1>4 DEF new

LEMMA NoCallType == NoCall \in CallType
  BY RemoteGradeType DEF NoCall, CallType

\* The same call, whether or not somebody has overtaken it.
SameCall(c, d) == c.at = d.at /\ c.id = d.id /\ c.about = d.about /\ c.grade = d.grade

\* Marking the others' calls as overtaken leaves them what they are.
LEMMA MarkedType ==
  ASSUME NEW c \in CallType, NEW b
  PROVE  /\ [c EXCEPT !.moved = TRUE] \in CallType /\ SameCall([c EXCEPT !.moved = TRUE], c)
         /\ [c EXCEPT !.moved = @ \/ b] \in CallType /\ SameCall([c EXCEPT !.moved = @ \/ b], c)
<1>1. \A m \in BOOLEAN : [c EXCEPT !.moved = m] \in CallType /\ SameCall([c EXCEPT !.moved = m], c)
  BY DEF CallType, SameCall
<1>2. (c.moved \/ b) \in BOOLEAN
  OBVIOUS
<1> QED BY <1>1, <1>2

LEMMA MovedCalls ==
  ASSUME MemShape, NEW w \in MemCallers, NEW i
  PROVE  /\ Moved(w, i) \in [MemCallers -> CallType]
         /\ \A v \in MemCallers : SameCall(Moved(w, i)[v], caller[v])
<1>1. \A v \in MemCallers : caller[v] \in CallType
  BY DEF MemShape, MemTypeOK, CallType
<1>2. \A v \in MemCallers : Moved(w, i)[v] = caller[v] \/ Moved(w, i)[v] = [caller[v] EXCEPT !.moved = TRUE]
  BY DEF Moved
<1>3. \A v \in MemCallers : Moved(w, i)[v] \in CallType
  BY <1>1, <1>2, MarkedType
<1>4. \A v \in MemCallers : SameCall(Moved(w, i)[v], caller[v])
  BY <1>1, <1>2, MarkedType DEF SameCall
<1> QED BY <1>3, <1>4 DEF Moved

-----------------------------------------------------------------------------
(* Types.                                                                  *)

\* What the rest of a step has to show when the table is all right.
ItemsTyped ==
  /\ items' \in [DOMAIN items' -> Row] /\ DOMAIN items' \subseteq Items
  /\ \A i \in DOMAIN items' : items'[i].id \in 1..lastId'
  /\ lastId' \in Nat
  /\ caller' \in [MemCallers -> CallType] /\ approved' \subseteq Items

LEMMA InsertTyped ==
  ASSUME MemShape, NEW w \in MemCallers, NEW i \in Items, NEW g \in Grade,
         NEW tool \in {"gateway", "context", "pull"}, Insert(w, i, g, tool)
  PROVE  ItemsTyped
<1> USE DEF MemShape, MemTypeOK
<1> DEFINE started == [NoCall EXCEPT !.tool = tool, !.about = {i}, !.grade = g]
<1>1. started \in CallType
  BY NoCallType DEF CallType, NoCall
<1>2. caller \in [MemCallers -> CallType]
  BY DEF CallType
<1>3. CASE Stored(i)
  <2>1. [started EXCEPT !.at = "update"] \in CallType
    BY <1>1 DEF CallType
  <2>2. caller' = [caller EXCEPT ![w] = [started EXCEPT !.at = "update"]] /\ UNCHANGED <<items, lastId, approved>>
    BY <1>3 DEF Insert, InsertWithId
  <2> QED BY <1>2, <2>1, <2>2 DEF ItemsTyped
<1>4. CASE ~Stored(i)
  <2> DEFINE done == [started EXCEPT !.at = "answer", !.id = lastId + 1]
  <2>1. done \in CallType
    <3>1. \A c \in CallType, n \in Nat : [c EXCEPT !.at = "answer", !.id = n] \in CallType
      BY DEF CallType
    <3>2. lastId + 1 \in Nat
      OBVIOUS
    <3> HIDE DEF started
    <3> QED BY <1>1, <3>1, <3>2
  <2>2. caller' = [Moved(w, i) EXCEPT ![w] = done] /\ items' = WithRow(i, lastId + 1, g)
        /\ lastId' = lastId + 1 /\ approved' = approved \ {i}
    BY <1>4 DEF Insert, InsertWithId
  <2>3. caller' \in [MemCallers -> CallType]
    BY <2>1, <2>2, MovedCalls
  <2>4. DOMAIN items' = DOMAIN items \cup {i}
    BY <2>2 DEF WithRow
  <2>5. [id |-> lastId + 1, grade |-> g, quarantined |-> Doubtful(g)] \in Row
    BY RowType
  <2>6. \A j \in DOMAIN items' : items'[j] \in Row /\ items'[j].id \in 1..lastId + 1
    BY <2>2, <2>4, <2>5 DEF WithRow
  <2>7. items' \in [DOMAIN items' -> Row]
    <3> DEFINE row(j) == items'[j]
    <3>1. items' = [j \in DOMAIN items' |-> row(j)]
      BY <2>2 DEF WithRow
    <3>2. \A j \in DOMAIN items' : row(j) \in Row
      BY <2>6
    <3> HIDE DEF row
    <3> QED BY <3>1, <3>2
  <2> QED BY <2>2, <2>3, <2>4, <2>6, <2>7 DEF ItemsTyped
<1> QED BY <1>3, <1>4

LEMMA StepTyped ==
  ASSUME MemShape, MemNext
  PROVE  ItemsTyped
<1> USE DEF MemShape, MemTypeOK
<1>0. caller \in [MemCallers -> CallType]
  BY DEF CallType
<1>1. ASSUME NEW w \in MemCallers, NEW i \in LocalItems, NEW g \in MemGrades, Remember(w, i, g)
      PROVE  ItemsTyped
  BY <1>1, InsertTyped, MemAssumption DEF Remember, Items
<1>2. ASSUME NEW w \in MemCallers, NEW i \in RemoteItems, Pull(w, i)
      PROVE  ItemsTyped
  BY <1>2, InsertTyped, RemoteGradeType DEF Pull, Items
<1>3. ASSUME NEW w \in MemCallers, Update(w)
      PROVE  ItemsTyped
  <2>1. PICK i \in caller[w].about :
          IF Stored(i)
            THEN /\ items' = [items EXCEPT ![i].grade = caller[w].grade,
                                           ![i].quarantined = Doubtful(caller[w].grade)]
                 /\ caller' = [Moved(w, i) EXCEPT ![w].at = "select"]
                 /\ approved' = approved \ {i}
            ELSE caller' = [caller EXCEPT ![w].at = "select", ![w].moved = TRUE]
                 /\ UNCHANGED <<items, approved>>
    BY <1>3 DEF Update
  <2>2. UNCHANGED lastId
    BY <1>3 DEF Update
  <2>3. CASE Stored(i)
    <3>1. Doubtful(caller[w].grade) \in BOOLEAN /\ caller[w].grade \in Grade
      BY <1>0, RowType DEF CallType, Doubtful
    <3>2. items[i] \in Row
      BY <2>3 DEF Stored
    <3>3. \A d \in BOOLEAN :
            /\ [items[i] EXCEPT !.grade = caller[w].grade, !.quarantined = d] \in Row
            /\ [items[i] EXCEPT !.grade = caller[w].grade, !.quarantined = d].id = items[i].id
      BY <3>1, <3>2 DEF Row
    <3>4. items' = [items EXCEPT ![i] = [items[i] EXCEPT !.grade = caller[w].grade,
                                                         !.quarantined = Doubtful(caller[w].grade)]]
      BY <2>1, <2>3
    <3>5. DOMAIN items' = DOMAIN items /\ items' \in [DOMAIN items' -> Row]
          /\ \A j \in DOMAIN items' : items'[j].id = items[j].id
      BY <2>3, <3>1, <3>3, <3>4 DEF Stored
    <3>6. Moved(w, i)[w] \in CallType /\ Moved(w, i) \in [MemCallers -> CallType]
      BY MovedCalls
    <3>7. [Moved(w, i)[w] EXCEPT !.at = "select"] \in CallType
      BY <3>6 DEF CallType
    <3>8. caller' \in [MemCallers -> CallType]
      BY <2>1, <2>3, <3>6, <3>7
    <3> QED BY <2>1, <2>2, <2>3, <3>5, <3>8 DEF ItemsTyped
  <2>4. CASE ~Stored(i)
    <3>1. [caller[w] EXCEPT !.at = "select", !.moved = TRUE] \in CallType
      BY <1>0 DEF CallType
    <3> QED BY <1>0, <2>1, <2>2, <2>4, <3>1 DEF ItemsTyped
  <2> QED BY <2>3, <2>4
<1>4. ASSUME NEW w \in MemCallers, SelectId(w)
      PROVE  ItemsTyped
  <2>1. PICK i \in caller[w].about :
          caller' = [caller EXCEPT ![w] = IF Stored(i) THEN [@ EXCEPT !.at = "answer", !.id = items[i].id]
                                          ELSE NoCall]
    BY <1>4 DEF SelectId
  <2>2. Stored(i) => items[i].id \in Nat
    BY DEF Stored, Row
  <2>3. \A n \in Nat : [caller[w] EXCEPT !.at = "answer", !.id = n] \in CallType
    BY <1>0 DEF CallType
  <2>4. caller' \in [MemCallers -> CallType]
    BY <1>0, <2>1, <2>2, <2>3, NoCallType
  <2> QED BY <1>4, <2>4 DEF SelectId, ItemsTyped
<1>5. ASSUME NEW w \in MemCallers, Answer(w)
      PROVE  ItemsTyped
  <2>1. PICK said \in {"quarantined", "trusted"} :
          caller' = [caller EXCEPT ![w].at = "answered", ![w].said = said]
    BY <1>5 DEF Answer, Says
  <2>2. [caller[w] EXCEPT !.at = "answered", !.said = said] \in CallType
    BY <1>0 DEF CallType
  <2> QED BY <1>0, <1>5, <2>1, <2>2 DEF Answer, ItemsTyped
<1>6. ASSUME NEW w \in MemCallers, NEW i \in Items, LookAt(w, i)
      PROVE  ItemsTyped
  <2>1. items[i].id \in Nat
    BY <1>6 DEF LookAt, Stored, Row
  <2>2. [NoCall EXCEPT !.at = "looked", !.about = {i}, !.id = items[i].id] \in CallType
    BY <2>1, NoCallType DEF CallType, NoCall
  <2> QED BY <1>0, <1>6, <2>2 DEF LookAt, ItemsTyped
<1>7. ASSUME NEW w \in MemCallers, NEW rows, ApproveRows(w, rows)
      PROVE  ItemsTyped
  <2>1. \A i \in DOMAIN items :
          /\ [items[i] EXCEPT !.grade = [@ EXCEPT !.low = FALSE], !.quarantined = FALSE] \in Row
          /\ [items[i] EXCEPT !.grade = [@ EXCEPT !.low = FALSE], !.quarantined = FALSE].id = items[i].id
    BY ApprovedRow
  <2>2. items' = [i \in DOMAIN items |->
          IF i \in rows THEN [items[i] EXCEPT !.grade = [@ EXCEPT !.low = FALSE], !.quarantined = FALSE] ELSE items[i]]
    BY <1>7 DEF ApproveRows
  <2>3. DOMAIN items' = DOMAIN items /\ items' \in [DOMAIN items' -> Row]
        /\ \A i \in DOMAIN items' : items'[i].id = items[i].id
    BY <2>1, <2>2
  <2>4. CASE rows = {}
    BY <1>0, <1>7, <2>3, <2>4, NoCallType DEF ApproveRows, ItemsTyped
  <2>5. CASE rows # {}
    <3>1. caller' = [v \in MemCallers |->
                 IF v = w THEN [caller[w] EXCEPT !.at = "answered", !.tool = "approve",
                                                 !.said = "trusted", !.moved = FALSE]
                 ELSE [caller[v] EXCEPT !.moved = @ \/ rows \cap caller[v].about # {}]]
          /\ approved' = approved \cup caller[w].about /\ lastId' = lastId
      BY <1>7, <2>5 DEF ApproveRows
    <3>2. [caller[w] EXCEPT !.at = "answered", !.tool = "approve", !.said = "trusted", !.moved = FALSE] \in CallType
      BY <1>0 DEF CallType
    <3>3. \A v \in MemCallers : [caller[v] EXCEPT !.moved = @ \/ rows \cap caller[v].about # {}] \in CallType
      BY <1>0, MarkedType
    <3>4. caller' \in [MemCallers -> CallType]
      BY <3>1, <3>2, <3>3
    <3>5. caller[w].about \subseteq Items
      BY <1>0 DEF CallType
    <3> QED BY <2>3, <3>1, <3>4, <3>5 DEF ItemsTyped
  <2> QED BY <2>4, <2>5
<1>8. ASSUME NEW w \in MemCallers, Forget(w)
      PROVE  ItemsTyped
  <2> DEFINE rows == RowsWithId(caller[w].id)
  <2>1. items' = [i \in DOMAIN items \ rows |-> items[i]] /\ lastId' = lastId /\ approved' = approved
        /\ caller' = [v \in MemCallers |->
             IF v = w THEN NoCall
             ELSE [caller[v] EXCEPT !.moved = @ \/ rows \cap caller[v].about # {}]]
    BY <1>8 DEF Forget
  <2> HIDE DEF rows
  <2>2. \A v \in MemCallers : [caller[v] EXCEPT !.moved = @ \/ rows \cap caller[v].about # {}] \in CallType
    BY <1>0, MarkedType
  <2>3. caller' \in [MemCallers -> CallType]
    BY <2>1, <2>2, NoCallType
  <2>4. items' \in [DOMAIN items' -> Row] /\ DOMAIN items' \subseteq DOMAIN items
        /\ \A i \in DOMAIN items' : items'[i] = items[i]
    BY <2>1
  <2> QED BY <2>1, <2>3, <2>4 DEF ItemsTyped
<1> QED BY <1>1, <1>2, <1>3, <1>4, <1>5, <1>6, <1>7, <1>8 DEF MemNext, Approve

LEMMA CallsStep ==
  ASSUME MemShape, MemNext
  PROVE  memCalls' \in 0..MaxMemCalls
<1>1. memCalls' = memCalls \/ CallMade
  BY DEF MemNext, Remember, Pull, Insert, InsertWithId, Update, SelectId, Answer, LookAt, Approve,
     ApproveRows, Forget
<1> QED BY <1>1, MemAssumption DEF CallMade, MemShape, MemTypeOK

LEMMA MemShapeInit == MemInit => MemShape
<1> SUFFICES ASSUME MemInit PROVE MemShape
  OBVIOUS
<1>1. DOMAIN << >> = {} /\ << >> \in [{} -> Row]
  OBVIOUS
<1>2. caller \in [MemCallers -> CallType]
  BY NoCallType DEF MemInit
<1> QED BY <1>1, <1>2, MemAssumption DEF MemInit, MemShape, MemTypeOK, CallType

LEMMA MemShapeNext == MemShape /\ [MemNext]_memVars => MemShape'
<1> SUFFICES ASSUME MemShape, [MemNext]_memVars PROVE MemShape'
  OBVIOUS
<1>1. CASE MemNext
  <2>1. ItemsTyped
    BY <1>1, StepTyped
  <2>2. \A i \in DOMAIN items' : items'[i] \in Row
    BY <2>1 DEF ItemsTyped
  <2> QED BY <1>1, <2>1, <2>2, CallsStep DEF ItemsTyped, CallType, MemShape, MemTypeOK
<1>2. CASE UNCHANGED memVars
  BY <1>2 DEF memVars, MemShape, MemTypeOK
<1> QED BY <1>1, <1>2

\* The variables of QuarantinedMemory keep their types.
THEOREM MemoryTypeCorrect == MemSpec => []MemTypeOK
<1>1. MemShape => MemTypeOK
  BY DEF MemShape
<1> QED BY <1>1, MemShapeInit, MemShapeNext, PTL DEF MemSpec

-----------------------------------------------------------------------------
(* What a step does to the rows, in the words of the next invariants.      *)

\* The row of j is as it was, or was written with a grade that came with the
\* call, or approved by one who had looked at j.
RowFrom(j) ==
  \/ j \in DOMAIN items /\ items'[j] = items[j] /\ (j \in approved => j \in approved')
  \/ \E g \in Grade :
       /\ items'[j].grade = g /\ items'[j].quarantined = Doubtful(g)
       /\ j \in RemoteItems => Doubtful(g)
  \/ /\ j \in DOMAIN items /\ ~items[j].grade.sensitive /\ ~items'[j].grade.sensitive
     /\ ~items'[j].grade.low /\ j \in approved'

\* The ids: no step changes one, and a new row has the next one.
IdFrom(j) ==
  \/ j \in DOMAIN items /\ items'[j].id = items[j].id
  \/ j \notin DOMAIN items /\ items'[j].id = lastId + 1 /\ lastId' = lastId + 1
     /\ DOMAIN items' = DOMAIN items \cup {j}

RowsFrom == (\A j \in DOMAIN items' : RowFrom(j) /\ IdFrom(j)) /\ lastId <= lastId'

LEMMA InsertRows ==
  ASSUME FitShape, NEW w \in MemCallers, NEW i \in Items, NEW g \in Grade,
         NEW tool \in {"gateway", "context", "pull"}, Insert(w, i, g, tool),
         i \in RemoteItems => Doubtful(g)
  PROVE  RowsFrom
<1> USE DEF FitShape, MemShape, MemTypeOK
<1>1. CASE Stored(i)
  BY <1>1 DEF Insert, InsertWithId, RowsFrom, RowFrom, IdFrom
<1>2. CASE ~Stored(i)
  <2>1. items' = WithRow(i, lastId + 1, g) /\ lastId' = lastId + 1 /\ approved' = approved \ {i}
    BY <1>2 DEF Insert, InsertWithId
  <2>2. DOMAIN items' = DOMAIN items \cup {i}
    BY <2>1 DEF WithRow
  <2>3. \A j \in DOMAIN items : items'[j] = items[j] /\ (j \in approved => j \in approved')
    BY <1>2, <2>1 DEF WithRow, Stored
  <2>4. items'[i] = [id |-> lastId + 1, grade |-> g, quarantined |-> Doubtful(g)]
    BY <2>1 DEF WithRow
  <2>5. items'[i].id = lastId + 1 /\ items'[i].grade = g /\ items'[i].quarantined = Doubtful(g)
    BY <2>4
  <2>6. RowFrom(i) /\ IdFrom(i)
    BY <1>2, <2>1, <2>2, <2>5 DEF RowFrom, IdFrom, Stored
  <2>7. \A j \in DOMAIN items : RowFrom(j) /\ IdFrom(j)
    BY <2>3 DEF RowFrom, IdFrom
  <2> QED BY <2>1, <2>2, <2>6, <2>7 DEF RowsFrom
<1> QED BY <1>1, <1>2

LEMMA StepRows ==
  ASSUME FitShape, MemNext
  PROVE  RowsFrom
<1> USE DEF FitShape, MemShape, MemTypeOK
<1>1. ASSUME NEW w \in MemCallers, NEW i \in LocalItems, NEW g \in MemGrades, Remember(w, i, g)
      PROVE  RowsFrom
  <2>1. i \in Items /\ i \notin RemoteItems /\ g \in Grade
    BY MemAssumption DEF Items
  <2> QED BY <1>1, <2>1, InsertRows DEF Remember
<1>2. ASSUME NEW w \in MemCallers, NEW i \in RemoteItems, Pull(w, i)
      PROVE  RowsFrom
  <2>1. i \in Items
    BY DEF Items
  <2> QED BY <1>2, <2>1, RemoteGradeType, InsertRows DEF Pull
<1>3. CASE UNCHANGED <<items, lastId, approved>>
  BY <1>3 DEF RowsFrom, RowFrom, IdFrom
<1>4. ASSUME NEW w \in MemCallers, Update(w)
      PROVE  RowsFrom
  <2>1. PICK i \in caller[w].about :
          IF Stored(i)
            THEN /\ items' = [items EXCEPT ![i].grade = caller[w].grade,
                                           ![i].quarantined = Doubtful(caller[w].grade)]
                 /\ approved' = approved \ {i}
            ELSE UNCHANGED <<items, approved>>
    BY <1>4 DEF Update
  <2>2. UNCHANGED lastId /\ caller[w].at = "update"
    BY <1>4 DEF Update
  <2>3. CASE ~Stored(i)
    BY <1>3, <2>1, <2>2, <2>3
  <2>4. CASE Stored(i)
    <3> DEFINE g == caller[w].grade
    <3>1. g \in Grade /\ Doubtful(g) \in BOOLEAN /\ (i \in RemoteItems => Doubtful(g))
      BY <2>2, RowType DEF RemoteUpdatesDoubt
    <3>2. items[i] \in Row
      BY <2>4 DEF Stored
    <3>3. items' = [items EXCEPT ![i] = [items[i] EXCEPT !.grade = g, !.quarantined = Doubtful(g)]]
      BY <2>1, <2>4
    <3> HIDE DEF g
    <3>4. \A d \in BOOLEAN : LET new == [items[i] EXCEPT !.grade = g, !.quarantined = d]
                             IN new.id = items[i].id /\ new.grade = g /\ new.quarantined = d
      BY <3>1, <3>2 DEF Row
    <3>5. items'[i].id = items[i].id /\ items'[i].grade = g /\ items'[i].quarantined = Doubtful(g)
      BY <2>4, <3>1, <3>3, <3>4 DEF Stored
    <3>6. RowFrom(i) /\ IdFrom(i)
      BY <2>4, <3>1, <3>5 DEF RowFrom, IdFrom, Stored
    <3>7. \A j \in DOMAIN items : j # i => RowFrom(j) /\ IdFrom(j)
      BY <2>1, <2>4, <3>3 DEF RowFrom, IdFrom
    <3>8. DOMAIN items' = DOMAIN items
      BY <3>3
    <3> QED BY <2>2, <3>6, <3>7, <3>8 DEF RowsFrom
  <2> QED BY <2>3, <2>4
<1>5. ASSUME NEW w \in MemCallers, Approve(w)
      PROVE  RowsFrom
  <2> DEFINE rows == {i \in RowsWithId(caller[w].id) : items[i].quarantined /\ ~items[i].grade.sensitive}
             new(i) == [items[i] EXCEPT !.grade = [@ EXCEPT !.low = FALSE], !.quarantined = FALSE]
  <2>1. /\ items' = [i \in DOMAIN items |-> IF i \in rows THEN new(i) ELSE items[i]]
        /\ lastId' = lastId /\ rows \subseteq caller[w].about
        /\ approved \subseteq approved' /\ (rows # {} => caller[w].about \subseteq approved')
    BY <1>5 DEF Approve, ApproveRows, IdMeansItem
  <2>2. \A i \in DOMAIN items :
          new(i).id = items[i].id /\ ~new(i).grade.low /\ new(i).grade.sensitive = items[i].grade.sensitive
    BY ApprovedRow
  <2>3. \A i \in rows : ~items[i].grade.sensitive /\ i \in approved'
    BY <2>1
  <2> HIDE DEF rows, new
  <2>4. \A i \in DOMAIN items : RowFrom(i) /\ IdFrom(i)
    BY <2>1, <2>2, <2>3 DEF RowFrom, IdFrom
  <2> QED BY <2>1, <2>4 DEF RowsFrom
<1>6. ASSUME NEW w \in MemCallers, Forget(w)
      PROVE  RowsFrom
  <2>1. DOMAIN items' \subseteq DOMAIN items /\ (\A i \in DOMAIN items' : items'[i] = items[i])
        /\ UNCHANGED <<lastId, approved>>
    BY <1>6 DEF Forget
  <2> QED BY <2>1 DEF RowsFrom, RowFrom, IdFrom
<1>7. CASE \E w \in MemCallers : \/ SelectId(w) \/ Answer(w)
                                 \/ \E i \in Items : LookAt(w, i)
  BY <1>3, <1>7 DEF SelectId, Answer, LookAt
<1> QED BY <1>1, <1>2, <1>4, <1>5, <1>6, <1>7 DEF MemNext

\* What a call may have come to.
CallFrom(w) ==
  /\ caller'[w].at = "looked" =>
       \/ caller[w].at = "looked" /\ caller'[w].id = caller[w].id /\ caller'[w].about = caller[w].about
       \/ \E i \in DOMAIN items :
            /\ caller'[w].id = items[i].id /\ caller'[w].about = {i}
            /\ UNCHANGED <<items, lastId>>
  /\ caller'[w].at = "update" =>
       \/ caller[w].at = "update" /\ caller'[w].about = caller[w].about /\ caller'[w].grade = caller[w].grade
       \/ caller'[w].about \cap RemoteItems = {}
       \/ Doubtful(caller'[w].grade)

LEMMA InsertCalls ==
  ASSUME FitShape, NEW w \in MemCallers, NEW i \in Items, NEW g \in Grade,
         NEW tool \in {"gateway", "context", "pull"}, Insert(w, i, g, tool),
         i \in RemoteItems => Doubtful(g)
  PROVE  \A v \in MemCallers : CallFrom(v)
<1> USE DEF FitShape, MemShape
<1> DEFINE started == [NoCall EXCEPT !.tool = tool, !.about = {i}, !.grade = g]
<1>0. caller \in [MemCallers -> CallType]
  BY DEF MemTypeOK, CallType
<1>1. CASE Stored(i)
  <2>1. caller' = [caller EXCEPT ![w] = [started EXCEPT !.at = "update"]]
    BY <1>1 DEF Insert, InsertWithId
  <2>2. LET c == [started EXCEPT !.at = "update"] IN c.at = "update" /\ c.about = {i} /\ c.grade = g
    BY DEF NoCall
  <2> HIDE DEF started
  <2> QED BY <1>0, <2>1, <2>2 DEF CallFrom
<1>2. CASE ~Stored(i)
  <2> DEFINE done == [started EXCEPT !.at = "answer", !.id = lastId + 1]
  <2>1. caller' = [Moved(w, i) EXCEPT ![w] = done]
    BY <1>2 DEF Insert, InsertWithId
  <2>2. done.at = "answer"
    BY DEF NoCall
  <2> HIDE DEF done
  <2>3. \A v \in MemCallers : v # w => caller'[v] = Moved(w, i)[v]
    BY <2>1, MovedCalls
  <2>4. caller'[w].at = "answer"
    BY <2>1, <2>2, MovedCalls
  <2>5. \A v \in MemCallers : v # w => SameCall(caller'[v], caller[v])
    BY <2>3, MovedCalls
  <2> QED BY <2>4, <2>5 DEF CallFrom, SameCall
<1> QED BY <1>1, <1>2

LEMMA StepCalls ==
  ASSUME FitShape, MemNext
  PROVE  \A v \in MemCallers : CallFrom(v)
<1> USE DEF FitShape, MemShape
<1>0. caller \in [MemCallers -> CallType]
  BY DEF MemTypeOK, CallType
<1>1. ASSUME NEW w \in MemCallers, NEW i \in LocalItems, NEW g \in MemGrades, Remember(w, i, g)
      PROVE  \A v \in MemCallers : CallFrom(v)
  <2>1. i \in Items /\ i \notin RemoteItems /\ g \in Grade
    BY MemAssumption DEF Items
  <2> QED BY <1>1, <2>1, InsertCalls DEF Remember
<1>2. ASSUME NEW w \in MemCallers, NEW i \in RemoteItems, Pull(w, i)
      PROVE  \A v \in MemCallers : CallFrom(v)
  <2>1. i \in Items
    BY DEF Items
  <2> QED BY <1>2, <2>1, RemoteGradeType, InsertCalls DEF Pull
<1>3. \A v \in MemCallers : SameCall(caller'[v], caller[v]) => CallFrom(v)
  BY DEF SameCall, CallFrom
<1>4. \A v \in MemCallers : SameCall(caller[v], caller[v])
  BY DEF SameCall
<1>5. ASSUME NEW w \in MemCallers, Update(w)
      PROVE  \A v \in MemCallers : CallFrom(v)
  <2>1. PICK i \in caller[w].about :
          \/ caller' = [Moved(w, i) EXCEPT ![w].at = "select"]
          \/ caller' = [caller EXCEPT ![w].at = "select", ![w].moved = TRUE]
    BY <1>5 DEF Update
  <2>2. CASE caller' = [Moved(w, i) EXCEPT ![w].at = "select"]
    <3>1. Moved(w, i)[w] \in CallType /\ caller' = [Moved(w, i) EXCEPT ![w] = [Moved(w, i)[w] EXCEPT !.at = "select"]]
      BY <2>2, MovedCalls
    <3>2. [Moved(w, i)[w] EXCEPT !.at = "select"].at = "select"
      BY <3>1 DEF CallType
    <3>3. caller'[w].at = "select" /\ \A v \in MemCallers : v # w => caller'[v] = Moved(w, i)[v]
      BY <3>1, <3>2, MovedCalls
    <3> QED BY <1>3, <3>3, MovedCalls DEF CallFrom
  <2>3. CASE caller' = [caller EXCEPT ![w].at = "select", ![w].moved = TRUE]
    <3>1. caller'[w].at = "select" /\ \A v \in MemCallers : v # w => caller'[v] = caller[v]
      BY <1>0, <2>3 DEF CallType
    <3> QED BY <1>3, <1>4, <3>1 DEF CallFrom
  <2> QED BY <2>1, <2>2, <2>3
<1>6. ASSUME NEW w \in MemCallers, SelectId(w) \/ Answer(w)
      PROVE  \A v \in MemCallers : CallFrom(v)
  <2>1. PICK new : caller' = [caller EXCEPT ![w] = new] /\ new.at \in {"answer", "answered", "idle"}
    <3>1. caller[w] \in CallType
      BY <1>0
    <3>2. \A n : [caller[w] EXCEPT !.at = "answer", !.id = n].at = "answer"
      BY <3>1 DEF CallType
    <3>3. \A n : [caller[w] EXCEPT !.at = "answered", !.said = n].at = "answered"
      BY <3>1 DEF CallType
    <3>4. CASE SelectId(w)
      <4>1. PICK i : caller' = [caller EXCEPT ![w] = IF Stored(i) THEN [@ EXCEPT !.at = "answer", !.id = items[i].id]
                                                    ELSE NoCall]
        BY <3>4 DEF SelectId
      <4>2. NoCall.at = "idle"
        BY DEF NoCall
      <4>3. CASE Stored(i)
        BY <3>2, <4>1, <4>3
      <4>4. CASE ~Stored(i)
        BY <4>1, <4>2, <4>4
      <4> QED BY <4>3, <4>4
    <3>5. CASE Answer(w)
      <4>1. PICK said : caller' = [caller EXCEPT ![w] = [@ EXCEPT !.at = "answered", !.said = said]]
        BY <3>5 DEF Answer
      <4> QED BY <3>3, <4>1
    <3> QED BY <1>6, <3>4, <3>5
  <2>2. caller'[w].at \notin {"looked", "update"} /\ \A v \in MemCallers : v # w => caller'[v] = caller[v]
    BY <1>0, <2>1
  <2> QED BY <1>3, <1>4, <2>2 DEF CallFrom
<1>7. ASSUME NEW w \in MemCallers, NEW i \in Items, LookAt(w, i)
      PROVE  \A v \in MemCallers : CallFrom(v)
  <2>1. caller' = [caller EXCEPT ![w] = [NoCall EXCEPT !.at = "looked", !.about = {i}, !.id = items[i].id]]
        /\ i \in DOMAIN items /\ UNCHANGED <<items, lastId>>
    BY <1>7 DEF LookAt, Stored
  <2>2. /\ \A v \in MemCallers : v # w => caller'[v] = caller[v]
        /\ caller'[w].at = "looked" /\ caller'[w].about = {i} /\ caller'[w].id = items[i].id
    BY <1>0, <2>1 DEF NoCall
  <2> QED BY <2>1, <2>2 DEF CallFrom
<1>8. ASSUME NEW w \in MemCallers, Approve(w) \/ Forget(w)
      PROVE  \A v \in MemCallers : CallFrom(v)
  <2> DEFINE Ended(new, rows) ==
        [v \in MemCallers |->
           IF v = w THEN new ELSE [caller[v] EXCEPT !.moved = @ \/ rows \cap caller[v].about # {}]]
             said == [caller[w] EXCEPT !.at = "answered", !.tool = "approve", !.said = "trusted",
                                       !.moved = FALSE]
  <2>1. ASSUME NEW new, new.at \in {"answered", "idle"}, NEW rows,
               caller' = Ended(new, rows) \/ caller' = [caller EXCEPT ![w] = new]
        PROVE  \A v \in MemCallers : CallFrom(v)
    <3>1. \A v \in MemCallers : SameCall([caller[v] EXCEPT !.moved = @ \/ rows \cap caller[v].about # {}], caller[v])
      BY <1>0, MarkedType
    <3>2. caller'[w].at \notin {"looked", "update"} /\ \A v \in MemCallers : v # w => SameCall(caller'[v], caller[v])
      BY <1>0, <1>4, <2>1, <3>1
    <3> QED BY <1>3, <3>2 DEF CallFrom
  <2>2. NoCall.at = "idle" /\ said.at = "answered"
    BY <1>0 DEF NoCall, CallType
  <2>3. CASE Forget(w)
    <3>1. PICK rows : caller' = Ended(NoCall, rows)
      BY <2>3 DEF Forget
    <3>2. caller' = Ended(NoCall, rows) \/ caller' = [caller EXCEPT ![w] = NoCall]
      BY <3>1
    <3> HIDE DEF Ended
    <3> QED BY <2>1, <2>2, <3>2
  <2>4. CASE Approve(w)
    <3>1. PICK rows : ApproveRows(w, rows)
      BY <2>4 DEF Approve
    <3>2. caller' = [caller EXCEPT ![w] = NoCall] \/ caller' = Ended(said, rows)
      BY <3>1 DEF ApproveRows
    <3> HIDE DEF Ended, said
    <3> QED BY <2>1, <2>2, <3>2
  <2> QED BY <1>8, <2>3, <2>4
<1> QED BY <1>1, <1>2, <1>5, <1>6, <1>7, <1>8 DEF MemNext

-----------------------------------------------------------------------------
LEMMA FitInit == MemInit => FitShape
<1>1. MemInit => \A w \in MemCallers : caller[w].at = "idle"
  BY DEF MemInit, NoCall
<1> QED BY <1>1, MemShapeInit DEF MemInit, FitShape, IdsAreUnique, IdMeansItem, RemoteUpdatesDoubt, VisibleIsFit

LEMMA FitNext == FitShape /\ [MemNext]_memVars => FitShape'
<1> SUFFICES ASSUME FitShape, [MemNext]_memVars PROVE FitShape'
  OBVIOUS
<1>0. MemShape' /\ MemShape
  BY MemShapeNext DEF FitShape
<1>1. CASE MemNext
  <2> USE DEF FitShape, MemShape, MemTypeOK
  <2>1. RowsFrom /\ (\A v \in MemCallers : CallFrom(v))
    BY <1>1, StepRows, StepCalls
  <2>2. lastId \in Nat /\ \A j \in DOMAIN items : items[j].id \in 1..lastId
    OBVIOUS
  <2>3. ASSUME NEW j \in DOMAIN items', NEW k \in DOMAIN items', items'[j].id = items'[k].id
        PROVE  j = k
    <3>1. IdFrom(j) /\ IdFrom(k)
      BY <2>1 DEF RowsFrom
    <3>2. CASE j \in DOMAIN items /\ k \in DOMAIN items
      BY <2>3, <3>1, <3>2 DEF IdFrom, IdsAreUnique
    <3>3. CASE j \notin DOMAIN items
      BY <2>2, <2>3, <3>1, <3>3 DEF IdFrom
    <3>4. CASE k \notin DOMAIN items
      BY <2>2, <2>3, <3>1, <3>4 DEF IdFrom
    <3> QED BY <3>2, <3>3, <3>4
  <2>4. ASSUME NEW w \in MemCallers, caller'[w].at = "looked"
        PROVE  /\ caller'[w].id <= lastId'
               /\ \A j \in DOMAIN items' : items'[j].id = caller'[w].id => j \in caller'[w].about
    <3>1. CASE \E i \in DOMAIN items :
                 /\ caller'[w].id = items[i].id /\ caller'[w].about = {i}
                 /\ UNCHANGED <<items, lastId>>
      BY <2>2, <3>1 DEF IdsAreUnique
    <3>2. CASE caller[w].at = "looked" /\ caller'[w].id = caller[w].id /\ caller'[w].about = caller[w].about
      <4>1. caller[w].id <= lastId /\ caller[w].id \in Nat /\ RowsWithId(caller[w].id) \subseteq caller[w].about
        BY <3>2 DEF IdMeansItem
      <4>2. lastId' \in Nat /\ lastId <= lastId'
        BY <1>0, <2>1 DEF RowsFrom
      <4>3. ASSUME NEW j \in DOMAIN items', items'[j].id = caller[w].id
            PROVE  j \in caller[w].about
        <5>1. IdFrom(j)
          BY <2>1 DEF RowsFrom
        <5>2. CASE j \in DOMAIN items
          BY <4>1, <4>3, <5>1, <5>2 DEF IdFrom, RowsWithId
        <5>3. CASE j \notin DOMAIN items
          BY <2>2, <4>1, <4>3, <5>1, <5>3 DEF IdFrom
        <5> QED BY <5>2, <5>3
      <4> QED BY <3>2, <4>1, <4>2, <4>3
    <3> QED BY <2>1, <2>4, <3>1, <3>2 DEF CallFrom
  <2>5. IdsAreUnique' /\ IdMeansItem'
    BY <2>3, <2>4 DEF IdsAreUnique, IdMeansItem, RowsWithId
  <2>6. RemoteUpdatesDoubt'
    BY <2>1 DEF CallFrom, RemoteUpdatesDoubt
  <2>7. ASSUME NEW j \in DOMAIN items', ~items'[j].quarantined
        PROVE  /\ ~items'[j].grade.sensitive /\ ~items'[j].grade.low
               /\ j \in RemoteItems \/ items'[j].grade.unsure => j \in approved'
    <3>1. RowFrom(j)
      BY <2>1 DEF RowsFrom
    <3>2. CASE j \in DOMAIN items /\ items'[j] = items[j] /\ (j \in approved => j \in approved')
      BY <2>7, <3>2 DEF VisibleIsFit, Visible, Stored
    <3>3. CASE \E g \in Grade :
                 /\ items'[j].grade = g /\ items'[j].quarantined = Doubtful(g)
                 /\ j \in RemoteItems => Doubtful(g)
      BY <2>7, <3>3 DEF Doubtful
    <3> QED BY <3>1, <3>2, <3>3 DEF RowFrom
  <2>8. VisibleIsFit'
    BY <2>7 DEF VisibleIsFit, Visible, Stored
  <2> QED BY <1>0, <2>5, <2>6, <2>8 DEF FitShape
<1>2. CASE UNCHANGED memVars
  BY <1>0, <1>2 DEF memVars, FitShape, IdsAreUnique, IdMeansItem, RemoteUpdatesDoubt, VisibleIsFit,
     Visible, Stored, RowsWithId
<1> QED BY <1>1, <1>2

\* Nothing sensitive is shown, and nothing doubtful or remote that nobody who
\* had looked at it approved, in whatever order any number of callers record,
\* approve and forget (record_memory_item, approve_memory_item).
THEOREM ShownMemoryIsFit == MemSpec => []VisibleIsFit
<1>1. FitShape => VisibleIsFit
  BY DEF FitShape
<1> QED BY <1>1, FitInit, FitNext, PTL DEF MemSpec

\* An id that somebody has looked up never comes to mean another item
\* (AUTOINCREMENT of memory_items).
THEOREM IdsKeepTheirMeaning == MemSpec => []IdMeansItem
<1>1. FitShape => IdMeansItem
  BY DEF FitShape
<1> QED BY <1>1, FitInit, FitNext, PTL DEF MemSpec
-----------------------------------------------------------------------------
(* Answers.                                                                *)

\* What a call may count on as long as nobody has overtaken it.
CountsOn(w, i) ==
  /\ caller[w].at = "select" => Stored(i)
  /\ caller[w].at = "answer" => Stored(i) /\ items[i].id = caller[w].id
  /\ caller[w].at = "answered" =>
       \/ caller[w].said = IF Visible(i) THEN "trusted" ELSE "quarantined"
       \/ caller[w].tool = "context" /\ \E j \in Items : j # i /\ {i, j} \in SameWords

AnswerAt(w) ==
  /\ \A i, j \in caller[w].about : i = j
  /\ caller[w].at \in {"update", "select", "answer"} => caller[w].tool # "approve"
  /\ ~caller[w].moved => \A i \in caller[w].about : CountsOn(w, i)

AnswerShape == \A w \in MemCallers : AnswerAt(w)

\* A bystander: its call stays what it is, and it is marked if its item changes.
Bystander(v) ==
  /\ SameCall(caller'[v], caller[v]) /\ caller'[v].tool = caller[v].tool /\ caller'[v].said = caller[v].said
  /\ \/ caller'[v].moved
     \/ ~caller[v].moved /\ \A i \in caller[v].about : (Stored(i)' <=> Stored(i)) /\ (Stored(i) => items'[i] = items[i])

LEMMA BystanderHolds ==
  ASSUME NEW v \in MemCallers, AnswerAt(v), Bystander(v)
  PROVE  AnswerAt(v)'
<1>1. caller'[v].about = caller[v].about /\ caller'[v].at = caller[v].at /\ caller'[v].id = caller[v].id
  BY DEF Bystander, SameCall
<1>2. ASSUME ~caller'[v].moved, NEW i \in caller'[v].about PROVE CountsOn(v, i)'
  <2>1. CountsOn(v, i) /\ (Stored(i)' <=> Stored(i)) /\ (Stored(i) => items'[i] = items[i])
    BY <1>1, <1>2 DEF AnswerAt, Bystander
  <2>2. Visible(i)' <=> Visible(i)
    BY <2>1 DEF Visible
  <2> QED BY <1>1, <2>1, <2>2 DEF CountsOn, Bystander
<1>3. caller'[v].tool = caller[v].tool
  BY DEF Bystander
<1> QED BY <1>1, <1>2, <1>3 DEF AnswerAt

LEMMA MarkedCall ==
  ASSUME NEW c \in CallType, NEW m
  PROVE  LET d == [c EXCEPT !.moved = m]
         IN SameCall(d, c) /\ d.tool = c.tool /\ d.said = c.said /\ d.moved = m
  BY DEF CallType, SameCall

\* A step of one caller that marks those who are busy with the rows it changes.
LEMMA OneCaller ==
  ASSUME FitShape, AnswerShape, NEW w \in MemCallers, NEW new, NEW rows,
         caller'[w] = new,
         \A v \in MemCallers \ {w} :
           \/ caller'[v] = caller[v] /\ rows \cap caller[v].about = {}
           \/ caller'[v] = [caller[v] EXCEPT !.moved = TRUE]
           \/ caller'[v] = [caller[v] EXCEPT !.moved = @ \/ rows \cap caller[v].about # {}],
         \A i : i \notin rows => (Stored(i)' <=> Stored(i)) /\ (Stored(i) => items'[i] = items[i]),
         AnswerAt(w)'
  PROVE  AnswerShape'
<1>0. caller \in [MemCallers -> CallType]
  BY DEF FitShape, MemShape, MemTypeOK, CallType
<1>1. ASSUME NEW v \in MemCallers \ {w} PROVE Bystander(v)
  <2>0. caller[v] \in CallType /\ caller[v].moved \in BOOLEAN
    BY <1>0 DEF CallType
  <2>1. CASE caller'[v] = caller[v] /\ rows \cap caller[v].about = {}
    <3>1. \A i \in caller[v].about : i \notin rows
      BY <2>1
    <3> QED BY <2>0, <2>1, <3>1 DEF Bystander, SameCall
  <2>2. CASE caller'[v] = [caller[v] EXCEPT !.moved = TRUE]
    BY <2>0, <2>2, MarkedCall DEF Bystander
  <2>3. CASE caller'[v] = [caller[v] EXCEPT !.moved = @ \/ rows \cap caller[v].about # {}]
    <3> DEFINE m == caller[v].moved \/ rows \cap caller[v].about # {}
    <3>1. caller'[v] = [caller[v] EXCEPT !.moved = m]
      BY <2>3
    <3>2. m \/ (~caller[v].moved /\ \A i \in caller[v].about : i \notin rows)
      OBVIOUS
    <3> HIDE DEF m
    <3>3. SameCall(caller'[v], caller[v]) /\ caller'[v].tool = caller[v].tool /\ caller'[v].said = caller[v].said
          /\ caller'[v].moved = m
      BY <2>0, <3>1, MarkedCall
    <3> QED BY <3>2, <3>3 DEF Bystander
  <2> QED BY <1>1, <2>1, <2>2, <2>3
<1> QED BY <1>1, BystanderHolds DEF AnswerShape

LEMMA CallFields ==
  ASSUME NEW c \in CallType
  PROVE  /\ \A at, id : LET d == [c EXCEPT !.at = at, !.id = id]
                        IN d.at = at /\ d.id = id /\ d.about = c.about /\ d.moved = c.moved
                           /\ d.tool = c.tool
         /\ \A at, said : LET d == [c EXCEPT !.at = at, !.said = said]
                          IN d.at = at /\ d.said = said /\ d.about = c.about /\ d.moved = c.moved
                             /\ d.tool = c.tool
         /\ \A at : LET d == [c EXCEPT !.at = at]
                    IN d.at = at /\ d.about = c.about /\ d.moved = c.moved /\ d.tool = c.tool
         /\ \A at, m : LET d == [c EXCEPT !.at = at, !.moved = m]
                       IN d.at = at /\ d.about = c.about /\ d.moved = m /\ d.tool = c.tool
  BY DEF CallType

LEMMA InsertAnswers ==
  ASSUME FitShape, AnswerShape, NEW w \in MemCallers, NEW i \in Items, NEW g,
         NEW tool \in {"gateway", "context", "pull"}, Insert(w, i, g, tool)
  PROVE  AnswerShape'
<1>0. caller \in [MemCallers -> CallType]
  BY DEF FitShape, MemShape, MemTypeOK, CallType
<1> DEFINE started == [NoCall EXCEPT !.tool = tool, !.about = {i}, !.grade = g]
<1>1. CASE Stored(i)
  <2> DEFINE new == [started EXCEPT !.at = "update"]
  <2>1. caller' = [caller EXCEPT ![w] = new] /\ items' = items
    BY <1>1 DEF Insert, InsertWithId
  <2>2. new.at = "update" /\ new.about = {i} /\ new.tool = tool
    BY DEF NoCall
  <2> HIDE DEF started, new
  <2>3. caller'[w] = new /\ \A v \in MemCallers \ {w} : caller'[v] = caller[v]
    BY <1>0, <2>1
  <2>4. AnswerAt(w)'
    BY <2>2, <2>3 DEF AnswerAt, CountsOn
  <2>5. \A j : (Stored(j)' <=> Stored(j)) /\ (Stored(j) => items'[j] = items[j])
    BY <2>1 DEF Stored
  <2>6. \A v \in MemCallers \ {w} : caller'[v] = caller[v] /\ {} \cap caller[v].about = {}
    BY <2>3
  <2> QED BY <2>3, <2>4, <2>5, <2>6, OneCaller
<1>2. CASE ~Stored(i)
  <2> DEFINE new == [started EXCEPT !.at = "answer", !.id = lastId + 1]
  <2>1. caller' = [Moved(w, i) EXCEPT ![w] = new] /\ items' = WithRow(i, lastId + 1, g)
    BY <1>2 DEF Insert, InsertWithId
  <2>2. new.at = "answer" /\ new.about = {i} /\ new.id = lastId + 1 /\ new.tool = tool
    BY DEF NoCall
  <2> HIDE DEF started, new
  <2>3. /\ caller'[w] = new
        /\ \A v \in MemCallers \ {w} :
             \/ caller'[v] = caller[v] /\ {i} \cap caller[v].about = {}
             \/ caller'[v] = [caller[v] EXCEPT !.moved = TRUE]
    BY <2>1 DEF Moved
  <2>4. \A j : j \notin {i} => (Stored(j)' <=> Stored(j)) /\ (Stored(j) => items'[j] = items[j])
    BY <2>1 DEF WithRow, Stored
  <2>5. Stored(i)' /\ items'[i].id = lastId + 1
    BY <2>1 DEF WithRow, Stored
  <2>6. AnswerAt(w)'
    BY <2>2, <2>3, <2>5 DEF AnswerAt, CountsOn
  <2> QED BY <2>3, <2>4, <2>6, OneCaller
<1> QED BY <1>1, <1>2

LEMMA UpdateAnswers ==
  ASSUME FitShape, AnswerShape, NEW w \in MemCallers, Update(w)
  PROVE  AnswerShape'
<1>0. caller \in [MemCallers -> CallType] /\ caller[w] \in CallType
  BY DEF FitShape, MemShape, MemTypeOK, CallType
<1>1. PICK i \in caller[w].about :
        IF Stored(i)
          THEN /\ items' = [items EXCEPT ![i].grade = caller[w].grade,
                                         ![i].quarantined = Doubtful(caller[w].grade)]
               /\ caller' = [Moved(w, i) EXCEPT ![w].at = "select"]
          ELSE caller' = [caller EXCEPT ![w].at = "select", ![w].moved = TRUE] /\ items' = items
  BY DEF Update
<1>2. (\A j \in caller[w].about : j = i) /\ caller[w].tool # "approve"
  BY DEF AnswerShape, AnswerAt, Update
<1>3. CASE Stored(i)
  <2> DEFINE new == [caller[w] EXCEPT !.at = "select"]
  <2>1. new.at = "select" /\ new.about = caller[w].about /\ new.tool = caller[w].tool
    BY <1>0, CallFields
  <2>2. Moved(w, i)[w] = caller[w]
    BY DEF Moved
  <2>3. caller' = [Moved(w, i) EXCEPT ![w] = new]
    BY <1>1, <1>3, <2>2
  <2> HIDE DEF new
  <2>4. /\ caller'[w] = new
        /\ \A v \in MemCallers \ {w} :
             \/ caller'[v] = caller[v] /\ {i} \cap caller[v].about = {}
             \/ caller'[v] = [caller[v] EXCEPT !.moved = TRUE]
    BY <2>3 DEF Moved
  <2>5. DOMAIN items' = DOMAIN items /\ \A j \in DOMAIN items : j # i => items'[j] = items[j]
    BY <1>1, <1>3
  <2>6. \A j : j \notin {i} => (Stored(j)' <=> Stored(j)) /\ (Stored(j) => items'[j] = items[j])
    BY <2>5 DEF Stored
  <2>7. AnswerAt(w)'
    BY <1>2, <1>3, <2>1, <2>4, <2>5 DEF AnswerAt, CountsOn, Stored
  <2> QED BY <2>4, <2>6, <2>7, OneCaller
<1>4. CASE ~Stored(i)
  <2> DEFINE new == [caller[w] EXCEPT !.at = "select", !.moved = TRUE]
  <2>1. caller' = [caller EXCEPT ![w] = new] /\ items' = items
    BY <1>1, <1>4
  <2>2. new.moved = TRUE /\ new.about = caller[w].about /\ new.tool = caller[w].tool
    BY <1>0, CallFields
  <2> HIDE DEF new
  <2>3. caller'[w] = new /\ \A v \in MemCallers \ {w} : caller'[v] = caller[v] /\ {} \cap caller[v].about = {}
    BY <1>0, <2>1
  <2>4. AnswerAt(w)'
    BY <1>2, <2>2, <2>3 DEF AnswerAt
  <2>5. \A j : (Stored(j)' <=> Stored(j)) /\ (Stored(j) => items'[j] = items[j])
    BY <2>1 DEF Stored
  <2> QED BY <2>3, <2>4, <2>5, OneCaller
<1> QED BY <1>3, <1>4

\* A step that reads: the rows stay.
LEMMA ReadingAnswers ==
  ASSUME FitShape, AnswerShape, NEW w \in MemCallers, NEW new, items' = items,
         caller' = [caller EXCEPT ![w] = new], AnswerAt(w)'
  PROVE  AnswerShape'
<1>0. caller \in [MemCallers -> CallType]
  BY DEF FitShape, MemShape, MemTypeOK, CallType
<1>1. caller'[w] = new /\ \A v \in MemCallers \ {w} : caller'[v] = caller[v] /\ {} \cap caller[v].about = {}
  BY <1>0
<1>2. \A j : (Stored(j)' <=> Stored(j)) /\ (Stored(j) => items'[j] = items[j])
  BY DEF Stored
<1> QED BY <1>1, <1>2, OneCaller

LEMMA SelectAnswers ==
  ASSUME FitShape, AnswerShape, NEW w \in MemCallers, SelectId(w)
  PROVE  AnswerShape'
<1>0. caller \in [MemCallers -> CallType] /\ caller[w] \in CallType
  BY DEF FitShape, MemShape, MemTypeOK, CallType
<1>1. PICK i \in caller[w].about :
        caller' = [caller EXCEPT ![w] = IF Stored(i) THEN [caller[w] EXCEPT !.at = "answer", !.id = items[i].id]
                                        ELSE NoCall]
  BY DEF SelectId
<1>2. items' = items /\ (\A j \in caller[w].about : j = i) /\ caller[w].tool # "approve"
  BY DEF AnswerShape, AnswerAt, SelectId
<1>3. CASE Stored(i)
  <2> DEFINE new == [caller[w] EXCEPT !.at = "answer", !.id = items[i].id]
  <2>1. new.at = "answer" /\ new.id = items[i].id /\ new.about = caller[w].about /\ new.tool = caller[w].tool
    BY <1>0, CallFields
  <2>2. caller' = [caller EXCEPT ![w] = new]
    BY <1>1, <1>3
  <2> HIDE DEF new
  <2>3. caller'[w] = new
    BY <1>0, <2>2
  <2>4. AnswerAt(w)'
    BY <1>2, <1>3, <2>1, <2>3 DEF AnswerAt, CountsOn, Stored
  <2> QED BY <1>2, <2>2, <2>4, ReadingAnswers
<1>4. CASE ~Stored(i)
  <2>1. caller' = [caller EXCEPT ![w] = NoCall] /\ caller'[w] = NoCall
    BY <1>0, <1>1, <1>4
  <2>2. AnswerAt(w)'
    BY <2>1 DEF AnswerAt, NoCall
  <2> QED BY <1>2, <2>1, <2>2, ReadingAnswers
<1> QED BY <1>3, <1>4

LEMMA AnswerAnswers ==
  ASSUME FitShape, AnswerShape, NEW w \in MemCallers, Answer(w)
  PROVE  AnswerShape'
<1>0. caller \in [MemCallers -> CallType] /\ caller[w] \in CallType /\ DOMAIN items \subseteq Items
  BY DEF FitShape, MemShape, MemTypeOK, CallType
<1>1. PICK rows \in Shown(w) : caller' = [caller EXCEPT ![w].at = "answered", ![w].said = Says(rows)]
  BY DEF Answer
<1>2. items' = items /\ caller[w].at = "answer"
  BY DEF Answer
<1> DEFINE new == [caller[w] EXCEPT !.at = "answered", !.said = Says(rows)]
<1>3. caller' = [caller EXCEPT ![w] = new]
  BY <1>1
<1>4. /\ new.at = "answered" /\ new.said = Says(rows) /\ new.about = caller[w].about
      /\ new.moved = caller[w].moved /\ new.tool = caller[w].tool
  BY <1>0, CallFields
<1> HIDE DEF new
<1>5. caller'[w] = new
  BY <1>0, <1>3
<1>6. ASSUME ~caller[w].moved, NEW i \in caller[w].about
      PROVE  \/ Says(rows) = IF Visible(i) THEN "trusted" ELSE "quarantined"
             \/ caller[w].tool = "context" /\ \E j \in Items : j # i /\ {i, j} \in SameWords
  <2>1. Stored(i) /\ items[i].id = caller[w].id /\ \A j \in caller[w].about : j = i
    BY <1>2, <1>6 DEF AnswerShape, AnswerAt, CountsOn
  <2>2. Says({i}) = IF Visible(i) THEN "trusted" ELSE "quarantined"
    BY <2>1 DEF Says, Visible
  <2>3. CASE caller[w].tool = "gateway"
    <3>1. RowsWithId(caller[w].id) = {i}
      BY <2>1 DEF FitShape, IdsAreUnique, RowsWithId, Stored
    <3> QED BY <1>1, <2>2, <2>3, <3>1 DEF Shown
  <2>4. CASE caller[w].tool # "gateway"
    <3>1. i \in Ranked(w)
      BY <1>6, <2>1 DEF Ranked, First, Stored
    <3>2. PICK j \in Ranked(w) : rows = {j}
      BY <1>1, <2>4, <3>1 DEF Shown
    <3>3. j \in First(i)
      BY <2>1, <3>2 DEF Ranked
    <3>4. CASE j = i
      BY <2>2, <3>2, <3>4
    <3>5. CASE j # i
      <4>1. j \in Items /\ {i, j} \in SameWords
        BY <1>0, <3>3, <3>5 DEF First
      <4>2. caller[w].tool = "context"
        <5>1. caller[w].tool \in {"gateway", "context", "pull", "approve"}
          BY <1>0 DEF CallType
        <5> QED BY <1>2, <2>4, <5>1 DEF Answer, AnswerShape, AnswerAt
      <4> QED BY <3>5, <4>1, <4>2
    <3> QED BY <3>4, <3>5
  <2> QED BY <2>3, <2>4
<1>7. ASSUME ~caller'[w].moved, NEW i \in caller'[w].about PROVE CountsOn(w, i)'
  <2>1. i \in caller[w].about /\ ~caller[w].moved
    BY <1>4, <1>5, <1>7
  <2>2. Visible(i)' = Visible(i)
    BY <1>2 DEF Visible, Stored
  <2> QED BY <1>4, <1>5, <1>6, <2>1, <2>2 DEF CountsOn
<1>8. AnswerAt(w)'
  BY <1>4, <1>5, <1>7 DEF AnswerAt, AnswerShape
<1> QED BY <1>2, <1>3, <1>8, ReadingAnswers

LEMMA LookAnswers ==
  ASSUME FitShape, AnswerShape, NEW w \in MemCallers, NEW i, LookAt(w, i)
  PROVE  AnswerShape'
<1> DEFINE new == [NoCall EXCEPT !.at = "looked", !.about = {i}, !.id = items[i].id]
<1>1. caller' = [caller EXCEPT ![w] = new] /\ items' = items
  BY DEF LookAt
<1>2. new.at = "looked" /\ new.about = {i}
  BY DEF NoCall
<1> HIDE DEF new
<1>3. caller'[w] = new
  BY <1>1 DEF FitShape, MemShape, MemTypeOK
<1>4. AnswerAt(w)'
  BY <1>2, <1>3 DEF AnswerAt, CountsOn
<1> QED BY <1>1, <1>4, ReadingAnswers

LEMMA ApproveAnswers ==
  ASSUME FitShape, AnswerShape, NEW w \in MemCallers, Approve(w)
  PROVE  AnswerShape'
<1>0. caller \in [MemCallers -> CallType] /\ caller[w] \in CallType /\ \A i \in DOMAIN items : items[i] \in Row
  BY DEF FitShape, MemShape, MemTypeOK, CallType
<1> DEFINE rows == {i \in RowsWithId(caller[w].id) : items[i].quarantined /\ ~items[i].grade.sensitive}
           cleared(i) == [items[i] EXCEPT !.grade = [@ EXCEPT !.low = FALSE], !.quarantined = FALSE]
<1>1. ApproveRows(w, rows)
  BY DEF Approve
<1>2. rows \subseteq caller[w].about /\ rows \subseteq DOMAIN items
  BY <1>1 DEF FitShape, IdMeansItem, ApproveRows, RowsWithId
<1>3. \A i \in DOMAIN items : ~cleared(i).quarantined
  BY <1>0, ApprovedRow
<1> HIDE DEF rows
<1>4. items' = [i \in DOMAIN items |-> IF i \in rows THEN cleared(i) ELSE items[i]]
  BY <1>1 DEF ApproveRows
<1> HIDE DEF cleared
<1>5. \A j : j \notin rows => (Stored(j)' <=> Stored(j)) /\ (Stored(j) => items'[j] = items[j])
  BY <1>4 DEF Stored
<1>6. CASE rows = {}
  <2>1. caller' = [caller EXCEPT ![w] = NoCall]
    BY <1>1, <1>6 DEF ApproveRows
  <2>2. caller'[w] = NoCall /\ \A v \in MemCallers \ {w} : caller'[v] = caller[v] /\ rows \cap caller[v].about = {}
    BY <1>0, <1>6, <2>1
  <2>3. AnswerAt(w)'
    BY <2>2 DEF AnswerAt, NoCall
  <2> QED BY <1>5, <2>2, <2>3, OneCaller
<1>7. CASE rows # {}
  <2> DEFINE new == [caller[w] EXCEPT !.at = "answered", !.tool = "approve", !.said = "trusted", !.moved = FALSE]
  <2>1. caller' = [v \in MemCallers |-> IF v = w THEN new
                     ELSE [caller[v] EXCEPT !.moved = @ \/ rows \cap caller[v].about # {}]]
    BY <1>1, <1>7 DEF ApproveRows
  <2>2. new.at = "answered" /\ new.said = "trusted" /\ new.about = caller[w].about
    BY <1>0 DEF CallType
  <2> HIDE DEF new
  <2>3. /\ caller'[w] = new
        /\ \A v \in MemCallers \ {w} :
             caller'[v] = [caller[v] EXCEPT !.moved = @ \/ rows \cap caller[v].about # {}]
    BY <2>1
  <2>4. \A i, j \in caller[w].about : i = j
    BY DEF AnswerShape, AnswerAt
  <2>5. \A i \in caller[w].about : i \in rows /\ i \in DOMAIN items
    BY <1>2, <1>7, <2>4
  <2>6. \A i \in caller[w].about : Visible(i)'
    BY <1>3, <1>4, <2>5 DEF Visible, Stored
  <2>7. AnswerAt(w)'
    BY <2>2, <2>3, <2>4, <2>6 DEF AnswerAt, CountsOn
  <2> QED BY <1>5, <2>3, <2>7, OneCaller
<1> QED BY <1>6, <1>7

LEMMA ForgetAnswers ==
  ASSUME FitShape, AnswerShape, NEW w \in MemCallers, Forget(w)
  PROVE  AnswerShape'
<1>0. caller \in [MemCallers -> CallType]
  BY DEF FitShape, MemShape, MemTypeOK, CallType
<1> DEFINE rows == RowsWithId(caller[w].id)
<1>1. /\ items' = [i \in DOMAIN items \ rows |-> items[i]]
      /\ caller' = [v \in MemCallers |-> IF v = w THEN NoCall
                      ELSE [caller[v] EXCEPT !.moved = @ \/ rows \cap caller[v].about # {}]]
  BY DEF Forget
<1> HIDE DEF rows
<1>2. /\ caller'[w] = NoCall
      /\ \A v \in MemCallers \ {w} :
           caller'[v] = [caller[v] EXCEPT !.moved = @ \/ rows \cap caller[v].about # {}]
  BY <1>1
<1>3. \A j : j \notin rows => (Stored(j)' <=> Stored(j)) /\ (Stored(j) => items'[j] = items[j])
  BY <1>1 DEF Stored
<1>4. AnswerAt(w)'
  BY <1>2 DEF AnswerAt, NoCall
<1> QED BY <1>2, <1>3, <1>4, OneCaller

LEMMA AnswerInit == MemInit => AnswerShape
  BY DEF MemInit, AnswerShape, AnswerAt, NoCall

LEMMA AnswerNext == FitShape /\ AnswerShape /\ [MemNext]_memVars => AnswerShape'
<1> SUFFICES ASSUME FitShape, AnswerShape, [MemNext]_memVars PROVE AnswerShape'
  OBVIOUS
<1>1. CASE UNCHANGED memVars
  BY <1>1 DEF memVars, AnswerShape, AnswerAt, CountsOn, Visible, Stored
<1>2. LocalItems \subseteq Items /\ RemoteItems \subseteq Items
  BY DEF Items
<1>3. CASE MemNext
  <2>1. PICK w \in MemCallers :
          \/ \E i \in LocalItems, g \in MemGrades : Remember(w, i, g)
          \/ \E i \in RemoteItems : Pull(w, i)
          \/ Update(w) \/ SelectId(w) \/ Answer(w)
          \/ \E i \in Items : LookAt(w, i)
          \/ Approve(w) \/ Forget(w)
    BY <1>3 DEF MemNext
  <2>2. CASE \/ \E i \in LocalItems, g \in MemGrades : Remember(w, i, g)
             \/ \E i \in RemoteItems : Pull(w, i)
    BY <1>2, <2>2, InsertAnswers DEF Remember, Pull
  <2> QED BY <2>1, <2>2, UpdateAnswers, SelectAnswers, AnswerAnswers, LookAnswers, ApproveAnswers, ForgetAnswers
<1> QED BY <1>1, <1>3

\* What elite_memory answers to remember and approve is so until somebody else touches the
\* item, whoever records, approves and forgets in between (record_memory_item, elite_memory).
THEOREM AnswersAreTrue == MemSpec => []AnswerHolds
<1>1. AnswerShape => AnswerHolds
  BY DEF AnswerShape, AnswerAt, CountsOn, AnswerHolds
<1> QED BY <1>1, FitInit, FitNext, AnswerInit, AnswerNext, PTL DEF MemSpec
=============================================================================
