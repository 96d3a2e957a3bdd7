------------------------------ MODULE JSONFile ------------------------------
(* A JSON file with a backup beside it (internal/store): config.json of the   *)
(* panel and of `sbm-panel admin`, which are processes of their own and share  *)
(* no lock, and state.json of the panel alone.  A document is the set of the   *)
(* changes made to it.  Processes load it once and save what they hold; steps  *)
(* fail, processes are killed, the power fails, and the file may be damaged.   *)
EXTENDS Integers, FiniteSets

CONSTANTS
  Processes,  \* the panel and the administration command
  Commands,   \* those that save once and end
  Changes,    \* bound: each is made to the document once
  MaxDamages, \* bound: damages of the file
  MaxLosses,  \* bound: power failures
  Absent,     \* of a file: there is none
  Broken      \* of a file: it does not parse

Documents == SUBSET Changes

FilesAssumption == /\ \A document \in Documents : document # Absent /\ document # Broken
                   /\ Absent # Broken /\ MaxDamages \in Nat /\ MaxLosses \in Nat

VARIABLES
  primary, backup,      \* the files as a process reads them
  primaries, backups,   \* what a power failure may leave of each
  pc,                   \* where each process is
  memory,               \* the document each process holds
  candidate,            \* the one it saves; {} when it saves none
  copy,                 \* what it read for the backup; {} when it has read nothing
  \* History, read by properties only.
  acked,                \* changes somebody was told are saved
  known,                \* those each process had the chance to read
  overwritten,          \* those another process replaced without having read them
  overlapped,           \* those saved while another process held an older copy for the backup
  damages, losses

files == <<primary, backup, primaries, backups>>
ghosts == <<acked, known, overwritten, overlapped, damages, losses>>
vars == <<files, pc, memory, candidate, copy, ghosts>>

Parses(file) == file # Absent /\ file # Broken

\* What Load returns; Broken when neither file can be read.
Loaded == IF Parses(primary) THEN primary ELSE IF Parses(backup) THEN backup ELSE Broken

\* os.Rename of a temporary file whose content is on the disk: until the directory is
\* too, a power failure leaves the file as it was or as it is.
RenamedPrimary(document) == primary' = document /\ primaries' = primaries \cup {document}
RenamedBackup(document) == backup' = document /\ backups' = backups \cup {document}

\* As `init` leaves it: one document, written without a backup.
Init ==
  /\ primary = {} /\ backup = Absent /\ primaries = {{}} /\ backups = {Absent}
  /\ pc = [p \in Processes |-> "down"]
  /\ memory = [p \in Processes |-> {}] /\ candidate = memory /\ copy = memory
  /\ acked = {} /\ known = [p \in Processes |-> {}] /\ overwritten = {} /\ overlapped = {}
  /\ damages = 0 /\ losses = 0

\* OpenConfig, Open: the process begins with what Load returns, or does not begin.
Start(p) ==
  /\ pc[p] = "down" /\ Loaded # Broken
  /\ pc' = [pc EXCEPT ![p] = "idle"]
  /\ memory' = [memory EXCEPT ![p] = Loaded]
  /\ known' = [known EXCEPT ![p] = IF Parses(primary) THEN acked ELSE acked \cap Loaded]
  /\ UNCHANGED <<files, candidate, copy, acked, overwritten, overlapped, damages, losses>>

\* A defect: the primary is copied whether it parses or not.
Save_CopiesAny(p) ==
  /\ pc[p] = "idle"
  /\ \E change \in Changes \ (acked \cup UNION {memory[q] \cup candidate[q] : q \in Processes}) :
       candidate' = [candidate EXCEPT ![p] = memory[p] \cup {change}]
  /\ pc' = [pc EXCEPT ![p] = "copy"]
  /\ UNCHANGED <<files, memory, copy, ghosts>>

\* Save is entered with a changed document; only a primary that parses is copied.
Save(p) ==
  /\ pc[p] = "idle"
  /\ \E change \in Changes \ (acked \cup UNION {memory[q] \cup candidate[q] : q \in Processes}) :
       candidate' = [candidate EXCEPT ![p] = memory[p] \cup {change}]
  /\ pc' = [pc EXCEPT ![p] = IF Parses(primary) THEN "copy" ELSE "write"]
  /\ UNCHANGED <<files, memory, copy, ghosts>>

\* copyAtomic reads the primary, once more, into a temporary file ...
CopyRead(p) ==
  /\ pc[p] = "copy"
  /\ copy' = [copy EXCEPT ![p] = primary]
  /\ pc' = [pc EXCEPT ![p] = "copied"]
  /\ UNCHANGED <<files, memory, candidate, ghosts>>

\* ... and renames that to be the backup.
CopyRename(p) ==
  /\ pc[p] = "copied"
  /\ RenamedBackup(copy[p])
  /\ copy' = [copy EXCEPT ![p] = {}]
  /\ pc' = [pc EXCEPT ![p] = "write"]
  /\ UNCHANGED <<primary, primaries, memory, candidate, ghosts>>

\* writeJSONAtomic: the new document, on the disk, takes the place of the primary.
Write(p) ==
  /\ pc[p] = "write"
  /\ RenamedPrimary(candidate[p])
  /\ overwritten' = overwritten \cup (acked \ known[p])
  /\ pc' = [pc EXCEPT ![p] = "sync"]
  /\ UNCHANGED <<backup, backups, memory, candidate, copy, acked, known, overlapped, damages, losses>>

\* A process that is done with a document goes on, or ends.
After(p) == IF p \in Commands THEN "down" ELSE "idle"

\* The directory is synced, and the process holds the document it saved.  (That a failed
\* sync of a directory is ignored is left out: a disk that fails so keeps nothing.)
Saved(p) ==
  LET new == candidate[p] \ memory[p]
      raced == \E q \in Processes \ {p} : pc[q] \in {"copied", "write"}
  IN /\ pc[p] = "sync"
     /\ primaries' = {primary} /\ backups' = {backup}
     /\ memory' = [memory EXCEPT ![p] = IF p \in Commands THEN {} ELSE candidate[p]]
     /\ acked' = acked \cup new
     /\ known' = [known EXCEPT ![p] = IF p \in Commands THEN {} ELSE @ \cup new]
     \* Another process renamed its document over this one before it was acknowledged.
     /\ overwritten' = IF primary = candidate[p] THEN overwritten ELSE overwritten \cup new
     /\ overlapped' = IF raced THEN overlapped \cup new ELSE overlapped
     /\ candidate' = [candidate EXCEPT ![p] = {}]
     /\ pc' = [pc EXCEPT ![p] = After(p)]
     /\ UNCHANGED <<primary, backup, copy, damages, losses>>

\* Any step up to a rename may fail: Save returns the error and the panel keeps what it
\* held; a command ends (Stop).
SaveFails(p) ==
  /\ pc[p] \in {"copy", "copied", "write"} /\ p \notin Commands
  /\ pc' = [pc EXCEPT ![p] = "idle"]
  /\ candidate' = [candidate EXCEPT ![p] = {}] /\ copy' = [copy EXCEPT ![p] = {}]
  /\ UNCHANGED <<files, memory, ghosts>>

\* The process ends, or is killed wherever it is.
Stop(p) ==
  /\ pc[p] # "down"
  /\ pc' = [pc EXCEPT ![p] = "down"]
  /\ memory' = [memory EXCEPT ![p] = {}] /\ known' = [known EXCEPT ![p] = {}]
  /\ candidate' = [candidate EXCEPT ![p] = {}] /\ copy' = [copy EXCEPT ![p] = {}]
  /\ UNCHANGED <<files, acked, overwritten, overlapped, damages, losses>>

\* Each file is found as it was at its last sync or after a rename since.
PowerLoss ==
  /\ losses < MaxLosses
  /\ losses' = losses + 1
  /\ primary' \in primaries /\ backup' \in backups
  /\ primaries' = {primary'} /\ backups' = {backup'}
  /\ pc' = [p \in Processes |-> "down"]
  /\ memory' = [p \in Processes |-> {}] /\ known' = memory' /\ candidate' = memory' /\ copy' = memory'
  /\ UNCHANGED <<acked, overwritten, overlapped, damages>>

\* Something else leaves the primary unreadable; not between the two reads of one save,
\* which are an instant apart.
Damage ==
  /\ damages < MaxDamages /\ Parses(primary)
  /\ \A p \in Processes : pc[p] # "copy"
  /\ damages' = damages + 1
  /\ primary' = Broken /\ primaries' = {Broken}
  /\ UNCHANGED <<backup, backups, pc, memory, candidate, copy, acked, known, overwritten, overlapped, losses>>

Next == \/ \E p \in Processes : \/ Start(p) \/ Save(p) \/ CopyRead(p) \/ CopyRename(p) \/ Write(p)
                                \/ Saved(p) \/ SaveFails(p) \/ Stop(p)
        \/ PowerLoss \/ Damage

Spec == Init /\ [][Next]_vars
-----------------------------------------------------------------------------
\* Types of the variables.
TypeOK ==
  /\ primary # Absent /\ primary \in primaries /\ backup \in backups
  /\ \A file \in primaries \cup backups : Parses(file) => file \in Documents
  /\ pc \in [Processes -> {"down", "idle", "copy", "copied", "write", "sync"}]
  /\ memory \in [Processes -> Documents] /\ candidate \in [Processes -> Documents]
  /\ \A p \in Processes : Parses(copy[p]) => copy[p] \in Documents
  /\ acked \subseteq Changes /\ overwritten \subseteq Changes /\ overlapped \subseteq Changes
  /\ known \in [Processes -> SUBSET Changes]

\* A file that was not damaged holds every change somebody was told is saved, after
\* failed and interrupted saves and a power failure at any step of one, but for those
\* the other process replaced.
AckedIsLoaded == Parses(primary) => acked \ overwritten \subseteq primary

\* A damaged file costs the changes of one save: the backup can be read, unless the file
\* was damaged before every save so far, and lacks at most one change for every damage
\* there was.  (Saves of two processes at a time may leave the backup further behind.)
DamageCostsOneSave ==
  primary = Broken =>
    IF Parses(backup) THEN Cardinality(acked \ (overwritten \cup overlapped \cup backup)) <= damages
                      ELSE Cardinality(acked \ overwritten) < damages
=============================================================================
