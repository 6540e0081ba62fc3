----------------------------- MODULE ConfigStore ----------------------------
(***************************************************************************)
(* How the config reaches the disk and comes back: Save, the writer        *)
(* goroutine, Close (config/config.go), LoadConfig, NewConfig,             *)
(* ImportConfig, backupCorruptedFile, writeFileAtomic (config/other.go).   *)
(*                                                                         *)
(* The config is a version number that every change increments.  A change  *)
(* happens under the config lock; most callers call Save before they       *)
(* release it, UpdateMySettings calls it afterwards, UpdatePeerLastSeen    *)
(* never does.                                                             *)
(***************************************************************************)
EXTENDS Integers

CONSTANTS
  Mutators,     \* goroutines that change the config
  MaxVersion,   \* bound on changes
  MaxStarts     \* bound on starts of the process

ASSUME BoundsAreNumbers == MaxVersion \in Nat /\ MaxStarts \in Nat

Kinds == {"absent", "whole", "corrupt", "unreadable"}

VARIABLES
  up,         \* is the process running
  mem,        \* the version in memory
  mut,        \* mutators that released the lock and still have to call Save
  trigger,    \* saveTrigger holds a request (capacity one)
  writer,     \* where the writer goroutine is
  final,      \* the writer is doing its final flush
  data,       \* the version it marshalled
  closing,    \* Close: "no", "waiting" for writerDone, "done"
  fileKind,   \* the config file: what a reader finds ...
  fileVer,    \* ... and, if it parses, which version
  backup,     \* a copy of a corrupted file exists
  starts,     \* starts so far
  saved,      \* history: the newest version Save promised to write
  atClose,    \* history: the version in memory when Close was called
  broken,     \* history: the final flush failed
  damage      \* history: how the file was last damaged from outside

wvars == <<writer, final, data>>
file == <<fileKind, fileVer>>
hist == <<saved, atClose, broken, damage>>
storeVars == <<up, mem, mut, trigger, wvars, closing, file, backup, starts, hist>>

StoreInit ==
  /\ up = FALSE
  /\ mem = 0
  /\ mut = {}
  /\ trigger = FALSE
  /\ writer = "done" /\ final = FALSE /\ data = 0
  /\ closing = "no"
  /\ fileKind = "absent" /\ fileVer = 0
  /\ backup = FALSE
  /\ starts = 0
  /\ saved = 0 /\ atClose = 0 /\ broken = FALSE /\ damage = "none"

(***************************************************************************)
(* Callers.                                                                *)
(***************************************************************************)
(* Save: a non-blocking send; a request that finds the channel full is     *)
(* dropped.  It is about whatever is in memory when it is called.          *)
Save(version) ==
  /\ trigger' = TRUE
  /\ saved' = version

MutateAndSave ==
  /\ up /\ mem < MaxVersion
  /\ mem' = mem + 1
  /\ Save(mem + 1)
  /\ UNCHANGED <<up, mut, wvars, closing, file, backup, starts, atClose, broken, damage>>

(* UpdateMySettings: the lock is released before Save is called. *)
Mutate(m) ==
  /\ up /\ mem < MaxVersion
  /\ m \notin mut
  /\ mem' = mem + 1
  /\ mut' = mut \cup {m}
  /\ UNCHANGED <<up, trigger, wvars, closing, file, backup, starts, hist>>

SaveLater(m) ==
  /\ up
  /\ m \in mut
  /\ mut' = mut \ {m}
  /\ Save(mem)
  /\ UNCHANGED <<up, mem, wvars, closing, file, backup, starts, atClose, broken, damage>>

(* UpdatePeerLastSeen: a change nobody saves. *)
MutateOnly ==
  /\ up /\ mem < MaxVersion
  /\ mem' = mem + 1
  /\ UNCHANGED <<up, mut, trigger, wvars, closing, file, backup, starts, hist>>

(***************************************************************************)
(* The writer goroutine.                                                   *)
(***************************************************************************)
(* Mutant: requests are looked at only once Close has begun. *)
WriterTriggeredAtClose ==
  /\ up /\ writer = "select"
  /\ trigger /\ closing # "no"
  /\ trigger' = FALSE
  /\ writer' = "marshal"
  /\ UNCHANGED <<up, mem, mut, final, data, closing, file, backup, starts, hist>>

WriterTriggered ==
  /\ up /\ writer = "select"
  /\ trigger
  /\ trigger' = FALSE
  /\ writer' = "marshal"
  /\ UNCHANGED <<up, mem, mut, final, data, closing, file, backup, starts, hist>>

(* Mutant: the writer leaves without the final flush. *)
WriterClosedUnflushed ==
  /\ up /\ writer = "select"
  /\ closing # "no"
  /\ writer' = "done" /\ final' = TRUE
  /\ UNCHANGED <<up, mem, mut, trigger, data, closing, file, backup, starts, hist>>

WriterClosed ==
  /\ up /\ writer = "select"
  /\ closing # "no"
  /\ writer' = "marshal" /\ final' = TRUE
  /\ UNCHANGED <<up, mem, mut, trigger, data, closing, file, backup, starts, hist>>

(* writeNow: the whole config as it is now, under the read lock. *)
Marshal ==
  /\ up /\ writer = "marshal"
  /\ data' = mem
  /\ writer' = "stage"
  /\ UNCHANGED <<up, mem, mut, trigger, final, closing, file, backup, starts, hist>>

(* Mutant: the config file is opened for writing in place. *)
StageInPlace ==
  /\ up /\ writer = "stage"
  /\ writer' = "rename"
  /\ fileKind' = "corrupt" /\ UNCHANGED fileVer
  /\ UNCHANGED <<up, mem, mut, trigger, final, data, closing, backup, starts, hist>>

(* writeFileAtomic: the temp file first; the config file is not touched.   *)
Stage ==
  /\ up /\ writer = "stage"
  /\ writer' = "rename"
  /\ UNCHANGED <<up, mem, mut, trigger, final, data, closing, file, backup, starts, hist>>

AfterWrite == IF final THEN "done" ELSE "select"

(* Mutant: requests that came during the write are dropped with it. *)
RenameDraining ==
  /\ up /\ writer = "rename"
  /\ fileKind' = "whole" /\ fileVer' = data
  /\ writer' = AfterWrite
  /\ trigger' = FALSE
  /\ UNCHANGED <<up, mem, mut, final, data, closing, backup, starts, hist>>

Rename ==
  /\ up /\ writer = "rename"
  /\ fileKind' = "whole" /\ fileVer' = data
  /\ writer' = AfterWrite
  /\ UNCHANGED <<up, mem, mut, trigger, final, data, closing, backup, starts, hist>>

(* A failed write is logged and not retried: what it carried is no longer  *)
(* promised, a Save that came after the marshal still is.                  *)
WriteFailed ==
  /\ up /\ writer \in {"stage", "rename"}
  /\ writer' = AfterWrite
  /\ saved' = IF saved <= data THEN fileVer ELSE saved
  /\ broken' = final
  /\ UNCHANGED <<up, mem, mut, trigger, final, data, closing, file, backup, starts, atClose, damage>>

(***************************************************************************)
(* Close, the end of the process, and the next start.                      *)
(***************************************************************************)
Close ==
  /\ up /\ closing = "no"
  /\ closing' = "waiting"
  /\ atClose' = mem
  /\ UNCHANGED <<up, mem, mut, trigger, wvars, file, backup, starts, saved, broken, damage>>

CloseReturns ==
  /\ up /\ closing = "waiting" /\ writer = "done"
  /\ closing' = "done"
  /\ UNCHANGED <<up, mem, mut, trigger, wvars, file, backup, starts, hist>>

(* The process ends, orderly or not. *)
Exit ==
  /\ up
  /\ up' = FALSE
  /\ UNCHANGED <<mem, mut, trigger, wvars, closing, file, backup, starts, hist>>

(* A start that comes up with the given version: startWriter included. *)
Boot(version) ==
  /\ ~up /\ starts < MaxStarts
  /\ up' = TRUE
  /\ mem' = version
  /\ mut' = {}
  /\ trigger' = FALSE
  /\ writer' = "select" /\ final' = FALSE /\ data' = 0
  /\ closing' = "no"
  /\ starts' = starts + 1
  /\ saved' = fileVer /\ atClose' = 0 /\ broken' = FALSE
  /\ UNCHANGED file

LoadConfig ==
  /\ fileKind = "whole"
  /\ Boot(fileVer)
  /\ UNCHANGED <<backup, damage>>

(* SetupLoggerAndConfig falls back to NewConfig when there is no file or   *)
(* it cannot be read.                                                      *)
NewConfig ==
  /\ fileKind \in {"absent", "unreadable"}
  /\ Boot(0)
  /\ UNCHANGED <<backup, damage>>

(* Mutant: no copy is made. *)
LoadCorruptedUncopied ==
  /\ fileKind = "corrupt"
  /\ Boot(0)
  /\ UNCHANGED <<backup, damage>>

(* A file that does not parse is copied aside before the fallback, or the  *)
(* copy fails and the start goes on.                                       *)
LoadCorrupted ==
  /\ fileKind = "corrupt"
  /\ Boot(0)
  /\ \/ backup' = TRUE /\ UNCHANGED damage
     \/ damage' = "uncopied" /\ UNCHANGED backup

(***************************************************************************)
(* What may happen to the file while the process is down.                  *)
(***************************************************************************)
ImportConfig(version) ==
  /\ ~up
  /\ fileKind' = "whole" /\ fileVer' = version
  /\ damage' = "none"
  /\ UNCHANGED <<up, mem, mut, trigger, wvars, closing, backup, starts, saved, atClose, broken>>

Damage(kind) ==
  /\ ~up
  /\ fileKind' = kind /\ fileVer' = 0
  /\ damage' = kind
  /\ backup' = FALSE
  /\ UNCHANGED <<up, mem, mut, trigger, wvars, closing, starts, saved, atClose, broken>>

WriterStep ==
  WriterTriggered \/ WriterClosed \/ Marshal \/ Stage \/ Rename \/ WriteFailed

StoreNext ==
  \/ MutateAndSave \/ MutateOnly
  \/ \E m \in Mutators : Mutate(m) \/ SaveLater(m)
  \/ WriterStep
  \/ Close \/ CloseReturns \/ Exit
  \/ LoadConfig \/ NewConfig \/ LoadCorrupted
  \/ \E v \in 0..MaxVersion : ImportConfig(v)
  \/ \E kind \in {"absent", "corrupt", "unreadable"} : Damage(kind)

StoreSpec == StoreInit /\ [][StoreNext]_storeVars

(* The writer goroutine is scheduled whenever it can run. *)
FairSpec == StoreSpec /\ WF_storeVars(WriterStep)

(***************************************************************************)
(* Properties.                                                             *)
(***************************************************************************)
Flags ==
  /\ up \in BOOLEAN /\ trigger \in BOOLEAN /\ final \in BOOLEAN
  /\ backup \in BOOLEAN /\ broken \in BOOLEAN

Values ==
  /\ mem \in Nat /\ data \in Nat /\ saved \in Nat /\ atClose \in Nat /\ starts \in Nat
  /\ mut \subseteq Mutators
  /\ writer \in {"select", "marshal", "stage", "rename", "done"}
  /\ closing \in {"no", "waiting", "done"}
  /\ fileKind \in Kinds /\ fileVer \in Nat
  /\ damage \in {"none", "absent", "corrupt", "unreadable", "uncopied"}

(* Every variable keeps its type: in particular the writer is always in a  *)
(* state its loop has a branch for.                                        *)
StoreTypeOK == Flags /\ Values

(* No Save is lost to the capacity-one channel: what it promised is on     *)
(* disk, or a request is queued, or the writer is about to marshal, or is  *)
(* carrying a version that is new enough (saveTrigger's drop-if-full).     *)
NoLostSave ==
  up => \/ fileVer >= saved
        \/ trigger
        \/ writer = "marshal"
        \/ writer \in {"stage", "rename"} /\ data >= saved

(* When Close returns, everything that was in memory when it was called is *)
(* on disk, saved or not, unless the final write itself failed.            *)
CloseFlushes ==
  up /\ closing = "done" /\ ~broken => fileVer >= atClose

(* A corrupted config is never overwritten before its bytes were copied    *)
(* aside, unless the copy failed (backupCorruptedFile).                    *)
CorruptPreserved ==
  damage = "corrupt" /\ fileKind = "whole" => backup

(* What Save promised reaches the disk, unless the process ends first, the *)
(* write fails, or Close has begun.                                        *)
SaveReachesDisk ==
  \A v \in 1..MaxVersion :
    up /\ saved >= v ~> ~up \/ fileVer >= v \/ saved < v \/ closing # "no"

(* The store implements a durable value: the disk moves forward only, to   *)
(* versions that were in memory, and a start comes back with the disk.     *)
Durable == INSTANCE DurableStore WITH disk <- fileVer

ImplementsDurableStore == Durable!DSpec
=============================================================================
