------------------------------ MODULE AzureDisk ------------------------------
(***************************************************************************)
(* The ephemeral disk of an Azure machine.  Whenever the machine is moved   *)
(* it gets a fresh disk with an NTFS filesystem, so disk_setup has to run   *)
(* again although it is a module per instance.  In every boot the datasource *)
(* looks at the disk (address_ephemeral_resize of DataSourceAzure.py, from  *)
(* activate) and, if nothing but the notice of the platform is on it,       *)
(* removes the semaphores of disk_setup and mounts; the modules then run in *)
(* the config stage, by the config of the datasource or one of the user's.  *)
(* Processes may be killed, and commands fail, anywhere.                    *)
(***************************************************************************)
EXTENDS DiskSetup

CONSTANTS Tables,     \* values of disk_setup for the disk
          Filesystems,\* values of fs_setup: sequences of definitions
          Disks,      \* what the disk may hold at first, and after the user's work
          FreshDisks  \* disks as the platform gives them out

\* Microsoft's reserved partition is what comes before an NTFS one, as the docstring of
\* can_dev_be_reformatted has it.
Reserved(d) == Len(d.parts) = 2 /\ d.parts[2].on.fs = "ntfs" => d.parts[1].on = Empty

ASSUME DisksAssumption ==
    /\ {None, "83", "ext4"} \subseteq Words /\ None \notin {"83", "ext4", "ntfs"}
    /\ Tables \subseteq TableDefs /\ Filesystems \subseteq Seq(FsDefs)
    /\ \A d \in Disks \cup FreshDisks : d \in Disk /\ WellFormed(d) /\ Reserved(d)
    /\ \A d \in FreshDisks : ~HasFiles(d)

\* BUILTIN_CLOUD_CONFIG: gpt with one partition, overwrite, and a filesystem on it.
BuiltinTable == [table_type |-> "gpt", layout |-> "list", codes |-> <<None>>, overwrite |-> TRUE]
BuiltinFs == <<[filesystem |-> "ext4", label |-> None, partition |-> "number", number |-> 1,
                overwrite |-> FALSE, replace_fs |-> None]>>

VARIABLES disk,     \* the ephemeral disk
          table, fss, \* the config
          sems,     \* modules with a semaphore of this instance
          pc,       \* where the boot is
          todo,     \* definitions of fs_setup the handler has yet to carry out
          smooth,   \* history: no command or process of this boot failed
          missed    \* history: the disk was due to be partitioned, and was not

vars == <<disk, table, fss, sems, pc, todo, smooth, missed>>

Builtin == table = BuiltinTable /\ fss = BuiltinFs

Init ==
    /\ disk \in Disks /\ ~HasFiles(disk)
    /\ table \in Tables /\ fss \in Filesystems
    /\ sems = {} /\ pc = "off" /\ todo = <<>> /\ smooth = TRUE /\ missed = FALSE

----------------------------------------------------------------------------
\* Mutant: the files on the filesystem are not counted.
Reformattable_Uncounted(d) ==
    Len(d.parts) \in {1, 2} /\ On(d, Len(d.parts)).fs = "ntfs"

\* can_dev_be_reformatted: one partition or two, the last one NTFS with no files on
\* it but the notice of the platform; the mount may fail.
Reformattable(d) ==
    Len(d.parts) \in {1, 2} /\ On(d, Len(d.parts)).fs = "ntfs" /\ ~On(d, Len(d.parts)).files

PowerOn ==
    /\ pc = "off" /\ pc' = "activate" /\ smooth' = TRUE
    /\ UNCHANGED <<disk, table, fss, sems, todo, missed>>

\* Mutant: only a first boot of the instance makes a disk fit for formatting.
Activate_NeverAgain ==
    /\ pc = "activate" /\ pc' = "config"
    /\ UNCHANGED <<disk, table, fss, sems, todo, smooth, missed>>

(* address_ephemeral_resize: the disk may not appear in time, the mount may *)
(* fail, a semaphore may resist.                                            *)
Activate ==
    /\ pc = "activate" /\ pc' = "config"
    /\ \/ sems' = (IF Reformattable(disk) THEN {} ELSE sems) /\ smooth' = smooth
       \/ sems' \in SUBSET sems /\ (Reformattable(disk) \/ sems' = sems) /\ smooth' = FALSE
    /\ UNCHANGED <<disk, table, fss, todo, missed>>

(* The module is run unless its semaphore is there; Runners.run writes it   *)
(* first.                                                                   *)
ConfigStage ==
    /\ pc = "config"
    /\ IF "disk_setup" \in sems
       THEN pc' = "mounts" /\ UNCHANGED <<sems, todo>>
       ELSE pc' = "table" /\ sems' = sems \cup {"disk_setup"} /\ todo' = fss
    /\ UNCHANGED <<disk, table, fss, smooth, missed>>

(* handle of cc_disk_setup: the table, then one filesystem after the other; *)
(* what fails is logged.                                                    *)
DoTable ==
    /\ pc = "table" /\ pc' = "fs"
    /\ \E ok \in BOOLEAN : disk' \in Mkpart(disk, table, ok) /\ smooth' = (smooth /\ ok) /\ missed' = (missed \/ ~ok)
    /\ UNCHANGED <<table, fss, sems, todo>>

DoFs ==
    /\ pc = "fs" /\ todo # <<>>
    /\ \E ok \in BOOLEAN : disk' \in Mkfs(disk, Head(todo), ok) /\ smooth' = (smooth /\ ok)
    /\ todo' = Tail(todo)
    /\ UNCHANGED <<table, fss, sems, pc, missed>>

FsDone ==
    /\ pc = "fs" /\ todo = <<>> /\ pc' = "mounts"
    /\ UNCHANGED <<disk, table, fss, sems, todo, smooth, missed>>

Mounts ==
    /\ pc = "mounts" /\ pc' = "up" /\ sems' = sems \cup {"mounts"}
    /\ UNCHANGED <<disk, table, fss, todo, smooth, missed>>

(* The process of a stage is killed; the boot goes on without the module.   *)
Killed ==
    /\ pc \in {"activate", "config", "table", "fs", "mounts"}
    /\ \/ pc = "table" /\ disk' \in Mkpart(disk, table, FALSE)
       \/ pc = "fs" /\ todo # <<>> /\ disk' \in Mkfs(disk, Head(todo), FALSE)
       \/ disk' = disk
    /\ pc' = "up" /\ todo' = <<>> /\ smooth' = FALSE
    /\ missed' = (missed \/ pc = "table" \/ "disk_setup" \notin sems)
    /\ UNCHANGED <<table, fss, sems>>

(* The machine in use: files are written, or the disk set up by hand.       *)
Use ==
    /\ pc = "up"
    /\ \/ \E i \in 0..Len(disk.parts) :
            /\ On(disk, i).fs # None
            /\ disk' = IF i = 0 THEN [disk EXCEPT !.raw.files = TRUE] ELSE [disk EXCEPT !.parts[i].on.files = TRUE]
       \/ disk' \in Disks
    /\ UNCHANGED <<table, fss, sems, pc, todo, smooth, missed>>

(* The machine is switched off, or moved, which costs it its disk.          *)
PowerOff ==
    /\ pc = "up" /\ pc' = "off"
    /\ disk' \in {disk} \cup FreshDisks
    /\ missed' = (missed /\ disk' = disk)
    /\ UNCHANGED <<table, fss, sems, todo, smooth>>

Next ==
    \/ PowerOn \/ Activate \/ ConfigStage \/ DoTable \/ DoFs \/ FsDone \/ Mounts
    \/ Killed \/ Use \/ PowerOff

Spec == Init /\ [][Next]_vars

----------------------------------------------------------------------------
TypeOK ==
    /\ disk \in Disk /\ WellFormed(disk)
    /\ table \in Tables /\ fss \in Filesystems
    /\ sems \subseteq {"disk_setup", "mounts"}
    /\ pc \in {"off", "activate", "config", "table", "fs", "mounts", "up"}
    /\ todo \in Seq(FsDefs) /\ \A n \in DOMAIN todo : \E m \in DOMAIN fss : todo[n] = fss[m]
    /\ smooth \in BOOLEAN /\ missed \in BOOLEAN

\* Files that somebody wrote on the disk survive every boot, although the config
\* of the datasource says "overwrite": disk_setup only runs again on a disk that
\* has none - unless a process was killed between the removal of the semaphores
\* and the run, or the partitioning failed, and the machine was used like that.
\* By a config that asks for nothing to be destroyed nothing is, whenever the
\* module runs and wherever it fails.
FilesKept ==
    [][ \/ /\ Builtin /\ ~missed
           /\ pc \in {"activate", "config", "table", "fs"}
        \/ Careful(table, fss) /\ pc \in {"table", "fs"}
        => \A i \in 0..Len(disk.parts) : On(disk, i).files => i <= Len(disk'.parts) /\ On(disk', i).files ]_vars

\* A boot without failures leaves no fresh disk unformatted.
FreshIsPrepared ==
    pc = "mounts" /\ smooth /\ Builtin => ~Reformattable(disk)

----------------------------------------------------------------------------
(* Why they hold, as an inductive invariant.                                *)

\* The semaphore is there from the run of the module on, or the disk was missed.
RunLeavesSem ==
    /\ pc \in {"table", "fs"} => "disk_setup" \in sems
    /\ pc \in {"mounts", "up"} /\ ~missed => "disk_setup" \in sems

\* By the datasource's config disk_setup runs on a disk without files only, unless it
\* was missed before.
NothingToLose ==
    Builtin /\ ~missed =>
        /\ Reserved(disk)
        /\ pc \in {"table", "fs"} \/ "disk_setup" \notin sems => ~HasFiles(disk)

\* After its table the disk has one partition, after its filesystem no NTFS.
OnePartition ==
    Builtin =>
        /\ pc = "fs" /\ (smooth \/ ~missed) => Len(disk.parts) = 1
        /\ pc = "table" => todo = fss
        /\ pc = "fs" => todo \in {fss, <<>>}
        /\ pc = "fs" /\ smooth /\ todo = <<>> => ~Reformattable(disk)
        /\ pc = "config" /\ smooth /\ Reformattable(disk) => "disk_setup" \notin sems

DisksInv == TypeOK /\ RunLeavesSem /\ NothingToLose /\ OnePartition /\ FreshIsPrepared
=============================================================================
