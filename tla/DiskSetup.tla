------------------------------ MODULE DiskSetup ------------------------------
(***************************************************************************)
(* config/cc_disk_setup.py: the partition table of a disk and the           *)
(* filesystems on it, from the disk_setup and fs_setup of the config.  What *)
(* a disk holds decides whether a definition is carried out; the commands   *)
(* that do it may fail or be killed between any two of them.  Sizes are     *)
(* left out; device 0 is the whole disk, i its i-th partition.              *)
(***************************************************************************)
EXTENDS Naturals, Sequences, FiniteSetsExt

CONSTANTS None,  \* no filesystem, label, type code or table
          Words  \* filesystems, labels and type codes, with None

\* A filesystem, or none, and whether somebody keeps files on it.
Content == [fs : Words, label : Words, files : BOOLEAN]
Empty == [fs |-> None, label |-> None, files |-> FALSE]
\* A disk: its kind of table, a filesystem on the whole of it, its partitions,
\* each with a type code and perhaps a filesystem.
Partition == [code : Words, on : Content]
Disk == [table : {None, "mbr", "gpt"}, raw : Content, parts : Seq(Partition)]
Blank == [table |-> None, raw |-> Empty, parts |-> <<>>]
Parts(disk) == 1..Len(disk.parts)
On(disk, i) == IF i = 0 THEN disk.raw ELSE disk.parts[i].on
\* Files are on filesystems, and a disk with partitions has none on the whole of it.
WellFormed(disk) ==
    /\ \A i \in 0..Len(disk.parts) : On(disk, i).fs = None => On(disk, i) = Empty
    /\ disk.parts # <<>> => disk.raw = Empty
HasFiles(disk) == \E i \in 0..Len(disk.parts) : On(disk, i).files

\* enumerate_disk and check_fs: whether anything is on the disk (is_disk_used,
\* is_filesystem, and raw_device_used of find_device_node).
Used(disk) == disk.parts # <<>> \/ disk.raw.fs # None

----------------------------------------------------------------------------
(* The table.  A definition: [table_type, layout, codes, overwrite]; the    *)
(* layout is "no" (False, or empty), "remove", "whole" (True) or "list".    *)

TableDefs == [table_type : {"mbr", "gpt"}, layout : {"no", "remove", "whole", "list"},
              codes : Seq(Words), overwrite : BOOLEAN]

Codes(def) == IF def.layout = "whole" THEN <<None>> ELSE def.codes

\* check_partition_layout: the number of partitions and the type codes asked for,
\* whatever the kind of table.
LayoutMatches(disk, def) ==
    IF def.layout = "whole" THEN disk.parts # <<>>
    ELSE /\ Len(def.codes) = Len(disk.parts)
         /\ \A i \in Parts(disk) : def.codes[i] \in {None, disk.parts[i].code}

\* The first n partitions of the layout are there.  What was on the first one may
\* show again, as it begins where the old one did.
Laid(disk, def, n) ==
    {[table |-> def.table_type, raw |-> Empty,
      parts |-> [i \in 1..n |-> [code |-> IF Codes(def)[i] = None THEN "83" ELSE Codes(def)[i],
                                 on |-> IF i = 1 THEN first ELSE Empty]]] :
     first \in {Empty} \cup {disk.parts[i].on : i \in Parts(disk) \cap {1}}}

\* get_partition_mbr_layout has room for four; exec_mkpart_mbr writes the table at
\* once, exec_mkpart_gpt wipes it and makes one partition after the other.
Partitioned(disk, def, ok) ==
    LET n == Len(Codes(def)) IN
    IF def.table_type = "mbr" /\ n > 4 THEN {disk}
    ELSE IF ok THEN Laid(disk, def, n)
    ELSE IF def.table_type = "mbr" THEN {disk}
    ELSE {disk, Blank} \cup UNION {Laid(disk, def, k) : k \in 1..(n - 1)}

\* purge_disk: the filesystems of the partitions, then the table.  Under Python 3
\* the latter raises, as it writes text to a file opened as binary.
Purged(disk, ok) ==
    LET Wiped(k) == [disk EXCEPT !.parts = [i \in Parts(disk) |-> IF i <= k THEN [@[i] EXCEPT !.on = Empty] ELSE @[i]]]
    IN IF ok THEN {Blank, Wiped(Len(disk.parts))} ELSE {Wiped(k) : k \in 0..Len(disk.parts)}

\* mkpart: the disks it may leave behind, when a command fails and when none does.
Mkpart(disk, def, ok) ==
    CASE def.layout = "no" -> {disk}
      [] def.layout = "remove" -> Purged(disk, ok)
      [] OTHER ->
           IF LayoutMatches(disk, def) \/ (~def.overwrite /\ Used(disk))
           THEN {disk} ELSE Partitioned(disk, def, ok)

----------------------------------------------------------------------------
(* A filesystem.  A definition: [filesystem, label, partition, number,      *)
(* overwrite, replace_fs]; the partition is "auto", "any", "none" or        *)
(* "number".                                                                *)

FsDefs == [filesystem : Words \ {None}, label : Words, partition : {"auto", "any", "none", "number"},
           number : Nat, overwrite : BOOLEAN, replace_fs : Words]

\* find_device_node over the whole disk and its partitions in their order: the
\* first that is to be replaced, that fits, or that is a partition with nothing on
\* it; the whole disk if nothing is on it anywhere.
Replaced(disk, def, i) == def.partition = "any" /\ def.replace_fs # None /\ On(disk, i).fs = def.replace_fs
Fits(disk, def, i) ==
    On(disk, i).fs = def.filesystem /\ (def.partition = "any" \/ On(disk, i).label = def.label)
Found(disk, def) ==
    {i \in 0..Len(disk.parts) :
        Replaced(disk, def, i) \/ Fits(disk, def, i) \/ (i > 0 /\ On(disk, i).fs = None)}

\* The device mkfs formats, if any.
Target(disk, def) ==
    CASE def.partition = "none" -> {0}
      [] def.partition = "number" ->
           IF /\ def.number \in Parts(disk) /\ ~def.overwrite
              /\ On(disk, def.number).fs = def.filesystem /\ On(disk, def.number).label = def.label
           THEN {} ELSE {def.number}
      [] OTHER ->
           LET found == Found(disk, def) IN
           IF found = {} THEN (IF Used(disk) THEN {} ELSE {0})
           ELSE IF ~Replaced(disk, def, Min(found)) /\ Fits(disk, def, Min(found)) THEN {} ELSE {Min(found)}

\* mkfs: a command that fails leaves the device as it was, or half made.  A
\* partition that does not exist is not formatted; a filesystem on the whole disk
\* takes the table with it.
Mkfs(disk, def, ok) ==
    LET formatted == [fs |-> def.filesystem, label |-> def.label, files |-> FALSE]
        Formatted(i, on) == IF i = 0 THEN [Blank EXCEPT !.raw = on] ELSE [disk EXCEPT !.parts[i].on = on]
        targets == Target(disk, def) \cap (0..Len(disk.parts))
    IN IF targets = {} THEN {disk}
       ELSE UNION {IF ok THEN {Formatted(i, formatted)} ELSE {disk, Formatted(i, Empty)} : i \in targets}

----------------------------------------------------------------------------
\* A config that says nowhere that something is to be destroyed.
Careful(table, fss) ==
    /\ table.layout # "remove" /\ ~table.overwrite
    /\ \A i \in DOMAIN fss :
         fss[i].partition \in {"auto", "any"} /\ ~fss[i].overwrite /\ fss[i].replace_fs = None
=============================================================================
