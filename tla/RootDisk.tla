------------------------------- MODULE RootDisk -------------------------------
(***************************************************************************)
(* The root filesystem grows with its disk: cc_growpart.py, then             *)
(* cc_resizefs.py, in every boot, with parse_mount_info of util.py, which    *)
(* finds the device of a path.  The disk of a machine may be larger at the   *)
(* next boot.  With resize_rootfs: noblock the filesystem grows in a child   *)
(* while the boot goes on.  Commands fail and processes are killed anywhere. *)
(***************************************************************************)
EXTENDS Naturals, Sequences, SequencesExt

CONSTANTS Machines, \* [container, mounts, rootarg, devs, tools, mode, devices, marker, ignore,
                    \*  resize, root], see below
          NoMachine,
          MaxRoom   \* bound: how far a disk grows

\* What is mounted on / last is the root filesystem: rootfs, which the kernel mounts
\* first, is covered, and no other device of /dev is there.
ASSUME RootAssumption ==
    /\ MaxRoom \in Nat /\ NoMachine \notin Machines
    /\ \A m \in Machines :
         /\ m.devs \in [DOMAIN m.devs -> {"partition", "disk"}] /\ m.root # ""
         /\ m.tools \subseteq {"growpart", "gpart"} /\ m.devices \in Seq(ToSet(m.devices))
         /\ m.mounts \in Seq(ToSet(m.mounts)) /\ \A i \in DOMAIN m.mounts : m.mounts[i].point \in Seq(STRING)
         /\ \E i \in DOMAIN m.mounts :
              /\ m.mounts[i].point = <<>> /\ m.mounts[i].fs # "rootfs"
              /\ \A j \in DOMAIN m.mounts : m.mounts[j].point = <<>> => j <= i
              /\ m.mounts[i].dev \in DOMAIN m.devs => m.mounts[i].dev \in {m.root, "root"}

VARIABLES
    machine, \* mounts: lines [point, fs, dev, good] of mountinfo, a point a sequence of names;
             \* rootarg: the device root= names, or ""; devs: what the names in /dev are;
             \* devices: what the config wants grown, [dev, point]; root: what is mounted on /
    part,    \* per device [room, size, seen, fs]: as large as the disk allows, as its table
             \* says, as the kernel knows, and as the filesystem takes
    stage,   \* where the boot is
    entries, \* devices to be grown
    child,   \* a resize in the background
    smooth1  \* history: nothing failed in this boot

rootVars == <<machine, part, stage, entries, child, smooth1>>

RootInit ==
    /\ machine \in Machines
    /\ part = [d \in DOMAIN machine.devs |-> [room |-> 1, size |-> 1, seen |-> 1, fs |-> 1]]
    /\ stage = "off" /\ entries = <<>> /\ child = FALSE /\ smooth1 = TRUE

----------------------------------------------------------------------------
\* Mutant: the first mount on a point is taken for the one to be seen.
ParseMountInfo_FirstWins(path, lines) ==
    LET above == {i \in DOMAIN lines : IsPrefix(lines[i].point, path)}
        best == {i \in above : \A j \in above : Len(lines[j].point) <= Len(lines[i].point)}
    IN  IF best = {} THEN <<>> ELSE <<lines[CHOOSE i \in best : \A j \in best : i <= j]>>

\* The deepest mount above the path, of several the last: it covers the others.
\* A line that cannot be read spoils the answer.
ParseMountInfo(path, lines) ==
    LET above == {i \in DOMAIN lines : IsPrefix(lines[i].point, path)}
        best == {i \in above : \A j \in above : Len(lines[j].point) <= Len(lines[i].point)}
    IN  IF best = {} \/ \E i \in DOMAIN lines : ~lines[i].good THEN <<>>
        ELSE <<lines[CHOOSE i \in best : \A j \in best : j <= i]>>

MountInfo(path) == ParseMountInfo(path, machine.mounts)

IsDevice(d) == d \in DOMAIN machine.devs /\ machine.devs[d] \in {"partition", "disk"}

\* devent2dev, stat and device_part_info: the partition an entry stands for, if any.
PartitionOf(entry) ==
    LET mount == MountInfo(entry.point)
        dev == CASE entry.dev # "" -> entry.dev
                 [] entry.dev = "" /\ mount = <<>> -> ""
                 [] OTHER -> IF mount[1].dev = "root" /\ ~machine.container THEN machine.rootarg ELSE mount[1].dev
    IN  IF dev \in DOMAIN machine.devs /\ machine.devs[dev] = "partition" THEN <<dev>> ELSE <<>>

\* os.path.exists(None): nothing on the command line tells what /dev/root is.
EntryRaises(entry) ==
    /\ entry.dev = "" /\ MountInfo(entry.point) # <<>> /\ MountInfo(entry.point)[1].dev = "root"
    /\ ~machine.container /\ machine.rootarg = ""

\* resizer_factory.
Resizer ==
    CASE machine.mode = "auto" -> IF "growpart" \in machine.tools THEN "growpart"
                                  ELSE IF "gpart" \in machine.tools THEN "gpart" ELSE "none"
      [] machine.mode # "auto" /\ machine.mode \in machine.tools -> machine.mode
      [] OTHER -> "none"

GrowpartOff == machine.mode = "off" \/ (machine.marker /\ ~machine.ignore)

Boots ==
    /\ stage = "off" /\ stage' = "growpart" /\ smooth1' = TRUE
    /\ UNCHANGED <<machine, part, entries, child>>

\* A mode that is asked for and not there raises.
Growpart ==
    /\ stage = "growpart"
    /\ IF GrowpartOff \/ Resizer = "none"
       THEN stage' = "resizefs" /\ UNCHANGED entries
       ELSE stage' = "devices" /\ entries' = machine.devices
    /\ UNCHANGED <<machine, part, child, smooth1>>

\* What the commands do: growpart tells the kernel, gpart leaves that to a reboot.
Grown(p, ok) ==
    CASE p.size = p.room /\ Resizer = "growpart" -> {p}
      [] ok /\ p.size # p.room /\ Resizer = "growpart" -> {[p EXCEPT !.size = p.room, !.seen = p.room]}
      [] ok /\ Resizer = "gpart" -> {[p EXCEPT !.size = p.room]}
      [] OTHER -> {p, [p EXCEPT !.size = p.room]}

GrowDevice ==
    /\ stage = "devices" /\ entries # <<>>
    /\ entries' = IF EntryRaises(Head(entries)) THEN <<>> ELSE Tail(entries)
    /\ \E ok \in BOOLEAN :
         IF EntryRaises(Head(entries)) \/ PartitionOf(Head(entries)) = <<>>
         THEN part' = part /\ smooth1' = smooth1
         ELSE LET d == PartitionOf(Head(entries))[1]
              IN  (\E p \in Grown(part[d], ok) : part' = [part EXCEPT ![d] = p]) /\ smooth1' = (smooth1 /\ ok)
    /\ UNCHANGED <<machine, stage, child>>

DevicesDone ==
    /\ stage = "devices" /\ entries = <<>> /\ stage' = "resizefs"
    /\ UNCHANGED <<machine, part, entries, child, smooth1>>

----------------------------------------------------------------------------
Root == MountInfo(<<>>)

\* is_device_path_writable_block: /dev/root need not exist.
Writable ==
    LET d == Root[1].dev
    IN  IF d = "root" /\ "root" \notin DOMAIN machine.devs /\ ~machine.container
        THEN IsDevice(machine.rootarg) ELSE IsDevice(d)

\* The device the command works on: btrfs and xfs are grown by their mount point,
\* the others by the name in mountinfo, whether there is such a device or not.
ResizedDevice ==
    CASE Root[1].fs \in {"btrfs", "xfs"} -> machine.root
      [] Root[1].fs \notin {"btrfs", "xfs"} /\ Root[1].dev = "root" /\ "root" \in DOMAIN machine.devs -> machine.root
      [] OTHER -> Root[1].dev

\* can_skip_resize: ufs knows how large it is.
MaySkip == Root[1].fs = "ufs" /\ part[machine.root].fs = part[machine.root].seen

DoResize(ok) ==
    IF ok /\ ResizedDevice \in DOMAIN part
    THEN part' = [part EXCEPT ![ResizedDevice].fs = part[ResizedDevice].seen] /\ smooth1' = smooth1
    ELSE part' = part /\ smooth1' = FALSE

NoResize ==
    \/ machine.resize = "false" \/ Root = <<>>
    \/ ~Writable \/ MaySkip \/ Root[1].fs \notin {"btrfs", "ext4", "xfs", "ufs"}

Resizefs ==
    /\ stage = "resizefs" /\ stage' = "up"
    /\ CASE NoResize -> UNCHANGED <<part, child, smooth1>>
         [] ~NoResize /\ machine.resize = "noblock" -> child' = TRUE /\ UNCHANGED <<part, smooth1>>
         [] OTHER -> child' = child /\ \E ok \in BOOLEAN : DoResize(ok)
    /\ UNCHANGED <<machine, entries>>

ChildResizes ==
    /\ child /\ child' = FALSE /\ \E ok \in BOOLEAN : DoResize(ok)
    /\ UNCHANGED <<machine, stage, entries>>

Dies ==
    /\ stage \in {"growpart", "devices", "resizefs"} /\ stage' = "up" /\ smooth1' = FALSE /\ entries' = <<>>
    /\ IF stage = "devices" /\ entries # <<>> /\ PartitionOf(Head(entries)) # <<>>
       THEN LET d == PartitionOf(Head(entries))[1]
            IN  \E p \in Grown(part[d], FALSE) : part' = [part EXCEPT ![d] = p]
       ELSE part' = part
    /\ UNCHANGED <<machine, child>>

(* Off, and on again with a disk that may be larger: the kernel reads the    *)
(* tables afresh, and a disk without one is as large as it is.               *)
OffAndLarger ==
    /\ stage = "up" /\ stage' = "off" /\ child' = FALSE
    /\ \E more \in {0, 1} :
         part' = [d \in DOMAIN part |->
                    LET room == IF part[d].room + more <= MaxRoom THEN part[d].room + more ELSE MaxRoom
                        size == IF machine.devs[d] = "disk" THEN room ELSE part[d].size
                    IN  [part[d] EXCEPT !.room = room, !.size = size, !.seen = size]]
    /\ UNCHANGED <<machine, entries, smooth1>>

RootNext ==
    \/ Boots \/ Growpart \/ GrowDevice \/ DevicesDone \/ Resizefs
    \/ ChildResizes \/ Dies \/ OffAndLarger

RootSpec == RootInit /\ [][RootNext]_rootVars

----------------------------------------------------------------------------
\* An entry that stands for the root filesystem.
OfRoot(entry) == entry \in {[dev |-> "", point |-> <<>>], [dev |-> machine.root, point |-> <<>>]}

\* What the configuration asks for, of a machine whose root is a partition it can grow.
Wanted ==
    /\ machine.mode = "auto" /\ machine.tools # {} /\ machine.resize # "false"
    /\ machine.marker => machine.ignore
    /\ machine.container = FALSE /\ \A i \in DOMAIN machine.mounts : machine.mounts[i].good
    /\ machine.root \in DOMAIN machine.devs /\ machine.devs[machine.root] = "partition"
    /\ \E i \in DOMAIN machine.devices :
         /\ OfRoot(machine.devices[i])
         /\ \A j \in 1..(i - 1) : ~EntryRaises(machine.devices[j])
    /\ \A mount \in {l \in ToSet(machine.mounts) : l.point = <<>> /\ l.fs # "rootfs"} :
         /\ mount.dev \in {"root", machine.root} /\ mount.fs \in {"btrfs", "ext4", "xfs", "ufs"}
         /\ mount.dev = "root" => machine.rootarg = machine.root

\* What is not the root's is left alone: filesystems, and partitions that are not listed.
OthersStay ==
    \A d \in DOMAIN part \ {machine.root} :
        /\ part[d].fs = 1
        /\ machine.devs[d] = "partition" /\ (\A i \in DOMAIN machine.devices : PartitionOf(machine.devices[i]) # <<d>>)
             => part[d].size = 1

\* After a boot in which nothing failed the root filesystem takes the whole disk, however
\* often the disk grew and whatever failed in earlier boots - with gpart, what the kernel
\* saw of it, the rest being its at the next boot.  And no other filesystem, and no
\* partition that is not listed, was touched.  (util.py:2048: of several mounts on a
\* point; cc_growpart.py before cc_resizefs.py; a resize in the background.)
RootFillsDisk ==
    machine # NoMachine =>
        /\ stage = "up" /\ ~child /\ smooth1 /\ Wanted =>
             LET p == part[machine.root]
             IN  p.size = p.room /\ p.fs = p.seen /\ (Resizer = "growpart" => p.seen = p.room)
        /\ OthersStay

----------------------------------------------------------------------------
(* Why it holds, as an inductive invariant.                                 *)

RootTypes ==
    /\ machine \in Machines
    /\ part \in [DOMAIN machine.devs -> [room : Nat, size : Nat, seen : Nat, fs : Nat]]
    /\ stage \in {"off", "growpart", "devices", "resizefs", "up"}
    /\ entries \in Seq(ToSet(machine.devices))
    /\ child \in BOOLEAN /\ smooth1 \in BOOLEAN

\* The kernel knows the tables at first, and afterwards if growpart did not fail.
KernelKnows ==
    stage = "off" \/ (smooth1 /\ Resizer = "growpart") => \A d \in DOMAIN part : part[d].seen = part[d].size

\* A child runs once the boot is over, and where there is a filesystem to be resized.
InBackground == child => stage = "up" /\ Root # <<>>

\* The root's partition takes the disk, or its entry is to come and will be reached.
Full(p) == p.size = p.room /\ (Resizer = "growpart" => p.seen = p.room)
RootGrows ==
    smooth1 /\ Wanted =>
        /\ stage = "devices" /\ ~Full(part[machine.root]) =>
             \E i \in DOMAIN entries : OfRoot(entries[i]) /\ \A j \in 1..(i - 1) : ~EntryRaises(entries[j])
        /\ stage \in {"resizefs", "up"} => Full(part[machine.root])

RootInv == RootTypes /\ KernelKnows /\ InBackground /\ RootGrows /\ RootFillsDisk
=============================================================================
