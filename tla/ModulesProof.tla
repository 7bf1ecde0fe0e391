------------------------------ MODULE ModulesProof -----------------------------
(***************************************************************************)
(* What TLAPS proves of what config modules make of a machine.  Of the       *)
(* ephemeral disk of an Azure machine (AzureDisk), for any disks, tables and *)
(* filesystems: files that somebody wrote on it are kept, and a fresh disk   *)
(* is prepared.  DisksInv is inductive: the semaphore of disk_setup tells of *)
(* a disk on which there is something to lose, as long as the disk was not   *)
(* missed when it was due.  Of the root filesystem (RootDisk), for any       *)
(* machines: it takes the disk.  RootInv is inductive: while nothing fails,  *)
(* the entry of the root is still to be carried out or its partition is as   *)
(* large as it can be.  Of six modules whose effects are a fixed list        *)
(* (Configure), for any files and configurations: what is asked takes effect *)
(* and is the same when the module is run again.  RunsInv is inductive: the  *)
(* files are what the effects so far have made of those the run found, from  *)
(* which what all of them make follows, module by module.                   *)
(***************************************************************************)
EXTENDS AzureDisk, RootDisk, Configure, SequenceTheorems, WellFoundedInduction, TLAPS

Good(d) == d \in Disk /\ WellFormed(d)

----------------------------------------------------------------------------
(* What the commands make of a disk.                                        *)

\* The partitions of a disk, and what is on them and on the whole of it.
LEMMA PartsAre ==
  ASSUME NEW d, Good(d)
  PROVE  /\ d.parts \in Seq(Partition) /\ Len(d.parts) \in Nat /\ Parts(d) = DOMAIN d.parts
         /\ \A i \in Parts(d) : /\ d.parts[i] \in Partition /\ d.parts[i].on \in Content
                               /\ d.parts[i].code \in Words /\ On(d, i) = d.parts[i].on
         /\ On(d, 0) = d.raw /\ d.raw \in Content
         /\ \A i \in 0..Len(d.parts) : i = 0 \/ i \in Parts(d)
  <1>1. d.parts \in Seq(Partition) /\ d.raw \in Content
    BY DEF Good, Disk
  <1>2. Len(d.parts) \in Nat /\ DOMAIN d.parts = 1..Len(d.parts)
    BY <1>1
  <1>3. ASSUME NEW i \in Parts(d)
        PROVE  /\ d.parts[i] \in Partition /\ d.parts[i].on \in Content
               /\ d.parts[i].code \in Words /\ On(d, i) = d.parts[i].on
    <2>1. i \in 1..Len(d.parts) /\ i # 0
      BY <1>2 DEF Parts
    <2>2. d.parts[i] \in Partition
      BY <1>1, <2>1
    <2>3. QED
      BY <2>1, <2>2 DEF Partition, On
  <1>4. On(d, 0) = d.raw
    BY DEF On
  <1>5. QED
    BY <1>1, <1>2, <1>3, <1>4 DEF Parts

\* A function on the first numbers is a sequence.
LEMMA IsSequence ==
  ASSUME NEW S, NEW n \in Nat, NEW w, w = [k \in 1..n |-> w[k]], \A k \in 1..n : w[k] \in S
  PROVE  w \in Seq(S) /\ Len(w) = n
  OBVIOUS

\* A device holds something, or nothing.
LEMMA OnTypes ==
  ASSUME NEW d, Good(d), NEW i \in 0..Len(d.parts)
  PROVE  On(d, i) \in Content /\ (On(d, i).fs = None => On(d, i) = Empty)
  BY PartsAre DEF Good, WellFormed

\* The disk of which everything is wiped.
LEMMA BlankGood == Good(Blank) /\ ~HasFiles(Blank) /\ Empty \in Content
  BY DisksAssumption DEF Good, Disk, On, WellFormed, Blank, Empty, Content, HasFiles

\* A new table: its partitions are empty, but for what shows again on the first.
LEMMA LaidGood ==
  ASSUME NEW d, Good(d), NEW def \in TableDefs, NEW n \in 0..Len(Codes(def)),
         NEW e \in Laid(d, def, n)
  PROVE  Good(e) /\ Len(e.parts) = n /\ (HasFiles(e) => HasFiles(d))
  <1> DEFINE Code(i) == IF Codes(def)[i] = None THEN "83" ELSE Codes(def)[i]
  <1>1. PICK first \in {Empty} \cup {d.parts[i].on : i \in Parts(d) \cap {1}} :
           e = [table |-> def.table_type, raw |-> Empty,
                parts |-> [i \in 1..n |-> [code |-> Code(i), on |-> IF i = 1 THEN first ELSE Empty]]]
    BY Zenon DEF Laid
  <1>2. /\ first \in Content /\ (first.fs = None => first = Empty)
        /\ first.files => HasFiles(d)
    <2>1. CASE first = Empty
      BY <2>1, BlankGood DEF Empty
    <2>2. CASE first # Empty
      <3>1. first = d.parts[1].on /\ 1 \in Parts(d)
        BY <1>1, <2>2
      <3>2. first = On(d, 1) /\ 1 \in 0..Len(d.parts)
        BY <3>1, PartsAre DEF Parts
      <3>3. QED
        BY <3>2, OnTypes DEF HasFiles
    <2>3. QED
      BY <2>1, <2>2
  <1>3. Codes(def) \in Seq(Words) /\ Len(Codes(def)) \in Nat
    <2>1. <<None>> \in Seq(Words) /\ def.codes \in Seq(Words)
      BY DisksAssumption DEF TableDefs
    <2>2. Codes(def) \in Seq(Words)
      BY <2>1 DEF Codes
    <2>3. QED
      BY <2>2
  <1>4. \A i \in 1..n : Code(i) \in Words
    <2>1. ASSUME NEW i \in 1..n
          PROVE  Codes(def)[i] \in Words
      BY <1>3
    <2>2. "83" \in Words
      BY DisksAssumption
    <2>3. QED
      BY <2>1, <2>2
  <1> HIDE DEF Code
  <1>5. \A i \in 1..n : [code |-> Code(i), on |-> IF i = 1 THEN first ELSE Empty] \in Partition
    BY <1>2, <1>4, BlankGood DEF Partition
  <1>6. e.parts \in Seq(Partition) /\ Len(e.parts) = n /\ n \in Nat
    BY <1>1, <1>3, <1>5
  <1>7. e.table \in {None, "mbr", "gpt"} /\ e.raw = Empty /\ e = [table |-> e.table, raw |-> e.raw, parts |-> e.parts]
    BY <1>1 DEF TableDefs
  <1>8. e \in Disk
    BY <1>6, <1>7, BlankGood DEF Disk
  <1>9. \A i \in 0..n : On(e, i) = IF i = 1 THEN first ELSE Empty
    BY <1>1, <1>6, <1>7 DEF On
  <1>10. QED
    BY <1>2, <1>6, <1>7, <1>8, <1>9 DEF Good, WellFormed, HasFiles, Empty

\* Filesystems are removed from the first partitions.
LEMMA WipedGood ==
  ASSUME NEW d, Good(d), NEW k \in 0..Len(d.parts), NEW e,
         e = [d EXCEPT !.parts = [i \in Parts(d) |-> IF i <= k THEN [@[i] EXCEPT !.on = Empty] ELSE @[i]]]
  PROVE  Good(e) /\ (HasFiles(e) => HasFiles(d))
  <1> DEFINE w == [i \in Parts(d) |-> IF i <= k THEN [d.parts[i] EXCEPT !.on = Empty] ELSE d.parts[i]]
  <1>1. d \in Disk /\ Len(d.parts) \in Nat /\ \A i \in Parts(d) : d.parts[i] \in Partition
    BY PartsAre DEF Good
  <1>2. /\ e.table = d.table /\ e.raw = d.raw /\ e.parts = w
        /\ e = [table |-> e.table, raw |-> e.raw, parts |-> e.parts]
    BY <1>1 DEF Disk
  <1>3. \A i \in Parts(d) : w[i] \in Partition /\ w[i].on = IF i <= k THEN Empty ELSE On(d, i)
    BY <1>1, BlankGood, PartsAre DEF Partition
  <1> HIDE DEF w
  <1>4. w \in Seq(Partition) /\ Len(w) = Len(d.parts)
    <2>1. w = [i \in 1..Len(d.parts) |-> w[i]]
      BY DEF w, Parts
    <2>2. \A i \in 1..Len(d.parts) : w[i] \in Partition
      BY <1>3 DEF Parts
    <2>3. QED
      BY <1>1, <2>1, <2>2
  <1>5. e \in Disk
    BY <1>1, <1>2, <1>4 DEF Disk
  <1>6. \A i \in 0..Len(d.parts) : On(e, i) = IF i > 0 /\ i <= k THEN Empty ELSE On(d, i)
    BY <1>1, <1>2, <1>3, PartsAre DEF On, Parts
  <1>7. e.parts # <<>> => d.raw = Empty
    BY <1>1, <1>2, <1>4 DEF Good, WellFormed
  <1>8. Len(e.parts) = Len(d.parts)
    BY <1>2, <1>4
  <1>9. WellFormed(e)
    <2>1. \A i \in 0..Len(d.parts) : On(e, i).fs = None => On(e, i) = Empty
      BY <1>6, OnTypes
    <2>2. QED
      BY <1>2, <1>7, <1>8, <2>1 DEF WellFormed
  <1>10. HasFiles(e) => HasFiles(d)
    BY <1>6, <1>8 DEF HasFiles, Empty
  <1>11. QED
    BY <1>5, <1>9, <1>10 DEF Good

\* mkpart: what is left of a disk is a disk, with no files but those it had.
LEMMA MkpartGood ==
  ASSUME NEW d, Good(d), NEW def \in TableDefs, NEW ok \in BOOLEAN, NEW e \in Mkpart(d, def, ok)
  PROVE  Good(e) /\ (HasFiles(e) => HasFiles(d))
  <1>1. Len(Codes(def)) \in Nat /\ Len(d.parts) \in Nat
    <2>1. def.codes \in Seq(Words) /\ Len(<<None>>) = 1
      BY DEF TableDefs
    <2>2. QED
      BY <2>1, PartsAre DEF Codes
  <1>2. CASE e \in Purged(d, ok)
    <2>1. e = Blank \/ \E k \in 0..Len(d.parts) :
             e = [d EXCEPT !.parts = [i \in Parts(d) |-> IF i <= k THEN [@[i] EXCEPT !.on = Empty] ELSE @[i]]]
      BY <1>1, <1>2 DEF Purged
    <2>2. QED
      BY <2>1, BlankGood, WipedGood
  <1>3. CASE e \in Partitioned(d, def, ok)
    <2>1. e = d \/ e = Blank \/ \E n \in 0..Len(Codes(def)) : e \in Laid(d, def, n)
      BY <1>1, <1>3 DEF Partitioned
    <2>2. QED
      BY <2>1, BlankGood, LaidGood
  <1>4. e = d \/ e \in Purged(d, ok) \/ e \in Partitioned(d, def, ok)
    BY DEF Mkpart
  <1>5. QED
    BY <1>2, <1>3, <1>4

\* By the datasource's config, without a failure, one partition is there.
LEMMA MkpartBuiltin ==
  ASSUME NEW d, Good(d), NEW e \in Mkpart(d, BuiltinTable, TRUE)
  PROVE  Len(e.parts) = 1
  <1>1. Codes(BuiltinTable) = <<None>> /\ BuiltinTable \in TableDefs
    BY DisksAssumption DEF Codes, BuiltinTable, TableDefs
  <1>2. CASE LayoutMatches(d, BuiltinTable)
    <2>1. Len(<<None>>) = Len(d.parts)
      BY <1>2 DEF LayoutMatches, BuiltinTable
    <2>2. e = d
      BY <1>2 DEF Mkpart, BuiltinTable
    <2>3. QED
      BY <2>1, <2>2
  <1>3. CASE ~LayoutMatches(d, BuiltinTable)
    <2>1. e \in Partitioned(d, BuiltinTable, TRUE)
      BY <1>3 DEF Mkpart, BuiltinTable
    <2>2. e \in Laid(d, BuiltinTable, 1)
      BY <1>1, <2>1 DEF Partitioned, BuiltinTable
    <2>3. 1 \in 0..Len(Codes(BuiltinTable))
      BY <1>1
    <2>4. QED
      BY <1>1, <2>2, <2>3, LaidGood
  <1>4. QED
    BY <1>2, <1>3

\* A table that is to destroy nothing is written on a disk without anything only.
LEMMA MkpartCareful ==
  ASSUME NEW d, Good(d), NEW def \in TableDefs, def.layout # "remove", ~def.overwrite,
         NEW ok \in BOOLEAN, NEW e \in Mkpart(d, def, ok)
  PROVE  e = d \/ ~HasFiles(d)
  <1>1. e = d \/ ~Used(d)
    BY DEF Mkpart
  <1>2. ~Used(d) => Len(d.parts) = 0 /\ On(d, 0) = Empty
    <2>1. ~Used(d) => d.parts = <<>> /\ On(d, 0).fs = None
      BY PartsAre DEF Used
    <2>2. 0 \in 0..Len(d.parts)
      BY PartsAre
    <2>3. QED
      BY <2>1, <2>2, OnTypes
  <1>3. QED
    BY <1>1, <1>2 DEF HasFiles, Empty

----------------------------------------------------------------------------
Less == {pair \in Nat \X Nat : pair[1] < pair[2]}

\* Every set of numbers that is not empty has a smallest one, which is its Min.
LEMMA MinIsMember ==
  ASSUME NEW T \in SUBSET Nat, T # {}
  PROVE  Min(T) \in T
  <1>1. IsWellFoundedOn(Less, Nat)
    BY NatLessThanWellFounded, Zenon DEF OpToRel, Less
  <1>2. PICK x \in T : \A y \in T : ~(<<y, x>> \in Less)
    BY <1>1, WFMin, Zenon
  <1>3. \A y \in T : ~(y < x)
    BY <1>2 DEF Less
  <1>4. \A y \in T : x =< y
    BY <1>3
  <1>5. QED
    BY <1>4, Zenon DEF Min

\* A filesystem, made or about to be, on a device that is there.
Formatted(d, i, on) == IF i = 0 THEN [Blank EXCEPT !.raw = on] ELSE [d EXCEPT !.parts[i].on = on]
Made(def) == [fs |-> def.filesystem, label |-> def.label, files |-> FALSE]

\* mkfs: the disk stays as it is, or one of the devices meant is formatted.
LEMMA MkfsOne ==
  ASSUME NEW d, NEW def, NEW ok \in BOOLEAN, NEW e \in Mkfs(d, def, ok)
  PROVE  \/ e = d /\ (ok => Target(d, def) \cap (0..Len(d.parts)) = {})
         \/ \E i \in Target(d, def) \cap (0..Len(d.parts)) :
              e = Formatted(d, i, Made(def)) \/ (~ok /\ e = Formatted(d, i, Empty))
  <1> DEFINE targets == Target(d, def) \cap (0..Len(d.parts))
  <1>1. CASE targets = {}
    BY <1>1, Zenon DEF Mkfs
  <1>2. CASE targets # {}
    <2>1. PICK i \in targets :
            e \in IF ok THEN {Formatted(d, i, Made(def))} ELSE {d, Formatted(d, i, Empty)}
      BY <1>2, Zenon DEF Mkfs, Formatted, Made
    <2>2. QED
      BY <2>1, Zenon
  <1>3. QED
    BY <1>1, <1>2

\* What a device holds once it is formatted; the other partitions are left alone.
LEMMA FormattedGood ==
  ASSUME NEW d, Good(d), NEW i \in 0..Len(d.parts), NEW on \in Content, ~on.files,
         on.fs = None => on = Empty
  PROVE  LET e == Formatted(d, i, on) IN
         /\ Good(e) /\ (HasFiles(e) => HasFiles(d))
         /\ i = 0 \/ Len(e.parts) = Len(d.parts)
         /\ \A k \in 0..Len(d.parts) : i = 0 \/ On(e, k) = IF k = i THEN on ELSE On(d, k)
         /\ i # 0 \/ (e.parts = <<>> /\ On(e, 0) = on)
  <1> SUFFICES ASSUME NEW e, e = Formatted(d, i, on)
               PROVE  /\ Good(e) /\ (HasFiles(e) => HasFiles(d))
                      /\ i = 0 \/ Len(e.parts) = Len(d.parts)
                      /\ \A k \in 0..Len(d.parts) : i = 0 \/ On(e, k) = IF k = i THEN on ELSE On(d, k)
                      /\ i # 0 \/ (e.parts = <<>> /\ On(e, 0) = on)
    OBVIOUS
  <1>1. d \in Disk /\ Len(d.parts) \in Nat /\ d.parts \in Seq(Partition)
    BY PartsAre DEF Good
  <1>2. CASE i = 0
    <2>1. e = [table |-> None, raw |-> on, parts |-> <<>>]
      BY <1>2 DEF Formatted, Blank
    <2>2. Len(e.parts) = 0 /\ On(e, 0) = on
      BY <2>1 DEF On
    <2>3. e \in Disk
      BY <2>1 DEF Disk
    <2>4. QED
      BY <1>2, <2>1, <2>2, <2>3 DEF Good, WellFormed, HasFiles
  <1>3. CASE i # 0
    <2> DEFINE w == [d.parts EXCEPT ![i].on = on]
    <2>1. i \in Parts(d) /\ DOMAIN d.parts = 1..Len(d.parts)
      BY <1>1, <1>3, PartsAre
    <2>2. /\ e.table = d.table /\ e.raw = d.raw /\ e.parts = w
          /\ e = [table |-> e.table, raw |-> e.raw, parts |-> e.parts]
      BY <1>1, <1>3 DEF Formatted, Disk
    <2>3. \A k \in Parts(d) : w[k] \in Partition /\ w[k].on = IF k = i THEN on ELSE On(d, k)
      BY <2>1, PartsAre DEF Partition
    <2>4. w = [k \in 1..Len(d.parts) |-> w[k]]
      BY <2>1
    <2> HIDE DEF w
    <2>5. w \in Seq(Partition) /\ Len(w) = Len(d.parts)
      <3>1. \A k \in 1..Len(d.parts) : w[k] \in Partition
        BY <2>3 DEF Parts
      <3>2. Len(d.parts) \in Nat
        BY <1>1
      <3>3. QED
        BY <2>4, <3>1, <3>2
    <2>6. e \in Disk
      BY <1>1, <2>2, <2>5 DEF Disk
    <2>7. Len(e.parts) = Len(d.parts)
      BY <2>2, <2>5
    <2>8. \A k \in 0..Len(d.parts) : On(e, k) = IF k = i THEN on ELSE On(d, k)
      BY <1>1, <1>3, <2>2, <2>3, PartsAre DEF On, Parts
    <2>9. WellFormed(e)
      <3>1. \A k \in 0..Len(d.parts) : On(e, k).fs = None => On(e, k) = Empty
        BY <2>8, OnTypes
      <3>2. d.raw = Empty
        BY <1>1, <2>1 DEF Good, WellFormed, Parts
      <3>3. QED
        BY <2>2, <2>7, <3>1, <3>2 DEF WellFormed
    <2>10. HasFiles(e) => HasFiles(d)
      BY <2>7, <2>8 DEF HasFiles
    <2>11. QED
      BY <1>3, <2>6, <2>7, <2>8, <2>9, <2>10 DEF Good
  <1>4. QED
    BY <1>2, <1>3

\* The first of one partition, formatted.
LEMMA FormattedFirst ==
  ASSUME NEW d, Good(d), Len(d.parts) = 1, NEW on \in Content, ~on.files, on.fs = None => on = Empty
  PROVE  Len(Formatted(d, 1, on).parts) = 1 /\ On(Formatted(d, 1, on), 1) = on
  <1>1. 1 \in 0..Len(d.parts) /\ 1 # 0
    OBVIOUS
  <1>2. QED
    BY <1>1, FormattedGood

\* A filesystem that is made, and one about to be.
LEMMA MadeIs ==
  ASSUME NEW def \in FsDefs
  PROVE  /\ Made(def) \in Content /\ ~Made(def).files /\ Made(def).fs = def.filesystem /\ Made(def).fs # None
         /\ Empty \in Content /\ ~Empty.files /\ Empty.fs = None
  BY BlankGood DEF Made, FsDefs, Content, Empty

\* mkfs: what is left of a disk is a disk, with no files but those it had.
LEMMA MkfsGood ==
  ASSUME NEW d, Good(d), NEW def \in FsDefs, NEW ok \in BOOLEAN, NEW e \in Mkfs(d, def, ok)
  PROVE  Good(e) /\ (HasFiles(e) => HasFiles(d))
  <1>1. CASE e = d
    BY <1>1
  <1>2. CASE e # d
    <2>1. PICK i \in 0..Len(d.parts) : e = Formatted(d, i, Made(def)) \/ e = Formatted(d, i, Empty)
      BY <1>2, MkfsOne
    <2>2. CASE e = Formatted(d, i, Made(def))
      BY <2>2, FormattedGood, MadeIs
    <2>3. CASE e = Formatted(d, i, Empty)
      BY <2>3, FormattedGood, MadeIs
    <2>4. QED
      BY <2>1, <2>2, <2>3
  <1>3. QED
    BY <1>1, <1>2

\* By the datasource's config the one partition stays, and is not NTFS any more.
LEMMA MkfsBuiltin ==
  ASSUME NEW d, Good(d), Len(d.parts) = 1, NEW ok \in BOOLEAN, NEW e \in Mkfs(d, BuiltinFs[1], ok)
  PROVE  Len(e.parts) = 1 /\ (ok => ~Reformattable(e))
  <1> DEFINE def == BuiltinFs[1]
  <1>1. /\ def \in FsDefs /\ def.partition = "number" /\ def.number = 1 /\ def.filesystem = "ext4"
        /\ ~def.overwrite
    BY DisksAssumption DEF BuiltinFs, FsDefs
  <1> HIDE DEF def
  <1>2. Target(d, def) \in {{}, {1}} /\ (Target(d, def) = {} => On(d, 1).fs = "ext4")
    BY <1>1 DEF Target
  <1>3. 1 \in 0..Len(d.parts) /\ e \in Mkfs(d, def, ok)
    BY DEF def
  <1>4. CASE e = d
    <2>1. ASSUME ok
          PROVE  On(d, 1).fs = "ext4"
      <3>1. CASE Target(d, def) = {}
        BY <1>2, <3>1
      <3>2. CASE Target(d, def) # {}
        <4>1. /\ Target(d, def) \cap (0..Len(d.parts)) # {}
              /\ \A i \in Target(d, def) \cap (0..Len(d.parts)) : i = 1
          BY <1>2, <1>3, <3>2
        <4>2. e = Formatted(d, 1, Made(def))
          BY <1>3, <2>1, <4>1, MkfsOne, Zenon
        <4>3. On(e, 1) = Made(def)
          BY <1>1, <1>3, <4>2, FormattedFirst, MadeIs
        <4>4. QED
          BY <1>1, <1>4, <4>3, MadeIs
      <3>3. QED
        BY <3>1, <3>2
    <2>2. QED
      BY <1>2, <1>4, <2>1 DEF Reformattable
  <1>5. CASE e # d
    <2>1. e = Formatted(d, 1, Made(def)) \/ (~ok /\ e = Formatted(d, 1, Empty))
      BY <1>2, <1>3, <1>5, MkfsOne
    <2>2. Len(e.parts) = 1 /\ (ok => On(e, 1).fs = "ext4")
      <3>1. CASE e = Formatted(d, 1, Made(def))
        <4>1. Len(e.parts) = Len(d.parts) /\ On(e, 1) = Made(def)
          BY <1>1, <1>3, <3>1, FormattedFirst, MadeIs
        <4>2. QED
          BY <1>1, <4>1, MadeIs
      <3>2. CASE ~ok /\ e = Formatted(d, 1, Empty)
        <4>1. Len(e.parts) = Len(d.parts)
          BY <1>1, <1>3, <3>2, FormattedFirst, MadeIs
        <4>2. QED
          BY <3>2, <4>1
      <3>3. QED
        BY <2>1, <3>1, <3>2
    <2>3. QED
      BY <2>2 DEF Reformattable
  <1>6. QED
    BY <1>4, <1>5

\* A filesystem that is to replace nothing is made where there was none.
LEMMA MkfsCareful ==
  ASSUME NEW d, Good(d), NEW def \in FsDefs, def.partition \in {"auto", "any"}, def.replace_fs = None,
         NEW ok \in BOOLEAN, NEW e \in Mkfs(d, def, ok), NEW k \in 0..Len(d.parts), On(d, k).files
  PROVE  k \in 0..Len(e.parts) /\ On(e, k).files
  <1>1. Found(d, def) \in SUBSET Nat /\ Len(d.parts) \in Nat
    BY PartsAre DEF Found
  <1>2. ASSUME NEW i \in Target(d, def) \cap (0..Len(d.parts))
        PROVE  /\ On(d, i).fs = None
               /\ i = 0 => ~Used(d)
    <2>1. CASE Found(d, def) = {}
      <3>1. ~Used(d) /\ i = 0
        BY <2>1 DEF Target
      <3>2. QED
        BY <3>1, PartsAre DEF Used
    <2>2. CASE Found(d, def) # {}
      <3>1. i = Min(Found(d, def)) /\ (Fits(d, def, i) => Replaced(d, def, i))
        BY <2>2 DEF Target
      <3>2. i \in Found(d, def)
        BY <1>1, <2>2, <3>1, MinIsMember
      <3>3. ~Replaced(d, def, i)
        BY DEF Replaced
      <3>4. QED
        BY <3>1, <3>2, <3>3 DEF Found
    <2>3. QED
      BY <2>1, <2>2
  <1>3. CASE e = d
    BY <1>3
  <1>4. CASE e # d
    <2>1. PICK i \in Target(d, def) \cap (0..Len(d.parts)) :
            e = Formatted(d, i, Made(def)) \/ e = Formatted(d, i, Empty)
      BY <1>4, MkfsOne
    <2>2. On(d, i) = Empty /\ i # k
      BY <1>2, <2>1, OnTypes, MadeIs
    <2>3. i # 0
      <3>1. SUFFICES ASSUME i = 0 PROVE FALSE
        OBVIOUS
      <3>2. d.parts = <<>>
        BY <1>2, <2>1, <3>1 DEF Used
      <3>3. QED
        BY <2>2, <3>1, <3>2
    <2>4. QED
      BY <2>1, <2>2, <2>3, FormattedGood, MadeIs
  <1>5. QED
    BY <1>3, <1>4

----------------------------------------------------------------------------
(* The steps of a boot.                                                     *)

\* What the type invariant says of the disk, the config and what is left of it.
LEMMA Typed ==
  ASSUME TypeOK
  PROVE  /\ Good(disk) /\ table \in TableDefs /\ fss \in Seq(FsDefs)
         /\ todo # <<>> => Head(todo) \in FsDefs /\ \E m \in DOMAIN fss : Head(todo) = fss[m]
  <1>1. Good(disk) /\ table \in TableDefs /\ fss \in Seq(FsDefs) /\ todo \in Seq(FsDefs)
    BY DisksAssumption DEF TypeOK, Good
  <1>2. ASSUME todo # <<>>
        PROVE  1 \in DOMAIN todo /\ Head(todo) = todo[1] /\ Head(todo) \in FsDefs
    BY <1>1, <1>2
  <1>3. QED
    BY <1>1, <1>2 DEF TypeOK

\* Files are written on a filesystem: the disk stays a disk, and its first partition
\* empty where that is reserved.
LEMMA UseGood ==
  ASSUME NEW d, Good(d), NEW i \in 0..Len(d.parts), On(d, i).fs # None, NEW e,
         e = IF i = 0 THEN [d EXCEPT !.raw.files = TRUE] ELSE [d EXCEPT !.parts[i].on.files = TRUE]
  PROVE  Good(e) /\ (Reserved(d) => Reserved(e))
  <1>1. d \in Disk /\ Len(d.parts) \in Nat /\ d.parts \in Seq(Partition) /\ d.raw \in Content
    BY PartsAre DEF Good
  <1>2. CASE i = 0
    <2>1. /\ e.table = d.table /\ e.parts = d.parts /\ e.raw = [d.raw EXCEPT !.files = TRUE]
          /\ e = [table |-> e.table, raw |-> e.raw, parts |-> e.parts]
      BY <1>1, <1>2 DEF Disk
    <2>2. e.raw \in Content /\ e.raw.fs = d.raw.fs
      BY <1>1, <2>1 DEF Content
    <2>3. e \in Disk
      BY <1>1, <2>1, <2>2 DEF Disk
    <2>4. d.parts = <<>> /\ d.raw.fs # None
      BY <1>2, BlankGood DEF Good, WellFormed, On, Empty
    <2>5. \A k \in 0..Len(e.parts) : On(e, k) = e.raw
      BY <2>1, <2>4 DEF On
    <2>6. QED
      BY <2>1, <2>2, <2>3, <2>4, <2>5 DEF Good, WellFormed, Reserved
  <1>3. CASE i # 0
    <2> DEFINE w == [d.parts EXCEPT ![i].on.files = TRUE]
    <2>1. i \in Parts(d) /\ i \in DOMAIN d.parts /\ DOMAIN d.parts = 1..Len(d.parts)
      BY <1>1, <1>3, PartsAre
    <2>2. /\ e.table = d.table /\ e.raw = d.raw /\ e.parts = w
          /\ e = [table |-> e.table, raw |-> e.raw, parts |-> e.parts]
      BY <1>1, <1>3 DEF Disk
    <2>3. ASSUME NEW k \in Parts(d)
          PROVE  /\ w[k] \in Partition /\ w[k].on.fs = On(d, k).fs
                 /\ k # i => w[k] = d.parts[k]
      <3>1. k \in DOMAIN d.parts /\ d.parts[k] \in Partition /\ d.parts[k].on \in Content /\ On(d, k) = d.parts[k].on
        BY PartsAre
      <3>2. w[k] = IF k = i THEN [d.parts[k] EXCEPT !.on.files = TRUE] ELSE d.parts[k]
        BY <2>1, <3>1
      <3>3. QED
        BY <3>1, <3>2 DEF Partition, Content
    <2>4. w = [k \in 1..Len(d.parts) |-> w[k]]
      BY <2>1
    <2> HIDE DEF w
    <2>5. w \in Seq(Partition) /\ Len(w) = Len(d.parts)
      <3>1. \A k \in 1..Len(d.parts) : w[k] \in Partition
        BY <2>3 DEF Parts
      <3>2. Len(d.parts) \in Nat
        BY <1>1
      <3>3. QED
        BY <2>4, <3>1, <3>2, IsSequence, Zenon
    <2>6. e \in Disk /\ Len(e.parts) = Len(d.parts)
      BY <1>1, <2>2, <2>5 DEF Disk
    <2>7. \A k \in 0..Len(d.parts) : On(e, k).fs = On(d, k).fs /\ (k # i => On(e, k) = On(d, k))
      BY <1>1, <2>2, <2>3, PartsAre DEF On, Parts
    <2>8. WellFormed(e)
      <3>1. \A k \in 0..Len(d.parts) : On(e, k).fs = None => On(e, k) = Empty
        BY <2>7, OnTypes
      <3>2. d.raw = Empty
        BY <1>1, <2>1 DEF Good, WellFormed, Parts
      <3>3. QED
        BY <2>2, <2>6, <3>1, <3>2 DEF WellFormed
    <2>9. ASSUME Reserved(d) PROVE Reserved(e)
      <3>1. SUFFICES ASSUME Len(e.parts) = 2, e.parts[2].on.fs = "ntfs"
                     PROVE  e.parts[1].on = Empty
        BY DEF Reserved
      <3>2. 1 \in Parts(d) /\ 2 \in Parts(d)
        BY <2>6, <3>1 DEF Parts
      <3>3. d.parts[2].on.fs = "ntfs"
        BY <2>2, <2>3, <3>1, <3>2, PartsAre
      <3>4. d.parts[1].on = Empty
        BY <2>6, <2>9, <3>1, <3>3 DEF Reserved
      <3>5. i # 1
        BY <3>2, <3>4, PartsAre DEF Empty
      <3>6. QED
        BY <2>2, <2>3, <3>2, <3>4, <3>5
    <2>10. QED
      BY <2>6, <2>8, <2>9 DEF Good
  <1>4. QED
    BY <1>2, <1>3

\* A disk fit for formatting holds no files, as its reserved partition is empty.
LEMMA ReformattableEmpty ==
  ASSUME NEW d, Good(d), Reserved(d), Reformattable(d)
  PROVE  ~HasFiles(d)
  <1>1. Len(d.parts) \in {1, 2} /\ d.parts # <<>>
    <2>1. Len(d.parts) \in {1, 2}
      BY Zenon DEF Reformattable
    <2>2. Len(<<>>) = 0
      OBVIOUS
    <2>3. QED
      BY <2>1, <2>2
  <1>2. On(d, 0) = Empty
    BY <1>1, PartsAre DEF Good, WellFormed
  <1>3. Len(d.parts) = 2 => On(d, 1) = Empty
    BY DEF Reserved, Reformattable, On
  <1>4. ~On(d, Len(d.parts)).files
    BY DEF Reformattable
  <1>5. \A i \in 0..Len(d.parts) : i = 0 \/ i = Len(d.parts) \/ (i = 1 /\ Len(d.parts) = 2)
    <2>1. CASE Len(d.parts) = 1
      BY <2>1
    <2>2. CASE Len(d.parts) = 2
      BY <2>2
    <2>3. QED
      BY <1>1, <2>1, <2>2
  <1>6. QED
    BY <1>2, <1>3, <1>4, <1>5 DEF HasFiles, Empty

\* Every step leaves a disk.
LEMMA DiskStep ==
  ASSUME TypeOK, Next
  PROVE  Good(disk')
  <1>1. CASE disk' = disk
    BY <1>1, Typed
  <1>2. CASE disk' \in Disks \cup FreshDisks
    BY <1>2, DisksAssumption DEF Good
  <1>3. CASE \E ok \in BOOLEAN : disk' \in Mkpart(disk, table, ok)
    BY <1>3, Typed, MkpartGood
  <1>4. CASE todo # <<>> /\ \E ok \in BOOLEAN : disk' \in Mkfs(disk, Head(todo), ok)
    BY <1>4, Typed, MkfsGood
  <1>5. CASE Use
    BY <1>2, <1>5, Typed, UseGood DEF Use
  <1>6. QED
    BY <1>1, <1>2, <1>3, <1>4, <1>5
       DEF Next, PowerOn, Activate, ConfigStage, DoTable, DoFs, FsDone, Mounts, Killed, PowerOff

\* The parts of the invariant, one after the other, after every step.
LEMMA TypeStep ==
  ASSUME TypeOK, Next
  PROVE  TypeOK'
  <1>1. Good(disk')
    BY DiskStep
  <1>2. table' = table /\ fss' = fss
    BY DEF Next, PowerOn, Activate, ConfigStage, DoTable, DoFs, FsDone, Mounts, Killed, Use, PowerOff
  <1>3. /\ sems' \subseteq {"disk_setup", "mounts"}
        /\ pc' \in {"off", "activate", "config", "table", "fs", "mounts", "up"}
    BY DEF TypeOK, Next, PowerOn, Activate, ConfigStage, DoTable, DoFs, FsDone, Mounts, Killed, Use, PowerOff
  <1>4. smooth' \in BOOLEAN /\ missed' \in BOOLEAN
    <2>1. smooth \in BOOLEAN /\ missed \in BOOLEAN
      BY DEF TypeOK
    <2>2. QED
      BY <2>1 DEF Next, PowerOn, Activate, ConfigStage, DoTable, DoFs, FsDone, Mounts, Killed, Use, PowerOff
  <1>5. todo' \in Seq(FsDefs) /\ \A n \in DOMAIN todo' : \E m \in DOMAIN fss : todo'[n] = fss[m]
    <2>1. todo \in Seq(FsDefs) /\ fss \in Seq(FsDefs) /\ \A n \in DOMAIN todo : \E m \in DOMAIN fss : todo[n] = fss[m]
      BY Typed DEF TypeOK
    <2>2. todo' \in {todo, fss, <<>>} \/ (todo # <<>> /\ todo' = Tail(todo))
      BY DEF Next, PowerOn, Activate, ConfigStage, DoTable, DoFs, FsDone, Mounts, Killed, Use, PowerOff
    <2>3. CASE todo # <<>> /\ todo' = Tail(todo)
      <3>1. todo' \in Seq(FsDefs) /\ \A n \in DOMAIN todo' : n + 1 \in DOMAIN todo /\ todo'[n] = todo[n + 1]
        BY <2>1, <2>3
      <3>2. QED
        BY <2>1, <3>1
    <2>4. CASE todo' = <<>>
      <3>1. todo' \in Seq(FsDefs) /\ DOMAIN todo' = {}
        BY <2>4
      <3>2. QED
        BY <3>1
    <2>5. CASE todo' = fss
      BY <2>1, <2>5
    <2>6. CASE todo' = todo
      BY <2>1, <2>6
    <2>7. QED
      BY <2>2, <2>3, <2>4, <2>5, <2>6
  <1>6. QED
    BY <1>1, <1>2, <1>3, <1>4, <1>5 DEF TypeOK, Good

\* The module's semaphore is written before it runs.
LEMMA RunLeavesSemStep ==
  ASSUME TypeOK, RunLeavesSem, Next
  PROVE  RunLeavesSem'
  BY DEF TypeOK, RunLeavesSem, Next, PowerOn, Activate, ConfigStage, DoTable, DoFs, FsDone, Mounts, Killed, Use, PowerOff

\* By the datasource's config there is one filesystem to make.
LEMMA OneFilesystem ==
  ASSUME TypeOK, OnePartition, Builtin, pc = "fs", todo # <<>>
  PROVE  Head(todo) = BuiltinFs[1] /\ Tail(todo) = <<>>
  <1>1. todo = BuiltinFs
    BY DEF OnePartition, Builtin
  <1>2. QED
    BY <1>1 DEF BuiltinFs

\* One partition: none before an NTFS one.
LEMMA OneIsReserved ==
  ASSUME NEW d, Len(d.parts) = 1
  PROVE  Reserved(d)
  BY DEF Reserved

\* Where there are files disk_setup does not come again, but for a disk that was missed.
LEMMA NothingToLoseStep ==
  ASSUME DisksInv, Next
  PROVE  NothingToLose'
  <1> SUFFICES ASSUME Builtin', ~missed'
               PROVE  /\ Reserved(disk')
                      /\ pc' \in {"table", "fs"} \/ "disk_setup" \notin sems' => ~HasFiles(disk')
    BY DEF NothingToLose
  <1>1. Builtin
    BY DEF Builtin, Next, PowerOn, Activate, ConfigStage, DoTable, DoFs, FsDone, Mounts, Killed, Use, PowerOff
  <1>2. Good(disk) /\ (todo # <<>> => Head(todo) \in FsDefs)
    BY Typed DEF DisksInv
  <1>3. ~missed => /\ Reserved(disk)
                   /\ pc \in {"table", "fs"} \/ "disk_setup" \notin sems => ~HasFiles(disk)
    BY <1>1 DEF DisksInv, NothingToLose
  <1>4. CASE PowerOn
    BY <1>3, <1>4 DEF PowerOn
  <1>5. CASE Activate
    <2>1. disk' = disk /\ ~missed /\ pc' = "config" /\ (Reformattable(disk) \/ sems' = sems) /\ pc = "activate"
      BY <1>5 DEF Activate
    <2>2. CASE Reformattable(disk)
      BY <1>2, <1>3, <2>1, <2>2, ReformattableEmpty
    <2>3. CASE sems' = sems
      BY <1>3, <2>1, <2>3
    <2>4. QED
      BY <2>1, <2>2, <2>3
  <1>6. CASE ConfigStage
    BY <1>3, <1>6 DEF ConfigStage
  <1>7. CASE DoTable
    <2>1. disk' \in Mkpart(disk, BuiltinTable, TRUE) /\ ~missed /\ pc = "table"
      BY <1>1, <1>7 DEF DoTable, Builtin
    <2>2. Len(disk'.parts) = 1
      BY <1>2, <2>1, MkpartBuiltin
    <2>3. BuiltinTable \in TableDefs
      BY <1>1, Typed DEF DisksInv, Builtin
    <2>4. HasFiles(disk') => HasFiles(disk)
      BY <1>2, <2>1, <2>3, MkpartGood
    <2>5. QED
      BY <1>3, <2>1, <2>2, <2>4, OneIsReserved
  <1>8. ASSUME pc = "fs", todo # <<>>, ~missed, NEW ok \in BOOLEAN, disk' \in Mkfs(disk, Head(todo), ok)
        PROVE  Reserved(disk') /\ ~HasFiles(disk')
    <2>1. Head(todo) = BuiltinFs[1]
      BY <1>1, <1>8, OneFilesystem DEF DisksInv
    <2>2. Len(disk.parts) = 1
      BY <1>1, <1>8 DEF DisksInv, OnePartition
    <2>3. Len(disk'.parts) = 1
      BY <1>2, <1>8, <2>1, <2>2, MkfsBuiltin
    <2>4. HasFiles(disk') => HasFiles(disk)
      BY <1>2, <1>8, MkfsGood
    <2>5. QED
      BY <1>3, <1>8, <2>3, <2>4, OneIsReserved
  <1>9. CASE DoFs
    BY <1>8, <1>9 DEF DoFs
  <1>10. CASE FsDone \/ Mounts
    BY <1>3, <1>10 DEF FsDone, Mounts
  <1>11. CASE Killed
    <2>1. ~missed /\ pc # "table" /\ "disk_setup" \in sems' /\ pc' = "up"
      BY <1>11 DEF Killed
    <2>2. CASE disk' = disk
      BY <1>3, <2>1, <2>2
    <2>3. CASE pc = "fs" /\ todo # <<>> /\ disk' \in Mkfs(disk, Head(todo), FALSE)
      BY <1>8, <2>1, <2>3
    <2>4. QED
      BY <1>11, <2>1, <2>2, <2>3 DEF Killed
  <1>12. CASE Use
    <2>1. ~missed /\ pc' = "up" /\ "disk_setup" \in sems'
      BY <1>12 DEF Use, DisksInv, RunLeavesSem
    <2>2. Reserved(disk')
      BY <1>2, <1>3, <1>12, <2>1, UseGood, DisksAssumption DEF Use
    <2>3. QED
      BY <2>1, <2>2
  <1>13. CASE PowerOff
    <2>1. pc = "up" /\ pc' = "off" /\ sems' = sems
      BY <1>13 DEF PowerOff
    <2>2. CASE disk' \in FreshDisks
      BY <2>2, DisksAssumption
    <2>3. CASE disk' = disk
      BY <1>3, <1>13, <2>1, <2>3 DEF PowerOff
    <2>4. QED
      BY <1>13, <2>2, <2>3 DEF PowerOff
  <1>14. QED
    BY <1>4, <1>5, <1>6, <1>7, <1>9, <1>10, <1>11, <1>12, <1>13 DEF Next

\* The steps of the module, by the datasource's config.
LEMMA OnePartitionStep ==
  ASSUME DisksInv, Next
  PROVE  OnePartition'
  <1> SUFFICES ASSUME Builtin'
               PROVE  /\ pc' = "fs" /\ (smooth' \/ ~missed') => Len(disk'.parts) = 1
                      /\ pc' = "table" => todo' = fss'
                      /\ pc' = "fs" => todo' \in {fss', <<>>}
                      /\ pc' = "fs" /\ smooth' /\ todo' = <<>> => ~Reformattable(disk')
                      /\ pc' = "config" /\ smooth' /\ Reformattable(disk') => "disk_setup" \notin sems'
    BY DEF OnePartition
  <1>1. Builtin
    BY DEF Builtin, Next, PowerOn, Activate, ConfigStage, DoTable, DoFs, FsDone, Mounts, Killed, Use, PowerOff
  <1>2. Good(disk)
    BY Typed DEF DisksInv
  <1>3. CASE PowerOn \/ FsDone \/ Mounts \/ Killed \/ PowerOff
    BY <1>3 DEF PowerOn, FsDone, Mounts, Killed, PowerOff
  <1>4. CASE Use
    BY <1>4 DEF Use
  <1>5. CASE Activate
    BY <1>5 DEF Activate
  <1>6. CASE ConfigStage
    BY <1>6 DEF ConfigStage
  <1>7. CASE DoTable
    <2>1. PICK ok \in BOOLEAN : disk' \in Mkpart(disk, BuiltinTable, ok) /\ smooth' = (smooth /\ ok) /\ missed' = (missed \/ ~ok)
      BY <1>1, <1>7 DEF DoTable, Builtin
    <2>2. ok => Len(disk'.parts) = 1
      BY <1>2, <2>1, MkpartBuiltin
    <2>3. todo' = fss' /\ todo' # <<>> /\ pc' = "fs"
      BY <1>1, <1>7 DEF DoTable, DisksInv, OnePartition, Builtin, BuiltinFs
    <2>4. QED
      BY <2>1, <2>2, <2>3
  <1>8. CASE DoFs
    <2>1. PICK ok \in BOOLEAN : disk' \in Mkfs(disk, BuiltinFs[1], ok) /\ smooth' = (smooth /\ ok)
      BY <1>1, <1>8, OneFilesystem DEF DoFs, DisksInv
    <2>2. pc = "fs" /\ pc' = "fs" /\ todo' = <<>> /\ missed' = missed
      BY <1>1, <1>8, OneFilesystem DEF DoFs, DisksInv
    <2>3. smooth \/ ~missed => Len(disk.parts) = 1
      BY <1>1, <2>2 DEF DisksInv, OnePartition
    <2>4. smooth \/ ~missed => Len(disk'.parts) = 1 /\ (ok => ~Reformattable(disk'))
      BY <1>2, <2>1, <2>3, MkfsBuiltin
    <2>5. QED
      BY <2>1, <2>2, <2>4
  <1>9. QED
    BY <1>3, <1>4, <1>5, <1>6, <1>7, <1>8 DEF Next

\* Before mounts a disk that can be formatted has been.
LEMMA FreshIsPreparedStep ==
  ASSUME DisksInv, Next
  PROVE  FreshIsPrepared'
  <1> SUFFICES ASSUME pc' = "mounts", smooth', Builtin'
               PROVE  ~Reformattable(disk')
    BY DEF FreshIsPrepared
  <1>1. Builtin
    BY DEF Builtin, Next, PowerOn, Activate, ConfigStage, DoTable, DoFs, FsDone, Mounts, Killed, Use, PowerOff
  <1>2. FsDone \/ ConfigStage
    BY DEF Next, PowerOn, Activate, DoTable, DoFs, Mounts, Killed, Use, PowerOff
  <1>3. disk' = disk /\ smooth
    BY <1>2 DEF FsDone, ConfigStage
  <1>4. CASE FsDone
    BY <1>1, <1>3, <1>4 DEF FsDone, DisksInv, OnePartition
  <1>5. CASE ConfigStage
    BY <1>1, <1>3, <1>5 DEF ConfigStage, DisksInv, OnePartition
  <1>6. QED
    BY <1>2, <1>4, <1>5

----------------------------------------------------------------------------
\* The inductive invariant: the semaphore of disk_setup is there from the run of the
\* module on, unless the disk was missed, so that nothing is on a disk the module is
\* still to run on (Runners.run, address_ephemeral_resize, cc_disk_setup.handle).
THEOREM DisksInvAlways == Spec => []DisksInv
  <1>1. Init => DisksInv
    <2> SUFFICES ASSUME Init PROVE DisksInv
      OBVIOUS
    <2>1. TypeOK
      <3>1. disk \in Disk /\ WellFormed(disk) /\ table \in Tables /\ fss \in Filesystems
        BY DisksAssumption DEF Init
      <3>2. /\ sems \subseteq {"disk_setup", "mounts"} /\ smooth \in BOOLEAN /\ missed \in BOOLEAN
            /\ pc \in {"off", "activate", "config", "table", "fs", "mounts", "up"}
        BY DEF Init
      <3>3. todo \in Seq(FsDefs) /\ DOMAIN todo = {}
        BY DEF Init
      <3>4. QED
        BY <3>1, <3>2, <3>3 DEF TypeOK
    <2>2. Reserved(disk) /\ ~HasFiles(disk) /\ pc = "off" /\ ~missed
      BY DisksAssumption DEF Init
    <2>3. QED
      BY <2>1, <2>2 DEF DisksInv, RunLeavesSem, NothingToLose, OnePartition, FreshIsPrepared
  <1>2. DisksInv /\ [Next]_vars => DisksInv'
    <2>1. CASE Next
      BY <2>1, TypeStep, RunLeavesSemStep, NothingToLoseStep, OnePartitionStep, FreshIsPreparedStep DEF DisksInv
    <2>2. CASE UNCHANGED vars
      BY <2>2 DEF vars, DisksInv, TypeOK, RunLeavesSem, NothingToLose, OnePartition, FreshIsPrepared, Builtin
    <2>3. QED
      BY <2>1, <2>2
  <1>3. QED
    BY <1>1, <1>2, PTL DEF Spec

\* By the datasource's config a boot without failures leaves no fresh disk as the
\* platform gave it, whatever happened to the machine before.
THEOREM FreshIsPreparedAlways == Spec => []FreshIsPrepared
  <1>1. DisksInv => FreshIsPrepared
    BY DEF DisksInv
  <1>2. QED
    BY <1>1, DisksInvAlways, PTL

\* A step of the boot loses no file: by the datasource's config as there is none on
\* the disk when something is done to it, by a careful one as nothing is done to what
\* is in use (check_partition_layout, is_disk_used, find_device_node).
LEMMA KeptStep ==
  ASSUME DisksInv, Next,
         \/ Builtin /\ ~missed /\ pc \in {"activate", "config", "table", "fs"}
         \/ Careful(table, fss) /\ pc \in {"table", "fs"},
         NEW i \in 0..Len(disk.parts), On(disk, i).files
  PROVE  i <= Len(disk'.parts) /\ On(disk', i).files
  <1>1. /\ Good(disk) /\ table \in TableDefs
        /\ todo # <<>> => Head(todo) \in FsDefs /\ \E m \in DOMAIN fss : Head(todo) = fss[m]
    BY Typed DEF DisksInv
  <1>2. HasFiles(disk) /\ i <= Len(disk.parts)
    BY <1>1, PartsAre DEF HasFiles
  <1>3. CASE disk' = disk
    BY <1>2, <1>3
  <1>4. CASE disk' # disk
    <2>1. \/ pc = "table" /\ \E ok \in BOOLEAN : disk' \in Mkpart(disk, table, ok)
          \/ pc = "fs" /\ todo # <<>> /\ \E ok \in BOOLEAN : disk' \in Mkfs(disk, Head(todo), ok)
      BY <1>4 DEF Next, PowerOn, Activate, ConfigStage, DoTable, DoFs, FsDone, Mounts, Killed, Use, PowerOff
    <2>2. Careful(table, fss)
      BY <1>2, <2>1 DEF DisksInv, NothingToLose
    <2>3. CASE pc = "table" /\ \E ok \in BOOLEAN : disk' \in Mkpart(disk, table, ok)
      BY <1>1, <1>2, <1>4, <2>2, <2>3, MkpartCareful DEF Careful
    <2>4. CASE pc = "fs" /\ todo # <<>> /\ \E ok \in BOOLEAN : disk' \in Mkfs(disk, Head(todo), ok)
      <3>1. Head(todo).partition \in {"auto", "any"} /\ Head(todo).replace_fs = None
        BY <1>1, <2>2, <2>4 DEF Careful
      <3>2. i \in 0..Len(disk'.parts) /\ On(disk', i).files
        BY <1>1, <2>4, <3>1, MkfsCareful
      <3>3. Len(disk'.parts) \in Nat
        BY DiskStep, PartsAre DEF DisksInv
      <3>4. QED
        BY <3>2, <3>3
    <2>5. QED
      BY <2>1, <2>3, <2>4
  <1>5. QED
    BY <1>3, <1>4

\* No step of a boot loses a file that somebody wrote on the disk (FilesKept): by the
\* datasource's config, while the disk was not missed when it was due, and by a config
\* that asks for nothing to be destroyed, wherever the module runs and fails.
THEOREM FilesAreKept == Spec => FilesKept
  <1> DEFINE Kept ==
        \/ Builtin /\ ~missed /\ pc \in {"activate", "config", "table", "fs"}
        \/ Careful(table, fss) /\ pc \in {"table", "fs"}
        => \A i \in 0..Len(disk.parts) : On(disk, i).files => i <= Len(disk'.parts) /\ On(disk', i).files
  <1>1. DisksInv /\ [Next]_vars => [Kept]_vars
    <2>1. DisksInv /\ Next => Kept
      BY KeptStep
    <2>2. QED
      BY <2>1
  <1>2. QED
    BY <1>1, DisksInvAlways, PTL DEF Spec, FilesKept, Kept

----------------------------------------------------------------------------
(* The root filesystem.                                                     *)

\* parse_mount_info of / is the last of the mounts on it, if all lines can be read.
LEMMA LastMount ==
  ASSUME machine \in Machines
  PROVE  \E i \in DOMAIN machine.mounts :
           /\ machine.mounts[i].point = <<>> /\ machine.mounts[i].fs # "rootfs"
           /\ machine.mounts[i].dev \in DOMAIN machine.devs => machine.mounts[i].dev \in {machine.root, "root"}
           /\ Root # <<>> => Root = <<machine.mounts[i]>>
           /\ (\A n \in DOMAIN machine.mounts : machine.mounts[n].good) => Root = <<machine.mounts[i]>>
  <1> DEFINE lines == machine.mounts
             above == {i \in DOMAIN lines : IsPrefix(lines[i].point, <<>>)}
             best == {i \in above : \A j \in above : Len(lines[j].point) <= Len(lines[i].point)}
  <1>1. /\ lines \in Seq(ToSet(lines)) /\ \A i \in DOMAIN lines : lines[i].point \in Seq(STRING)
        /\ DOMAIN lines \subseteq Nat
    <2>1. lines \in Seq(ToSet(lines)) /\ \A i \in DOMAIN lines : lines[i].point \in Seq(STRING)
      BY RootAssumption
    <2>2. DOMAIN lines = 1..Len(lines) /\ Len(lines) \in Nat
      BY <2>1
    <2>3. QED
      BY <2>1, <2>2
  <1>2. PICK i \in DOMAIN lines :
              /\ lines[i].point = <<>> /\ lines[i].fs # "rootfs"
              /\ \A j \in DOMAIN lines : lines[j].point = <<>> => j <= i
              /\ lines[i].dev \in DOMAIN machine.devs => lines[i].dev \in {machine.root, "root"}
    BY RootAssumption
  <1>3. ASSUME NEW j \in DOMAIN lines
        PROVE  IsPrefix(lines[j].point, <<>>) <=> lines[j].point = <<>>
    <2>1. lines[j].point \in Seq(STRING) /\ Len(lines[j].point) \in Nat
      BY <1>1
    <2>2. Len(<<>>) = 0 /\ Len(lines[j].point) <= 0 => lines[j].point = <<>>
      BY <2>1
    <2>3. IsPrefix(lines[j].point, <<>>) => Len(lines[j].point) <= 0
      BY DEF IsPrefix
    <2>4. lines[j].point = <<>> => IsPrefix(lines[j].point, <<>>)
      BY DEF IsPrefix
    <2>5. QED
      BY <2>2, <2>3, <2>4
  <1>4. /\ best = {j \in DOMAIN lines : lines[j].point = <<>>}
        /\ i \in best
    BY <1>2, <1>3
  <1>5. (CHOOSE k \in best : \A j \in best : j <= k) = i
    <2>1. \A j \in best : j <= i /\ j \in Nat
      BY <1>1, <1>2, <1>4
    <2>2. \A k \in best : (\A j \in best : j <= k) => k = i
      BY <1>4, <2>1
    <2>3. QED
      BY <1>4, <2>1, <2>2
  <1>6. ParseMountInfo(<<>>, lines) = IF \E n \in DOMAIN lines : ~lines[n].good THEN <<>> ELSE <<lines[i]>>
    <2>1. ParseMountInfo(<<>>, lines) = IF best = {} \/ \E n \in DOMAIN lines : ~lines[n].good THEN <<>>
                                        ELSE <<lines[CHOOSE k \in best : \A j \in best : j <= k]>>
      BY DEF ParseMountInfo
    <2>2. best # {}
      BY <1>4
    <2> HIDE DEF best
    <2>3. QED
      BY <1>5, <2>1, <2>2
  <1>7. Root = IF \E n \in DOMAIN lines : ~lines[n].good THEN <<>> ELSE <<lines[i]>>
    BY <1>6 DEF Root, MountInfo
  <1>8. QED
    BY <1>2, <1>7

\* On a machine that is to grow its root the resize finds it.
LEMMA WantedRoot ==
  ASSUME machine \in Machines, Wanted
  PROVE  /\ Root # <<>> /\ Writable /\ machine.root \in DOMAIN machine.devs
         /\ Root[1].fs \in {"btrfs", "ext4", "xfs", "ufs"}
         /\ ResizedDevice \in DOMAIN machine.devs => ResizedDevice = machine.root
         /\ Resizer \in {"growpart", "gpart"} /\ ~GrowpartOff
         /\ \A e : OfRoot(e) => PartitionOf(e) = <<machine.root>> /\ ~EntryRaises(e)
  <1>1. PICK i \in DOMAIN machine.mounts :
           machine.mounts[i].point = <<>> /\ machine.mounts[i].fs # "rootfs" /\ Root = <<machine.mounts[i]>>
    BY LastMount DEF Wanted
  <1>2. /\ machine.mounts[i] \in {l \in ToSet(machine.mounts) : l.point = <<>> /\ l.fs # "rootfs"}
        /\ Root # <<>> /\ Root[1] = machine.mounts[i]
    BY <1>1 DEF ToSet
  <1>3. /\ Root[1].dev \in {"root", machine.root} /\ Root[1].fs \in {"btrfs", "ext4", "xfs", "ufs"}
        /\ Root[1].dev = "root" => machine.rootarg = machine.root
    BY <1>2 DEF Wanted
  <1>4. /\ machine.root \in DOMAIN machine.devs /\ machine.devs[machine.root] = "partition" /\ machine.root # ""
        /\ machine.devs \in [DOMAIN machine.devs -> {"partition", "disk"}] /\ machine.container = FALSE
    BY RootAssumption DEF Wanted
  <1>5. Writable
    BY <1>3, <1>4 DEF Writable, IsDevice
  <1>6. ResizedDevice \in DOMAIN machine.devs => ResizedDevice = machine.root
    BY <1>3 DEF ResizedDevice
  <1>7. Resizer \in {"growpart", "gpart"} /\ ~GrowpartOff
    <2>1. machine.mode = "auto" /\ machine.tools # {} /\ machine.tools \subseteq {"growpart", "gpart"}
          /\ (machine.marker => machine.ignore)
      BY RootAssumption DEF Wanted
    <2>2. QED
      BY <2>1 DEF Resizer, GrowpartOff
  <1>8. ASSUME NEW e, OfRoot(e)
        PROVE  PartitionOf(e) = <<machine.root>> /\ ~EntryRaises(e)
    <2>1. e.point = <<>> /\ e.dev \in {"", machine.root}
      <3>1. e = [dev |-> "", point |-> <<>>] \/ e = [dev |-> machine.root, point |-> <<>>]
        BY <1>8, Zenon DEF OfRoot
      <3>2. CASE e = [dev |-> "", point |-> <<>>]
        BY <3>2
      <3>3. CASE e = [dev |-> machine.root, point |-> <<>>]
        BY <3>3
      <3>4. QED
        BY <3>1, <3>2, <3>3
    <2>2. MountInfo(e.point) = Root
      BY <2>1 DEF Root
    <2>3. ~EntryRaises(e)
      BY <1>3, <1>4, <2>1, <2>2 DEF EntryRaises
    <2>4. PartitionOf(e) = <<machine.root>>
      <3> DEFINE dev == CASE e.dev # "" -> e.dev
                          [] e.dev = "" /\ MountInfo(e.point) = <<>> -> ""
                          [] OTHER -> IF MountInfo(e.point)[1].dev = "root" /\ ~machine.container THEN machine.rootarg
                                      ELSE MountInfo(e.point)[1].dev
      <3>1. dev = machine.root
        BY <1>2, <1>3, <1>4, <2>1, <2>2
      <3>2. PartitionOf(e) = IF dev \in DOMAIN machine.devs /\ machine.devs[dev] = "partition" THEN <<dev>> ELSE <<>>
        BY DEF PartitionOf
      <3> HIDE DEF dev
      <3>3. QED
        BY <1>4, <3>1, <3>2
    <2>5. QED
      BY <2>3, <2>4
  <1>9. QED
    BY <1>2, <1>3, <1>4, <1>5, <1>6, <1>7, <1>8

\* growpart or gpart: the filesystem is not touched, the size changes to the room
\* only, and where nothing fails to the room.
LEMMA GrownSize ==
  ASSUME NEW p \in [room : Nat, size : Nat, seen : Nat, fs : Nat], NEW ok \in BOOLEAN, NEW q \in Grown(p, ok)
  PROVE  /\ q \in [room : Nat, size : Nat, seen : Nat, fs : Nat] /\ q.fs = p.fs /\ q.room = p.room
         /\ Resizer = "growpart" /\ p.seen = p.size /\ ok => Full(q) /\ q.seen = q.size
         /\ Resizer = "gpart" /\ ok => Full(q)
  <1>1. CASE Resizer = "growpart"
    <2>1. q = p \/ q = [p EXCEPT !.size = p.room] \/ q = [p EXCEPT !.size = p.room, !.seen = p.room]
      BY <1>1 DEF Grown
    <2>2. ok => \/ q = p /\ p.size = p.room
                \/ q = [p EXCEPT !.size = p.room, !.seen = p.room]
      BY <1>1 DEF Grown
    <2>3. QED
      BY <1>1, <2>1, <2>2 DEF Full
  <1>2. CASE Resizer = "gpart"
    BY <1>2 DEF Grown, Full
  <1>3. CASE Resizer # "growpart" /\ Resizer # "gpart"
    BY <1>3 DEF Grown, Full
  <1>4. QED
    BY <1>1, <1>2, <1>3

\* What GrowDevice and Dies do to a partition.
LEMMA GrowStep ==
  ASSUME RootTypes, NEW d, d \in DOMAIN part, NEW ok \in BOOLEAN, NEW p \in Grown(part[d], ok),
         part' = [part EXCEPT ![d] = p]
  PROVE  /\ part' \in [DOMAIN machine.devs -> [room : Nat, size : Nat, seen : Nat, fs : Nat]]
         /\ part'[d] = p /\ \A e \in DOMAIN part \ {d} : part'[e] = part[e]
         /\ \A e \in DOMAIN part : part'[e].fs = part[e].fs
  <1>1. part \in [DOMAIN machine.devs -> [room : Nat, size : Nat, seen : Nat, fs : Nat]]
    BY DEF RootTypes
  <1>2. p \in [room : Nat, size : Nat, seen : Nat, fs : Nat] /\ p.fs = part[d].fs
    BY <1>1, GrownSize
  <1>3. QED
    BY <1>1, <1>2

\* What DoResize does: the filesystem of a device takes what the kernel knows, or
\* nothing happens.
LEMMA ResizeStep ==
  ASSUME RootTypes, NEW ok \in BOOLEAN, DoResize(ok)
  PROVE  /\ part' \in [DOMAIN machine.devs -> [room : Nat, size : Nat, seen : Nat, fs : Nat]]
         /\ \A e \in DOMAIN part : /\ part'[e].room = part[e].room /\ part'[e].size = part[e].size
                                   /\ part'[e].seen = part[e].seen
                                   /\ e # ResizedDevice => part'[e].fs = part[e].fs
         /\ smooth1' => /\ smooth1 /\ ResizedDevice \in DOMAIN part
                        /\ part'[ResizedDevice].fs = part'[ResizedDevice].seen
         /\ smooth1' \in BOOLEAN
  <1>1. part \in [DOMAIN machine.devs -> [room : Nat, size : Nat, seen : Nat, fs : Nat]] /\ smooth1 \in BOOLEAN
    BY DEF RootTypes
  <1>2. CASE ok /\ ResizedDevice \in DOMAIN part
    <2>1. part' = [part EXCEPT ![ResizedDevice].fs = part[ResizedDevice].seen] /\ smooth1' = smooth1
      BY <1>2 DEF DoResize
    <2>2. QED
      BY <1>1, <1>2, <2>1
  <1>3. CASE ~(ok /\ ResizedDevice \in DOMAIN part)
    <2>1. part' = part /\ smooth1' = FALSE
      BY <1>3 DEF DoResize
    <2>2. QED
      BY <1>1, <2>1
  <1>4. QED
    BY <1>2, <1>3

\* The device of a resize is the root's, or none of those of the machine.
LEMMA ResizesRoot ==
  ASSUME machine \in Machines, Root # <<>>, ResizedDevice \in DOMAIN machine.devs
  PROVE  ResizedDevice = machine.root
  <1>1. PICK i \in DOMAIN machine.mounts :
           /\ machine.mounts[i].dev \in DOMAIN machine.devs => machine.mounts[i].dev \in {machine.root, "root"}
           /\ Root = <<machine.mounts[i]>>
    BY LastMount
  <1>2. Root[1].dev \in DOMAIN machine.devs => Root[1].dev \in {machine.root, "root"}
    BY <1>1
  <1>3. QED
    BY <1>2 DEF ResizedDevice

\* A machine stays what it is, and what is said of it.
LEMMA MachineStays ==
  ASSUME RootNext
  PROVE  /\ machine' = machine /\ Root' = Root /\ Wanted' = Wanted /\ Resizer' = Resizer
         /\ \A p : Full(p)' = Full(p)
         /\ \A e : OfRoot(e)' = OfRoot(e) /\ EntryRaises(e)' = EntryRaises(e) /\ PartitionOf(e)' = PartitionOf(e)
  <1>1. machine' = machine
    BY DEF RootNext, Boots, Growpart, GrowDevice, DevicesDone, Resizefs, ChildResizes, Dies, OffAndLarger
  <1>3. Root' = Root
    BY <1>1 DEF Root, MountInfo
  <1>4. Resizer' = Resizer
    BY <1>1 DEF Resizer
  <1>5. \A p : Full(p)' = Full(p)
    BY <1>1 DEF Full, Resizer
  <1>6. ASSUME NEW e
        PROVE  OfRoot(e)' = OfRoot(e) /\ EntryRaises(e)' = EntryRaises(e) /\ PartitionOf(e)' = PartitionOf(e)
    BY <1>1 DEF OfRoot, EntryRaises, PartitionOf, MountInfo
  <1>7. Wanted' = Wanted
    BY <1>1 DEF Wanted, OfRoot, EntryRaises, MountInfo
  <1>8. QED
    BY <1>1, <1>3, <1>4, <1>5, <1>6, <1>7

Records == [room : Nat, size : Nat, seen : Nat, fs : Nat]

\* The partition of an entry is one of the machine.
LEMMA PartitionOfIs ==
  ASSUME RootTypes, NEW e, PartitionOf(e) # <<>>
  PROVE  PartitionOf(e)[1] \in DOMAIN part /\ machine.devs[PartitionOf(e)[1]] = "partition"
         /\ PartitionOf(e) = <<PartitionOf(e)[1]>>
  <1> DEFINE dev == CASE e.dev # "" -> e.dev
                      [] e.dev = "" /\ MountInfo(e.point) = <<>> -> ""
                      [] OTHER -> IF MountInfo(e.point)[1].dev = "root" /\ ~machine.container THEN machine.rootarg
                                  ELSE MountInfo(e.point)[1].dev
  <1>1. PartitionOf(e) = IF dev \in DOMAIN machine.devs /\ machine.devs[dev] = "partition" THEN <<dev>> ELSE <<>>
    BY DEF PartitionOf
  <1> HIDE DEF dev
  <1>2. DOMAIN part = DOMAIN machine.devs
    BY DEF RootTypes
  <1>3. QED
    BY <1>1, <1>2

\* An entry is carried out, and nothing failed if smooth1 is still true.
Grows(d, p) ==
    /\ stage = "devices" /\ entries # <<>> /\ PartitionOf(Head(entries)) = <<d>> /\ d \in DOMAIN part
    /\ part' = [part EXCEPT ![d] = p]
    /\ \E ok \in BOOLEAN : p \in Grown(part[d], ok) /\ (smooth1' => ok)

\* The kinds of steps: the disk gets larger while the machine is off; or the partitions
\* are left alone, one is grown, or the root's filesystem is resized.
LEMMA KindsOfStep ==
  ASSUME RootTypes, RootNext
  PROVE  \/ OffAndLarger
         \/ /\ (stage' = "off" => stage = "off") /\ (smooth1' => smooth1 \/ stage = "off")
            /\ \/ part' = part
               \/ \E d, p : Grows(d, p)
               \/ (Resizefs \/ ChildResizes) /\ \E ok \in BOOLEAN : DoResize(ok)
  <1>1. CASE Boots \/ Growpart \/ DevicesDone
    BY <1>1 DEF Boots, Growpart, DevicesDone
  <1>2. ASSUME stage = "devices", entries # <<>>, PartitionOf(Head(entries)) # <<>>,
               NEW ok \in BOOLEAN, smooth1' => ok,
               \E p \in Grown(part[PartitionOf(Head(entries))[1]], ok) :
                 part' = [part EXCEPT ![PartitionOf(Head(entries))[1]] = p]
        PROVE  \E d, p : Grows(d, p)
    BY <1>2, PartitionOfIs, Zenon DEF Grows
  <1>3. CASE GrowDevice
    <2>1. stage' = stage /\ stage = "devices" /\ entries # <<>>
      BY <1>3 DEF GrowDevice
    <2>2. PICK ok \in BOOLEAN :
           IF EntryRaises(Head(entries)) \/ PartitionOf(Head(entries)) = <<>>
           THEN part' = part /\ smooth1' = smooth1
           ELSE LET d == PartitionOf(Head(entries))[1]
                IN  (\E p \in Grown(part[d], ok) : part' = [part EXCEPT ![d] = p]) /\ smooth1' = (smooth1 /\ ok)
      BY <1>3, Zenon DEF GrowDevice
    <2>3. CASE EntryRaises(Head(entries)) \/ PartitionOf(Head(entries)) = <<>>
      BY <2>1, <2>2, <2>3
    <2>4. CASE ~(EntryRaises(Head(entries)) \/ PartitionOf(Head(entries)) = <<>>)
      <3>1. /\ \E p \in Grown(part[PartitionOf(Head(entries))[1]], ok) :
                 part' = [part EXCEPT ![PartitionOf(Head(entries))[1]] = p]
            /\ smooth1' => smooth1 /\ ok
        BY <2>2, <2>4, Zenon
      <3>2. \E d, p : Grows(d, p)
        BY <1>2, <2>1, <2>4, <3>1, Zenon
      <3>3. QED
        BY <2>1, <3>1, <3>2
    <2>5. QED
      BY <2>3, <2>4
  <1>4. CASE Resizefs
    <2>1. part' = part \/ \E ok \in BOOLEAN : DoResize(ok)
      BY <1>4 DEF Resizefs
    <2>2. stage' = "up" /\ (smooth1' => smooth1)
      BY <1>4, ResizeStep DEF Resizefs
    <2>3. QED
      BY <1>4, <2>1, <2>2
  <1>5. CASE ChildResizes
    <2>1. stage' = stage /\ \E ok \in BOOLEAN : DoResize(ok)
      BY <1>5 DEF ChildResizes
    <2>2. smooth1' => smooth1
      BY <2>1, ResizeStep
    <2>3. QED
      BY <1>5, <2>1, <2>2
  <1>6. CASE Dies
    <2>1. stage' = "up" /\ smooth1' = FALSE
      BY <1>6 DEF Dies
    <2>2. part' = part \/ \E d, p : Grows(d, p)
      BY <1>2, <1>6, <2>1, Zenon DEF Dies
    <2>3. QED
      BY <2>1, <2>2
  <1>7. QED
    BY <1>1, <1>3, <1>4, <1>5, <1>6 DEF RootNext

\* The disk got larger, and the machine is off.
LEMMA LargerStep ==
  ASSUME RootTypes, OffAndLarger
  PROVE  /\ part' \in [DOMAIN machine.devs -> Records] /\ stage' = "off" /\ ~child'
         /\ \A d \in DOMAIN part : /\ part'[d].fs = part[d].fs /\ part'[d].seen = part'[d].size
                                   /\ machine.devs[d] = "partition" => part'[d].size = part[d].size
  <1>1. PICK more \in {0, 1} :
         part' = [d \in DOMAIN part |->
                    LET room == IF part[d].room + more <= MaxRoom THEN part[d].room + more ELSE MaxRoom
                        size == IF machine.devs[d] = "disk" THEN room ELSE part[d].size
                    IN  [part[d] EXCEPT !.room = room, !.size = size, !.seen = size]]
    BY Zenon DEF OffAndLarger
  <1>2. part \in [DOMAIN machine.devs -> Records] /\ MaxRoom \in Nat
    BY RootAssumption DEF RootTypes, Records
  <1>3. DOMAIN part' = DOMAIN part /\ part' = [d \in DOMAIN part |-> part'[d]]
    BY <1>1
  <1>4. ASSUME NEW d \in DOMAIN part
        PROVE  /\ part'[d] \in Records /\ part'[d].fs = part[d].fs /\ part'[d].seen = part'[d].size
               /\ machine.devs[d] = "partition" => part'[d].size = part[d].size
    <2>1. part[d] \in Records
      BY <1>2
    <2>2. PICK room \in Nat, size \in Nat :
             /\ part'[d] = [part[d] EXCEPT !.room = room, !.size = size, !.seen = size]
             /\ machine.devs[d] = "partition" => size = part[d].size
      <3> DEFINE r == IF part[d].room + more <= MaxRoom THEN part[d].room + more ELSE MaxRoom
                 z == IF machine.devs[d] = "disk" THEN r ELSE part[d].size
      <3>1. r \in Nat /\ z \in Nat
        <4>1. part[d].room \in Nat /\ part[d].size \in Nat
          BY <2>1 DEF Records
        <4>2. part[d].room + more \in Nat
          BY <4>1
        <4>3. r \in Nat
          BY <1>2, <4>2
        <4>4. QED
          BY <4>1, <4>3
      <3>2. part'[d] = [part[d] EXCEPT !.room = r, !.size = z, !.seen = z]
        BY <1>1
      <3>3. machine.devs[d] = "partition" => z = part[d].size
        OBVIOUS
      <3> HIDE DEF r, z
      <3>4. QED
        BY <3>1, <3>2, <3>3
    <2>3. QED
      BY <2>1, <2>2 DEF Records
  <1>5. part' \in [DOMAIN machine.devs -> Records]
    BY <1>2, <1>3, <1>4
  <1>6. QED
    BY <1>4, <1>5 DEF OffAndLarger

\* The parts of the invariant, one after the other, after every step.
LEMMA RootTypesStep ==
  ASSUME RootTypes, RootNext
  PROVE  RootTypes'
  <1>1. machine' = machine /\ machine \in Machines
    BY MachineStays DEF RootTypes
  <1>2. part' \in [DOMAIN machine.devs -> Records]
    <2>1. part \in [DOMAIN machine.devs -> Records]
      BY DEF RootTypes, Records
    <2>2. CASE OffAndLarger
      BY <2>2, LargerStep
    <2>3. CASE \E ok \in BOOLEAN : DoResize(ok)
      BY <2>3, ResizeStep DEF Records
    <2>4. CASE part' = part
      BY <2>1, <2>4
    <2>5. CASE \E d, p : Grows(d, p)
      BY <2>5, GrowStep DEF Grows, Records
    <2>6. QED
      BY <2>2, <2>3, <2>4, <2>5, KindsOfStep
  <1>3. stage' \in {"off", "growpart", "devices", "resizefs", "up"} /\ child' \in BOOLEAN
    BY DEF RootTypes, RootNext, Boots, Growpart, GrowDevice, DevicesDone, Resizefs, ChildResizes, Dies, OffAndLarger
  <1>4. smooth1' \in BOOLEAN
    <2>1. CASE \E ok \in BOOLEAN : DoResize(ok)
      BY <2>1, ResizeStep
    <2>2. CASE ~\E ok \in BOOLEAN : DoResize(ok)
      BY <2>2 DEF RootTypes, RootNext, Boots, Growpart, GrowDevice, DevicesDone, Resizefs, ChildResizes, Dies, OffAndLarger
    <2>3. QED
      BY <2>1, <2>2
  <1>5. entries' \in Seq(ToSet(machine.devices))
    <2>1. entries \in Seq(ToSet(machine.devices)) /\ machine.devices \in Seq(ToSet(machine.devices))
      BY RootAssumption DEF RootTypes
    <2>2. entries' \in {entries, machine.devices, <<>>} \/ (entries # <<>> /\ entries' = Tail(entries))
      BY DEF RootNext, Boots, Growpart, GrowDevice, DevicesDone, Resizefs, ChildResizes, Dies, OffAndLarger
    <2> DEFINE S == ToSet(machine.devices)
    <2> HIDE DEF S
    <2>3. \A w \in Seq(S) : w # <<>> => Tail(w) \in Seq(S)
      OBVIOUS
    <2>4. <<>> \in Seq(S)
      OBVIOUS
    <2>5. entries' \in Seq(S)
      BY <2>1, <2>2, <2>3, <2>4, Zenon DEF S
    <2>6. QED
      BY <2>5 DEF S
  <1>6. QED
    BY <1>1, <1>2, <1>3, <1>4, <1>5 DEF RootTypes, Records

\* A child is left behind by a boot that is over.
LEMMA InBackgroundStep ==
  ASSUME RootTypes, InBackground, RootNext
  PROVE  InBackground'
  <1>1. Root' = Root
    BY MachineStays
  <1>2. CASE Resizefs
    <2>1. stage' = "up" /\ ~child
      BY <1>2 DEF Resizefs, InBackground
    <2>2. child' => ~NoResize
      BY <1>2, <2>1 DEF Resizefs
    <2>3. ~NoResize => Root # <<>>
      BY Zenon DEF NoResize
    <2>4. QED
      BY <1>1, <2>1, <2>2, <2>3 DEF InBackground
  <1>3. CASE ~Resizefs
    BY <1>1, <1>3 DEF InBackground, RootNext, Boots, Growpart, GrowDevice, DevicesDone, ChildResizes, Dies, OffAndLarger
  <1>4. QED
    BY <1>2, <1>3

\* After it was grown without a failure a partition is full, and no other changed.
LEMMA GrowsFull ==
  ASSUME RootTypes, KernelKnows, NEW d, NEW p, Grows(d, p), smooth1', smooth1, Resizer \in {"growpart", "gpart"}
  PROVE  Full(part'[d]) /\ (Resizer = "growpart" => part'[d].seen = part'[d].size)
         /\ \A e \in DOMAIN part \ {d} : part'[e] = part[e]
  <1>1. d \in DOMAIN part /\ part' = [part EXCEPT ![d] = p] /\ p \in Grown(part[d], TRUE)
    BY DEF Grows
  <1>2. part'[d] = p /\ \A e \in DOMAIN part \ {d} : part'[e] = part[e]
    BY <1>1
  <1>3. part[d] \in [room : Nat, size : Nat, seen : Nat, fs : Nat]
    BY <1>1 DEF RootTypes
  <1>4. Resizer = "growpart" => part[d].seen = part[d].size
    BY <1>1 DEF KernelKnows
  <1>5. QED
    BY <1>1, <1>2, <1>3, <1>4, GrownSize

\* Where growpart did not fail the kernel knows what it wrote.
LEMMA KernelKnowsStep ==
  ASSUME RootTypes, KernelKnows, RootNext
  PROVE  KernelKnows'
  <1>1. Resizer' = Resizer /\ DOMAIN part' = DOMAIN part
    BY MachineStays, RootTypesStep DEF RootTypes
  <1>2. SUFFICES ASSUME stage' = "off" \/ (smooth1' /\ Resizer = "growpart"), NEW e \in DOMAIN part
                 PROVE  part'[e].seen = part'[e].size
    BY <1>1 DEF KernelKnows
  <1>3. CASE OffAndLarger
    BY <1>3, LargerStep
  <1>4. CASE ~OffAndLarger
    <2>1. stage = "off" \/ (smooth1' /\ smooth1 /\ Resizer = "growpart")
      BY <1>2, <1>4, KindsOfStep
    <2>2. \A d \in DOMAIN part : part[d].seen = part[d].size
      BY <2>1 DEF KernelKnows
    <2>3. CASE part' = part
      BY <2>2, <2>3
    <2>4. CASE \E ok \in BOOLEAN : DoResize(ok)
      BY <2>2, <2>4, ResizeStep
    <2>5. CASE \E d, p : Grows(d, p)
      <3>1. PICK d, p : Grows(d, p)
        BY <2>5
      <3>2. smooth1' /\ smooth1 /\ Resizer = "growpart"
        BY <2>1, <3>1 DEF Grows
      <3>3. QED
        BY <2>2, <3>1, <3>2, GrowsFull
    <2>6. QED
      BY <1>4, <2>3, <2>4, <2>5, KindsOfStep
  <1>5. QED
    BY <1>3, <1>4

\* What is not the root's is touched by no step, unless it is listed.
LEMMA OthersStayStep ==
  ASSUME RootTypes, InBackground, OthersStay, RootNext
  PROVE  OthersStay'
  <1>1. machine' = machine /\ DOMAIN part' = DOMAIN part /\ machine \in Machines /\ DOMAIN part = DOMAIN machine.devs
    BY MachineStays, RootTypesStep DEF RootTypes
  <1>2. \A e : PartitionOf(e)' = PartitionOf(e)
    BY MachineStays
  <1>3. SUFFICES ASSUME NEW d \in DOMAIN part \ {machine.root}
                 PROVE  /\ part'[d].fs = part[d].fs
                        /\ machine.devs[d] = "partition"
                           /\ (\A i \in DOMAIN machine.devices : PartitionOf(machine.devices[i]) # <<d>>)
                             => part'[d].size = part[d].size
    BY <1>1, <1>2 DEF OthersStay
  <1>4. CASE OffAndLarger
    BY <1>4, LargerStep
  <1>5. CASE part' = part
    BY <1>5
  <1>6. CASE (Resizefs \/ ChildResizes) /\ \E ok \in BOOLEAN : DoResize(ok)
    <2>1. CASE part' = part
      BY <2>1
    <2>2. CASE part' # part
      <3>1. Root # <<>>
        <4>1. CASE Resizefs
          <5>1. ~NoResize
            BY <2>2, <4>1 DEF Resizefs
          <5>2. QED
            BY <5>1, Zenon DEF NoResize
        <4>2. CASE ChildResizes
          BY <4>2 DEF ChildResizes, InBackground
        <4>3. QED
          BY <1>6, <4>1, <4>2
      <3>2. d # ResizedDevice
        BY <1>1, <3>1, ResizesRoot
      <3>3. QED
        BY <1>6, <3>2, ResizeStep
    <2>3. QED
      BY <2>1, <2>2
  <1>7. CASE \E e, p : Grows(e, p)
    <2>1. PICK e, p : Grows(e, p)
      BY <1>7
    <2>2. Head(entries) \in ToSet(machine.devices)
      BY <2>1 DEF Grows, RootTypes
    <2>3. \E i \in DOMAIN machine.devices : PartitionOf(machine.devices[i]) = <<e>>
      BY <2>1, <2>2 DEF Grows, ToSet
    <2>4. /\ \A x \in DOMAIN part \ {e} : part'[x] = part[x]
          /\ \A x \in DOMAIN part : part'[x].fs = part[x].fs
      BY <2>1, GrowStep DEF Grows
    <2>5. QED
      BY <2>3, <2>4
  <1>8. QED
    BY <1>4, <1>5, <1>6, <1>7, KindsOfStep

\* An entry of the root that is carried out without a failure.
LEMMA RootEntryStep ==
  ASSUME RootTypes, KernelKnows, Wanted, GrowDevice, smooth1, smooth1', OfRoot(Head(entries))
  PROVE  Full(part'[machine.root])
  <1> DEFINE d == machine.root
  <1>1. PartitionOf(Head(entries)) = <<d>> /\ ~EntryRaises(Head(entries)) /\ Resizer \in {"growpart", "gpart"}
    BY WantedRoot DEF RootTypes
  <1>2. d \in DOMAIN part /\ <<d>> # <<>> /\ <<d>>[1] = d
    BY WantedRoot DEF RootTypes
  <1>3. stage = "devices" /\ entries # <<>>
    BY DEF GrowDevice
  <1> HIDE DEF d
  <1>4. PICK ok \in BOOLEAN :
         IF EntryRaises(Head(entries)) \/ PartitionOf(Head(entries)) = <<>>
         THEN part' = part /\ smooth1' = smooth1
         ELSE LET e == PartitionOf(Head(entries))[1]
              IN  (\E p \in Grown(part[e], ok) : part' = [part EXCEPT ![e] = p]) /\ smooth1' = (smooth1 /\ ok)
    BY Zenon DEF GrowDevice
  <1>5. (\E p \in Grown(part[d], ok) : part' = [part EXCEPT ![d] = p]) /\ smooth1' = (smooth1 /\ ok)
    BY <1>1, <1>2, <1>4
  <1>6. PICK p \in Grown(part[d], ok) : part' = [part EXCEPT ![d] = p]
    BY <1>5
  <1>7. Grows(d, p)
    BY <1>1, <1>2, <1>3, <1>5, <1>6 DEF Grows
  <1>8. QED
    BY <1>1, <1>7, GrowsFull DEF d

\* The entry of the root is carried out, as none before it ends the loop.
LEMMA RootGrowsStep ==
  ASSUME RootTypes, KernelKnows, InBackground, RootGrows, RootNext
  PROVE  RootGrows'
  <1> DEFINE r == machine.root
  <1>1. /\ machine' = machine /\ Wanted' = Wanted
        /\ \A p : Full(p)' = Full(p)
        /\ \A e : OfRoot(e)' = OfRoot(e) /\ EntryRaises(e)' = EntryRaises(e)
    BY MachineStays
  <1>2. SUFFICES ASSUME smooth1', Wanted
                 PROVE  /\ stage' = "devices" /\ ~Full(part'[r]) =>
                             \E i \in DOMAIN entries' : OfRoot(entries'[i]) /\ \A j \in 1..(i - 1) : ~EntryRaises(entries'[j])
                        /\ stage' \in {"resizefs", "up"} => Full(part'[r])
    BY <1>1 DEF RootGrows
  <1>3. r \in DOMAIN part /\ Resizer \in {"growpart", "gpart"} /\ ~GrowpartOff
    BY <1>2, WantedRoot DEF RootTypes
  <1> HIDE DEF r
  <1>4. CASE Boots \/ OffAndLarger
    BY <1>4 DEF Boots, OffAndLarger
  <1>5. CASE Growpart
    <2>1. stage' = "devices" /\ entries' = machine.devices
      BY <1>3, <1>5 DEF Growpart
    <2>2. \E i \in DOMAIN machine.devices :
             OfRoot(machine.devices[i]) /\ \A j \in 1..(i - 1) : ~EntryRaises(machine.devices[j])
      BY <1>2 DEF Wanted
    <2>3. QED
      BY <2>1, <2>2
  <1>6. CASE GrowDevice
    <2>1. stage = "devices" /\ stage' = "devices" /\ entries # <<>> /\ entries \in Seq(ToSet(machine.devices))
      BY <1>6 DEF GrowDevice, RootTypes
    <2>2. smooth1
      BY <1>2, <1>6 DEF GrowDevice
    <2>3. SUFFICES ASSUME ~Full(part'[r])
                   PROVE  \E i \in DOMAIN entries' : OfRoot(entries'[i]) /\ \A j \in 1..(i - 1) : ~EntryRaises(entries'[j])
      BY <2>1
    <2>4. part'[r] = part[r]
      <3>1. part' = part \/ \E d, p : Grows(d, p)
        BY <1>6, <2>1, KindsOfStep DEF Resizefs, ChildResizes, InBackground, OffAndLarger
      <3>2. ASSUME NEW d, NEW p, Grows(d, p)
            PROVE  part'[r] = part[r]
        BY <1>2, <1>3, <2>2, <2>3, <3>2, GrowsFull
      <3>3. QED
        BY <3>1, <3>2
    <2>5. PICK i \in DOMAIN entries : OfRoot(entries[i]) /\ \A j \in 1..(i - 1) : ~EntryRaises(entries[j])
      BY <1>2, <2>1, <2>2, <2>3, <2>4 DEF RootGrows, r
    <2>6. i # 1
      BY <1>2, <1>6, <2>1, <2>2, <2>3, <2>5, RootEntryStep DEF r
    <2>7. i \in Nat /\ i > 1 /\ i <= Len(entries) /\ Head(entries) = entries[1] /\ Len(entries) \in Nat
      BY <2>1, <2>5, <2>6
    <2>8. entries' = Tail(entries)
      BY <1>6, <2>5, <2>7 DEF GrowDevice
    <2>9. /\ DOMAIN entries' = 1..(Len(entries) - 1)
          /\ \A j \in 1..(Len(entries) - 1) : entries'[j] = entries[j + 1]
      BY <2>1, <2>8
    <2>10. i - 1 \in DOMAIN entries' /\ OfRoot(entries'[i - 1])
      BY <2>5, <2>7, <2>9
    <2>11. ASSUME NEW j \in 1..((i - 1) - 1)
           PROVE  ~EntryRaises(entries'[j])
      <3>1. j \in 1..(Len(entries) - 1) /\ j + 1 \in 1..(i - 1)
        BY <2>7
      <3>2. QED
        BY <2>5, <2>9, <3>1
    <2>12. QED
      BY <2>10, <2>11
  <1>7. CASE DevicesDone
    <2>1. stage = "devices" /\ entries = <<>> /\ smooth1 /\ part' = part /\ stage' = "resizefs"
      BY <1>2, <1>7 DEF DevicesDone
    <2>2. DOMAIN entries = {}
      BY <2>1
    <2>3. QED
      BY <1>2, <2>1, <2>2 DEF RootGrows, r
  <1>8. CASE Resizefs \/ ChildResizes
    <2>1. stage \in {"resizefs", "up"} /\ stage' = "up"
      BY <1>8 DEF Resizefs, ChildResizes, InBackground
    <2>2. part' = part \/ \E ok \in BOOLEAN : DoResize(ok)
      BY <1>8 DEF Resizefs, ChildResizes
    <2>3. smooth1
      BY <1>2, <1>8, ResizeStep DEF Resizefs, ChildResizes
    <2>4. Full(part[r])
      BY <1>2, <2>1, <2>3 DEF RootGrows, r
    <2>5. part'[r].room = part[r].room /\ part'[r].size = part[r].size /\ part'[r].seen = part[r].seen
      BY <1>3, <2>2, ResizeStep
    <2>6. QED
      BY <2>1, <2>4, <2>5 DEF Full
  <1>9. CASE Dies
    BY <1>2, <1>9 DEF Dies
  <1>10. QED
    BY <1>4, <1>5, <1>6, <1>7, <1>8, <1>9 DEF RootNext

\* After the boot, and the resize in the background, the filesystem takes what the
\* kernel knows.
LEMMA RootResizedStep ==
  ASSUME RootTypes, InBackground, RootNext, stage' = "up", ~child', smooth1', Wanted
  PROVE  part'[machine.root].fs = part'[machine.root].seen
         \/ (stage = "up" /\ ~child /\ smooth1 /\ part' = part)
  <1>1. /\ ResizedDevice \in DOMAIN part => ResizedDevice = machine.root
        /\ machine.root \in DOMAIN part /\ Root # <<>> /\ Writable
        /\ Root[1].fs \in {"btrfs", "ext4", "xfs", "ufs"} /\ machine.resize # "false"
    BY WantedRoot DEF RootTypes, Wanted
  <1>2. ASSUME \E ok \in BOOLEAN : DoResize(ok)
        PROVE  part'[machine.root].fs = part'[machine.root].seen
    BY <1>1, <1>2, ResizeStep
  <1>3. CASE Resizefs
    <2>1. ~child
      BY <1>3 DEF Resizefs, InBackground
    <2>2. CASE NoResize
      <3>1. MaySkip
        BY <1>1, <2>2 DEF NoResize
      <3>2. part' = part
        BY <1>3, <2>2 DEF Resizefs
      <3>3. QED
        BY <3>1, <3>2 DEF MaySkip
    <2>3. CASE ~NoResize
      <3>1. \E ok \in BOOLEAN : DoResize(ok)
        BY <1>3, <2>3 DEF Resizefs
      <3>2. QED
        BY <1>2, <3>1
    <2>4. QED
      BY <2>2, <2>3
  <1>4. CASE ChildResizes
    BY <1>2, <1>4 DEF ChildResizes
  <1>5. CASE ~Resizefs /\ ~ChildResizes
    BY <1>5 DEF RootNext, Boots, Growpart, GrowDevice, DevicesDone, Dies, OffAndLarger
  <1>6. QED
    BY <1>3, <1>4, <1>5

\* The inductive invariant: where nothing failed the entry of the root is still to come
\* or its partition is full, and the kernel knows it (cc_growpart.handle, resize_devices,
\* cc_resizefs.handle, parse_mount_info).
THEOREM RootInvAlways == RootSpec => []RootInv
  <1>1. RootInit => RootInv
    <2> SUFFICES ASSUME RootInit PROVE RootInv
      OBVIOUS
    <2>1. /\ part = [d \in DOMAIN machine.devs |-> [room |-> 1, size |-> 1, seen |-> 1, fs |-> 1]]
          /\ machine \in Machines /\ stage = "off" /\ entries = <<>> /\ ~child /\ smooth1 = TRUE /\ child \in BOOLEAN
      BY DEF RootInit
    <2>2. RootTypes
      <3>1. entries \in Seq(ToSet(machine.devices))
        BY <2>1
      <3>2. part \in [DOMAIN machine.devs -> [room : Nat, size : Nat, seen : Nat, fs : Nat]]
        BY <2>1
      <3>3. QED
        BY <2>1, <3>1, <3>2 DEF RootTypes
    <2>3. QED
      BY <2>1, <2>2 DEF RootInv, KernelKnows, InBackground, RootGrows, RootFillsDisk, OthersStay
  <1>2. RootInv /\ [RootNext]_rootVars => RootInv'
    <2>1. CASE RootNext /\ RootInv
      <3>1. RootTypes' /\ KernelKnows' /\ InBackground' /\ RootGrows'
        BY <2>1, RootTypesStep, KernelKnowsStep, InBackgroundStep, RootGrowsStep DEF RootInv
      <3>2. machine # NoMachine /\ machine \in Machines /\ machine' = machine /\ Wanted' = Wanted /\ Resizer' = Resizer
        BY <2>1, MachineStays, RootAssumption DEF RootInv, RootTypes
      <3>3. OthersStay'
        BY <2>1, <3>2, OthersStayStep DEF RootInv, RootFillsDisk
      <3>4. ASSUME stage' = "up", ~child', smooth1', Wanted
            PROVE  LET p == part'[machine.root]
                   IN  p.size = p.room /\ p.fs = p.seen /\ (Resizer = "growpart" => p.seen = p.room)
        <4>1. Full(part'[machine.root])
          BY <3>1, <3>2, <3>4, MachineStays DEF RootGrows, Full
        <4>2. part'[machine.root].fs = part'[machine.root].seen
          BY <2>1, <3>2, <3>4, RootResizedStep DEF RootInv, RootFillsDisk
        <4>3. QED
          BY <4>1, <4>2 DEF Full
      <3>5. RootFillsDisk'
        BY <3>2, <3>3, <3>4 DEF RootFillsDisk
      <3>6. QED
        BY <3>1, <3>5 DEF RootInv
    <2>2. CASE UNCHANGED rootVars /\ RootInv
      <3>1. /\ machine' = machine /\ part' = part /\ stage' = stage /\ entries' = entries /\ child' = child
            /\ smooth1' = smooth1
        BY <2>2 DEF rootVars
      <3>2. RootTypes' /\ KernelKnows' /\ InBackground'
        BY <2>2, <3>1 DEF RootInv, RootTypes, KernelKnows, InBackground, Resizer, Root, MountInfo
      <3>3. RootGrows'
        BY <2>2, <3>1 DEF RootInv, RootGrows, Full, Resizer, Wanted, OfRoot, EntryRaises, MountInfo
      <3>4. OthersStay' = OthersStay
        BY <3>1 DEF OthersStay, PartitionOf, MountInfo
      <3>5. Wanted' = Wanted /\ Resizer' = Resizer
        BY <3>1 DEF Resizer, Wanted, OfRoot, EntryRaises, MountInfo
      <3>6. RootFillsDisk'
        BY <2>2, <3>1, <3>4, <3>5 DEF RootInv, RootFillsDisk
      <3>7. QED
        BY <3>2, <3>3, <3>6 DEF RootInv
    <2>3. QED
      BY <2>1, <2>2
  <1>3. QED
    BY <1>1, <1>2, PTL DEF RootSpec

\* After a boot in which nothing failed the root filesystem takes the disk, however
\* often that grew before, and no other partition was touched.
THEOREM RootFillsDiskAlways == RootSpec => []RootFillsDisk
  <1>1. RootInv => RootFillsDisk
    BY DEF RootInv
  <1>2. QED
    BY <1>1, RootInvAlways, PTL

----------------------------------------------------------------------------
(* What an effect makes of the files.                                       *)

\* All but one file are as in f.
SameBut(f, g, p) ==
  \A q : q # p => (q \in DOMAIN g <=> q \in DOMAIN f) /\ (q \in DOMAIN f => g[q] = f[q])

LEMMA PutIs ==
  ASSUME NEW f, NEW p, NEW w, NEW g, g = Put(f, p, w)
  PROVE  p \in DOMAIN g /\ g[p] = w /\ SameBut(f, g, p)
  BY DEF Put, SameBut

\* A file is written.
LEMMA WriteIs ==
  ASSUME NEW f, NEW p, NEW w, NEW how, NEW g, g = Applied(f, Effect("write", p, w, how))
  PROVE  p \in DOMAIN g /\ g[p] = (w) /\ SameBut(f, g, p)
  <1>1. g = Put(f, p, w)
    BY DEF Applied, Effect
  <1> QED BY <1>1, PutIs

\* Something is added to what a tool keeps.
LEMMA AddIs ==
  ASSUME NEW f, NEW p, NEW w, NEW how, NEW g, g = Applied(f, Effect("add", p, w, how))
  PROVE  p \in DOMAIN g /\ g[p] = (Get(f, p, {}) \cup w) /\ SameBut(f, g, p)
  <1>1. g = Put(f, p, Get(f, p, {}) \cup w)
    BY DEF Applied, Effect
  <1> QED BY <1>1, PutIs

\* Settings are made.
LEMMA SetIs ==
  ASSUME NEW f, NEW p, NEW w, NEW how, NEW g, g = Applied(f, Effect("set", p, w, how))
  PROVE  p \in DOMAIN g /\ g[p] = (w ++ Get(f, p, <<>>)) /\ SameBut(f, g, p)
  <1>1. g = Put(f, p, w ++ Get(f, p, <<>>))
    BY DEF Applied, Effect
  <1> QED BY <1>1, PutIs

\* A file is copied.
LEMMA CopyIs ==
  ASSUME NEW f, NEW p, NEW to, NEW how, NEW g, g = Applied(f, Effect("copy", p, to, how))
  PROVE  to \in DOMAIN g /\ g[to] = f[p] /\ SameBut(f, g, to)
  <1>1. g = Put(f, to, f[p])
    BY DEF Applied, Effect
  <1> QED BY <1>1, PutIs

\* A file is deleted.
LEMMA DeleteIs ==
  ASSUME NEW f, NEW p, NEW w, NEW how, NEW g, g = Applied(f, Effect("remove", p, w, how))
  PROVE  p \notin DOMAIN g /\ SameBut(f, g, p)
  <1>1. g = [k \in DOMAIN f \ {p} |-> f[k]]
    BY DEF Applied, Effect, Without
  <1> QED BY <1>1 DEF SameBut

\* A file is moved.
LEMMA MoveIs ==
  ASSUME NEW f, NEW p, NEW to, NEW how, NEW g, to # p, g = Applied(f, Effect("move", p, to, how))
  PROVE  /\ p \notin DOMAIN g /\ to \in DOMAIN g
         /\ \A q : q \notin {p, to} => (q \in DOMAIN g <=> q \in DOMAIN f) /\ (q \in DOMAIN f => g[q] = f[q])
  <1>1. g = Put([k \in DOMAIN f \ {p} |-> f[k]], to, f[p])
    BY DEF Applied, Effect, Without
  <1> QED BY <1>1 DEF Put

----------------------------------------------------------------------------
(* Effects one after the other.                                             *)

Plain(e) == e.op # "raise" /\ e.op # "resume"

\* The first k effects of s make f of f0.
Way(f0, s, k, f) ==
  \E t : /\ t[0] = f0 /\ t[k] = f
         /\ \A i \in 1..k : Plain(s[i]) /\ t[i] = Applied(t[i - 1], s[i])

LEMMA WayBegins == ASSUME NEW f, NEW s PROVE Way(f, s, 0, f)
  <1> DEFINE t == [i \in {0} |-> f]
  <1>1. t[0] = f /\ \A i \in 1..0 : Plain(s[i]) /\ t[i] = Applied(t[i - 1], s[i])
    OBVIOUS
  <1> HIDE DEF t
  <1> QED BY <1>1 DEF Way

LEMMA WayEmpty == ASSUME NEW f0, NEW s, NEW f, Way(f0, s, 0, f) PROVE f = f0
  BY DEF Way

\* One more.
LEMMA WayGoesOn ==
  ASSUME NEW f0, NEW s, NEW k \in Nat, NEW f, Way(f0, s, k, f), Plain(s[k + 1])
  PROVE  Way(f0, s, k + 1, Applied(f, s[k + 1]))
  <1>1. PICK t : /\ t[0] = f0 /\ t[k] = f
                 /\ \A i \in 1..k : Plain(s[i]) /\ t[i] = Applied(t[i - 1], s[i])
    BY DEF Way
  <1> DEFINE u == [i \in Nat |-> IF i = k + 1 THEN Applied(f, s[k + 1]) ELSE t[i]]
  <1>2. u[0] = f0 /\ u[k + 1] = Applied(f, s[k + 1]) /\ u[k] = f
    BY <1>1
  <1>3. ASSUME NEW i \in 1..(k + 1)
        PROVE  Plain(s[i]) /\ u[i] = Applied(u[i - 1], s[i])
    <2>1. CASE i = k + 1
      BY <1>2, <2>1
    <2>2. CASE i # k + 1
      <3>1. i \in 1..k /\ i \in Nat /\ i - 1 \in Nat /\ i - 1 # k + 1
        BY <2>2
      <3>2. u[i] = t[i] /\ u[i - 1] = t[i - 1]
        BY <2>2, <3>1
      <3>3. QED
        BY <1>1, <3>1, <3>2
    <2>3. QED
      BY <2>1, <2>2
  <1> QED BY <1>2, <1>3 DEF Way

\* The last.
LEMMA WayCameFrom ==
  ASSUME NEW f0, NEW s, NEW k \in Nat, NEW f, Way(f0, s, k + 1, f)
  PROVE  \E g : Way(f0, s, k, g) /\ Plain(s[k + 1]) /\ f = Applied(g, s[k + 1])
  <1>1. PICK t : /\ t[0] = f0 /\ t[k + 1] = f
                 /\ \A i \in 1..(k + 1) : Plain(s[i]) /\ t[i] = Applied(t[i - 1], s[i])
    BY DEF Way
  <1>2. (k + 1) - 1 = k /\ k + 1 \in 1..(k + 1) /\ \A i \in 1..k : i \in 1..(k + 1)
    OBVIOUS
  <1>3. Way(f0, s, k, t[k])
    BY <1>1, <1>2 DEF Way
  <1> QED BY <1>1, <1>2, <1>3

LEMMA WayOne ==
  ASSUME NEW f0, NEW s, NEW f, Way(f0, s, 1, f)
  PROVE  Plain(s[1]) /\ f = Applied(f0, s[1])
  <1>1. 1 = 0 + 1
    OBVIOUS
  <1>2. \E g : Way(f0, s, 0, g) /\ Plain(s[1]) /\ f = Applied(g, s[1])
    BY <1>1, WayCameFrom
  <1> QED BY <1>2, WayEmpty

----------------------------------------------------------------------------
(* Lists of effects, joined.                                                *)

\* A list of effects that are carried out without reading anything in between.
Straight(s) == (\E S : s \in Seq(S)) /\ \A i \in 1..Len(s) : s[i].op # "resume"

\* All of s make f of f0.
Makes(f0, s, f) == Way(f0, s, Len(s), f)

LEMMA StraightNone == Straight(<<>>)
  <1>1. <<>> \in Seq({}) /\ \A i \in 1..Len(<<>>) : <<>>[i].op # "resume"
    OBVIOUS
  <1> QED BY <1>1 DEF Straight
LEMMA StraightOne == ASSUME NEW e, e.op # "resume" PROVE Straight(<<e>>)
  <1>1. <<e>> \in Seq({e}) /\ \A i \in 1..Len(<<e>>) : <<e>>[i].op # "resume"
    OBVIOUS
  <1> QED BY <1>1 DEF Straight

\* Lists of anything, joined, are lists.
LEMMA JoinedIs ==
  ASSUME NEW a, NEW b, \E S : a \in Seq(S), \E T : b \in Seq(T)
  PROVE  /\ \E U : a \in Seq(U) /\ b \in Seq(U) /\ a \o b \in Seq(U)
         /\ Len(a) \in Nat /\ Len(b) \in Nat /\ Len(a \o b) = Len(a) + Len(b)
         /\ \A i \in 1..Len(a) : (a \o b)[i] = a[i]
         /\ \A i \in 1..Len(b) : (a \o b)[Len(a) + i] = b[i]
  <1>1. PICK S : a \in Seq(S)
    OBVIOUS
  <1>2. PICK T : b \in Seq(T)
    OBVIOUS
  <1> DEFINE U == S \cup T
  <1>3. a \in Seq(U) /\ b \in Seq(U)
    BY <1>1, <1>2
  <1>4. a \o b \in Seq(U) /\ Len(a) \in Nat /\ Len(b) \in Nat /\ Len(a \o b) = Len(a) + Len(b)
    BY <1>3
  <1>5. \A i \in 1..Len(a) : (a \o b)[i] = a[i]
    BY <1>3
  <1>6. ASSUME NEW i \in 1..Len(b) PROVE (a \o b)[Len(a) + i] = b[i]
    BY <1>3, <1>4
  <1> QED BY <1>3, <1>4, <1>5, <1>6

LEMMA StraightJoined ==
  ASSUME NEW a, NEW b, Straight(a), Straight(b) PROVE Straight(a \o b)
  <1>1. (\E S : a \in Seq(S)) /\ (\E T : b \in Seq(T))
    BY DEF Straight
  <1>2. PICK U : a \o b \in Seq(U)
    BY <1>1, JoinedIs
  <1>3. /\ Len(a) \in Nat /\ Len(b) \in Nat /\ Len(a \o b) = Len(a) + Len(b)
        /\ \A i \in 1..Len(a) : (a \o b)[i] = a[i]
        /\ \A i \in 1..Len(b) : (a \o b)[Len(a) + i] = b[i]
    BY <1>1, JoinedIs
  <1>4. ASSUME NEW i \in 1..Len(a \o b) PROVE (a \o b)[i].op # "resume"
    <2>1. CASE i <= Len(a)
      <3>1. i \in 1..Len(a)
        BY <1>3, <2>1
      <3>2. QED
        BY <1>3, <3>1 DEF Straight
    <2>2. CASE ~(i <= Len(a))
      <3>1. i - Len(a) \in 1..Len(b) /\ Len(a) + (i - Len(a)) = i
        BY <1>3, <2>2
      <3>2. (a \o b)[i] = b[i - Len(a)]
        BY <1>3, <3>1
      <3>3. QED
        BY <3>1, <3>2 DEF Straight
    <2>3. QED
      BY <2>1, <2>2
  <1> QED BY <1>2, <1>4 DEF Straight

LEMMA MadeNone == ASSUME NEW f0, NEW f, Makes(f0, <<>>, f) PROVE f = f0
  <1>1. Len(<<>>) = 0
    OBVIOUS
  <1> QED BY <1>1, WayEmpty DEF Makes

LEMMA MadeOne ==
  ASSUME NEW f0, NEW e, NEW f, Makes(f0, <<e>>, f) PROVE Plain(e) /\ f = Applied(f0, e)
  <1>1. Len(<<e>>) = 1 /\ <<e>>[1] = e
    OBVIOUS
  <1>2. Way(f0, <<e>>, 1, f)
    BY <1>1 DEF Makes
  <1> HIDE DEF Makes
  <1>3. Plain(<<e>>[1]) /\ f = Applied(f0, <<e>>[1])
    BY <1>2, WayOne
  <1> QED BY <1>1, <1>3

\* What comes first is made first.
LEMMA MadeJoined ==
  ASSUME NEW f0, NEW a, NEW b, NEW f, Straight(a), Straight(b), Makes(f0, a \o b, f)
  PROVE  \E g : Makes(f0, a, g) /\ Makes(g, b, f)
  <1> DEFINE n == Len(a)
             m == Len(b)
             s == a \o b
  <1>1. /\ n \in Nat /\ m \in Nat /\ Len(s) = n + m
        /\ \A i \in 1..n : s[i] = a[i]
        /\ \A i \in 1..m : s[n + i] = b[i]
    BY JoinedIs DEF Straight
  <1> HIDE DEF n, m, s
  <1>2. Way(f0, s, n + m, f)
    BY <1>1 DEF Makes, s
  <1>3. PICK t : /\ t[0] = f0 /\ t[n + m] = f
                 /\ \A i \in 1..(n + m) : Plain(s[i]) /\ t[i] = Applied(t[i - 1], s[i])
    BY <1>2 DEF Way
  <1>4. Way(f0, a, n, t[n])
    <2>1. ASSUME NEW i \in 1..n PROVE Plain(a[i]) /\ t[i] = Applied(t[i - 1], a[i])
      <3>1. i \in 1..(n + m) /\ s[i] = a[i]
        BY <1>1
      <3>2. QED
        BY <1>3, <3>1
    <2>2. QED
      BY <1>3, <2>1 DEF Way
  <1>5. Way(t[n], b, m, f)
    <2> DEFINE u == [i \in Nat |-> t[n + i]]
    <2>1. u[0] = t[n] /\ u[m] = f
      BY <1>1, <1>3
    <2>2. ASSUME NEW i \in 1..m PROVE Plain(b[i]) /\ u[i] = Applied(u[i - 1], b[i])
      <3>1. n + i \in 1..(n + m) /\ s[n + i] = b[i] /\ (n + i) - 1 = n + (i - 1) /\ i \in Nat /\ i - 1 \in Nat
        BY <1>1
      <3>2. Plain(s[n + i]) /\ t[n + i] = Applied(t[(n + i) - 1], s[n + i])
        BY <1>3, <3>1
      <3>3. u[i] = t[n + i] /\ u[i - 1] = t[n + (i - 1)]
        BY <3>1
      <3>4. QED
        BY <3>1, <3>2, <3>3
    <2> HIDE DEF u
    <2>3. QED
      BY <2>1, <2>2 DEF Way
  <1> QED BY <1>4, <1>5 DEF Makes, n, m

LEMMA StraightIf ==
  ASSUME NEW c, NEW s, Straight(s) PROVE Straight(If(c, s))
  BY StraightNone DEF If

----------------------------------------------------------------------------
(* A run of a module, and what it has done.                                 *)

\* A handler that carries out one list, or two, the second by what the first has made.
Shape(m, c) ==
  \A f : \E a : /\ Straight(a)
                /\ \/ Effects(m, c, f) = a
                   \/ Effects(m, c, f) = a \o <<Resume>> /\ \A g : Straight(Rest(m, c, g))

\* The list s is carried out from files f1, by a handler that began with f0.
Course(m, c, f0, f1, s) ==
  \E a : /\ Straight(a)
         /\ \/ Effects(m, c, f0) = a /\ f1 = f0 /\ s = a
            \/ Effects(m, c, f0) = a \o <<Resume>> /\ f1 = f0 /\ s = a \o <<Resume>>
            \/ Effects(m, c, f0) = a \o <<Resume>> /\ Makes(f0, a, f1) /\ s = Rest(m, c, f1) /\ Straight(s)

\* It has come to files f, with ahead left; or is done with them.
Underway(m, c, f0, ahead, f) ==
  \E f1, s, k : Course(m, c, f0, f1, s) /\ k \in 0..Len(s) /\ Way(f1, s, k, f) /\ ahead = SubSeq(s, k + 1, Len(s))
Whole(m, c, f0, f) ==
  \E a : /\ Straight(a)
         /\ \/ Effects(m, c, f0) = a /\ Makes(f0, a, f)
            \/ /\ Effects(m, c, f0) = a \o <<Resume>>
               /\ \E f1 : Makes(f0, a, f1) /\ Straight(Rest(m, c, f1)) /\ Makes(f1, Rest(m, c, f1), f)

\* The rest of a list.
LEMMA RestOfList ==
  ASSUME NEW S, NEW s \in Seq(S), NEW k \in 0..Len(s)
  PROVE  /\ SubSeq(s, k + 1, Len(s)) = <<>> => k = Len(s)
         /\ SubSeq(s, k + 1, Len(s)) # <<>> =>
              /\ k + 1 \in 1..Len(s)
              /\ Head(SubSeq(s, k + 1, Len(s))) = s[k + 1]
              /\ Tail(SubSeq(s, k + 1, Len(s))) = SubSeq(s, (k + 1) + 1, Len(s))
         /\ SubSeq(s, 1, Len(s)) = s
  <1> DEFINE t == SubSeq(s, k + 1, Len(s))
             u == SubSeq(s, (k + 1) + 1, Len(s))
  <1>0. Len(s) \in Nat /\ \A i \in 1..Len(s) : s[i] \in S
    OBVIOUS
  <1>1. Len(s) \in Nat /\ t \in Seq(S) /\ Len(t) = Len(s) - k /\ \A i \in 1..Len(t) : t[i] = s[k + i]
    <2>1. k + 1 \in Int /\ Len(s) \in Int /\ \A i \in (k + 1)..Len(s) : s[i] \in S
      BY <1>0
    <2>2. /\ t \in Seq(S) /\ Len(t) = IF k + 1 <= Len(s) THEN Len(s) - (k + 1) + 1 ELSE 0
          /\ \A i \in 1..(Len(s) - (k + 1) + 1) : t[i] = s[(k + 1) + i - 1]
      BY <2>1, SubSeqProperties
    <2> HIDE DEF t
    <2>3. Len(t) = Len(s) - k
      BY <1>0, <2>2
    <2>4. ASSUME NEW i \in 1..Len(t) PROVE t[i] = s[k + i]
      <3>1. i \in 1..(Len(s) - (k + 1) + 1) /\ (k + 1) + i - 1 = k + i
        BY <1>0, <2>3
      <3>2. QED
        BY <2>2, <3>1
    <2>5. QED
      BY <1>0, <2>2, <2>3, <2>4
  <1>2. SubSeq(s, 1, Len(s)) = s
    OBVIOUS
  <1>3. ASSUME t # <<>>
        PROVE  k + 1 \in 1..Len(s) /\ Head(t) = s[k + 1] /\ Tail(t) = u
    <2>1. Len(t) # 0 /\ k + 1 \in 1..Len(s) /\ 1 \in 1..Len(t)
      <3>1. Len(t) # 0
        BY <1>1, <1>3, EmptySeq
      <3>2. QED
        BY <1>1, <3>1
    <2>2. Head(t) = s[k + 1]
      BY <1>1, <1>3, <2>1
    <2>3. u \in Seq(S) /\ Len(u) = Len(s) - (k + 1) /\ \A i \in 1..Len(u) : u[i] = s[(k + 1) + i]
      <3>1. (k + 1) + 1 \in Int /\ Len(s) \in Int /\ \A i \in ((k + 1) + 1)..Len(s) : s[i] \in S
        BY <1>0
      <3>2. /\ u \in Seq(S) /\ Len(u) = IF (k + 1) + 1 <= Len(s) THEN Len(s) - ((k + 1) + 1) + 1 ELSE 0
            /\ \A i \in 1..(Len(s) - ((k + 1) + 1) + 1) : u[i] = s[((k + 1) + 1) + i - 1]
        BY <3>1, SubSeqProperties
      <3> HIDE DEF u
      <3>3. Len(u) = Len(s) - (k + 1)
        BY <1>0, <2>1, <3>2
      <3>4. ASSUME NEW i \in 1..Len(u) PROVE u[i] = s[(k + 1) + i]
        <4>1. i \in 1..(Len(s) - ((k + 1) + 1) + 1) /\ ((k + 1) + 1) + i - 1 = (k + 1) + i
          BY <1>0, <3>3
        <4>2. QED
          BY <3>2, <4>1
      <3>5. QED
        BY <3>2, <3>3, <3>4
    <2>4. Tail(t) \in Seq(S) /\ Len(Tail(t)) = Len(t) - 1 /\ \A i \in 1..Len(Tail(t)) : Tail(t)[i] = t[i + 1]
      BY <1>1, <1>3, HeadTailProperties
    <2>5. ASSUME NEW i \in 1..Len(u) PROVE u[i] = Tail(t)[i]
      <3> HIDE DEF t, u
      <3>1. i \in 1..Len(Tail(t)) /\ i + 1 \in 1..Len(t) /\ k + (i + 1) = (k + 1) + i
        BY <1>1, <2>1, <2>3, <2>4
      <3>2. QED
        BY <1>1, <2>3, <2>4, <3>1
    <2> HIDE DEF t, u
    <2>6. Len(u) = Len(Tail(t))
      BY <1>1, <2>1, <2>3, <2>4
    <2>7. u = Tail(t)
      BY <2>3, <2>4, <2>5, <2>6, SeqEqual
    <2>8. QED
      BY <2>1, <2>2, <2>7
  <1>4. ASSUME t = <<>> PROVE k = Len(s)
    <2> HIDE DEF t
    <2>1. Len(t) = 0
      BY <1>4
    <2>2. QED
      BY <1>1, <2>1
  <1> QED BY <1>2, <1>3, <1>4
\* A list that ends with Resume.
LEMMA WithResume ==
  ASSUME NEW a, Straight(a)
  PROVE  /\ \E S : a \o <<Resume>> \in Seq(S)
         /\ Len(a) \in Nat /\ Len(a \o <<Resume>>) = Len(a) + 1
         /\ \A i \in 1..Len(a) : (a \o <<Resume>>)[i] = a[i]
         /\ (a \o <<Resume>>)[Len(a) + 1] = Resume
  <1> DEFINE r == <<Resume>>
  <1>1. r \in Seq({Resume}) /\ Len(r) = 1 /\ r[1] = Resume
    OBVIOUS
  <1> HIDE DEF r
  <1>2. (\E S : a \in Seq(S)) /\ \E T : r \in Seq(T)
    BY <1>1 DEF Straight
  <1>3. PICK U : a \o r \in Seq(U)
    BY <1>2, JoinedIs
  <1>4. /\ Len(a) \in Nat /\ Len(r) \in Nat /\ Len(a \o r) = Len(a) + Len(r)
        /\ \A i \in 1..Len(a) : (a \o r)[i] = a[i]
        /\ \A i \in 1..Len(r) : (a \o r)[Len(a) + i] = r[i]
    BY <1>2, JoinedIs
  <1>5. 1 \in 1..Len(r)
    BY <1>1
  <1>6. (a \o r)[Len(a) + 1] = Resume
    BY <1>1, <1>4, <1>5
  <1> QED BY <1>1, <1>3, <1>4, <1>6 DEF r

\* A course is a list, in which only the last effect may be Resume.
LEMMA CourseIs ==
  ASSUME NEW m, NEW c, NEW f0, NEW f1, NEW s, Course(m, c, f0, f1, s)
  PROVE  /\ \E S : s \in Seq(S)
         /\ Len(s) \in Nat
         /\ \A k \in Nat : k + 1 \in 1..Len(s) /\ s[k + 1].op = "resume" =>
              /\ k + 1 = Len(s)
              /\ \E a : /\ Straight(a) /\ Effects(m, c, f0) = a \o <<Resume>> /\ f1 = f0 /\ s = a \o <<Resume>>
                        /\ k = Len(a)
  <1>1. PICK a : /\ Straight(a)
                 /\ \/ Effects(m, c, f0) = a /\ f1 = f0 /\ s = a
                    \/ Effects(m, c, f0) = a \o <<Resume>> /\ f1 = f0 /\ s = a \o <<Resume>>
                    \/ Effects(m, c, f0) = a \o <<Resume>> /\ Makes(f0, a, f1) /\ s = Rest(m, c, f1) /\ Straight(s)
    BY DEF Course
  <1>2. ASSUME Straight(s)
        PROVE  (\E S : s \in Seq(S)) /\ Len(s) \in Nat /\ \A k \in Nat : k + 1 \in 1..Len(s) => s[k + 1].op # "resume"
    BY <1>2 DEF Straight
  <1>3. CASE Effects(m, c, f0) = a \o <<Resume>> /\ f1 = f0 /\ s = a \o <<Resume>>
    <2>1. /\ \E S : s \in Seq(S)
          /\ Len(a) \in Nat /\ Len(s) = Len(a) + 1
          /\ \A i \in 1..Len(a) : s[i] = a[i]
      BY <1>1, <1>3, WithResume
    <2>2. ASSUME NEW k \in Nat, k + 1 \in 1..Len(s), s[k + 1].op = "resume"
          PROVE  k = Len(a) /\ k + 1 = Len(s)
      <3>1. CASE k + 1 \in 1..Len(a)
        BY <1>1, <2>1, <2>2, <3>1 DEF Straight
      <3>2. CASE k + 1 \notin 1..Len(a)
        BY <2>1, <2>2, <3>2
      <3>3. QED
        BY <3>1, <3>2
    <2>3. ASSUME NEW k \in Nat, k + 1 \in 1..Len(s), s[k + 1].op = "resume"
          PROVE  \E b : /\ Straight(b) /\ Effects(m, c, f0) = b \o <<Resume>> /\ f1 = f0 /\ s = b \o <<Resume>>
                        /\ k = Len(b)
      <3>1. k = Len(a)
        BY <2>2, <2>3
      <3>2. QED
        BY <1>1, <1>3, <3>1
    <2>4. Len(s) \in Nat
      BY <2>1
    <2>5. QED
      BY <2>1, <2>2, <2>3, <2>4
  <1>4. CASE Straight(s)
    BY <1>2, <1>4
  <1> QED BY <1>1, <1>3, <1>4

\* A run begins,
LEMMA Begins ==
  ASSUME NEW m, NEW c, NEW f, Shape(m, c)
  PROVE  Underway(m, c, f, Effects(m, c, f), f)
  <1>1. PICK a : Straight(a) /\ (Effects(m, c, f) = a \/ Effects(m, c, f) = a \o <<Resume>>)
    BY DEF Shape
  <1> DEFINE s == Effects(m, c, f)
  <1>2. Course(m, c, f, f, s)
    BY <1>1 DEF Course
  <1>3. PICK S : s \in Seq(S)
    BY <1>2, CourseIs
  <1> HIDE DEF s
  <1>4. 0 \in 0..Len(s) /\ SubSeq(s, 0 + 1, Len(s)) = s
    BY <1>3, RestOfList
  <1>5. Way(f, s, 0, f)
    BY WayBegins
  <1> QED BY <1>2, <1>4, <1>5 DEF Underway, s

\* carries out its effects one by one,
LEMMA Continues ==
  ASSUME NEW m, NEW c, NEW f0, NEW ahead, NEW f, Underway(m, c, f0, ahead, f), ahead # <<>>, Plain(Head(ahead))
  PROVE  Underway(m, c, f0, Tail(ahead), Applied(f, Head(ahead)))
  <1>1. PICK f1, s, k : Course(m, c, f0, f1, s) /\ k \in 0..Len(s) /\ Way(f1, s, k, f) /\ ahead = SubSeq(s, k + 1, Len(s))
    BY DEF Underway
  <1>2. PICK S : s \in Seq(S)
    BY <1>1, CourseIs
  <1>3. k + 1 \in 1..Len(s) /\ Head(ahead) = s[k + 1] /\ Tail(ahead) = SubSeq(s, (k + 1) + 1, Len(s))
    BY <1>1, <1>2, RestOfList
  <1>4. k \in Nat /\ k + 1 \in 0..Len(s)
    BY <1>1, <1>2, <1>3
  <1>5. Way(f1, s, k + 1, Applied(f, s[k + 1]))
    BY <1>1, <1>3, <1>4, WayGoesOn
  <1> QED BY <1>1, <1>3, <1>4, <1>5 DEF Underway

\* reads what they have made,
LEMMA ReadsOn ==
  ASSUME NEW m, NEW c, NEW f0, NEW ahead, NEW f, Shape(m, c), Underway(m, c, f0, ahead, f), ahead # <<>>, Head(ahead).op = "resume"
  PROVE  Underway(m, c, f0, Rest(m, c, f) \o Tail(ahead), f)
  <1>1. PICK f1, s, k : Course(m, c, f0, f1, s) /\ k \in 0..Len(s) /\ Way(f1, s, k, f) /\ ahead = SubSeq(s, k + 1, Len(s))
    BY DEF Underway
  <1>2. PICK S : s \in Seq(S)
    BY <1>1, CourseIs
  <1>3. k + 1 \in 1..Len(s) /\ Head(ahead) = s[k + 1] /\ Tail(ahead) = SubSeq(s, (k + 1) + 1, Len(s)) /\ k \in Nat
    BY <1>1, <1>2, RestOfList
  <1>0. s[k + 1].op = "resume"
    BY <1>3
  <1>4. k + 1 = Len(s)
    BY <1>1, <1>3, <1>0, CourseIs
  <1>5. PICK a : Straight(a) /\ Effects(m, c, f0) = a \o <<Resume>> /\ f1 = f0 /\ s = a \o <<Resume>> /\ k = Len(a)
    BY <1>1, <1>3, <1>0, CourseIs
  <1>6. Tail(ahead) = <<>>
    <2>1. Len(s) < (k + 1) + 1 /\ (k + 1) + 1 \in Int /\ Len(s) \in Int
      BY <1>2, <1>3, <1>4
    <2>2. QED
      BY <1>3, <2>1, SubSeqEmpty
  <1>7. Makes(f0, a, f)
    <2>1. \A i \in 1..k : s[i] = a[i]
      BY <1>5, WithResume
    <2>2. QED
      BY <1>1, <1>5, <2>1 DEF Makes, Way
  <1>8. Straight(Rest(m, c, f))
    <2>1. PICK b : /\ Straight(b)
                   /\ \/ Effects(m, c, f0) = b
                      \/ Effects(m, c, f0) = b \o <<Resume>> /\ \A g : Straight(Rest(m, c, g))
      BY DEF Shape
    <2>2. Effects(m, c, f0) # b
      <3>1. s[k + 1].op = "resume" /\ s = Effects(m, c, f0)
        BY <1>3, <1>5
      <3>2. QED
        BY <1>3, <2>1, <3>1 DEF Straight
    <2>3. QED
      BY <2>1, <2>2
  <1> DEFINE r == Rest(m, c, f)
  <1>9. Course(m, c, f0, f, r)
    BY <1>5, <1>7, <1>8 DEF Course
  <1>10. PICK R : r \in Seq(R)
    BY <1>9, CourseIs
  <1> HIDE DEF r
  <1>11. 0 \in 0..Len(r) /\ SubSeq(r, 0 + 1, Len(r)) = r /\ r \o <<>> = r
    BY <1>10, RestOfList
  <1>12. Way(f, r, 0, f)
    BY WayBegins
  <1>13. Rest(m, c, f) \o Tail(ahead) = r
    BY <1>6, <1>11 DEF r
  <1> QED BY <1>9, <1>11, <1>12, <1>13 DEF Underway

\* and ends when there is nothing left.
LEMMA Ends ==
  ASSUME NEW m, NEW c, NEW f0, NEW f, Underway(m, c, f0, <<>>, f)
  PROVE  Whole(m, c, f0, f)
  <1>1. PICK f1, s, k : Course(m, c, f0, f1, s) /\ k \in 0..Len(s) /\ Way(f1, s, k, f) /\ <<>> = SubSeq(s, k + 1, Len(s))
    BY DEF Underway
  <1>2. PICK S : s \in Seq(S)
    BY <1>1, CourseIs
  <1>3. k = Len(s)
    BY <1>1, <1>2, RestOfList
  <1>4. Makes(f1, s, f)
    BY <1>1, <1>3 DEF Makes
  <1>5. PICK a : /\ Straight(a)
                 /\ \/ Effects(m, c, f0) = a /\ f1 = f0 /\ s = a
                    \/ Effects(m, c, f0) = a \o <<Resume>> /\ f1 = f0 /\ s = a \o <<Resume>>
                    \/ Effects(m, c, f0) = a \o <<Resume>> /\ Makes(f0, a, f1) /\ s = Rest(m, c, f1) /\ Straight(s)
    BY <1>1 DEF Course
  <1>6. ~(s = a \o <<Resume>>)
    <2>1. SUFFICES ASSUME s = a \o <<Resume>> PROVE FALSE
      OBVIOUS
    <2>2. Len(a) \in Nat /\ Len(s) = Len(a) + 1 /\ s[Len(a) + 1] = Resume
      BY <1>5, <2>1, WithResume
    <2>3. Len(s) \in 1..Len(s) /\ s[Len(s)] = Resume
      BY <2>2
    <2>4. Plain(s[Len(s)])
      BY <1>4, <2>3 DEF Makes, Way
    <2>5. QED
      BY <2>3, <2>4 DEF Plain, Resume, Effect
  <1> QED BY <1>4, <1>5, <1>6 DEF Whole

----------------------------------------------------------------------------
(* The files of a machine are what its module's effects made of them.       *)

RunsInv ==
  /\ at = "run" /\ clean => Underway(module, asked, found, left, files)
  /\ at = "done" /\ clean => Whole(module, asked, found, files)
  /\ again /\ at \in {"run", "done"} => \E f0 : Whole(module, asked, f0, found)

LEMMA RunsInit == ConfInit => RunsInv
  BY DEF ConfInit, RunsInv

LEMMA RunsStep ==
  ASSUME RunsInv, [ConfNext]_confVars, Shape(module, asked)
  PROVE  RunsInv'
  <1>1. CASE UNCHANGED confVars
    BY <1>1 DEF confVars, RunsInv
  <1>2. CASE Handle
    <2>1. Underway(module, asked, files, Effects(module, asked, files), files)
      BY Begins
    <2>2. /\ module' = module /\ asked' = asked /\ files' = files /\ found' = files
          /\ left' = Effects(module, asked, files) /\ at' = "run" /\ clean' = TRUE
          /\ again' = (at = "done" /\ clean)
      BY <1>2 DEF Handle
    <2>3. again' => Whole(module, asked, found, files)
      BY <2>2 DEF RunsInv
    <2>4. QED
      BY <2>1, <2>2, <2>3 DEF RunsInv
  <1>3. CASE AnotherInstance
    BY <1>3 DEF AnotherInstance, RunsInv
  <1>4. CASE Succeeds
    <2>1. /\ at = "run" /\ left # <<>> /\ Plain(Head(left)) /\ files' = Applied(files, Head(left))
          /\ left' = Tail(left) /\ clean' = clean
          /\ module' = module /\ asked' = asked /\ at' = at /\ found' = found /\ again' = again
      BY <1>4 DEF Succeeds, Continue, Plain
    <2>2. clean => Underway(module, asked, found, Tail(left), Applied(files, Head(left)))
      BY <2>1, Continues DEF RunsInv
    <2>3. QED
      BY <2>1, <2>2 DEF RunsInv
  <1>5. CASE Reads
    <2>1. /\ at = "run" /\ left # <<>> /\ Head(left).op = "resume" /\ left' = Rest(module, asked, files) \o Tail(left)
          /\ module' = module /\ asked' = asked /\ files' = files /\ at' = at /\ clean' = clean
          /\ found' = found /\ again' = again
      BY <1>5 DEF Reads, Running
    <2>2. clean => Underway(module, asked, found, Rest(module, asked, files) \o Tail(left), files)
      BY <2>1, ReadsOn DEF RunsInv
    <2>3. QED
      BY <2>1, <2>2 DEF RunsInv
  <1>6. CASE Raises
    BY <1>6 DEF Raises, End, RunsInv
  <1>7. CASE CommandFails
    <2>1. /\ at = "run" /\ clean' = FALSE /\ module' = module /\ asked' = asked /\ found' = found /\ again' = again
      BY <1>7 DEF CommandFails, End, Continue
    <2>2. QED
      BY <2>1 DEF RunsInv
  <1>8. CASE HandlerReturns
    <2>1. /\ at = "run" /\ left = <<>> /\ at' = "done" /\ clean' = clean /\ files' = files
          /\ module' = module /\ asked' = asked /\ found' = found /\ again' = again
      BY <1>8 DEF HandlerReturns, End
    <2>2. clean => Whole(module, asked, found, files)
      BY <2>1, Ends DEF RunsInv
    <2>3. QED
      BY <2>1, <2>2 DEF RunsInv
  <1>9. CASE HandlerKilled
    BY <1>9 DEF HandlerKilled, End, RunsInv
  <1>10. CASE Stays
    BY <1>10 DEF Stays, confVars, RunsInv
  <1> QED BY <1>1, <1>2, <1>3, <1>4, <1>5, <1>6, <1>7, <1>8, <1>9, <1>10 DEF ConfNext

----------------------------------------------------------------------------
(* What a module makes of the files, from the lists it carries out.         *)

LEMMA Pair ==
  ASSUME NEW a, NEW b PROVE <<a, b>> = <<a>> \o <<b>>
  <1> DEFINE S == {a, b}
             s == <<a>>
             t == <<b>>
             u == <<a, b>>
  <1>1. s \in Seq(S) /\ t \in Seq(S) /\ u \in Seq(S) /\ Len(s) = 1 /\ Len(t) = 1 /\ Len(u) = 2
        /\ s[1] = a /\ t[1] = b /\ u[1] = a /\ u[2] = b
    OBVIOUS
  <1> HIDE DEF S, s, t, u
  <1>2. /\ s \o t \in Seq(S) /\ Len(s \o t) = 2
        /\ \A i \in 1..2 : (s \o t)[i] = IF i <= 1 THEN s[i] ELSE t[i - 1]
    BY <1>1, ConcatProperties
  <1>3. (s \o t)[1] = a /\ (s \o t)[2] = b
    <2>1. 1 \in 1..2 /\ 2 \in 1..2 /\ 1 <= 1 /\ ~(2 <= 1) /\ 2 - 1 = 1
      OBVIOUS
    <2>2. QED
      BY <1>1, <1>2, <2>1
  <1>5. ASSUME NEW i \in 1..Len(u) PROVE u[i] = (s \o t)[i]
    <2>1. i = 1 \/ i = 2
      BY <1>1
    <2>2. QED
      BY <1>1, <1>3, <2>1
  <1>6. u = s \o t
    BY <1>1, <1>2, <1>5, SeqEqual
  <1> QED BY <1>6 DEF s, t, u
LEMMA Triple ==
  ASSUME NEW a, NEW b, NEW c PROVE <<a, b, c>> = <<a>> \o <<b, c>>
  <1> DEFINE S == {a, b, c}
             s == <<a>>
             t == <<b, c>>
             u == <<a, b, c>>
  <1>1. s \in Seq(S) /\ t \in Seq(S) /\ u \in Seq(S) /\ Len(s) = 1 /\ Len(t) = 2 /\ Len(u) = 3
        /\ s[1] = a /\ t[1] = b /\ t[2] = c /\ u[1] = a /\ u[2] = b /\ u[3] = c
    OBVIOUS
  <1> HIDE DEF S, s, t, u
  <1>2. /\ s \o t \in Seq(S) /\ Len(s \o t) = 3
        /\ \A i \in 1..3 : (s \o t)[i] = IF i <= 1 THEN s[i] ELSE t[i - 1]
    <2>1. /\ s \o t \in Seq(S) /\ Len(s \o t) = Len(s) + Len(t)
          /\ \A i \in 1..(Len(s) + Len(t)) : (s \o t)[i] = IF i <= Len(s) THEN s[i] ELSE t[i - Len(s)]
      BY <1>1, ConcatProperties
    <2>2. Len(s) = 1 /\ Len(s) + Len(t) = 3
      BY <1>1
    <2>3. QED
      BY <2>1, <2>2
  <1>3. (s \o t)[1] = a /\ (s \o t)[2] = b /\ (s \o t)[3] = c
    <2>1. 1 \in 1..3 /\ 2 \in 1..3 /\ 3 \in 1..3 /\ 1 <= 1 /\ ~(2 <= 1) /\ 2 - 1 = 1 /\ ~(3 <= 1) /\ 3 - 1 = 2
      OBVIOUS
    <2>2. QED
      BY <1>1, <1>2, <2>1
  <1>5. ASSUME NEW i \in 1..Len(u) PROVE u[i] = (s \o t)[i]
    <2>1. i = 1 \/ i = 2 \/ i = 3
      BY <1>1
    <2>2. QED
      BY <1>1, <1>3, <2>1
  <1>6. u = s \o t
    BY <1>1, <1>2, <1>5, SeqEqual
  <1> QED BY <1>6 DEF s, t, u

LEMMA StraightTwo ==
  ASSUME NEW a, NEW b, a.op # "resume", b.op # "resume" PROVE Straight(<<a, b>>)
  BY StraightOne, StraightJoined, Pair
LEMMA MadeTwo ==
  ASSUME NEW f0, NEW a, NEW b, NEW f, a.op # "resume", b.op # "resume", Makes(f0, <<a, b>>, f)
  PROVE  \E g : Plain(a) /\ g = Applied(f0, a) /\ Plain(b) /\ f = Applied(g, b)
  <1>1. Straight(<<a>>) /\ Straight(<<b>>) /\ Makes(f0, <<a>> \o <<b>>, f)
    BY StraightOne, Pair
  <1>2. PICK g : Makes(f0, <<a>>, g) /\ Makes(g, <<b>>, f)
    BY <1>1, MadeJoined
  <1> QED BY <1>2, MadeOne

LEMMA StraightThree ==
  ASSUME NEW a, NEW b, NEW c, a.op # "resume", b.op # "resume", c.op # "resume" PROVE Straight(<<a, b, c>>)
  <1>1. Straight(<<a>>) /\ Straight(<<b, c>>)
    BY StraightOne, StraightTwo
  <1> QED BY <1>1, StraightJoined, Triple
LEMMA MadeThree ==
  ASSUME NEW f0, NEW a, NEW b, NEW c, NEW f, a.op # "resume", b.op # "resume", c.op # "resume", Makes(f0, <<a, b, c>>, f)
  PROVE  \E g, h : /\ Plain(a) /\ g = Applied(f0, a) /\ Plain(b) /\ h = Applied(g, b)
                   /\ Plain(c) /\ f = Applied(h, c)
  <1>1. Straight(<<a>>) /\ Straight(<<b, c>>) /\ Makes(f0, <<a>> \o <<b, c>>, f)
    BY StraightOne, StraightTwo, Triple
  <1>2. PICK g : Makes(f0, <<a>>, g) /\ Makes(g, <<b, c>>, f)
    BY <1>1, MadeJoined
  <1>3. Plain(a) /\ g = Applied(f0, a)
    BY <1>2, MadeOne
  <1>4. \E h : Plain(b) /\ h = Applied(g, b) /\ Plain(c) /\ f = Applied(h, c)
    BY <1>2, MadeTwo
  <1> QED BY <1>3, <1>4

\* The op of each kind of effect.
LEMMA OpsAre ==
  /\ \A p, w, how : /\ Effect("write", p, w, how).op = "write" /\ Effect("add", p, w, how).op = "add"
                    /\ Effect("set", p, w, how).op = "set"
  /\ \A p, w : /\ Write(p, w).op = "write" /\ AppendTo(p, w).op = "append" /\ Settings(p, w).op = "set"
               /\ Move(p, w).op = "move" /\ Copy(p, w).op = "copy" /\ Delete(p).op = "remove"
               /\ Run(p, w).op = "add" /\ Attempt(p, w).op = "add" /\ Collect(p, w).op = "add"
               /\ RunSettings(p, w).op = "set" /\ Install(w).op = "add" /\ Service(w).op = "add"
  /\ Raise.op = "raise" /\ Resume.op = "resume" /\ ~Plain(Raise)
  BY DEF Effect, Write, AppendTo, Settings, Move, Copy, Delete, Run, Attempt, Collect, RunSettings, Install, Service,
         Raise, Resume, Plain

LEMMA NoRaise == ASSUME NEW f0, NEW f PROVE ~Makes(f0, <<Raise>>, f)
  BY MadeOne, OpsAre

\* A service, and a package.
LEMMA ServiceIs ==
  ASSUME NEW f, NEW name, NEW g, g = Applied(f, Service(name))
  PROVE  /\ <<"services">> \in DOMAIN g /\ g[<<"services">>] = Get(f, <<"services">>, {}) \cup {name}
         /\ SameBut(f, g, <<"services">>)
  BY AddIs DEF Service, Run
LEMMA InstallIs ==
  ASSUME NEW f, NEW set, NEW g, g = Applied(f, Install(set))
  PROVE  /\ <<"packages">> \in DOMAIN g /\ g[<<"packages">>] = Get(f, <<"packages">>, {}) \cup set
         /\ SameBut(f, g, <<"packages">>)
  BY AddIs DEF Install, Run

\* A handler with one list.
LEMMA OneList ==
  ASSUME NEW m, NEW c, NEW f0, NEW f, Straight(Effects(m, c, f0)), Whole(m, c, f0, f)
  PROVE  Makes(f0, Effects(m, c, f0), f)
  <1>1. PICK a : /\ Straight(a)
                 /\ \/ Effects(m, c, f0) = a /\ Makes(f0, a, f)
                    \/ Effects(m, c, f0) = a \o <<Resume>>
    BY DEF Whole
  <1>2. Effects(m, c, f0) # a \o <<Resume>>
    <2>1. SUFFICES ASSUME Straight(a \o <<Resume>>) PROVE FALSE
      OBVIOUS
    <2>2. Len(a) \in Nat /\ Len(a \o <<Resume>>) = Len(a) + 1 /\ (a \o <<Resume>>)[Len(a) + 1] = Resume
      BY <1>1, WithResume
    <2>3. Len(a) + 1 \in 1..Len(a \o <<Resume>>)
      BY <2>2
    <2>4. (a \o <<Resume>>)[Len(a) + 1].op # "resume"
      BY <2>1, <2>3 DEF Straight
    <2>5. QED
      BY <2>2, <2>4, OpsAre
  <1> QED BY <1>1, <1>2

\* A handler with two.
LEMMA TwoLists ==
  ASSUME NEW m, NEW c, NEW f0, NEW f, NEW b, Straight(b), Effects(m, c, f0) = b \o <<Resume>>, Whole(m, c, f0, f)
  PROVE  \E f1 : Makes(f0, b, f1) /\ Straight(Rest(m, c, f1)) /\ Makes(f1, Rest(m, c, f1), f)
  <1> DEFINE s == b \o <<Resume>>
  <1>1. PICK a : /\ Straight(a)
                 /\ \/ s = a
                    \/ s = a \o <<Resume>> /\ \E f1 : Makes(f0, a, f1) /\ Straight(Rest(m, c, f1)) /\ Makes(f1, Rest(m, c, f1), f)
    BY DEF Whole
  <1>2. Len(b) \in Nat /\ Len(s) = Len(b) + 1 /\ (\A i \in 1..Len(b) : s[i] = b[i]) /\ s[Len(b) + 1] = Resume
    BY WithResume
  <1>3. s # a
    <2>1. SUFFICES ASSUME Straight(s) PROVE FALSE
      BY <1>1
    <2>2. Len(b) + 1 \in 1..Len(s)
      BY <1>2
    <2>3. s[Len(b) + 1].op # "resume"
      BY <2>1, <2>2 DEF Straight
    <2>4. QED
      BY <1>2, <2>3, OpsAre
  <1>4. Len(a) \in Nat /\ Len(s) = Len(a) + 1 /\ \A i \in 1..Len(a) : s[i] = a[i]
    BY <1>1, <1>3, WithResume
  <1>5. Len(a) = Len(b) /\ \A i \in 1..Len(b) : a[i] = b[i]
    BY <1>2, <1>4
  <1>6. PICK f1 : Makes(f0, a, f1) /\ Straight(Rest(m, c, f1)) /\ Makes(f1, Rest(m, c, f1), f)
    BY <1>1, <1>3
  <1>7. Makes(f0, b, f1)
    BY <1>5, <1>6 DEF Makes, Way
  <1> QED BY <1>6, <1>7
\* The same files, but for copies of what was there.
SameFiles(f, g) ==
  \A p \in (DOMAIN g \cup DOMAIN f) \ Backups : p \in DOMAIN g \cap DOMAIN f /\ g[p] = f[p]

\* A list of nothing, or of one effect.
LEMMA WroteOrNot ==
  ASSUME NEW s, NEW f, NEW g, Makes(f, s, g)
  PROVE  /\ s = <<>> => g = f
         /\ \A p, w : s = <<Write(p, w)>> => p \in DOMAIN g /\ g[p] = w /\ SameBut(f, g, p)
  <1>1. s = <<>> => g = f
    BY MadeNone
  <1>2. ASSUME NEW p, NEW w, s = <<Write(p, w)>> PROVE p \in DOMAIN g /\ g[p] = w /\ SameBut(f, g, p)
    BY <1>2, MadeOne, WriteIs DEF Write
  <1> QED BY <1>1, <1>2
LEMMA CopiedOrNot ==
  ASSUME NEW s, NEW f, NEW g, Makes(f, s, g)
  PROVE  /\ s = <<>> => g = f
         /\ \A p, to : s = <<Copy(p, to)>> => to \in DOMAIN g /\ SameBut(f, g, to)
  <1>1. s = <<>> => g = f
    BY MadeNone
  <1>2. ASSUME NEW p, NEW to, s = <<Copy(p, to)>> PROVE to \in DOMAIN g /\ SameBut(f, g, to)
    <2>1. g = Applied(f, Effect("copy", p, to, "no"))
      BY <1>2, MadeOne DEF Copy
    <2>2. QED
      BY <2>1, CopyIs
  <1> QED BY <1>1, <1>2
LEMMA AddedOrNot ==
  ASSUME NEW s, NEW f, NEW g, Makes(f, s, g)
  PROVE  /\ s = <<>> => g = f
         /\ \A p, w, how : s = <<Effect("add", p, w, how)>> =>
               p \in DOMAIN g /\ g[p] = Get(f, p, {}) \cup w /\ SameBut(f, g, p)
  <1>1. s = <<>> => g = f
    BY MadeNone
  <1>2. ASSUME NEW p, NEW w, NEW how, s = <<Effect("add", p, w, how)>>
        PROVE  p \in DOMAIN g /\ g[p] = Get(f, p, {}) \cup w /\ SameBut(f, g, p)
    BY <1>2, MadeOne, AddIs
  <1> QED BY <1>1, <1>2
LEMMA MovedOrNot ==
  ASSUME NEW s, NEW f, NEW g, Makes(f, s, g)
  PROVE  /\ s = <<>> => g = f
         /\ \A p, to : to # p /\ s = <<Move(p, to)>> =>
               /\ p \notin DOMAIN g /\ to \in DOMAIN g
               /\ \A q : q \notin {p, to} => (q \in DOMAIN g <=> q \in DOMAIN f) /\ (q \in DOMAIN f => g[q] = f[q])
  <1>1. s = <<>> => g = f
    BY MadeNone
  <1>2. ASSUME NEW p, NEW to, to # p, s = <<Move(p, to)>>
        PROVE  /\ p \notin DOMAIN g /\ to \in DOMAIN g
               /\ \A q : q \notin {p, to} => (q \in DOMAIN g <=> q \in DOMAIN f) /\ (q \in DOMAIN f => g[q] = f[q])
    <2>1. g = Applied(f, Effect("move", p, to, "no"))
      BY <1>2, MadeOne DEF Move
    <2>2. QED
      BY <1>2, <2>1, MoveIs
  <1> QED BY <1>1, <1>2
LEMMA SetOrNot ==
  ASSUME NEW s, NEW f, NEW g, Makes(f, s, g)
  PROVE  /\ s = <<>> => g = f
         /\ \A p, w, how : s = <<Effect("set", p, w, how)>> =>
               p \in DOMAIN g /\ g[p] = w ++ Get(f, p, <<>>) /\ SameBut(f, g, p)
  <1>1. s = <<>> => g = f
    BY MadeNone
  <1>2. ASSUME NEW p, NEW w, NEW how, s = <<Effect("set", p, w, how)>>
        PROVE  p \in DOMAIN g /\ g[p] = w ++ Get(f, p, <<>>) /\ SameBut(f, g, p)
    BY <1>2, MadeOne, SetIs
  <1> QED BY <1>1, <1>2

----------------------------------------------------------------------------
(* resolv.conf: one file.                                                   *)

\* The content of the file.
ResolvRight(c, w) ==
  /\ w.nameservers = Get(c.resolv_conf, "nameservers", {})
  /\ \A o \in DOMAIN Get(c.resolv_conf, "options", <<>>) : LET v == c.resolv_conf.options[o] IN
       /\ o \in w.flags <=> v = "true"
       /\ v \notin {"true", "false"} => w.options[o] = v

LEMMA ResolvIs ==
  ASSUME NEW c, NEW m
  PROVE  \/ ResolvEffects(c, m) = <<>> /\ ~ManagesResolv(c, m)
         \/ ResolvEffects(c, m) = <<Raise>>
         \/ \E w : ResolvEffects(c, m) = <<Write(<<"resolv.conf">>, w)>> /\ ResolvRight(c, w)
  <1> DEFINE options == Get(Get(c, "resolv_conf", <<>>), "options", <<>>)
             w == [nameservers |-> Get(c.resolv_conf, "nameservers", {}), flags |-> {o \in DOMAIN options : options[o] = "true"},
                   options |-> [o \in {o \in DOMAIN options : options[o] \notin {"true", "false"}} |-> options[o]]]
  <1>1. CASE ~ManagesResolv(c, m)
    BY <1>1 DEF ResolvEffects
  <1>2. CASE ManagesResolv(c, m) /\ "resolv_conf" \notin DOMAIN c
    BY <1>2 DEF ResolvEffects
  <1>3. CASE ManagesResolv(c, m) /\ "resolv_conf" \in DOMAIN c
    <2>1. ResolvEffects(c, m) = <<Write(<<"resolv.conf">>, w)>>
      BY <1>3 DEF ResolvEffects
    <2>2. w.nameservers = Get(c.resolv_conf, "nameservers", {})
      OBVIOUS
    <2>3. options = Get(c.resolv_conf, "options", <<>>)
      BY <1>3 DEF Get
    <2>4. ASSUME NEW o \in DOMAIN options
          PROVE  /\ o \in w.flags <=> c.resolv_conf.options[o] = "true"
                 /\ c.resolv_conf.options[o] \notin {"true", "false"} => w.options[o] = c.resolv_conf.options[o]
      <3>1. options[o] = c.resolv_conf.options[o]
        BY <1>3 DEF Get
      <3>2. (o \in w.flags <=> options[o] = "true") /\ (options[o] \notin {"true", "false"} => w.options[o] = options[o])
        OBVIOUS
      <3>3. QED
        BY <3>1, <3>2
    <2> HIDE DEF w, options
    <2>5. ResolvRight(c, w)
      BY <2>2, <2>3, <2>4 DEF ResolvRight
    <2>6. QED
      BY <2>1, <2>5
  <1> QED BY <1>1, <1>2, <1>3

LEMMA ResolvStraight == ASSUME NEW c, NEW m PROVE Straight(ResolvEffects(c, m))
  <1>1. CASE ResolvEffects(c, m) = <<>>
    BY <1>1, StraightNone
  <1>2. CASE ResolvEffects(c, m) = <<Raise>>
    <2>1. Raise.op # "resume"
      BY OpsAre
    <2>2. Straight(<<Raise>>)
      BY <2>1, StraightOne
    <2>3. QED
      BY <1>2, <2>2
  <1>3. ASSUME NEW w, ResolvEffects(c, m) = <<Write(<<"resolv.conf">>, w)>>
        PROVE  Straight(ResolvEffects(c, m))
    <2> DEFINE e == Write(<<"resolv.conf">>, w)
    <2>1. e.op # "resume"
      BY OpsAre
    <2> HIDE DEF e
    <2>2. Straight(<<e>>)
      BY <2>1, StraightOne
    <2>3. QED
      BY <1>3, <2>2 DEF e
  <1> QED BY <1>1, <1>2, <1>3, ResolvIs

LEMMA ResolvHolds ==
  ASSUME NEW c, NEW m, NEW f0, NEW f, Makes(f0, ResolvEffects(c, m), f)
  PROVE  /\ ResolvInEffect(c, m, f)
         /\ \A g : Makes(f, ResolvEffects(c, m), g) => SameFiles(f, g)
  <1> DEFINE L == ResolvEffects(c, m)
             P == <<"resolv.conf">>
  <1>1. \/ L = <<>> /\ ~ManagesResolv(c, m)
        \/ L = <<Raise>>
        \/ \E w : L = <<Write(P, w)>> /\ ResolvRight(c, w)
    BY ResolvIs
  <1>2. Makes(f0, L, f)
    OBVIOUS
  <1> HIDE DEF L, P
  <1>3. CASE L = <<>> /\ ~ManagesResolv(c, m)
    <2>1. \A g : Makes(f, L, g) => g = f
      BY <1>3, MadeNone
    <2>2. ResolvInEffect(c, m, f)
      BY <1>3 DEF ResolvInEffect
    <2>3. QED
      BY <2>1, <2>2 DEF SameFiles, L
  <1>4. CASE L = <<Raise>>
    BY <1>2, <1>4, NoRaise
  <1>5. ASSUME NEW w, L = <<Write(P, w)>>, ResolvRight(c, w)
        PROVE  ResolvInEffect(c, m, f) /\ \A g : Makes(f, L, g) => SameFiles(f, g)
    <2>1. \A g, h : Makes(g, <<Write(P, w)>>, h) => h = Applied(g, Write(P, w))
      BY MadeOne
    <2>2. f = Applied(f0, Write(P, w)) /\ \A g : Makes(f, L, g) => g = Applied(f, Write(P, w))
      BY <1>2, <1>5, <2>1
    <2>3. P \in DOMAIN f /\ f[P] = w
      BY <2>2, WriteIs DEF Write
    <2>4. ResolvInEffect(c, m, f)
      BY <1>5, <2>3 DEF ResolvInEffect, ResolvRight, P
    <2>5. ASSUME NEW g, Makes(f, L, g) PROVE SameFiles(f, g)
      <3>1. P \in DOMAIN g /\ g[P] = w /\ SameBut(f, g, P)
        BY <2>2, <2>5, WriteIs DEF Write
      <3>2. QED
        BY <2>3, <3>1 DEF SameFiles, SameBut
    <2>6. QED
      BY <2>4, <2>5
  <1> QED BY <1>1, <1>3, <1>4, <1>5 DEF L

----------------------------------------------------------------------------
(* Settings over settings.                                                  *)

\* Of three kinds of settings the first counts; put over their own result they leave it.
LEMMA SettingsOver ==
  ASSUME NEW a, NEW b, NEW d, NEW e, e = (a ++ b) ++ d
  PROVE  /\ \A k \in DOMAIN a : k \in DOMAIN e /\ e[k] = a[k]
         /\ \A k \in DOMAIN b \ DOMAIN a : k \in DOMAIN e /\ e[k] = b[k]
         /\ (a ++ e) ++ d = e
  <1>1. /\ DOMAIN e = DOMAIN a \cup DOMAIN b \cup DOMAIN d
        /\ \A k \in DOMAIN e : e[k] = IF k \in DOMAIN a THEN a[k] ELSE IF k \in DOMAIN b THEN b[k] ELSE d[k]
        /\ e = [k \in DOMAIN e |-> e[k]]
    BY DEF ++
  <1> DEFINE r == (a ++ e) ++ d
  <1>2. DOMAIN r = DOMAIN e /\ r = [k \in DOMAIN e |-> r[k]] /\ \A k \in DOMAIN e : r[k] = e[k]
    BY <1>1 DEF ++
  <1>3. r = e
    BY <1>1, <1>2
  <1> QED BY <1>1, <1>3

\* The same of two kinds.
LEMMA SettingsOverTwo ==
  ASSUME NEW a, NEW b, NEW e, e = a ++ b
  PROVE  /\ \A k \in DOMAIN a : k \in DOMAIN e /\ e[k] = a[k]
         /\ \A k \in DOMAIN b \ DOMAIN a : k \in DOMAIN e /\ e[k] = b[k]
         /\ a ++ e = e
  <1>1. /\ DOMAIN e = DOMAIN a \cup DOMAIN b
        /\ \A k \in DOMAIN e : e[k] = IF k \in DOMAIN a THEN a[k] ELSE b[k]
        /\ e = [k \in DOMAIN e |-> e[k]]
    BY DEF ++
  <1> DEFINE r == a ++ e
  <1>2. DOMAIN r = DOMAIN e /\ r = [k \in DOMAIN e |-> r[k]] /\ \A k \in DOMAIN e : r[k] = e[k]
    BY <1>1 DEF ++
  <1>3. r = e
    BY <1>1, <1>2
  <1> QED BY <1>1, <1>3

----------------------------------------------------------------------------
(* landscape: the file is what is asked, over what was there, over what is  *)
(* built in.                                                                *)

LEMMA LandscapeLists ==
  ASSUME NEW c, NEW f
  PROVE  /\ c = <<>> => Effects("landscape", c, f) = <<>>
         /\ c # <<>> => Effects("landscape", c, f) = <<Install({"landscape-client"})>> \o <<Resume>>
         /\ Rest("landscape", c, f) =
              <<Write(ClientConf, c ++ Get(f, ClientConf, <<>>) ++ LandscapeBuiltin),
                Write(<<"default", "landscape-client">>, [RUN |-> "1"]), Service(<<"landscape-client", "restarted">>)>>
         /\ Straight(Rest("landscape", c, f))
  <1>1. Effects("landscape", c, f) = If(c # <<>>, <<Install({"landscape-client"}), Resume>>)
    BY DEF Effects, LandscapeEffects
  <1>2. <<Install({"landscape-client"}), Resume>> = <<Install({"landscape-client"})>> \o <<Resume>>
    BY Pair
  <1> DEFINE e1 == Write(ClientConf, c ++ Get(f, ClientConf, <<>>) ++ LandscapeBuiltin)
             e2 == Write(<<"default", "landscape-client">>, [RUN |-> "1"])
             e3 == Service(<<"landscape-client", "restarted">>)
  <1>3. Rest("landscape", c, f) = <<e1, e2, e3>>
    BY DEF Rest, LandscapeRest
  <1>4. e1.op # "resume" /\ e2.op # "resume" /\ e3.op # "resume"
    BY OpsAre
  <1> HIDE DEF e1, e2, e3
  <1>5. Straight(<<e1, e2, e3>>)
    BY <1>4, StraightThree
  <1> QED BY <1>1, <1>2, <1>3, <1>5 DEF If, e1, e2, e3

LEMMA LandscapeShape == ASSUME NEW c PROVE Shape("landscape", c)
  <1>1. Straight(<<>>) /\ Straight(<<Install({"landscape-client"})>>)
    BY StraightNone, StraightOne, OpsAre
  <1> QED BY <1>1, LandscapeLists DEF Shape

\* What a whole run has made.
LEMMA LandscapeMakes ==
  ASSUME NEW c, NEW f0, NEW f, Whole("landscape", c, f0, f), c # <<>>
  PROVE  /\ ClientConf \in DOMAIN f /\ f[ClientConf] = (c ++ Get(f0, ClientConf, <<>>)) ++ LandscapeBuiltin
         /\ <<"default", "landscape-client">> \in DOMAIN f /\ f[<<"default", "landscape-client">>] = [RUN |-> "1"]
         /\ <<"packages">> \in DOMAIN f /\ f[<<"packages">>] = Get(f0, <<"packages">>, {}) \cup {"landscape-client"}
         /\ <<"services">> \in DOMAIN f
         /\ f[<<"services">>] = Get(f0, <<"services">>, {}) \cup {<<"landscape-client", "restarted">>}
         /\ \A q : q \notin {ClientConf, <<"default", "landscape-client">>, <<"packages">>, <<"services">>} =>
              (q \in DOMAIN f <=> q \in DOMAIN f0) /\ (q \in DOMAIN f0 => f[q] = f0[q])
  <1> DEFINE C == ClientConf
             D == <<"default", "landscape-client">>
             P == <<"packages">>
             S == <<"services">>
             pkgs == {"landscape-client"}
             e0 == Install(pkgs)
             run == [RUN |-> "1"]
             named == <<"landscape-client", "restarted">>
             e2 == Write(D, run)
             e3 == Service(named)
  <1>1. C # D /\ C # P /\ C # S /\ D # P /\ D # S /\ P # S
    BY DEF ClientConf
  <1>2. e0.op # "resume"
    BY OpsAre
  <1>3. Effects("landscape", c, f0) = <<e0>> \o <<Resume>>
    BY LandscapeLists
  <1> HIDE DEF e0
  <1>4. Straight(<<e0>>)
    BY <1>2, StraightOne
  <1>5. PICK f1 : Makes(f0, <<e0>>, f1) /\ Makes(f1, Rest("landscape", c, f1), f)
    BY <1>3, <1>4, TwoLists
  <1> DEFINE w == (c ++ Get(f1, C, <<>>)) ++ LandscapeBuiltin
             e1 == Write(C, w)
  <1>6. Rest("landscape", c, f1) = <<e1, e2, e3>>
    BY LandscapeLists
  <1>7. e1.op # "resume" /\ e2.op # "resume" /\ e3.op # "resume"
    BY OpsAre
  <1>8. f1 = Applied(f0, e0)
    BY <1>5, MadeOne
  <1> HIDE DEF e1, e2, e3
  <1>9. Makes(f1, <<e1, e2, e3>>, f)
    BY <1>5, <1>6
  <1>10. PICK g, h : g = Applied(f1, e1) /\ h = Applied(g, e2) /\ f = Applied(h, e3)
    BY <1>7, <1>9, MadeThree
  <1> HIDE DEF pkgs, run, named, w, C, D
  <1>11. P \in DOMAIN f1 /\ f1[P] = Get(f0, P, {}) \cup pkgs /\ SameBut(f0, f1, P)
    BY <1>8, InstallIs DEF e0
  <1>12. C \in DOMAIN g /\ g[C] = w /\ SameBut(f1, g, C)
    BY <1>10, WriteIs DEF e1, Write
  <1>13. D \in DOMAIN h /\ h[D] = run /\ SameBut(g, h, D)
    BY <1>10, WriteIs DEF e2, Write
  <1>14. S \in DOMAIN f /\ f[S] = Get(h, S, {}) \cup {named} /\ SameBut(h, f, S)
    BY <1>10, ServiceIs DEF e3
  <1> HIDE DEF P, S
  <1>15. Get(f1, C, <<>>) = Get(f0, C, <<>>)
    BY <1>1, <1>11 DEF Get, SameBut
  <1>16. Get(h, S, {}) = Get(f0, S, {})
    BY <1>1, <1>11, <1>12, <1>13 DEF Get, SameBut
  <1>17. C \in DOMAIN f /\ f[C] = w /\ D \in DOMAIN f /\ f[D] = run /\ P \in DOMAIN f /\ f[P] = Get(f0, P, {}) \cup pkgs
    BY <1>1, <1>11, <1>12, <1>13, <1>14 DEF SameBut
  <1>18. \A q : q \notin {C, D, P, S} => (q \in DOMAIN f <=> q \in DOMAIN f0) /\ (q \in DOMAIN f0 => f[q] = f0[q])
    BY <1>11, <1>12, <1>13, <1>14 DEF SameBut
  <1> QED BY <1>14, <1>15, <1>16, <1>17, <1>18 DEF C, D, P, S, pkgs, run, named, w

LEMMA LandscapeHolds ==
  ASSUME NEW c, NEW f0, NEW f, Whole("landscape", c, f0, f)
  PROVE  /\ LandscapeInEffect(c, f0, f)
         /\ \A g : Whole("landscape", c, f, g) => SameFiles(f, g)
  <1> DEFINE C == ClientConf
             D == <<"default", "landscape-client">>
             P == <<"packages">>
             S == <<"services">>
  <1>1. CASE c = <<>>
    <2>1. \A h : Effects("landscape", c, h) = <<>>
      BY <1>1, LandscapeLists
    <2>2. ASSUME NEW h, NEW g, Whole("landscape", c, h, g) PROVE g = h
      <3>1. Makes(h, <<>>, g)
        BY <2>1, <2>2, OneList, StraightNone
      <3>2. QED
        BY <3>1, MadeNone
    <2>3. QED
      BY <1>1, <2>2 DEF LandscapeInEffect, SameFiles
  <1>2. CASE c # <<>>
    <2> DEFINE a == c
               b == Get(f0, C, <<>>)
    <2>1. /\ C \in DOMAIN f /\ f[C] = (a ++ b) ++ LandscapeBuiltin
          /\ D \in DOMAIN f /\ f[D] = [RUN |-> "1"]
      BY <1>2, LandscapeMakes
    <2>2. /\ \A k \in DOMAIN a : f[C][k] = a[k]
          /\ \A k \in DOMAIN b \ DOMAIN a : f[C][k] = b[k]
          /\ (a ++ f[C]) ++ LandscapeBuiltin = f[C]
      <3> HIDE DEF a, b, C
      <3>1. QED
        BY <2>1, SettingsOver
    <2>3. \A k \in DOMAIN b \ DOMAIN a : f[C][k] = f0[C][k]
      <3>1. CASE C \in DOMAIN f0
        BY <2>2, <3>1 DEF Get
      <3>2. CASE C \notin DOMAIN f0
        <4>1. b = <<>>
          BY <3>2 DEF Get
        <4>2. DOMAIN b = {}
          BY <4>1
        <4>3. QED
          BY <4>2
      <3>3. QED
        BY <3>1, <3>2
    <2>4. LandscapeInEffect(c, f0, f)
      BY <2>1, <2>2, <2>3 DEF LandscapeInEffect
    <2>5. ASSUME NEW g, Whole("landscape", c, f, g) PROVE SameFiles(f, g)
      <3> DEFINE pkgs == {"landscape-client"}
                 named == {<<"landscape-client", "restarted">>}
                 run == [RUN |-> "1"]
      <3>1. /\ P \in DOMAIN f /\ f[P] = Get(f0, P, {}) \cup pkgs
            /\ S \in DOMAIN f /\ f[S] = Get(f0, S, {}) \cup named
        BY <1>2, LandscapeMakes
      <3>2. /\ C \in DOMAIN g /\ g[C] = (a ++ Get(f, C, <<>>)) ++ LandscapeBuiltin
            /\ D \in DOMAIN g /\ g[D] = run
            /\ P \in DOMAIN g /\ g[P] = Get(f, P, {}) \cup pkgs
            /\ S \in DOMAIN g /\ g[S] = Get(f, S, {}) \cup named
            /\ \A q : q \notin {C, D, P, S} => (q \in DOMAIN g <=> q \in DOMAIN f) /\ (q \in DOMAIN f => g[q] = f[q])
        BY <1>2, <2>5, LandscapeMakes
      <3>3. f[D] = run
        BY <2>1
      <3> HIDE DEF a, b, C, D, P, S, pkgs, named, run
      <3>4. g[C] = f[C]
        <4>1. Get(f, C, <<>>) = f[C]
          BY <2>1 DEF Get
        <4>2. QED
          BY <2>2, <3>2, <4>1
      <3>5. g[P] = f[P] /\ g[S] = f[S]
        BY <3>1, <3>2 DEF Get
      <3>6. QED
        BY <2>1, <3>1, <3>2, <3>3, <3>4, <3>5 DEF SameFiles
    <2>6. QED
      BY <2>4, <2>5
  <1> QED BY <1>1, <1>2

----------------------------------------------------------------------------
(* mcollective: certificates, a copy of the settings, and the settings.     *)

LEMMA McoLists ==
  ASSUME NEW c, NEW f
  PROVE  /\ Effects("mcollective", c, f) = <<Install({"mcollective"})>> \o <<Resume>>
         /\ Rest("mcollective", c, f) = If("conf" \in DOMAIN c, McoConfigure(c.conf, f)) \o <<Service(<<"mcollective", "restarted">>)>>
  <1>1. <<Install({"mcollective"}), Resume>> = <<Install({"mcollective"})>> \o <<Resume>>
    BY Pair
  <1> QED BY <1>1 DEF Effects, McoEffects, Rest, McoRest

LEMMA McoConfigureIs ==
  ASSUME NEW conf, NEW f
  PROVE  /\ Straight(McoConfigure(conf, f))
         /\ \A g : Makes(f, McoConfigure(conf, f), g) =>
              /\ <<"", "public-cert">> \in DOMAIN conf => PubCert \in DOMAIN g /\ g[PubCert] = conf[<<"", "public-cert">>]
              /\ <<"", "private-cert">> \in DOMAIN conf => PriCert \in DOMAIN g /\ g[PriCert] = conf[<<"", "private-cert">>]
              /\ ServerCfg \in DOMAIN g /\ g[ServerCfg] = McoSettings(conf) ++ Get(f, ServerCfg, <<>>)
              /\ \A q : /\ q = PubCert => <<"", "public-cert">> \notin DOMAIN conf
                        /\ q = PriCert => <<"", "private-cert">> \notin DOMAIN conf
                        /\ q # ServerCfg /\ q # <<"server.cfg", "old">>
                        => (q \in DOMAIN g <=> q \in DOMAIN f) /\ (q \in DOMAIN f => g[q] = f[q])
  <1> DEFINE pub == <<"", "public-cert">>
             pri == <<"", "private-cert">>
             B == PubCert
             R == PriCert
             C == ServerCfg
             O == <<"server.cfg", "old">>
             w == McoSettings(conf) ++ Get(f, C, <<>>)
             s1 == If(pub \in DOMAIN conf, <<Write(B, conf[pub])>>)
             s2 == If(pri \in DOMAIN conf, <<Write(R, conf[pri])>>)
             s3 == If(C \in DOMAIN f, <<Copy(C, O)>>)
             s4 == <<Write(C, w)>>
  <1>1. McoConfigure(conf, f) = ((s1 \o s2) \o s3) \o s4
    BY DEF McoConfigure
  <1>2. B # R /\ B # C /\ B # O /\ R # C /\ R # O /\ C # O
    BY DEF PubCert, PriCert, ServerCfg
  <1> HIDE DEF pub, pri, B, R, C, O, w
  <1>3. Straight(s1) /\ Straight(s2) /\ Straight(s3) /\ Straight(s4)
    <2>1. \A p, x : Straight(<<Write(p, x)>>) /\ Straight(<<Copy(p, x)>>)
      BY StraightOne, OpsAre
    <2>2. QED
      BY <2>1, StraightIf
  <1> HIDE DEF s1, s2, s3, s4
  <1>4. Straight(s1 \o s2) /\ Straight((s1 \o s2) \o s3) /\ Straight(((s1 \o s2) \o s3) \o s4)
    BY <1>3, StraightJoined
  <1>5. ASSUME NEW g, Makes(f, ((s1 \o s2) \o s3) \o s4, g)
        PROVE  /\ pub \in DOMAIN conf => B \in DOMAIN g /\ g[B] = conf[pub]
               /\ pri \in DOMAIN conf => R \in DOMAIN g /\ g[R] = conf[pri]
               /\ C \in DOMAIN g /\ g[C] = w
               /\ \A q : /\ q = B => pub \notin DOMAIN conf
                         /\ q = R => pri \notin DOMAIN conf
                         /\ q # C /\ q # O
                         => (q \in DOMAIN g <=> q \in DOMAIN f) /\ (q \in DOMAIN f => g[q] = f[q])
    <2>1. PICK h3 : Makes(f, (s1 \o s2) \o s3, h3) /\ Makes(h3, s4, g)
      BY <1>3, <1>4, <1>5, MadeJoined
    <2>2. PICK h2 : Makes(f, s1 \o s2, h2) /\ Makes(h2, s3, h3)
      BY <1>3, <1>4, <2>1, MadeJoined
    <2>3. PICK h1 : Makes(f, s1, h1) /\ Makes(h1, s2, h2)
      BY <1>3, <1>4, <2>2, MadeJoined
    <2>4. IF pub \in DOMAIN conf THEN B \in DOMAIN h1 /\ h1[B] = conf[pub] /\ SameBut(f, h1, B) ELSE h1 = f
      <3>1. s1 = IF pub \in DOMAIN conf THEN <<Write(B, conf[pub])>> ELSE <<>>
        BY DEF s1, If
      <3>2. QED
        BY <2>3, <3>1, WroteOrNot
    <2>5. IF pri \in DOMAIN conf THEN R \in DOMAIN h2 /\ h2[R] = conf[pri] /\ SameBut(h1, h2, R) ELSE h2 = h1
      <3>1. s2 = IF pri \in DOMAIN conf THEN <<Write(R, conf[pri])>> ELSE <<>>
        BY DEF s2, If
      <3>2. QED
        BY <2>3, <3>1, WroteOrNot
    <2>6. IF C \in DOMAIN f THEN O \in DOMAIN h3 /\ SameBut(h2, h3, O) ELSE h3 = h2
      <3>1. s3 = IF C \in DOMAIN f THEN <<Copy(C, O)>> ELSE <<>>
        BY DEF s3, If
      <3>2. QED
        BY <2>2, <3>1, CopiedOrNot
    <2>7. C \in DOMAIN g /\ g[C] = w /\ SameBut(h3, g, C)
      BY <2>1, MadeOne, WriteIs DEF Write, s4
    <2>8. SameBut(h2, h3, O)
      BY <2>6 DEF SameBut
    <2>9. \A q : q # B => (q \in DOMAIN h1 <=> q \in DOMAIN f) /\ (q \in DOMAIN f => h1[q] = f[q])
      BY <2>4 DEF SameBut
    <2>10. \A q : q # R => (q \in DOMAIN h2 <=> q \in DOMAIN h1) /\ (q \in DOMAIN h1 => h2[q] = h1[q])
      BY <2>5 DEF SameBut
    <2>11. pub \in DOMAIN conf => B \in DOMAIN g /\ g[B] = conf[pub]
      BY <1>2, <2>4, <2>10, <2>8, <2>7 DEF SameBut
    <2>12. pri \in DOMAIN conf => R \in DOMAIN g /\ g[R] = conf[pri]
      BY <1>2, <2>5, <2>8, <2>7 DEF SameBut
    <2>13. ASSUME NEW q, q = B => pub \notin DOMAIN conf, q = R => pri \notin DOMAIN conf, q # C, q # O
           PROVE  (q \in DOMAIN g <=> q \in DOMAIN f) /\ (q \in DOMAIN f => g[q] = f[q])
      <3>1. (q \in DOMAIN h1 <=> q \in DOMAIN f) /\ (q \in DOMAIN f => h1[q] = f[q])
        BY <2>4, <2>9, <2>13
      <3>2. (q \in DOMAIN h2 <=> q \in DOMAIN h1) /\ (q \in DOMAIN h1 => h2[q] = h1[q])
        BY <2>5, <2>10, <2>13
      <3>3. QED
        BY <2>7, <2>8, <2>13, <3>1, <3>2 DEF SameBut
    <2>14. QED
      BY <2>7, <2>11, <2>12, <2>13
  <1> QED BY <1>1, <1>4, <1>5 DEF pub, pri, B, R, C, O, w

LEMMA McoShape == ASSUME NEW c PROVE Shape("mcollective", c)
  <1>1. Straight(<<Install({"mcollective"})>>) /\ Straight(<<Service(<<"mcollective", "restarted">>)>>)
    BY StraightOne, OpsAre
  <1>2. ASSUME NEW g PROVE Straight(Rest("mcollective", c, g))
    <2>1. Straight(If("conf" \in DOMAIN c, McoConfigure(c.conf, g)))
      <3> DEFINE asks == "conf" \in DOMAIN c
                 s == McoConfigure(c.conf, g)
      <3>1. Straight(s)
        BY McoConfigureIs
      <3> HIDE DEF s, asks
      <3>2. Straight(If(asks, s))
        BY <3>1, StraightIf
      <3>3. QED
        BY <3>2 DEF s, asks
    <2>2. QED
      BY <1>1, <2>1, McoLists, StraightJoined
  <1> QED BY <1>1, <1>2, McoLists DEF Shape

LEMMA McoMakes ==
  ASSUME NEW c, NEW f0, NEW f, Whole("mcollective", c, f0, f)
  PROVE  \E f1, f2 :
         /\ <<"packages">> \in DOMAIN f1 /\ f1[<<"packages">>] = Get(f0, <<"packages">>, {}) \cup {"mcollective"}
         /\ SameBut(f0, f1, <<"packages">>)
         /\ "conf" \in DOMAIN c => Makes(f1, McoConfigure(c.conf, f1), f2)
         /\ "conf" \notin DOMAIN c => f2 = f1
         /\ <<"services">> \in DOMAIN f /\ f[<<"services">>] = Get(f2, <<"services">>, {}) \cup {<<"mcollective", "restarted">>}
         /\ SameBut(f2, f, <<"services">>)
  <1> DEFINE pkgs == {"mcollective"}
             named == <<"mcollective", "restarted">>
             e0 == Install(pkgs)
             e9 == Service(named)
             asks == "conf" \in DOMAIN c
  <1>1. e0.op # "resume" /\ e9.op # "resume"
    BY OpsAre
  <1>2. \A h : Effects("mcollective", c, h) = <<e0>> \o <<Resume>>
               /\ Rest("mcollective", c, h) = If(asks, McoConfigure(c.conf, h)) \o <<e9>>
    BY McoLists
  <1> HIDE DEF pkgs, named, e0, e9
  <1>3. Straight(<<e0>>) /\ Straight(<<e9>>)
    BY <1>1, StraightOne
  <1>4. PICK f1 : Makes(f0, <<e0>>, f1) /\ Makes(f1, Rest("mcollective", c, f1), f)
    BY <1>2, <1>3, TwoLists
  <1> DEFINE s == If(asks, McoConfigure(c.conf, f1))
  <1>5. (asks => s = McoConfigure(c.conf, f1)) /\ (~asks => s = <<>>)
    BY DEF If
  <1>6. Straight(s)
    BY <1>5, McoConfigureIs, StraightNone
  <1>7. Makes(f1, s \o <<e9>>, f)
    BY <1>2, <1>4
  <1> HIDE DEF s, asks
  <1>8. PICK f2 : Makes(f1, s, f2) /\ Makes(f2, <<e9>>, f)
    BY <1>3, <1>6, <1>7, MadeJoined
  <1>9. asks => Makes(f1, McoConfigure(c.conf, f1), f2)
    BY <1>5, <1>8
  <1>10. ~asks => f2 = f1
    BY <1>5, <1>8, MadeNone
  <1>11. f1 = Applied(f0, e0) /\ f = Applied(f2, e9)
    BY <1>4, <1>8, MadeOne
  <1>12. <<"packages">> \in DOMAIN f1 /\ f1[<<"packages">>] = Get(f0, <<"packages">>, {}) \cup pkgs /\ SameBut(f0, f1, <<"packages">>)
    BY <1>11, InstallIs DEF e0
  <1>13. <<"services">> \in DOMAIN f /\ f[<<"services">>] = Get(f2, <<"services">>, {}) \cup {named} /\ SameBut(f2, f, <<"services">>)
    BY <1>11, ServiceIs DEF e9
  <1> QED BY <1>9, <1>10, <1>12, <1>13 DEF asks, pkgs, named

\* What a whole run of mcollective leaves in its files.
McoLeaves(c, f0, f) ==
    /\ <<"packages">> \in DOMAIN f /\ f[<<"packages">>] = Get(f0, <<"packages">>, {}) \cup {"mcollective"}
    /\ <<"services">> \in DOMAIN f /\ f[<<"services">>] = Get(f0, <<"services">>, {}) \cup {<<"mcollective", "restarted">>}
    /\ "conf" \in DOMAIN c =>
         /\ ServerCfg \in DOMAIN f /\ f[ServerCfg] = McoSettings(c.conf) ++ Get(f0, ServerCfg, <<>>)
         /\ <<"", "public-cert">> \in DOMAIN c.conf => PubCert \in DOMAIN f /\ f[PubCert] = c.conf[<<"", "public-cert">>]
         /\ <<"", "private-cert">> \in DOMAIN c.conf => PriCert \in DOMAIN f /\ f[PriCert] = c.conf[<<"", "private-cert">>]
    /\ \A q : /\ q \notin {<<"packages">>, <<"services">>}
              /\ q = PubCert => ~("conf" \in DOMAIN c /\ <<"", "public-cert">> \in DOMAIN c.conf)
              /\ q = PriCert => ~("conf" \in DOMAIN c /\ <<"", "private-cert">> \in DOMAIN c.conf)
              /\ q = ServerCfg => "conf" \notin DOMAIN c
              /\ q # <<"server.cfg", "old">>
              => (q \in DOMAIN f <=> q \in DOMAIN f0) /\ (q \in DOMAIN f0 => f[q] = f0[q])

\* The same in terms of the files before, but for the copy of the settings.
LEMMA McoFiles ==
  ASSUME NEW c, NEW f0, NEW f, Whole("mcollective", c, f0, f)
  PROVE  McoLeaves(c, f0, f)
  <1> DEFINE pub == <<"", "public-cert">>
             pri == <<"", "private-cert">>
             B == PubCert
             R == PriCert
             C == ServerCfg
             O == <<"server.cfg", "old">>
             P == <<"packages">>
             S == <<"services">>
             pkgs == {"mcollective"}
             named == {<<"mcollective", "restarted">>}
             asks == "conf" \in DOMAIN c
             conf == c.conf
  <1>1. PICK f1, f2 :
         /\ P \in DOMAIN f1 /\ f1[P] = Get(f0, P, {}) \cup pkgs
         /\ SameBut(f0, f1, P)
         /\ asks => Makes(f1, McoConfigure(conf, f1), f2)
         /\ ~asks => f2 = f1
         /\ S \in DOMAIN f /\ f[S] = Get(f2, S, {}) \cup named
         /\ SameBut(f2, f, S)
    BY McoMakes
  <1>2. P # S /\ \A q \in {P, S} : q # B /\ q # R /\ q # C /\ q # O
    BY DEF PubCert, PriCert, ServerCfg
  <1>3. ASSUME asks
        PROVE  /\ pub \in DOMAIN conf => B \in DOMAIN f2 /\ f2[B] = conf[pub]
               /\ pri \in DOMAIN conf => R \in DOMAIN f2 /\ f2[R] = conf[pri]
               /\ C \in DOMAIN f2 /\ f2[C] = McoSettings(conf) ++ Get(f1, C, <<>>)
               /\ \A q : /\ q = B => pub \notin DOMAIN conf
                         /\ q = R => pri \notin DOMAIN conf
                         /\ q # C /\ q # O
                         => (q \in DOMAIN f2 <=> q \in DOMAIN f1) /\ (q \in DOMAIN f1 => f2[q] = f1[q])
    <2>1. Makes(f1, McoConfigure(conf, f1), f2)
      BY <1>1, <1>3
    <2> HIDE DEF conf, asks
    <2>2. QED
      BY <2>1, McoConfigureIs
  <1> HIDE DEF pub, pri, B, R, C, O, P, S, pkgs, named, asks, conf
  <1>4. Get(f1, C, <<>>) = Get(f0, C, <<>>)
    BY <1>1, <1>2 DEF Get, SameBut
  <1>5. \A q \in {P, S} : (q \in DOMAIN f2 <=> q \in DOMAIN f1) /\ (q \in DOMAIN f1 => f2[q] = f1[q])
    BY <1>1, <1>2, <1>3
  <1>6. P \in DOMAIN f /\ f[P] = Get(f0, P, {}) \cup pkgs
    BY <1>1, <1>2, <1>5 DEF SameBut
  <1>7. Get(f2, S, {}) = Get(f0, S, {})
    BY <1>1, <1>2, <1>5 DEF Get, SameBut
  <1>8. asks => /\ C \in DOMAIN f /\ f[C] = McoSettings(conf) ++ Get(f0, C, <<>>)
                /\ pub \in DOMAIN conf => B \in DOMAIN f /\ f[B] = conf[pub]
                /\ pri \in DOMAIN conf => R \in DOMAIN f /\ f[R] = conf[pri]
    BY <1>1, <1>2, <1>3, <1>4 DEF SameBut
  <1>9. ASSUME NEW q, q \notin {P, S}, q = B => ~(asks /\ pub \in DOMAIN conf), q = R => ~(asks /\ pri \in DOMAIN conf),
               q = C => ~asks, q # O
        PROVE  (q \in DOMAIN f <=> q \in DOMAIN f0) /\ (q \in DOMAIN f0 => f[q] = f0[q])
    <2>1. (q \in DOMAIN f2 <=> q \in DOMAIN f1) /\ (q \in DOMAIN f1 => f2[q] = f1[q])
      BY <1>1, <1>3, <1>9
    <2>2. QED
      BY <1>1, <1>9, <2>1 DEF SameBut
  <1> QED BY <1>1, <1>6, <1>7, <1>8, <1>9 DEF pub, pri, B, R, C, O, P, S, pkgs, named, asks, conf, McoLeaves

\* What is there stays, where a is not: of the files that were there or of none.
LEMMA WasThere ==
  ASSUME NEW f0, NEW p, NEW a, NEW e, \A k \in DOMAIN Get(f0, p, <<>>) \ DOMAIN a : e[k] = Get(f0, p, <<>>)[k]
  PROVE  \A k \in DOMAIN Get(f0, p, <<>>) \ DOMAIN a : e[k] = f0[p][k]
  <1>1. CASE p \in DOMAIN f0
    BY <1>1 DEF Get
  <1>2. CASE p \notin DOMAIN f0
    <2>1. Get(f0, p, <<>>) = <<>>
      BY <1>2 DEF Get
    <2>2. DOMAIN Get(f0, p, <<>>) = {}
      BY <2>1
    <2>3. QED
      BY <2>2
  <1> QED BY <1>1, <1>2

LEMMA McoHolds ==
  ASSUME NEW c, NEW f0, NEW f, Whole("mcollective", c, f0, f)
  PROVE  /\ McoInEffect(c, f0, f)
         /\ \A g : Whole("mcollective", c, f, g) => SameFiles(f, g)
  <1> DEFINE pub == <<"", "public-cert">>
             pri == <<"", "private-cert">>
             B == PubCert
             R == PriCert
             C == ServerCfg
             P == <<"packages">>
             S == <<"services">>
             O == <<"server.cfg", "old">>
             pkgs == {"mcollective"}
             named == {<<"mcollective", "restarted">>}
             asks == "conf" \in DOMAIN c
             conf == c.conf
             a == McoSettings(conf)
  <1>1. /\ P \in DOMAIN f /\ f[P] = Get(f0, P, {}) \cup pkgs
        /\ S \in DOMAIN f /\ f[S] = Get(f0, S, {}) \cup named
        /\ asks => /\ C \in DOMAIN f /\ f[C] = a ++ Get(f0, C, <<>>)
                   /\ pub \in DOMAIN conf => B \in DOMAIN f /\ f[B] = conf[pub]
                   /\ pri \in DOMAIN conf => R \in DOMAIN f /\ f[R] = conf[pri]
    <2>0. McoLeaves(c, f0, f)
      BY McoFiles
    <2>1. /\ P \in DOMAIN f /\ f[P] = Get(f0, P, {}) \cup pkgs
          /\ S \in DOMAIN f /\ f[S] = Get(f0, S, {}) \cup named
          /\ asks => /\ C \in DOMAIN f /\ f[C] = a ++ Get(f0, C, <<>>)
                     /\ pub \in DOMAIN conf => B \in DOMAIN f /\ f[B] = conf[pub]
                     /\ pri \in DOMAIN conf => R \in DOMAIN f /\ f[R] = conf[pri]
          /\ \A q : /\ q \notin {P, S}
                    /\ q = B => ~(asks /\ pub \in DOMAIN conf)
                    /\ q = R => ~(asks /\ pri \in DOMAIN conf)
                    /\ q = C => ~asks
                    /\ q # O
                    => (q \in DOMAIN f <=> q \in DOMAIN f0) /\ (q \in DOMAIN f0 => f[q] = f0[q])
      BY <2>0 DEF McoLeaves
    <2> HIDE DEF pub, pri, B, R, C, P, S, O, pkgs, named, asks, conf, a
    <2>2. QED
      BY <2>1
  <1>2. asks => /\ \A k \in DOMAIN a : f[C][k] = a[k]
                /\ \A k \in DOMAIN Get(f0, C, <<>>) \ DOMAIN a : f[C][k] = f0[C][k]
                /\ a ++ f[C] = f[C]
    <2> DEFINE b == Get(f0, C, <<>>)
    <2>1. ASSUME asks
          PROVE  /\ \A k \in DOMAIN a : f[C][k] = a[k]
                 /\ \A k \in DOMAIN b \ DOMAIN a : f[C][k] = b[k]
                 /\ a ++ f[C] = f[C]
      <3>1. f[C] = a ++ b
        BY <1>1, <2>1
      <3> HIDE DEF a, b, C, asks
      <3>2. QED
        BY <3>1, SettingsOverTwo
    <2> HIDE DEF a, C, asks
    <2>2. QED
      BY <2>1, WasThere
  <1>3. McoInEffect(c, f0, f)
    <2>1. ASSUME asks PROVE pri \in DOMAIN conf => f[R] = conf[pri]
      BY <1>1, <2>1
    <2>2. McoInEffect(c, f0, f)
          <=> (asks => /\ \A k \in DOMAIN a : f[C][k] = a[k]
                       /\ \A k \in DOMAIN Get(f0, C, <<>>) \ DOMAIN a : f[C][k] = f0[C][k]
                       /\ pri \in DOMAIN conf => f[R] = conf[pri])
      BY DEF McoInEffect
    <2> HIDE DEF pub, pri, B, R, C, P, S, O, pkgs, named, asks, conf, a
    <2>3. QED
      BY <1>2, <2>1, <2>2
  <1>4. ASSUME NEW g, Whole("mcollective", c, f, g) PROVE SameFiles(f, g)
    <2>0. McoLeaves(c, f, g)
      BY <1>4, McoFiles
    <2>1. /\ P \in DOMAIN g /\ g[P] = Get(f, P, {}) \cup pkgs
          /\ S \in DOMAIN g /\ g[S] = Get(f, S, {}) \cup named
          /\ asks => /\ C \in DOMAIN g /\ g[C] = a ++ Get(f, C, <<>>)
                     /\ pub \in DOMAIN conf => B \in DOMAIN g /\ g[B] = conf[pub]
                     /\ pri \in DOMAIN conf => R \in DOMAIN g /\ g[R] = conf[pri]
          /\ \A q : /\ q \notin {P, S}
                    /\ q = B => ~(asks /\ pub \in DOMAIN conf)
                    /\ q = R => ~(asks /\ pri \in DOMAIN conf)
                    /\ q = C => ~asks
                    /\ q # O
                    => (q \in DOMAIN g <=> q \in DOMAIN f) /\ (q \in DOMAIN f => g[q] = f[q])
      BY <2>0 DEF McoLeaves
    <2>2. O \in Backups
      BY DEF Backups
    <2> HIDE DEF pub, pri, B, R, C, P, S, O, pkgs, named, asks, conf, a
    <2>3. g[P] = f[P] /\ g[S] = f[S]
      BY <1>1, <2>1 DEF Get
    <2>4. asks => g[C] = f[C]
      BY <1>1, <1>2, <2>1 DEF Get
    <2>5. ASSUME NEW q \in (DOMAIN g \cup DOMAIN f) \ Backups
          PROVE  q \in DOMAIN g \cap DOMAIN f /\ g[q] = f[q]
      <3>1. q # O
        BY <2>2
      <3>2. CASE q \in {P, S}
        BY <1>1, <2>1, <2>3, <3>2
      <3>3. CASE q = B /\ asks /\ pub \in DOMAIN conf
        BY <1>1, <2>1, <3>3
      <3>4. CASE q = R /\ asks /\ pri \in DOMAIN conf
        BY <1>1, <2>1, <3>4
      <3>5. CASE q = C /\ asks
        BY <1>1, <2>1, <2>4, <3>5
      <3>6. QED
        BY <2>1, <3>1, <3>2, <3>3, <3>4, <3>5
    <2>6. QED
      BY <2>5 DEF SameFiles
  <1> QED BY <1>3, <1>4

----------------------------------------------------------------------------
(* Updates: lists, packages, and a reboot when there is a reason for it.    *)

\* Which files a run touches, and how.
UpgradeLists(c) == Asks(c, "apt_update", "package_update") \/ Upgrades(c) \/ PackageList(c) # {}
UpgradeReboots(c, f) ==
  /\ Upgrades(c) \/ PackageList(c) # {}
  /\ Asks(c, "apt_reboot_if_required", "package_reboot_if_required") /\ RebootFile \in DOMAIN f

\* Something is added to a file where it is asked for.
AddedWhere(asks, f, g, p, w) ==
  /\ asks => p \in DOMAIN g /\ g[p] = Get(f, p, {}) \cup w /\ SameBut(f, g, p)
  /\ ~asks => g = f

LEMMA AddIf ==
  ASSUME NEW asks \in BOOLEAN, NEW p, NEW w, NEW how, NEW f, NEW g, Makes(f, If(asks, <<Effect("add", p, w, how)>>), g)
  PROVE  AddedWhere(asks, f, g, p, w)
  <1>1. CASE asks
    <2>1. Makes(f, <<Effect("add", p, w, how)>>, g)
      BY <1>1 DEF If
    <2>2. QED
      BY <1>1, <2>1, AddedOrNot DEF AddedWhere
  <1>2. CASE ~asks
    <2>1. Makes(f, <<>>, g)
      BY <1>2 DEF If
    <2>2. QED
      BY <1>2, <2>1, MadeNone DEF AddedWhere
  <1> QED BY <1>1, <1>2

UpgradeParts(c, s1, s2, s3) ==
  /\ Straight(s1) /\ Straight(s2) /\ Straight(s3)
  /\ \A h : Effects("upgrade", c, h) = ((s1 \o s2) \o s3) \o <<Resume>>
  /\ \A h, g : Makes(h, s1, g) => AddedWhere(UpgradeLists(c), h, g, <<"package", "lists">>, {"updated"})
  /\ \A h, g : Makes(h, s2, g) => AddedWhere(Upgrades(c), h, g, RebootFile, {"kernel"})
  /\ \A h, g : Makes(h, s3, g) => AddedWhere(PackageList(c) # {}, h, g, <<"packages">>, PackageList(c))
LEMMA UpgradeFirst == ASSUME NEW c PROVE \E s1, s2, s3 : UpgradeParts(c, s1, s2, s3)
  <1> DEFINE b1 == UpgradeLists(c)
             b2 == Upgrades(c)
             b3 == PackageList(c) # {}
             L == <<"package", "lists">>
             R == RebootFile
             P == <<"packages">>
             updated == {"updated"}
             kernel == {"kernel"}
             pkgs == PackageList(c)
             s1 == If(b1, <<Effect("add", L, updated, "collect")>>)
             s2 == If(b2, <<Effect("add", R, kernel, "collect")>>)
             s3 == If(b3, <<Effect("add", P, pkgs, "collect")>>)
  <1>1. \A h : Effects("upgrade", c, h) = ((s1 \o s2) \o s3) \o <<Resume>>
    BY DEF Effects, UpgradeEffects, UpgradeLists, Collect
  <1>2. b1 \in BOOLEAN /\ b2 \in BOOLEAN /\ b3 \in BOOLEAN
    BY DEF UpgradeLists, Upgrades, Asks
  <1> HIDE DEF b1, b2, b3, L, R, P, updated, kernel, pkgs
  <1>3. \A p, w : Effect("add", p, w, "collect").op # "resume"
    BY OpsAre
  <1>4. \A p, w : Straight(<<Effect("add", p, w, "collect")>>)
    BY <1>3, StraightOne
  <1>5. Straight(s1) /\ Straight(s2) /\ Straight(s3)
    BY <1>4, StraightIf
  <1>6. \A h, g : Makes(h, s1, g) => AddedWhere(b1, h, g, L, updated)
    BY <1>2, AddIf
  <1>7. \A h, g : Makes(h, s2, g) => AddedWhere(b2, h, g, R, kernel)
    BY <1>2, AddIf
  <1>8. \A h, g : Makes(h, s3, g) => AddedWhere(b3, h, g, P, pkgs)
    BY <1>2, AddIf
  <1> HIDE DEF s1, s2, s3
  <1>9. UpgradeParts(c, s1, s2, s3)
    BY <1>1, <1>5, <1>6, <1>7, <1>8 DEF b1, b2, b3, L, R, P, updated, kernel, pkgs, UpgradeParts
  <1> QED BY <1>9

LEMMA UpgradeThen ==
  ASSUME NEW c, NEW h
  PROVE  /\ Straight(Rest("upgrade", c, h))
         /\ \A g : Makes(h, Rest("upgrade", c, h), g) =>
              AddedWhere(UpgradeReboots(c, h), h, g, <<"reboots">>, {"requested"})
  <1> DEFINE b == UpgradeReboots(c, h)
             B == <<"reboots">>
             requested == {"requested"}
             s == If(b, <<Effect("add", B, requested, "collect")>>)
  <1>1. Rest("upgrade", c, h) = s
    BY DEF Rest, UpgradeRest, UpgradeReboots, Collect
  <1>2. b \in BOOLEAN
    BY DEF UpgradeReboots
  <1> HIDE DEF b, B, requested
  <1>3. Straight(<<Effect("add", B, requested, "collect")>>)
    BY OpsAre, StraightOne
  <1>4. Straight(s) /\ \A g : Makes(h, s, g) => AddedWhere(b, h, g, B, requested)
    BY <1>2, <1>3, StraightIf, AddIf
  <1> QED BY <1>1, <1>4 DEF b, B, requested

LEMMA UpgradeShape == ASSUME NEW c PROVE Shape("upgrade", c)
  <1>1. PICK s1, s2, s3 : UpgradeParts(c, s1, s2, s3)
    BY UpgradeFirst
  <1> DEFINE a == (s1 \o s2) \o s3
  <1>2. Straight(a) /\ \A h : Effects("upgrade", c, h) = a \o <<Resume>>
    BY <1>1, StraightJoined DEF UpgradeParts
  <1> HIDE DEF a
  <1> QED BY <1>2, UpgradeThen DEF Shape

LEMMA UpgradeMakes ==
  ASSUME NEW c, NEW f0, NEW f, Whole("upgrade", c, f0, f)
  PROVE  \E g1, g2, g3 :
         /\ AddedWhere(UpgradeLists(c), f0, g1, <<"package", "lists">>, {"updated"})
         /\ AddedWhere(Upgrades(c), g1, g2, RebootFile, {"kernel"})
         /\ AddedWhere(PackageList(c) # {}, g2, g3, <<"packages">>, PackageList(c))
         /\ AddedWhere(UpgradeReboots(c, g3), g3, f, <<"reboots">>, {"requested"})
  <1>0. PICK s1, s2, s3 : UpgradeParts(c, s1, s2, s3)
    BY UpgradeFirst
  <1>1. /\ Straight(s1) /\ Straight(s2) /\ Straight(s3)
        /\ \A h : Effects("upgrade", c, h) = ((s1 \o s2) \o s3) \o <<Resume>>
        /\ \A h, g : Makes(h, s1, g) => AddedWhere(UpgradeLists(c), h, g, <<"package", "lists">>, {"updated"})
        /\ \A h, g : Makes(h, s2, g) => AddedWhere(Upgrades(c), h, g, RebootFile, {"kernel"})
        /\ \A h, g : Makes(h, s3, g) => AddedWhere(PackageList(c) # {}, h, g, <<"packages">>, PackageList(c))
    BY <1>0 DEF UpgradeParts
  <1>2. Straight(s1 \o s2) /\ Straight((s1 \o s2) \o s3)
    BY <1>1, StraightJoined
  <1>3. PICK g3 : Makes(f0, (s1 \o s2) \o s3, g3) /\ Makes(g3, Rest("upgrade", c, g3), f)
    BY <1>1, <1>2, TwoLists
  <1>4. PICK g2 : Makes(f0, s1 \o s2, g2) /\ Makes(g2, s3, g3)
    BY <1>1, <1>2, <1>3, MadeJoined
  <1>5. PICK g1 : Makes(f0, s1, g1) /\ Makes(g1, s2, g2)
    BY <1>1, <1>2, <1>4, MadeJoined
  <1>6. AddedWhere(UpgradeReboots(c, g3), g3, f, <<"reboots">>, {"requested"})
    BY <1>3, UpgradeThen
  <1> QED BY <1>1, <1>3, <1>4, <1>5, <1>6

\* Where something is added nothing else changes; what is there is not added again.
Alike(f, g) == \A q : (q \in DOMAIN g <=> q \in DOMAIN f) /\ (q \in DOMAIN f => g[q] = f[q])

LEMMA AddedIs ==
  ASSUME NEW asks \in BOOLEAN, NEW f, NEW g, NEW p, NEW w, AddedWhere(asks, f, g, p, w)
  PROVE  /\ asks => p \in DOMAIN g /\ w \subseteq g[p]
         /\ \A q : q # p => (q \in DOMAIN g <=> q \in DOMAIN f) /\ (q \in DOMAIN f => g[q] = f[q])
         /\ (asks => p \in DOMAIN f /\ w \subseteq f[p]) => Alike(f, g)
  <1>1. CASE asks
    <2>1. p \in DOMAIN g /\ g[p] = Get(f, p, {}) \cup w /\ SameBut(f, g, p)
      BY <1>1 DEF AddedWhere
    <2>2. p \in DOMAIN f /\ w \subseteq f[p] => g[p] = f[p]
      BY <2>1 DEF Get
    <2>3. QED
      BY <1>1, <2>1, <2>2 DEF SameBut, Alike
  <1>2. CASE ~asks
    BY <1>2 DEF AddedWhere, Alike
  <1> QED BY <1>1, <1>2

LEMMA AlikeIsSame == ASSUME NEW f, NEW g, Alike(f, g) PROVE SameFiles(f, g)
  BY DEF Alike, SameFiles

LEMMA UpgradeHolds ==
  ASSUME NEW c, NEW f0, NEW f, Whole("upgrade", c, f0, f)
  PROVE  /\ UpgradeInEffect(c, f)
         /\ \A g : Whole("upgrade", c, f, g) => SameFiles(f, g)
  <1> DEFINE L == <<"package", "lists">>
             R == RebootFile
             P == <<"packages">>
             B == <<"reboots">>
             updated == {"updated"}
             kernel == {"kernel"}
             requested == {"requested"}
             pkgs == PackageList(c)
             b1 == UpgradeLists(c)
             b2 == Upgrades(c)
             b3 == pkgs # {}
             ask == Asks(c, "apt_reboot_if_required", "package_reboot_if_required")
             b4(h) == UpgradeReboots(c, h)
  <1>1. PICK g1, g2, g3 : /\ AddedWhere(b1, f0, g1, L, updated) /\ AddedWhere(b2, g1, g2, R, kernel)
                          /\ AddedWhere(b3, g2, g3, P, pkgs) /\ AddedWhere(b4(g3), g3, f, B, requested)
    BY UpgradeMakes
  <1>2. ASSUME NEW g, Whole("upgrade", c, f, g)
        PROVE  \E h1, h2, h3 : /\ AddedWhere(b1, f, h1, L, updated) /\ AddedWhere(b2, h1, h2, R, kernel)
                               /\ AddedWhere(b3, h2, h3, P, pkgs) /\ AddedWhere(b4(h3), h3, g, B, requested)
    BY <1>2, UpgradeMakes
  <1>3. L # R /\ L # P /\ L # B /\ R # P /\ R # B /\ P # B
    BY DEF RebootFile
  <1>4. b1 \in BOOLEAN /\ b2 \in BOOLEAN /\ b3 \in BOOLEAN /\ ask \in BOOLEAN /\ \A h : b4(h) \in BOOLEAN
    BY DEF UpgradeLists, Upgrades, Asks, UpgradeReboots
  <1>5. \A h : b4(h) <=> (b2 \/ b3) /\ ask /\ R \in DOMAIN h
    BY DEF UpgradeReboots
  <1>6. UpgradeInEffect(c, f) <=> pkgs \subseteq Get(f, P, {}) /\ (b2 /\ ask => B \in DOMAIN f)
    BY DEF UpgradeInEffect
  <1>7. pkgs # {} <=> b3
    OBVIOUS
  <1> HIDE DEF L, R, P, B, updated, kernel, requested, pkgs, b1, b2, b3, ask, b4
  <1>8. /\ b1 => L \in DOMAIN g1 /\ updated \subseteq g1[L]
        /\ \A q : q # L => (q \in DOMAIN g1 <=> q \in DOMAIN f0) /\ (q \in DOMAIN f0 => g1[q] = f0[q])
    BY <1>1, <1>4, AddedIs
  <1>9. /\ b2 => R \in DOMAIN g2 /\ kernel \subseteq g2[R]
        /\ \A q : q # R => (q \in DOMAIN g2 <=> q \in DOMAIN g1) /\ (q \in DOMAIN g1 => g2[q] = g1[q])
    BY <1>1, <1>4, AddedIs
  <1>10. /\ b3 => P \in DOMAIN g3 /\ pkgs \subseteq g3[P]
         /\ \A q : q # P => (q \in DOMAIN g3 <=> q \in DOMAIN g2) /\ (q \in DOMAIN g2 => g3[q] = g2[q])
    BY <1>1, <1>4, AddedIs
  <1>11. /\ b4(g3) => B \in DOMAIN f /\ requested \subseteq f[B]
         /\ \A q : q # B => (q \in DOMAIN f <=> q \in DOMAIN g3) /\ (q \in DOMAIN g3 => f[q] = g3[q])
    <2>1. AddedWhere(b4(g3), g3, f, B, requested) /\ b4(g3) \in BOOLEAN
      BY <1>1, <1>4
    <2>2. QED
      BY <2>1, AddedIs
  <1>12. /\ b1 => L \in DOMAIN f /\ updated \subseteq f[L]
         /\ b2 => R \in DOMAIN f /\ kernel \subseteq f[R]
         /\ b3 => P \in DOMAIN f /\ pkgs \subseteq f[P]
         /\ R \in DOMAIN f <=> R \in DOMAIN g3
    BY <1>3, <1>8, <1>9, <1>10, <1>11
  <1>13. UpgradeInEffect(c, f)
    <2>1. pkgs \subseteq Get(f, P, {})
      BY <1>7, <1>12 DEF Get
    <2>2. b2 /\ ask => B \in DOMAIN f
      BY <1>5, <1>11, <1>12
    <2>3. QED
      BY <1>6, <2>1, <2>2
  <1>14. ASSUME NEW g, Whole("upgrade", c, f, g) PROVE SameFiles(f, g)
    <2>1. PICK h1, h2, h3 : /\ AddedWhere(b1, f, h1, L, updated) /\ AddedWhere(b2, h1, h2, R, kernel)
                            /\ AddedWhere(b3, h2, h3, P, pkgs) /\ AddedWhere(b4(h3), h3, g, B, requested)
      BY <1>2, <1>14
    <2>2. Alike(f, h1)
      BY <1>4, <1>12, <2>1, AddedIs
    <2>3. Alike(h1, h2)
      <3>1. b2 => R \in DOMAIN h1 /\ kernel \subseteq h1[R]
        BY <1>12, <2>2 DEF Alike
      <3>2. QED
        BY <1>4, <2>1, <3>1, AddedIs
    <2>4. Alike(h2, h3)
      <3>1. b3 => P \in DOMAIN h2 /\ pkgs \subseteq h2[P]
        BY <1>12, <2>2, <2>3 DEF Alike
      <3>2. QED
        BY <1>4, <2>1, <3>1, AddedIs
    <2>5. Alike(h3, g)
      <3>1. R \in DOMAIN h3 <=> R \in DOMAIN g3
        BY <1>12, <2>2, <2>3, <2>4 DEF Alike
      <3>2. b4(h3) => B \in DOMAIN f /\ requested \subseteq f[B]
        BY <1>5, <1>11, <3>1
      <3>3. b4(h3) => B \in DOMAIN h3 /\ requested \subseteq h3[B]
        BY <3>2, <2>2, <2>3, <2>4 DEF Alike
      <3>4. AddedWhere(b4(h3), h3, g, B, requested) /\ b4(h3) \in BOOLEAN
        BY <1>4, <2>1
      <3>5. QED
        BY <3>3, <3>4, AddedIs
    <2>6. Alike(f, g)
      BY <2>2, <2>3, <2>4, <2>5 DEF Alike
    <2>7. QED
      BY <2>6, AlikeIsSame
  <1> QED BY <1>13, <1>14

----------------------------------------------------------------------------
(* ntp: the file of the distribution is renamed, and one is written.        *)

NtpDist == <<"ntp.conf", "dist">>
NtpRefused(m) == NtpTemplates(m) \cap m.templates = {}
NtpInstalls(m, f) == NtpInstallable(m) /\ ~Installed(f, "ntp")
\* The file is renamed where it is there.
MovedAside(f, g) ==
  /\ NtpConf \in DOMAIN f => NtpConf \notin DOMAIN g
  /\ NtpConf \notin DOMAIN f => g = f
  /\ \A q : q \notin {NtpConf, NtpDist} => (q \in DOMAIN g <=> q \in DOMAIN f) /\ (q \in DOMAIN f => g[q] = f[q])
\* The list of a run that finds f.
NtpParts(c, m, f, s1, s2, s3, s4) ==
  /\ Straight(s1) /\ Straight(s2) /\ Straight(s3) /\ Straight(s4)
  /\ NtpRefused(m) => NtpEffects(c, m, f) = s1 \o <<Raise>>
  /\ ~NtpRefused(m) => NtpEffects(c, m, f) = s1 \o ((s2 \o s3) \o s4)
  /\ \A h : Makes(f, s1, h) => MovedAside(f, h)
  /\ \A h, g : Makes(h, s2, g) => NtpPath(m) \in DOMAIN g /\ g[NtpPath(m)] = NtpServers(c) /\ SameBut(h, g, NtpPath(m))
  /\ \A h, g : Makes(h, s3, g) => AddedWhere(NtpInstalls(m, f), h, g, <<"packages">>, {"ntp"})
  /\ \A h, g : Makes(h, s4, g) => AddedWhere(TRUE, h, g, <<"services">>, {<<"ntp", "restarted">>})

LEMMA NtpLists == ASSUME NEW c, NEW m, NEW f PROVE \E s1, s2, s3, s4 : NtpParts(c, m, f, s1, s2, s3, s4)
  <1> DEFINE C == NtpConf
             D == NtpDist
             path == NtpPath(m)
             servers == NtpServers(c)
             P == <<"packages">>
             S == <<"services">>
             pkgs == {"ntp"}
             named == {<<"ntp", "restarted">>}
             there == C \in DOMAIN f
             installs == NtpInstalls(m, f)
             s1 == If(there, <<Move(C, D)>>)
             s2 == <<Write(path, servers)>>
             s3 == If(installs, <<Effect("add", P, pkgs, "raise")>>)
             s4 == <<Effect("add", S, named, "raise")>>
  <1>1. /\ NtpRefused(m) => NtpEffects(c, m, f) = s1 \o <<Raise>>
        /\ ~NtpRefused(m) => NtpEffects(c, m, f) = s1 \o ((s2 \o s3) \o s4)
    BY DEF NtpEffects, NtpRefused, NtpInstalls, Install, Service, Run, NtpDist
  <1>2. there \in BOOLEAN /\ installs \in BOOLEAN
    BY DEF NtpInstalls, NtpInstallable, Installed
  <1>3. C # D
    BY DEF NtpConf, NtpDist
  <1> HIDE DEF path, servers, P, S, pkgs, named, installs
  <1>4. Straight(<<Move(C, D)>>) /\ Straight(s2) /\ Straight(<<Effect("add", P, pkgs, "raise")>>) /\ Straight(s4)
    <2>1. \A p, w : Move(p, w).op # "resume" /\ Write(p, w).op # "resume" /\ Effect("add", p, w, "raise").op # "resume"
      BY OpsAre
    <2>2. \A p, w : Straight(<<Move(p, w)>>) /\ Straight(<<Write(p, w)>>) /\ Straight(<<Effect("add", p, w, "raise")>>)
      BY <2>1, StraightOne
    <2>3. QED
      BY <2>2
  <1>5. Straight(s1) /\ Straight(s3)
    BY <1>4, StraightIf
  <1>6. ASSUME NEW h, Makes(f, s1, h) PROVE MovedAside(f, h)
    <2>1. s1 = IF there THEN <<Move(C, D)>> ELSE <<>>
      BY DEF If
    <2> HIDE DEF s1
    <2>2. CASE there
      BY <1>3, <1>6, <2>1, <2>2, MovedOrNot DEF MovedAside
    <2>3. CASE ~there
      <3>1. h = f
        BY <1>6, <2>1, <2>3, MovedOrNot
      <3>2. QED
        BY <2>3, <3>1 DEF MovedAside
    <2>4. QED
      BY <2>2, <2>3
  <1>7. \A h, g : Makes(h, s2, g) => path \in DOMAIN g /\ g[path] = servers /\ SameBut(h, g, path)
    BY WroteOrNot
  <1>8. \A h, g : Makes(h, s3, g) => AddedWhere(installs, h, g, P, pkgs)
    BY <1>2, AddIf
  <1>9. \A h, g : Makes(h, s4, g) => AddedWhere(TRUE, h, g, S, named)
    BY AddedOrNot DEF AddedWhere
  <1> HIDE DEF s1, s2, s3, s4, there, C, D
  <1>10. NtpParts(c, m, f, s1, s2, s3, s4)
    BY <1>1, <1>4, <1>5, <1>6, <1>7, <1>8, <1>9 DEF NtpParts, path, servers, P, S, pkgs, named, installs
  <1> QED BY <1>10

LEMMA NtpStraight == ASSUME NEW c, NEW m, NEW f PROVE Straight(NtpEffects(c, m, f))
  <1>1. PICK s1, s2, s3, s4 : NtpParts(c, m, f, s1, s2, s3, s4)
    BY NtpLists
  <1>2. Straight(s1) /\ Straight(s2 \o s3)
    BY <1>1, StraightJoined DEF NtpParts
  <1>3. Straight((s2 \o s3) \o s4)
    BY <1>1, <1>2, StraightJoined DEF NtpParts
  <1>4. Straight(<<Raise>>)
    BY OpsAre, StraightOne
  <1>5. Straight(s1 \o ((s2 \o s3) \o s4)) /\ Straight(s1 \o <<Raise>>)
    BY <1>2, <1>3, <1>4, StraightJoined
  <1> QED BY <1>1, <1>5 DEF NtpParts

LEMMA NtpMakes ==
  ASSUME NEW c, NEW m, NEW f0, NEW f, Makes(f0, NtpEffects(c, m, f0), f)
  PROVE  \E g1, g2, g3 :
         /\ MovedAside(f0, g1)
         /\ NtpPath(m) \in DOMAIN g2 /\ g2[NtpPath(m)] = NtpServers(c) /\ SameBut(g1, g2, NtpPath(m))
         /\ AddedWhere(NtpInstalls(m, f0), g2, g3, <<"packages">>, {"ntp"})
         /\ AddedWhere(TRUE, g3, f, <<"services">>, {<<"ntp", "restarted">>})
  <1>0. PICK s1, s2, s3, s4 : NtpParts(c, m, f0, s1, s2, s3, s4)
    BY NtpLists
  <1>1. /\ Straight(s1) /\ Straight(s2) /\ Straight(s3) /\ Straight(s4)
        /\ NtpRefused(m) => Makes(f0, s1 \o <<Raise>>, f)
        /\ ~NtpRefused(m) => Makes(f0, s1 \o ((s2 \o s3) \o s4), f)
        /\ \A h : Makes(f0, s1, h) => MovedAside(f0, h)
        /\ \A h, g : Makes(h, s2, g) => NtpPath(m) \in DOMAIN g /\ g[NtpPath(m)] = NtpServers(c) /\ SameBut(h, g, NtpPath(m))
        /\ \A h, g : Makes(h, s3, g) => AddedWhere(NtpInstalls(m, f0), h, g, <<"packages">>, {"ntp"})
        /\ \A h, g : Makes(h, s4, g) => AddedWhere(TRUE, h, g, <<"services">>, {<<"ntp", "restarted">>})
    BY <1>0 DEF NtpParts
  <1>2. Straight(s2 \o s3) /\ Straight((s2 \o s3) \o s4) /\ Straight(<<Raise>>)
    BY <1>1, StraightJoined, OpsAre, StraightOne
  <1>3. ~NtpRefused(m)
    <2>1. SUFFICES ASSUME Makes(f0, s1 \o <<Raise>>, f) PROVE FALSE
      BY <1>1
    <2>2. \E h : Makes(h, <<Raise>>, f)
      BY <1>1, <1>2, <2>1, MadeJoined
    <2>3. QED
      BY <2>2, NoRaise
  <1>4. PICK g1 : Makes(f0, s1, g1) /\ Makes(g1, (s2 \o s3) \o s4, f)
    BY <1>1, <1>2, <1>3, MadeJoined
  <1>5. PICK g3 : Makes(g1, s2 \o s3, g3) /\ Makes(g3, s4, f)
    BY <1>1, <1>2, <1>4, MadeJoined
  <1>6. PICK g2 : Makes(g1, s2, g2) /\ Makes(g2, s3, g3)
    BY <1>1, <1>5, MadeJoined
  <1> QED BY <1>1, <1>4, <1>5, <1>6

LEMMA NtpHolds ==
  ASSUME NEW c, NEW m, NEW f0, NEW f, Makes(f0, NtpEffects(c, m, f0), f)
  PROVE  /\ NtpInEffect(c, m, f)
         /\ \A g : Makes(f, NtpEffects(c, m, f), g) => SameFiles(f, g)
  <1> DEFINE path == NtpPath(m)
             servers == NtpServers(c)
             P == <<"packages">>
             S == <<"services">>
             C == NtpConf
             D == NtpDist
             pkgs == {"ntp"}
             named == {<<"ntp", "restarted">>}
             is == NtpInstallable(m)
             i(h) == NtpInstalls(m, h)
             Stage(h0, g1, g2, g3, h) ==
               /\ MovedAside(h0, g1)
               /\ path \in DOMAIN g2 /\ g2[path] = servers /\ SameBut(g1, g2, path)
               /\ AddedWhere(i(h0), g2, g3, P, pkgs)
               /\ AddedWhere(TRUE, g3, h, S, named)
  <1>1. \A h0, h : Makes(h0, NtpEffects(c, m, h0), h) => \E g1, g2, g3 : Stage(h0, g1, g2, g3, h)
    BY NtpMakes
  <1>2. /\ (is /\ path = C) \/ (~is /\ path # C)
        /\ path # P /\ path # S /\ path # D /\ P # S /\ C # P /\ C # S /\ C # D /\ D # P /\ D # S
    BY DEF NtpPath, NtpConf, NtpDist
  <1>3. /\ \A h : i(h) \in BOOLEAN /\ (i(h) => is)
        /\ \A h : is /\ P \in DOMAIN h /\ pkgs \subseteq h[P] => ~i(h)
        /\ \A h : is /\ ~i(h) => P \in DOMAIN h /\ pkgs \subseteq h[P]
    BY DEF NtpInstalls, NtpInstallable, Installed, Get
  <1>4. D \in Backups
    BY DEF Backups, NtpDist
  <1>5. \A h : path \in DOMAIN h /\ h[path] = servers /\ S \in DOMAIN h /\ named \subseteq h[S] => NtpInEffect(c, m, h)
    <2>1. ASSUME NEW h, h[path] = servers, named \subseteq h[S] PROVE NtpInEffect(c, m, h)
      <3>1. /\ servers.servers = Get(c, "servers", {})
            /\ Get(c, "pools", {}) # {} => servers.pools = Get(c, "pools", {}) /\ servers.pools # {}
            /\ servers.servers # {} \/ servers.pools # {}
        BY DEF NtpServers
      <3>2. Get(c, "pools", {}) # {} => Get(c, "pools", {}) = c.pools
        BY DEF Get
      <3>3. <<"ntp", "restarted">> \in h[S]
        BY <2>1
      <3> HIDE DEF servers, named
      <3>4. h[path].servers \cup h[path].pools # {}
        BY <2>1, <3>1
      <3>5. QED
        BY <2>1, <3>1, <3>2, <3>3, <3>4 DEF NtpInEffect
    <2>2. QED
      BY <2>1
  <1> HIDE DEF path, servers, P, S, C, D, pkgs, named, is, i
  <1>6. PICK g1, g2, g3 : Stage(f0, g1, g2, g3, f)
    BY <1>1
  <1>7. /\ i(f0) => P \in DOMAIN g3 /\ pkgs \subseteq g3[P]
        /\ \A q : q # P => (q \in DOMAIN g3 <=> q \in DOMAIN g2) /\ (q \in DOMAIN g2 => g3[q] = g2[q])
        /\ ~i(f0) => g3 = g2
    <2>1. AddedWhere(i(f0), g2, g3, P, pkgs) /\ i(f0) \in BOOLEAN
      BY <1>3, <1>6
    <2>2. QED
      BY <2>1, AddedIs DEF AddedWhere
  <1>8. /\ S \in DOMAIN f /\ named \subseteq f[S]
        /\ \A q : q # S => (q \in DOMAIN f <=> q \in DOMAIN g3) /\ (q \in DOMAIN g3 => f[q] = g3[q])
    <2>1. AddedWhere(TRUE, g3, f, S, named)
      BY <1>6
    <2>2. QED
      BY <2>1 DEF AddedWhere, SameBut
  <1>9. path \in DOMAIN f /\ f[path] = servers
    BY <1>2, <1>6, <1>7, <1>8
  <1>10. is => P \in DOMAIN f /\ pkgs \subseteq f[P]
    <2>1. ASSUME is, ~i(f0) PROVE P \in DOMAIN g3 /\ pkgs \subseteq g3[P]
      <3>1. P \in DOMAIN f0 /\ pkgs \subseteq f0[P]
        BY <1>3, <2>1
      <3>2. P \in DOMAIN g1 /\ g1[P] = f0[P]
        BY <1>2, <1>6, <3>1 DEF MovedAside, C, D
      <3>3. P \in DOMAIN g2 /\ g2[P] = g1[P]
        BY <1>2, <1>6, <3>2 DEF SameBut
      <3>4. QED
        BY <1>7, <2>1, <3>1, <3>2, <3>3
    <2>2. QED
      BY <1>2, <1>7, <1>8, <2>1
  <1>11. ~is => C \notin DOMAIN f
    <2>1. C \notin DOMAIN g1
      BY <1>6 DEF MovedAside, C
    <2>2. ~is => C \notin DOMAIN g2
      BY <1>2, <1>6, <2>1 DEF SameBut
    <2>3. QED
      BY <1>2, <1>7, <1>8, <2>2
  <1>12. ASSUME NEW g, Makes(f, NtpEffects(c, m, f), g) PROVE SameFiles(f, g)
    <2>1. PICK h1, h2, h3 : Stage(f, h1, h2, h3, g)
      BY <1>1, <1>12
    <2>2. h3 = h2
      <3>1. ~i(f)
        BY <1>3, <1>10
      <3>2. AddedWhere(i(f), h2, h3, P, pkgs)
        BY <2>1
      <3>3. QED
        BY <3>1, <3>2 DEF AddedWhere
    <2>3. Alike(h3, g)
      <3>1. S \in DOMAIN h1 /\ h1[S] = f[S]
        BY <1>2, <1>8, <2>1 DEF MovedAside, C, D
      <3>2. S \in DOMAIN h3 /\ h3[S] = f[S]
        BY <1>2, <2>1, <2>2, <3>1 DEF SameBut
      <3>3. AddedWhere(TRUE, h3, g, S, named) /\ TRUE \in BOOLEAN
        BY <2>1
      <3>4. QED
        BY <1>8, <3>2, <3>3, AddedIs
    <2>4. ASSUME NEW q, q # D PROVE (q \in DOMAIN h2 <=> q \in DOMAIN f) /\ (q \in DOMAIN f => h2[q] = f[q])
      <3>1. CASE q = path
        BY <1>9, <2>1, <3>1
      <3>2. CASE q # path
        <4>1. (q \in DOMAIN h1 <=> q \in DOMAIN f) /\ (q \in DOMAIN f => h1[q] = f[q])
          <5>1. CASE is
            BY <1>2, <2>1, <2>4, <3>2, <5>1 DEF MovedAside, C, D
          <5>2. CASE ~is
            BY <1>11, <2>1, <5>2 DEF MovedAside, C
          <5>3. QED
            BY <5>1, <5>2
        <4>2. QED
          BY <2>1, <3>2, <4>1 DEF SameBut
      <3>3. QED
        BY <3>1, <3>2
    <2>5. QED
      BY <1>4, <2>2, <2>3, <2>4 DEF Alike, SameFiles
  <1> QED BY <1>5, <1>8, <1>9, <1>12

----------------------------------------------------------------------------
(* lxd: packages, its settings, and a bridge of the package or of its own.  *)

\* Settings are made where they are asked for.
SetWhere(asks, f, g, p, w) ==
  /\ asks => p \in DOMAIN g /\ g[p] = w ++ Get(f, p, <<>>) /\ SameBut(f, g, p)
  /\ ~asks => g = f

LEMMA SetIf ==
  ASSUME NEW asks \in BOOLEAN, NEW p, NEW w, NEW how, NEW f, NEW g, Makes(f, If(asks, <<Effect("set", p, w, how)>>), g)
  PROVE  SetWhere(asks, f, g, p, w)
  <1>1. CASE asks
    <2>1. Makes(f, <<Effect("set", p, w, how)>>, g)
      BY <1>1 DEF If
    <2>2. QED
      BY <1>1, <2>1, SetOrNot DEF SetWhere
  <1>2. CASE ~asks
    <2>1. Makes(f, <<>>, g)
      BY <1>2 DEF If
    <2>2. QED
      BY <1>2, <2>1, MadeNone DEF SetWhere
  <1> QED BY <1>1, <1>2

\* Settings that are there are not made again.
LEMMA SetWhereIs ==
  ASSUME NEW asks \in BOOLEAN, NEW f, NEW g, NEW p, NEW w, SetWhere(asks, f, g, p, w)
  PROVE  /\ asks => p \in DOMAIN g /\ w ++ g[p] = g[p] /\ g[p] = w ++ Get(f, p, <<>>)
         /\ \A q : q # p => (q \in DOMAIN g <=> q \in DOMAIN f) /\ (q \in DOMAIN f => g[q] = f[q])
         /\ (asks => p \in DOMAIN f /\ w ++ f[p] = f[p]) => Alike(f, g)
  <1>1. CASE asks
    <2>1. p \in DOMAIN g /\ g[p] = w ++ Get(f, p, <<>>) /\ SameBut(f, g, p)
      BY <1>1 DEF SetWhere
    <2>2. w ++ g[p] = g[p]
      BY <2>1, SettingsOverTwo
    <2>3. p \in DOMAIN f /\ w ++ f[p] = f[p] => g[p] = f[p]
      BY <2>1 DEF Get
    <2>4. QED
      BY <1>1, <2>1, <2>2, <2>3 DEF SameBut, Alike
  <1>2. CASE ~asks
    BY <1>2 DEF SetWhere, Alike
  <1> QED BY <1>1, <1>2

HasBridge(c) == Get(c, "bridge", <<>>) # <<>>
ByPackage(m, f) == LxdBridge \in DOMAIN f /\ "debconf-communicate" \in m.which
BridgeName(c) == Get(c.bridge, "name", "lxdbr0")
BridgeSaid(c) ==
  BridgeSettings(c.bridge, "ipv4_address", "ipv4_nat") ++ BridgeSettings(c.bridge, "ipv6_address", "ipv6_nat")

LEMMA CmdIs ==
  ASSUME NEW c
  PROVE  \/ BridgeToCmd(c.bridge) = <<>> /\ c.bridge.mode # "new"
         \/ BridgeToCmd(c.bridge) = <<Raise>>
         \/ /\ BridgeToCmd(c.bridge) = <<Effect("set", <<"bridges">>, One(BridgeName(c), BridgeSaid(c)), "raise"),
                                         Effect("add", <<"attached">>, {BridgeName(c)}, "raise")>>
            /\ c.bridge.mode = "new"
  <1>1. CASE c.bridge.mode = "none"
    BY <1>1 DEF BridgeToCmd
  <1>2. CASE c.bridge.mode = "existing"
    BY <1>2 DEF BridgeToCmd
  <1>3. CASE c.bridge.mode = "new"
    BY <1>3 DEF BridgeToCmd, RunSettings, Run, BridgeName, BridgeSaid
  <1>4. CASE c.bridge.mode \notin {"none", "existing", "new"}
    BY <1>4 DEF BridgeToCmd
  <1> QED BY <1>1, <1>2, <1>3, <1>4

\* What the second list makes of h.
LxdStep(c, m, h, f) ==
  \/ ~HasBridge(c) /\ f = h
  \/ HasBridge(c) /\ ~ByPackage(m, h) /\ c.bridge.mode # "new" /\ f = h
  \/ /\ HasBridge(c) /\ ~ByPackage(m, h) /\ c.bridge.mode = "new"
     /\ \E k : /\ SetWhere(TRUE, h, k, <<"bridges">>, One(BridgeName(c), BridgeSaid(c)))
               /\ AddedWhere(TRUE, k, f, <<"attached">>, {BridgeName(c)})
  \/ /\ HasBridge(c) /\ ByPackage(m, h)
     /\ \E k1, k2 : /\ SetWhere(TRUE, h, k1, <<"lxd", "debconf">>, BridgeToDebconf(c.bridge))
                    /\ SameBut(k1, k2, LxdBridge)
                    /\ LxdBridge \in DOMAIN f /\ SameBut(k2, f, LxdBridge)
                    /\ f[LxdBridge] = BridgeToDebconf(c.bridge) ++ Get(h, <<"lxd", "debconf">>, <<>>)

LEMMA LxdThen ==
  ASSUME NEW c, NEW h
  PROVE  /\ Straight(Rest("lxd", c, h))
         /\ \A f : Makes(h, Rest("lxd", c, h), f) => LxdStep(c, Facts["lxd"], h, f)
  <1> DEFINE m == Facts["lxd"]
             L == Rest("lxd", c, h)
             D == <<"lxd", "debconf">>
             B == LxdBridge
             asks == BridgeToDebconf(c.bridge)
             all == asks ++ Get(h, D, <<>>)
             x == BridgeToCmd(c.bridge)
             e1 == Effect("set", D, asks, "log")
             e2 == Delete(B)
             e3 == Effect("write", B, all, "raise")
             n == <<"bridges">>
             nw == One(BridgeName(c), BridgeSaid(c))
             t == <<"attached">>
             tw == {BridgeName(c)}
             d1 == Effect("set", n, nw, "raise")
             d2 == Effect("add", t, tw, "raise")
  <1>1. L = LxdRest(c, m, h)
    BY DEF Rest
  <1>2. /\ ~HasBridge(c) => L = <<>>
        /\ HasBridge(c) /\ ~ByPackage(m, h) => L = x
        /\ HasBridge(c) /\ ByPackage(m, h) => L = IF asks = Unset THEN <<Raise>> ELSE <<e1, e2, e3>>
    BY <1>1 DEF LxdRest, HasBridge, ByPackage
  <1>3. \/ x = <<>> /\ c.bridge.mode # "new"
        \/ x = <<Raise>>
        \/ x = <<d1, d2>> /\ c.bridge.mode = "new"
    BY CmdIs
  <1> HIDE DEF m, L, D, B, asks, all, x, n, nw, t, tw
  <1>4. /\ e1.op # "resume" /\ e2.op # "resume" /\ e3.op # "resume" /\ d1.op # "resume" /\ d2.op # "resume" /\ Raise.op # "resume"
    BY OpsAre
  <1>5. Straight(<<e1, e2, e3>>) /\ Straight(<<d1, d2>>) /\ Straight(<<>>) /\ Straight(<<Raise>>)
    <2> HIDE DEF e1, e2, e3, d1, d2
    <2>1. QED
      BY <1>4, StraightNone, StraightOne, StraightTwo, StraightThree
  <1>6. Straight(L)
    <2> HIDE DEF e1, e2, e3, d1, d2
    <2>1. Straight(x)
      BY <1>3, <1>5
    <2>2. QED
      BY <1>2, <1>5, <2>1
  <1>7. ASSUME NEW f, Makes(h, L, f) PROVE LxdStep(c, m, h, f)
    <2>1. CASE ~HasBridge(c)
      <3>1. f = h
        BY <1>2, <1>7, <2>1, MadeNone
      <3>2. QED
        BY <2>1, <3>1 DEF LxdStep
    <2>2. CASE HasBridge(c) /\ ~ByPackage(m, h)
      <3>1. Makes(h, x, f)
        BY <1>2, <1>7, <2>2
      <3>2. CASE x = <<>> /\ c.bridge.mode # "new"
        <4>1. f = h
          BY <3>1, <3>2, MadeNone
        <4>2. QED
          BY <2>2, <3>2, <4>1 DEF LxdStep
      <3>3. CASE x = <<Raise>>
        BY <3>1, <3>3, NoRaise
      <3>4. CASE x = <<d1, d2>> /\ c.bridge.mode = "new"
        <4>1. \E k : k = Applied(h, d1) /\ f = Applied(k, d2)
          <5> HIDE DEF d1, d2
          <5>1. Makes(h, <<d1, d2>>, f)
            BY <3>1, <3>4
          <5>2. QED
            BY <1>4, <5>1, MadeTwo
        <4>2. PICK k : k = Applied(h, d1) /\ f = Applied(k, d2)
          BY <4>1
        <4>3. SetWhere(TRUE, h, k, n, nw)
          <5>1. n \in DOMAIN k /\ k[n] = nw ++ Get(h, n, <<>>) /\ SameBut(h, k, n)
            BY <4>2, SetIs
          <5>2. QED
            BY <5>1 DEF SetWhere
        <4>4. AddedWhere(TRUE, k, f, t, tw)
          <5>1. t \in DOMAIN f /\ f[t] = Get(k, t, {}) \cup tw /\ SameBut(k, f, t)
            BY <4>2, AddIs
          <5>2. QED
            BY <5>1 DEF AddedWhere
        <4>5. QED
          BY <2>2, <3>4, <4>3, <4>4 DEF LxdStep, n, nw, t, tw
      <3>5. QED
        BY <1>3, <3>2, <3>3, <3>4
    <2>3. CASE HasBridge(c) /\ ByPackage(m, h)
      <3>1. CASE asks = Unset
        BY <1>2, <1>7, <2>3, <3>1, NoRaise
      <3>2. CASE asks # Unset
        <4>1. \E k1, k2 : k1 = Applied(h, e1) /\ k2 = Applied(k1, e2) /\ f = Applied(k2, e3)
          <5> HIDE DEF e1, e2, e3
          <5>1. Makes(h, <<e1, e2, e3>>, f)
            BY <1>2, <1>7, <2>3, <3>2
          <5>2. QED
            BY <1>4, <5>1, MadeThree
        <4>2. PICK k1, k2 : k1 = Applied(h, e1) /\ k2 = Applied(k1, e2) /\ f = Applied(k2, e3)
          BY <4>1
        <4>3. SetWhere(TRUE, h, k1, D, asks)
          <5>1. D \in DOMAIN k1 /\ k1[D] = asks ++ Get(h, D, <<>>) /\ SameBut(h, k1, D)
            BY <4>2, SetIs
          <5>2. QED
            BY <5>1 DEF SetWhere
        <4>4. SameBut(k1, k2, B)
          BY <4>2, DeleteIs DEF Delete
        <4>5. B \in DOMAIN f /\ f[B] = all /\ SameBut(k2, f, B)
          BY <4>2, WriteIs
        <4>6. QED
          BY <2>3, <4>3, <4>4, <4>5 DEF LxdStep, D, asks, all, B
      <3>3. QED
        BY <3>1, <3>2
    <2>4. QED
      BY <2>1, <2>2, <2>3
  <1> QED BY <1>6, <1>7 DEF L, m

LxdParts(c, s1, s2) ==
  /\ Straight(s1) /\ Straight(s2)
  /\ \A h : Effects("lxd", c, h) = (s1 \o s2) \o <<Resume>>
  /\ \A h, g : Makes(h, s1, g) =>
       AddedWhere(LxdPackages(c, Facts["lxd"]) # {}, h, g, <<"packages">>, LxdPackages(c, Facts["lxd"]))
  /\ \A h, g : Makes(h, s2, g) => SetWhere(Get(c, "init", <<>>) # <<>>, h, g, <<"lxd", "init">>, c.init)

LEMMA LxdFirst == ASSUME NEW c PROVE \E s1, s2 : LxdParts(c, s1, s2)
  <1> DEFINE pkgs == LxdPackages(c, Facts["lxd"])
             b1 == pkgs # {}
             init == c.init
             b2 == Get(c, "init", <<>>) # <<>>
             P == <<"packages">>
             N == <<"lxd", "init">>
             s1 == If(b1, <<Effect("add", P, pkgs, "stop")>>)
             s2 == If(b2, <<Effect("set", N, init, "raise")>>)
  <1>1. \A h : Effects("lxd", c, h) = (s1 \o s2) \o <<Resume>>
    BY DEF Effects, LxdEffects, RunSettings
  <1>2. b1 \in BOOLEAN /\ b2 \in BOOLEAN
    OBVIOUS
  <1> HIDE DEF pkgs, b1, init, b2, P, N
  <1>3. \A p, w : Effect("add", p, w, "stop").op # "resume" /\ Effect("set", p, w, "raise").op # "resume"
    BY OpsAre
  <1>4. Straight(<<Effect("add", P, pkgs, "stop")>>) /\ Straight(<<Effect("set", N, init, "raise")>>)
    BY <1>3, StraightOne
  <1>5. Straight(s1) /\ Straight(s2)
    BY <1>4, StraightIf
  <1>6. \A h, g : Makes(h, s1, g) => AddedWhere(b1, h, g, P, pkgs)
    BY <1>2, AddIf
  <1>7. \A h, g : Makes(h, s2, g) => SetWhere(b2, h, g, N, init)
    BY <1>2, SetIf
  <1> HIDE DEF s1, s2
  <1>8. LxdParts(c, s1, s2)
    BY <1>1, <1>5, <1>6, <1>7 DEF LxdParts, pkgs, b1, init, b2, P, N
  <1> QED BY <1>8

LEMMA LxdShape == ASSUME NEW c PROVE Shape("lxd", c)
  <1>1. PICK s1, s2 : LxdParts(c, s1, s2)
    BY LxdFirst
  <1> DEFINE a == s1 \o s2
  <1>2. Straight(a) /\ \A h : Effects("lxd", c, h) = a \o <<Resume>>
    BY <1>1, StraightJoined DEF LxdParts
  <1> HIDE DEF a
  <1> QED BY <1>2, LxdThen DEF Shape

LEMMA LxdMakes ==
  ASSUME NEW c, NEW f0, NEW f, Whole("lxd", c, f0, f)
  PROVE  \E g1, g2 :
         /\ AddedWhere(LxdPackages(c, Facts["lxd"]) # {}, f0, g1, <<"packages">>, LxdPackages(c, Facts["lxd"]))
         /\ SetWhere(Get(c, "init", <<>>) # <<>>, g1, g2, <<"lxd", "init">>, c.init)
         /\ LxdStep(c, Facts["lxd"], g2, f)
  <1>1. PICK s1, s2 : LxdParts(c, s1, s2)
    BY LxdFirst
  <1> DEFINE a == s1 \o s2
  <1>2. Straight(a) /\ \A h : Effects("lxd", c, h) = a \o <<Resume>>
    BY <1>1, StraightJoined DEF LxdParts
  <1> HIDE DEF a
  <1>3. PICK g2 : Makes(f0, a, g2) /\ Makes(g2, Rest("lxd", c, g2), f)
    BY <1>2, TwoLists
  <1>4. PICK g1 : Makes(f0, s1, g1) /\ Makes(g1, s2, g2)
    BY <1>1, <1>3, MadeJoined DEF a, LxdParts
  <1> QED BY <1>1, <1>3, <1>4, LxdThen DEF LxdParts

LEMMA LxdHolds ==
  ASSUME NEW c, NEW f0, NEW f, Whole("lxd", c, f0, f)
  PROVE  /\ LxdInEffect(c, Facts["lxd"], f)
         /\ \A g : Whole("lxd", c, f, g) => SameFiles(f, g)
  <1> DEFINE m == Facts["lxd"]
             pkgs == LxdPackages(c, m)
             b1 == pkgs # {}
             init == c.init
             b2 == Get(c, "init", <<>>) # <<>>
             P == <<"packages">>
             N == <<"lxd", "init">>
             D == <<"lxd", "debconf">>
             B == LxdBridge
             n == <<"bridges">>
             t == <<"attached">>
             nw == One(BridgeName(c), BridgeSaid(c))
             tw == {BridgeName(c)}
             asks == BridgeToDebconf(c.bridge)
             has == HasBridge(c)
             by(h) == ByPackage(m, h)
             new == c.bridge.mode = "new"
             Own(h, k, g) == SetWhere(TRUE, h, k, n, nw) /\ AddedWhere(TRUE, k, g, t, tw)
             Theirs(h, k1, k2, g) ==
               /\ SetWhere(TRUE, h, k1, D, asks) /\ SameBut(k1, k2, B) /\ B \in DOMAIN g /\ SameBut(k2, g, B)
               /\ g[B] = asks ++ Get(h, D, <<>>)
  <1>1. \A h0, h : Whole("lxd", c, h0, h) =>
          \E g1, g2 : AddedWhere(b1, h0, g1, P, pkgs) /\ SetWhere(b2, g1, g2, N, init) /\ LxdStep(c, m, g2, h)
    BY LxdMakes
  <1>2. \A h, g : LxdStep(c, m, h, g) =>
          \/ ~has /\ g = h
          \/ has /\ ~by(h) /\ ~new /\ g = h
          \/ has /\ ~by(h) /\ new /\ \E k : Own(h, k, g)
          \/ has /\ by(h) /\ \E k1, k2 : Theirs(h, k1, k2, g)
    BY DEF LxdStep
  <1>3. /\ P # N /\ P # D /\ P # B /\ P # n /\ P # t /\ N # D /\ N # B /\ N # n /\ N # t
        /\ D # B /\ D # n /\ D # t /\ B # n /\ B # t /\ n # t
    BY DEF LxdBridge
  <1>4. b1 \in BOOLEAN /\ b2 \in BOOLEAN
    OBVIOUS
  <1>5. \A h, g : (B \in DOMAIN h <=> B \in DOMAIN g) => (by(h) <=> by(g))
    BY DEF ByPackage
  <1>6. \A h : by(h) => B \in DOMAIN h
    BY DEF ByPackage
  <1>7. \A h : \/ ~has
               \/ B \in DOMAIN h /\ \A q \in DOMAIN asks : h[B][q] = asks[q]
               \/ ~new
               \/ BridgeName(c) \in h[t] /\ BridgeName(c) \in DOMAIN h[n]
               => LxdInEffect(c, m, h)
    BY DEF LxdInEffect, HasBridge, BridgeName
  <1>8. BridgeName(c) \in DOMAIN nw /\ BridgeName(c) \in tw
    BY DEF One
  <1> HIDE DEF m, pkgs, b1, init, b2, P, N, D, B, n, t, nw, tw, asks, has, by, new
  <1>9. PICK g1, g2 : AddedWhere(b1, f0, g1, P, pkgs) /\ SetWhere(b2, g1, g2, N, init) /\ LxdStep(c, m, g2, f)
    BY <1>1
  <1>10. /\ b1 => P \in DOMAIN g1 /\ pkgs \subseteq g1[P]
         /\ b2 => N \in DOMAIN g2 /\ init ++ g2[N] = g2[N]
         /\ \A q : q # N => (q \in DOMAIN g2 <=> q \in DOMAIN g1) /\ (q \in DOMAIN g1 => g2[q] = g1[q])
    BY <1>4, <1>9, AddedIs, SetWhereIs
  <1>11. \A h, k, g : Own(h, k, g) =>
           /\ n \in DOMAIN g /\ g[n] = nw ++ Get(h, n, <<>>) /\ t \in DOMAIN g /\ tw \subseteq g[t]
           /\ \A q : q # n /\ q # t => (q \in DOMAIN g <=> q \in DOMAIN h) /\ (q \in DOMAIN h => g[q] = h[q])
    BY <1>3 DEF SetWhere, AddedWhere, SameBut
  <1>12. \A h, k1, k2, g : Theirs(h, k1, k2, g) =>
           /\ D \in DOMAIN g /\ g[D] = asks ++ Get(h, D, <<>>) /\ B \in DOMAIN g /\ g[B] = asks ++ Get(h, D, <<>>)
           /\ \A q : q # D /\ q # B => (q \in DOMAIN g <=> q \in DOMAIN h) /\ (q \in DOMAIN h => g[q] = h[q])
    BY <1>3 DEF SetWhere, SameBut
  <1> HIDE DEF Own, Theirs
  <1>13. /\ b1 => P \in DOMAIN f /\ pkgs \subseteq f[P]
         /\ b2 => N \in DOMAIN f /\ init ++ f[N] = f[N]
         /\ B \in DOMAIN f <=> B \in DOMAIN g2
    <2>1. \A q : q \in {P, N} => (q \in DOMAIN f <=> q \in DOMAIN g2) /\ (q \in DOMAIN g2 => f[q] = g2[q])
      BY <1>2, <1>3, <1>9, <1>11, <1>12
    <2>2. B \in DOMAIN f <=> B \in DOMAIN g2
      BY <1>2, <1>3, <1>6, <1>9, <1>11, <1>12
    <2>3. QED
      BY <1>3, <1>10, <2>1, <2>2
  <1>14. LxdInEffect(c, m, f)
    <2>1. CASE ~has \/ ~new
      BY <1>7, <2>1
    <2>2. ASSUME NEW k, Own(g2, k, f) PROVE LxdInEffect(c, m, f)
      <3>1. f[n] = nw ++ Get(g2, n, <<>>) /\ tw \subseteq f[t]
        BY <1>11, <2>2
      <3>2. \A q \in DOMAIN nw : q \in DOMAIN f[n]
        BY <3>1, SettingsOverTwo
      <3>3. QED
        BY <1>7, <1>8, <3>1, <3>2
    <2>3. ASSUME NEW k1, NEW k2, Theirs(g2, k1, k2, f) PROVE LxdInEffect(c, m, f)
      <3>1. B \in DOMAIN f /\ f[B] = asks ++ Get(g2, D, <<>>)
        BY <1>12, <2>3
      <3>2. \A q \in DOMAIN asks : f[B][q] = asks[q]
        BY <3>1, SettingsOverTwo
      <3>3. QED
        BY <1>7, <3>1, <3>2
    <2>4. QED
      BY <1>2, <1>9, <2>1, <2>2, <2>3
  <1>15. ASSUME NEW g, Whole("lxd", c, f, g) PROVE SameFiles(f, g)
    <2>1. PICK h1, h2 : AddedWhere(b1, f, h1, P, pkgs) /\ SetWhere(b2, h1, h2, N, init) /\ LxdStep(c, m, h2, g)
      BY <1>1, <1>15
    <2>2. Alike(f, h1)
      BY <1>4, <1>13, <2>1, AddedIs
    <2>3. Alike(h1, h2)
      <3>1. b2 => N \in DOMAIN h1 /\ init ++ h1[N] = h1[N]
        BY <1>13, <2>2 DEF Alike
      <3>2. QED
        BY <1>4, <2>1, <3>1, SetWhereIs
    <2>4. Alike(f, h2)
      BY <2>2, <2>3 DEF Alike
    <2>5. by(h2) <=> by(g2)
      BY <1>5, <1>13, <2>4 DEF Alike
    <2>6. CASE ~has \/ (~by(h2) /\ ~new)
      <3>1. g = h2
        BY <1>2, <2>1, <2>6
      <3>2. QED
        BY <2>4, <3>1, AlikeIsSame
    <2>7. CASE has /\ ~by(h2) /\ new
      <3>1. PICK k : Own(h2, k, g)
        BY <1>2, <2>1, <2>7
      <3>2. PICK k0 : Own(g2, k0, f)
        BY <1>2, <1>9, <2>5, <2>7
      <3>3. /\ n \in DOMAIN f /\ nw ++ f[n] = f[n] /\ t \in DOMAIN f /\ tw \subseteq f[t]
        BY <1>11, <3>2, SettingsOverTwo
      <3>4. /\ n \in DOMAIN h2 /\ nw ++ h2[n] = h2[n] /\ t \in DOMAIN h2 /\ tw \subseteq h2[t]
        BY <2>4, <3>3 DEF Alike
      <3>5. SetWhere(TRUE, h2, k, n, nw) /\ AddedWhere(TRUE, k, g, t, tw)
        BY <3>1 DEF Own
      <3>6. Alike(h2, k)
        BY <3>4, <3>5 DEF SetWhere, SameBut, Get, Alike
      <3>7. t \in DOMAIN k /\ tw \subseteq k[t]
        BY <3>4, <3>6 DEF Alike
      <3>8. Alike(k, g)
        BY <3>5, <3>7 DEF AddedWhere, SameBut, Get, Alike
      <3>9. Alike(f, g)
        BY <2>4, <3>6, <3>8 DEF Alike
      <3>10. QED
        BY <3>9, AlikeIsSame
    <2>8. CASE has /\ by(h2)
      <3>1. PICK k1, k2 : Theirs(h2, k1, k2, g)
        BY <1>2, <2>1, <2>8
      <3>2. PICK k3, k4 : Theirs(g2, k3, k4, f)
        BY <1>2, <1>9, <2>5, <2>8
      <3>3. /\ D \in DOMAIN f /\ asks ++ f[D] = f[D] /\ B \in DOMAIN f /\ f[B] = f[D]
        BY <1>12, <3>2, SettingsOverTwo
      <3>4. Get(h2, D, <<>>) = f[D]
        BY <2>4, <3>3 DEF Get, Alike
      <3>5. /\ D \in DOMAIN g /\ g[D] = f[D] /\ B \in DOMAIN g /\ g[B] = f[B]
            /\ \A q : q # D /\ q # B => (q \in DOMAIN g <=> q \in DOMAIN h2) /\ (q \in DOMAIN h2 => g[q] = h2[q])
        BY <1>12, <3>1, <3>3, <3>4
      <3>6. Alike(f, g)
        BY <2>4, <3>3, <3>5 DEF Alike
      <3>7. QED
        BY <3>6, AlikeIsSame
    <2>9. QED
      BY <2>6, <2>7, <2>8
  <1> QED BY <1>14, <1>15 DEF m

----------------------------------------------------------------------------
(* All of them.                                                             *)

\* Modules that carry out a fixed list of effects, whatever the configuration.
FixedModules == {"resolv_conf", "landscape", "mcollective", "ntp", "upgrade", "lxd"}

LEMMA EffectsOfOne ==
  /\ \A c, f : Effects("resolv_conf", c, f) = ResolvEffects(c, Facts["resolv_conf"])
  /\ \A c, f : Effects("ntp", c, f) = NtpEffects(c, Facts["ntp"], f)
  BY DEF Effects

LEMMA ShapeOfOne ==
  ASSUME NEW m, NEW c, \A f : Straight(Effects(m, c, f)) PROVE Shape(m, c)
  BY DEF Shape

LEMMA FixedShape == ASSUME NEW m \in FixedModules, NEW c PROVE Shape(m, c)
  <1>1. Shape("resolv_conf", c)
    <2>1. \A f : Straight(Effects("resolv_conf", c, f))
      BY EffectsOfOne, ResolvStraight
    <2>2. QED
      BY <2>1, ShapeOfOne
  <1>2. Shape("ntp", c)
    <2>1. \A f : Straight(Effects("ntp", c, f))
      BY EffectsOfOne, NtpStraight
    <2>2. QED
      BY <2>1, ShapeOfOne
  <1> QED BY <1>1, <1>2, LandscapeShape, McoShape, UpgradeShape, LxdShape DEF FixedModules

LEMMA FixedHolds ==
  ASSUME NEW m \in FixedModules, NEW c, NEW f0, NEW f, Whole(m, c, f0, f)
  PROVE  InEffect(m, c, f0, f) /\ \A g : Whole(m, c, f, g) => SameFiles(f, g)
  <1>1. CASE m = "resolv_conf"
    <2> DEFINE w == Facts["resolv_conf"]
    <2>1. \A h, g : Whole("resolv_conf", c, h, g) => Makes(h, ResolvEffects(c, w), g)
      <3>1. \A h : Straight(Effects("resolv_conf", c, h))
        BY EffectsOfOne, ResolvStraight
      <3>2. \A h, g : Whole("resolv_conf", c, h, g) => Makes(h, Effects("resolv_conf", c, h), g)
        BY <3>1, OneList
      <3>3. QED
        BY <3>2, EffectsOfOne
    <2>2. InEffect("resolv_conf", c, f0, f) <=> ResolvInEffect(c, w, f)
      BY DEF InEffect
    <2> HIDE DEF w
    <2>3. QED
      BY <1>1, <2>1, <2>2, ResolvHolds
  <1>2. CASE m = "ntp"
    <2> DEFINE w == Facts["ntp"]
    <2>1. \A h, g : Whole("ntp", c, h, g) => Makes(h, NtpEffects(c, w, h), g)
      <3>1. \A h : Straight(Effects("ntp", c, h))
        BY EffectsOfOne, NtpStraight
      <3>2. \A h, g : Whole("ntp", c, h, g) => Makes(h, Effects("ntp", c, h), g)
        BY <3>1, OneList
      <3>3. QED
        BY <3>2, EffectsOfOne
    <2>2. InEffect("ntp", c, f0, f) <=> NtpInEffect(c, w, f)
      BY DEF InEffect
    <2> HIDE DEF w
    <2>3. QED
      BY <1>2, <2>1, <2>2, NtpHolds
  <1>3. CASE m = "landscape"
    <2>1. InEffect("landscape", c, f0, f) <=> LandscapeInEffect(c, f0, f)
      BY DEF InEffect
    <2>2. QED
      BY <1>3, <2>1, LandscapeHolds
  <1>4. CASE m = "mcollective"
    <2>1. InEffect("mcollective", c, f0, f) <=> McoInEffect(c, f0, f)
      BY DEF InEffect
    <2>2. QED
      BY <1>4, <2>1, McoHolds
  <1>5. CASE m = "upgrade"
    <2>1. InEffect("upgrade", c, f0, f) <=> UpgradeInEffect(c, f)
      BY DEF InEffect
    <2>2. QED
      BY <1>5, <2>1, UpgradeHolds
  <1>6. CASE m = "lxd"
    <2>1. InEffect("lxd", c, f0, f) <=> LxdInEffect(c, Facts["lxd"], f)
      BY DEF InEffect
    <2>2. QED
      BY <1>6, <2>1, LxdHolds
  <1> QED BY <1>1, <1>2, <1>3, <1>4, <1>5, <1>6 DEF FixedModules

\* The files of a machine are what the list of its module, without a gap and in
\* its order, has made of those the run found (Modules._run_modules, the handlers).
THEOREM RunsAsListed == ConfSpec => [](module \in FixedModules => RunsInv)
  <1> DEFINE I == module \in FixedModules => RunsInv
  <1>1. ConfInit => I
    BY RunsInit
  <1>2. I /\ [ConfNext]_confVars => I'
    <2>1. SUFFICES ASSUME I, [ConfNext]_confVars, module' \in FixedModules PROVE RunsInv'
      OBVIOUS
    <2>2. module' = module
      BY <2>1 DEF ConfNext, confVars, Handle, AnotherInstance, Succeeds, Reads, Raises, CommandFails, HandlerReturns,
                  HandlerKilled, Stays, End, Continue
    <2>3. RunsInv /\ Shape(module, asked)
      BY <2>1, <2>2, FixedShape
    <2>4. QED
      BY <2>1, <2>3, RunsStep
  <1> QED BY <1>1, <1>2, PTL DEF ConfSpec

\* What a configuration asks of one of these modules is in effect when it has run
\* without a failure, whatever is on the machine, whatever the configuration says
\* and however many runs failed or were killed before.
THEOREM FixedTakeEffect == ConfSpec => [](module \in FixedModules => TakesEffect)
  <1>1. (module \in FixedModules => RunsInv) => (module \in FixedModules => TakesEffect)
    BY FixedHolds DEF RunsInv, TakesEffect, Complete
  <1> QED BY <1>1, RunsAsListed, PTL

\* To run one of them again leaves the machine as it is.
THEOREM FixedAgainTheSame == ConfSpec => [](module \in FixedModules => AgainIsTheSame)
  <1>1. ASSUME module \in FixedModules, RunsInv, Complete, again
        PROVE  SameFiles(found, files)
    <2>1. Whole(module, asked, found, files) /\ \E f0 : Whole(module, asked, f0, found)
      BY <1>1 DEF RunsInv, Complete
    <2>2. QED
      BY <1>1, <2>1, FixedHolds
  <1>2. (module \in FixedModules => RunsInv) => (module \in FixedModules => AgainIsTheSame)
    BY <1>1 DEF AgainIsTheSame, SameFiles
  <1> QED BY <1>2, RunsAsListed, PTL
=============================================================================
