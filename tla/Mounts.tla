-------------------------------- MODULE Mounts --------------------------------
(***************************************************************************)
(* cc_mounts: /etc/fstab from the entries of the configuration, the default *)
(* ones for an ephemeral disk and for swap, and a swap file.  Lines it      *)
(* wrote bear a comment, by which the next run knows them, of this instance *)
(* or of a later one.  An entry is [spec, file]; file may be null, which    *)
(* takes back what was said of the device before it.                        *)
(***************************************************************************)
EXTENDS Names

CONSTANTS Real,     \* instance -> name of a device -> the device there, or NoDevice
          NoDevice, Null,
          UserLines \* lines without the comment, of the image

\* The file of the image and the entries of a configuration are sequences.
ASSUME MountsAssumption ==
    /\ UserLines \in Seq(Range(UserLines))
    /\ \A c \in Configs \cup {System} :
          "mounts" \in DOMAIN c => c.mounts \in Seq(Range(c.mounts))

VARIABLES fstab,     \* lines: [spec, file, ours]
          swapFile   \* "absent", "made", "used"

mounts == <<fstab, swapFile>>

\* What a sequence has at some of its places, in its order.
Only(s, places) == FlattenSeq([n \in DOMAIN s |-> IF n \in places THEN <<s[n]>> ELSE <<>>])

MountsInit == fstab = UserLines /\ swapFile = "absent"

Entry(s, f) == [spec |-> s, file |-> f]

\* sanitize_devname finds the device of a name: partitions, names of the metadata
\* and short names are all Real's.  An entry whose device is not there stays as it is.
Sanitized(e) == IF Real[inst][e.spec] = NoDevice THEN e ELSE [e EXCEPT !.spec = Real[inst][e.spec]]

CfgEntries == IF Says("mounts") THEN [n \in DOMAIN cfg.mounts |-> Sanitized(cfg.mounts[n])]
              ELSE <<>>

\* The default mounts whose device is there and not named in the configuration.
DefaultEntries ==
    LET named == {e.spec : e \in Range(CfgEntries)}
        defs  == <<Entry("ephemeral0", "/mnt"), Entry("swap", "none")>>
    IN  Only(defs, {n \in DOMAIN defs : Real[inst][defs[n].spec] \notin named \cup {NoDevice}})

\* Mutant: a null takes back only its own entry.
TakenBack_Itself(n) == CfgEntries[n].file = Null

\* The file is null, or is made so by a later entry for the device.
TakenBack(n) == \E m \in n..Len(CfgEntries) :
    CfgEntries[m].spec = CfgEntries[n].spec /\ CfgEntries[m].file = Null

\* actlist: what is to be in fstab, with the swap file if there is one.
ActList(swap) ==
    LET kept == Only(CfgEntries, {n \in DOMAIN CfgEntries : ~TakenBack(n)})
        defs == [n \in DOMAIN DefaultEntries |-> Sanitized(DefaultEntries[n])]
    IN  kept \o defs \o (IF swap THEN <<Entry("/swap.img", "none")>> ELSE <<>>)

\* The lines without the comment,
Foreign(lines) == Only(lines, {n \in DOMAIN lines : ~lines[n].ours})

\* and then those of actlist with it.
Written(lines, acts) ==
    Foreign(lines) \o [n \in DOMAIN acts |-> [spec |-> acts[n].spec, file |-> acts[n].file, ours |-> TRUE]]

(* handle_swapcfg: a file in use, or made now; making it may fail.          *)
SwapReturns(swap) ==
    /\ swap => Says("swap")
    /\ ~swap => ~Says("swap") \/ swapFile # "used"
    /\ swapFile' \in IF ~Says("swap") \/ swapFile = "used" THEN {swapFile}
                     ELSE IF swap THEN {"made"} ELSE {"absent", swapFile}

(* handle.  Without entries the file is left alone; so are its old lines.   *)
HandleMounts ==
    \E swap \in BOOLEAN :
       /\ SwapReturns(swap)
       /\ fstab' = IF ActList(swap) = <<>> THEN fstab ELSE Written(fstab, ActList(swap))

(* A boot: the swap file is used if fstab names it.                         *)
SwapAtBoot ==
    /\ swapFile' = IF swapFile = "absent" THEN "absent"
                   ELSE IF \E n \in DOMAIN fstab : fstab[n].spec = "/swap.img" THEN "used"
                   ELSE "made"
    /\ UNCHANGED fstab

(* The user mounts something, with a line of their own.                     *)
UserMounts(l) ==
    /\ l \notin Range(fstab) /\ ~l.ours
    /\ fstab' = Append(fstab, l)
    /\ UNCHANGED swapFile

----------------------------------------------------------------------------
\* Run again for an instance - Azure has it run again on a new disk - cc_mounts comes
\* to the same file: it finds all of its lines, and only those; and but for the swap file,
\* which goes by the configuration of swap, it mounts a device of the configuration as an
\* entry says that no null takes back.
FstabSettles ==
    \A swap \in BOOLEAN :
        LET once == Written(fstab, ActList(swap))
        IN  /\ Written(once, ActList(swap)) = once
            /\ Foreign(once) = Foreign(fstab)
            /\ \A n \in DOMAIN once, m \in DOMAIN CfgEntries :
                  /\ once[n].ours /\ once[n].spec = CfgEntries[m].spec /\ once[n].spec # "/swap.img"
                  => \E k \in DOMAIN CfgEntries :
                        /\ CfgEntries[k].spec = once[n].spec /\ CfgEntries[k].file = once[n].file
                        /\ \A j \in k..Len(CfgEntries) :
                              CfgEntries[j].file = Null => CfgEntries[j].spec # once[n].spec

\* The file stays a sequence of lines, as what the modules are told of mounts is one.
FstabTypeOK ==
    /\ fstab \in Seq(Range(fstab))
    /\ Says("mounts") => cfg.mounts \in Seq(Range(cfg.mounts))
=============================================================================
