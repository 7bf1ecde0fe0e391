----------------------------- MODULE Consumption -----------------------------
(***************************************************************************)
(* What becomes of user-data and vendor-data over the boots of an image.    *)
(* User-data is a cloud-config, or an include of one, which may be marked   *)
(* to be fetched once for the instance.  It is processed in every boot, or  *)
(* taken from the pickled datasource when that still checks out; the result *)
(* is a file of the instance.  Vendor-data is used if the configuration     *)
(* says so, and has a file as well.  The modules see both files, the user's *)
(* first.  A configuration is a function from keys to values.               *)
(***************************************************************************)
EXTENDS Naturals, FiniteSets, TLC

CONSTANTS Instances,
          Configs,     \* what a cloud-config may say; <<>> says nothing
          Served,      \* what a server may have where an include points
          Worlds,      \* the [kind, cfg] of user-data and [given, cfg] of vendor-data
                       \* that the cloud has for each instance, and how often
                       \* the image is booted: [data, vendor, boots]
          System,      \* the configuration of the system, below everything else
          Checks       \* what check_instance_id may say of the instance that boots

ASSUME ConsumptionAssumption ==
    /\ <<>> \in Configs /\ Served \subseteq Configs /\ "vendor_data" \in DOMAIN System
    /\ \A c \in Configs \cup {System} : "vendor_data" \in DOMAIN c => c.vendor_data \in {"on", "off"}
    /\ \A w \in Worlds :
         /\ w.data \in [Instances -> [kind : {"plain", "include", "once"}, cfg : Configs]]
         /\ w.vendor \in [Instances -> [given : BOOLEAN, cfg : Configs]]

VARIABLES data, vendor,      \* of each instance, as the cloud has them
          pkl,               \* obj.pkl: is the datasource there, and has it processed user-data?
          urlcache,          \* the file of the include, below data/urlcache
          userFile, vendorFile,  \* cloud-config.txt and vendor-cloud-config.txt
          boots,             \* how many boots are left
          inst,              \* the instance that boots
          processed,         \* userdata of the datasource in memory
          base,              \* Init.cfg, as it was read when the instance was set
          cfg,               \* the configuration the modules run with
          consumed,          \* was vendor-data consumed in this boot?
          onced,             \* history: contents of an include-once that were consumed
          torn,              \* history: instances whose cache was cut short
          said               \* history: what user-data said in the boots of an instance of vendor_data

cloud == <<data, vendor>>
files == <<pkl, urlcache, userFile, vendorFile>>
process == <<inst, processed, base, cfg, consumed>>
cvars == <<cloud, files, boots, process, onced, torn, said>>

Absent == [there |-> FALSE, cfg |-> <<>>]
Holding(c) == [there |-> TRUE, cfg |-> c]
Slot == [there : BOOLEAN, cfg : Configs]

ConsumptionInit ==
    /\ \E w \in Worlds : data = w.data /\ vendor = w.vendor /\ boots = w.boots
    /\ pkl = [i \in Instances |-> [there |-> FALSE, data |-> Absent]]
    /\ urlcache = [i \in Instances |-> Absent]
    /\ userFile = [i \in Instances |-> Absent] /\ vendorFile = [i \in Instances |-> Absent]
    /\ inst \in Instances /\ processed = Absent
    /\ base = <<>> /\ cfg = <<>> /\ consumed = FALSE
    /\ onced = [i \in Instances |-> {}] /\ torn = {} /\ said = [i \in Instances |-> {}]

----------------------------------------------------------------------------
\* mergemanydict: the first to say something of a key has it.
Over(f, g) == [k \in DOMAIN f \cup DOMAIN g |-> IF k \in DOMAIN f THEN f[k] ELSE g[k]]
Merged(i) == Over(userFile[i].cfg, Over(vendorFile[i].cfg, System))

(* The stages that find the datasource, and instancify: the pickled one if    *)
(* check_instance_id says so, with what it has processed; the configuration *)
(* is read again with the files the instance has from earlier boots.        *)
Instancify(i) == \E same \in Checks :
    LET old == IF same /\ pkl[i].there THEN pkl[i].data ELSE Absent
    IN  /\ boots > 0 /\ boots' = boots - 1
        /\ inst' = i
        /\ processed' = old
        /\ pkl' = [pkl EXCEPT ![i] = [there |-> TRUE, data |-> old]]
        /\ base' = Merged(i)
        /\ cfg' = <<>> /\ consumed' = FALSE
        /\ UNCHANGED <<cloud, urlcache, userFile, vendorFile, onced, torn, said>>

\* Mutant: the file of an include-once is written, and never looked for.
IncludeOnceCached_Never == FALSE

\* isfile(include_once_fn)
IncludeOnceCached == data[inst].kind = "once" /\ urlcache[inst].there

Keep(c) == processed' = Holding(c) /\ UNCHANGED <<inst, base, cfg, consumed>>

(* Init.update, get_userdata: what was processed before stays.              *)
ProcessAgain ==
    /\ processed.there
    /\ UNCHANGED cvars

(* convert_string and _process_msg of a cloud-config.                       *)
ProcessPlain ==
    /\ ~processed.there /\ data[inst].kind = "plain"
    /\ Keep(data[inst].cfg)
    /\ UNCHANGED <<cloud, boots, files, onced, torn, said>>

(* _do_include, of a url read before and to be read once.                   *)
IncludeFromCache ==
    /\ ~processed.there /\ IncludeOnceCached
    /\ Keep(urlcache[inst].cfg)
    /\ UNCHANGED <<cloud, boots, files, onced, torn, said>>

(* _do_include: what the server has today, kept if it is to be read once.   *)
IncludeFetched(c) ==
    /\ ~processed.there /\ data[inst].kind \in {"include", "once"} /\ ~IncludeOnceCached
    /\ Keep(c)
    /\ urlcache' = IF data[inst].kind = "once" THEN [urlcache EXCEPT ![inst] = Holding(c)]
                   ELSE urlcache
    /\ UNCHANGED <<cloud, boots, pkl, userFile, vendorFile, onced, torn, said>>

(* An answer that is no error and not ok: a warning, and no part.           *)
IncludeNotOk ==
    /\ ~processed.there /\ data[inst].kind \in {"include", "once"} /\ ~IncludeOnceCached
    /\ Keep(<<>>)
    /\ UNCHANGED <<cloud, boots, files, onced, torn, said>>

Process ==
    \/ ProcessAgain \/ ProcessPlain \/ IncludeFromCache \/ IncludeNotOk
    \/ \E c \in Served : IncludeFetched(c)

(* read_file_or_url raises after its retries: the stage ends.               *)
IncludeRaises ==
    /\ ~processed.there /\ data[inst].kind \in {"include", "once"} /\ ~IncludeOnceCached
    /\ UNCHANGED cvars

(* The process is killed in write_file of the url cache: an empty file.     *)
IncludeTorn ==
    /\ ~processed.there /\ data[inst].kind = "once" /\ ~IncludeOnceCached
    /\ urlcache' = [urlcache EXCEPT ![inst] = Holding(<<>>)]
    /\ torn' = torn \cup {inst}
    /\ UNCHANGED <<cloud, boots, pkl, userFile, vendorFile, process, onced, said>>

\* What a configuration says of vendor-data.
Saying(c) == IF "vendor_data" \in DOMAIN c THEN c.vendor_data ELSE "silent"

(* _consume_userdata: the cloud-config handler writes its file in every boot. *)
ConsumeUserdata ==
    /\ userFile' = [userFile EXCEPT ![inst] = processed]
    /\ onced' = IF data[inst].kind = "once" /\ urlcache[inst].there
                THEN [onced EXCEPT ![inst] = @ \cup {processed.cfg}] ELSE onced
    /\ said' = [said EXCEPT ![inst] = @ \cup {Saying(processed.cfg)}]
    /\ UNCHANGED <<cloud, boots, pkl, urlcache, vendorFile, process, torn>>

\* Mutant: the system's configuration is asked first.
VendorEnabled_SystemFirst == Over(base, userFile[inst].cfg).vendor_data = "on"

\* The ConfigMerger of _consume_vendordata: without the file of vendor-data, but
\* over Init.cfg, which has it when an earlier boot wrote it.
VendorEnabled == Over(userFile[inst].cfg, base).vendor_data = "on"

(* _consume_vendordata, _reset of the configuration, and activate, which     *)
(* pickles the datasource with what it has processed.                       *)
ConsumeVendordata ==
    /\ consumed' = (vendor[inst].given /\ VendorEnabled)
    /\ vendorFile' = IF consumed' THEN [vendorFile EXCEPT ![inst] = Holding(vendor[inst].cfg)]
                     ELSE vendorFile
    /\ pkl' = [pkl EXCEPT ![inst] = [there |-> TRUE, data |-> processed]]
    /\ UNCHANGED <<cloud, boots, urlcache, userFile, inst, processed, base, onced, torn, said>>
    /\ cfg' = Merged(inst)'

(* A later stage: a process of its own that reads the files.                *)
ReadConfig ==
    /\ cfg' = Merged(inst)
    /\ UNCHANGED <<cloud, boots, files, inst, processed, base, consumed, onced, torn, said>>

----------------------------------------------------------------------------
ConsumptionTypeOK ==
    /\ data \in [Instances -> [kind : {"plain", "include", "once"}, cfg : Configs]]
    /\ vendor \in [Instances -> [given : BOOLEAN, cfg : Configs]]
    /\ pkl \in [Instances -> [there : BOOLEAN, data : Slot]] /\ urlcache \in [Instances -> Slot]
    /\ userFile \in [Instances -> Slot] /\ vendorFile \in [Instances -> Slot] /\ processed \in Slot
    /\ inst \in Instances /\ consumed \in BOOLEAN /\ torn \subseteq Instances
    /\ onced \in [Instances -> SUBSET Configs]
    /\ said \in [Instances -> SUBSET {"on", "off", "silent"}]

\* An include-once is the same in all boots of an instance, whatever its server
\* says later - unless the file that keeps it was cut short.
OnceIsKept == \A i \in Instances \ torn : Cardinality(onced[i]) <= 1

\* A user who says no in all boots of an instance never meets its vendor-data, and
\* one who does not say no does, if the system and vendor-data itself agree.
UserDecides ==
    \A i \in Instances :
        /\ said[i] \subseteq {"off"} => ~vendorFile[i].there
        /\ /\ i = inst /\ cfg # <<>> /\ processed.there
           /\ said[i] \cap {"off"} = {} /\ System.vendor_data = "on"
           /\ vendor[i].given /\ "vendor_data" \notin DOMAIN vendor[i].cfg
           => vendorFile[i] = Holding(vendor[i].cfg)
=============================================================================
