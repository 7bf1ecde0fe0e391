-------------------------------- MODULE Boot --------------------------------
(***************************************************************************)
(* The life of a disk image under cloud-init: boot after boot, on one      *)
(* machine or cloned onto another, with stages that fail or are killed and *)
(* power that is lost between two writes.  Four processes per boot, ordered *)
(* by the systemd units (cmd/main.py: main_init for "local" and "network",  *)
(* main_modules for "config" and "final"), find out on which instance they  *)
(* run (stages.Init), remember it below /var/lib/cloud and /run/cloud-init, *)
(* render the network once per instance, consume its user-data once per    *)
(* instance and run its modules.                                           *)
(*                                                                         *)
(* An action that writes to disk writes one file, but where a tear of its   *)
(* own (TearIid, TearCache) says what half of it leaves.  A unit that fails *)
(* does not stop the next one (the units say Wants=, not Requires=).        *)
(* Not modelled: --force, which no unit passes; the files previous-* that   *)
(* are written and never read; the kernel command line's network config,    *)
(* which acts like SystemNetwork.                                          *)
(***************************************************************************)
EXTENDS Naturals

CONSTANTS Iids,           \* instance ids
          Machines,       \* the machines the image may boot on
          ManualChoices,  \* values manual_cache_clean may take in the image
          SystemNetwork,  \* "unset", "given" or "disabled": network: in the config
          Upstart,        \* TRUE: an upstart job may write no-net
          MayFail,        \* TRUE: stages may fail or be killed
          MayLosePower,   \* TRUE: a boot may end before its last stage has
          NoneListed,     \* TRUE: datasource_list ends with "None", as by default
          NoneIid,        \* "iid-datasource-none"
          Directory,      \* what the instance link is where a directory is in its place
          None

Unread == "unread"   \* Init._previous_iid before it is read
NetConfigs == [iid : Iids, src : {"ds", "system", "fallback"}]

\* DataSourceNone: what a search finds when nothing else is left, one for all machines.
NoneSource == [iid |-> NoneIid, class |-> "network", dsmode |-> "network",
               netcfg |-> FALSE, check |-> FALSE]
Sources == Machines \cup {NoneSource}

(* A machine is what its datasource says: the instance id, the stage whose  *)
(* dependencies the datasource's class has, its dsmode, whether it offers a *)
(* network config, and whether its check_instance_id can tell (without      *)
(* network) that a cached object is for another instance.                   *)
ASSUME BootAssumption ==
    /\ None \notin Iids \cup NetConfigs \cup {Unread, Directory} /\ Unread \notin Iids
    /\ NoneIid \in Iids /\ Directory \notin Iids /\ NoneListed \in BOOLEAN
    /\ Machines \subseteq [iid : Iids, class : {"local", "network"},
                           dsmode : {"local", "network"},
                           netcfg : BOOLEAN, check : BOOLEAN]
    /\ \A m \in Machines : m.iid # NoneIid
    /\ None \notin Sources
    /\ ManualChoices \subseteq BOOLEAN
    /\ SystemNetwork \in {"unset", "given", "disabled"}
    /\ Upstart \in BOOLEAN /\ MayFail \in BOOLEAN /\ MayLosePower \in BOOLEAN

VARIABLES
    machine,  \* the machine of this boot
    manual,   \* manual_cache_clean in the image's configuration
    link,     \* the instance link: whose directory it points to
    pkl,      \* instances/<iid>/obj.pkl: the datasource cached there
    marker,   \* instances with a manual-clean file
    iidFile,  \* data/instance-id
    runIid,   \* /run/cloud-init/.instance-id
    sem,      \* instances with the semaphore of consume_data
    ccFile,   \* instances whose cloud-config.txt was written
    fin,      \* instances with a boot-finished file
    net,      \* the network config on disk: for which instance, from where
    noNet,    \* data/no-net
    stage,    \* the process that runs
    pc,       \* where it is
    ds,       \* its Init.datasource
    prev      \* its Init._previous_iid

VARIABLES     \* history
    missed,     \* in this boot the network stage found DataSourceNone only
    checked,    \* in this boot the local stage decided about the cache
    failed,     \* in this boot a stage failed
    finNow,     \* in this boot the final stage wrote boot-finished
    unpurged,   \* in some boot the local stage did not come to purge_cache
    unrendered, \* a stage ended between data/instance-id and the network config,
                \* or a boot rendered a fallback and never came to data/instance-id
    torn,       \* data/instance-id was once left empty
    consumed,   \* how often user-data was consumed per instance (2: more)
    activated   \* instances activated since another one was recorded

disk == <<link, pkl, marker, iidFile, sem, ccFile, fin, net>>
process == <<stage, pc, ds, prev>>
world == <<machine, manual, runIid, noNet>>
history == <<missed, checked, failed, finNow, unpurged, unrendered, torn, consumed, activated>>
vars == <<machine, manual, link, pkl, marker, iidFile, runIid, sem, ccFile, fin, net, noNet,
          stage, pc, ds, prev,
          missed, checked, failed, finNow, unpurged, unrendered, torn, consumed, activated>>

Stages == {"local", "network", "config", "final", "up"}
PCs == {"start", "fetch", "find", "no_ds", "unlink", "link", "iid", "run_iid", "cache",
        "net", "setup", "consume", "sem", "handlers", "always", "activate", "recache",
        "modules"}
TypeOK ==
    /\ machine \in Machines /\ manual \in ManualChoices
    /\ link \in Iids \cup {None, Directory}
    /\ pkl \in [Iids -> Sources \cup {None}]
    /\ iidFile \in Iids \cup {None} /\ runIid \in Iids \cup {None}
    /\ marker \subseteq Iids /\ sem \subseteq Iids /\ ccFile \subseteq Iids
    /\ fin \subseteq Iids \cup {Directory}
    /\ net \in NetConfigs \cup {None} /\ noNet \in BOOLEAN
    /\ stage \in Stages /\ pc \in PCs
    /\ ds \in Sources \cup {None} /\ prev \in Iids \cup {None, Unread}
    /\ missed \in BOOLEAN /\ checked \in BOOLEAN /\ failed \in BOOLEAN /\ finNow \in BOOLEAN
    /\ unpurged \in BOOLEAN /\ unrendered \in BOOLEAN /\ torn \in BOOLEAN
    /\ consumed \in [Iids -> 0..2] /\ activated \subseteq Iids

----------------------------------------------------------------------------
At(s, c) == stage \in s /\ pc = c
InitStages == {"local", "network"}       \* the stages of main_init
ModuleStages == {"config", "final"}     \* the stages of main_modules
Goto(c) == pc' = c /\ UNCHANGED <<stage, ds, prev>>

NextStage ==
    CASE stage = "local" -> "network" [] stage = "network" -> "config"
      [] stage = "config" -> "final" [] OTHER -> "up"

\* The process ends and the unit ordered after it starts.
EndStage == stage' = NextStage /\ pc' = "start" /\ ds' = None /\ prev' = Unread

\* Mutant: the previous id is looked for below /run, which a reboot empties.
PreviousIid_FromRun == IF prev = Unread THEN runIid ELSE prev

\* Init.previous_iid.
PreviousIid == IF prev = Unread THEN iidFile ELSE prev

\* Mutant: only an image that never booted is new.
IsNew_FirstBootOnly == PreviousIid = None

\* Init.is_new_instance.
IsNew == PreviousIid = None \/ PreviousIid # ds.iid

\* Init._restore_from_cache: what the instance link leads to.
Cached == IF link \in Iids THEN pkl[link] ELSE None

\* Mutant: the local stage does not look for the marker.
Trust_NoMarker == stage # "local" \/ manual

\* main_init: the local stage checks the cache unless told to trust it.
Trust == stage # "local" \/ manual \/ link \in marker

\* Init._restore_from_checked_cache.
CacheValid ==
    /\ Cached # None
    /\ \/ runIid = Cached.iid
       \/ Trust
       \/ Cached.check /\ Cached.iid = machine.iid

\* sources.find_source, list_from_depends: the classes with exactly the stage's
\* dependencies are tried in the order of datasource_list; main_modules asks for
\* none.  DataSourceNone is listed with the dependencies of the network stage,
\* where it comes last, and with none at all.
MayFind == stage \in InitStages /\ machine.class = stage
NoneIsTried == NoneListed /\ stage # "local"

\* A source of the network stage that says all was done in the local one (OpenStack
\* and NoCloud can): that stage finds it, and ends without a trace of it.
Forgotten == machine.class = "network" /\ machine.dsmode = "local"

\* Init._find_networking_config.
NetSource(d) ==
    CASE SystemNetwork = "given" -> "system"
      [] SystemNetwork = "unset" /\ d # None /\ d.netcfg -> "ds"
      [] OTHER -> "fallback"
\* The fallback is made from the machine's own interfaces.
Rendered(d) == [iid |-> IF NetSource(d) = "ds" THEN d.iid ELSE machine.iid, src |-> NetSource(d)]

\* Init.apply_network_config.
ApplyNetworkConfig(d, new) ==
    IF SystemNetwork = "disabled" \/ ~new THEN UNCHANGED net ELSE net' = Rendered(d)

----------------------------------------------------------------------------
Init ==
    /\ machine \in Machines /\ manual \in ManualChoices
    /\ link = None /\ pkl = [i \in Iids |-> None] /\ iidFile = None /\ runIid = None
    /\ marker = {} /\ sem = {} /\ ccFile = {} /\ fin = {} /\ net = None /\ noNet = FALSE
    /\ stage = "local" /\ pc = "start" /\ ds = None /\ prev = Unread
    /\ missed = FALSE /\ checked = FALSE /\ failed = FALSE /\ finNow = FALSE
    /\ unpurged = FALSE /\ unrendered = FALSE /\ torn = FALSE
    /\ consumed = [i \in Iids |-> 0] /\ activated = {}

\* Mutant: purge_cache leaves boot-finished.
PurgeCache_KeepsFinished ==
    /\ At({"local"}, "start")
    /\ noNet' = FALSE
    /\ Goto("fetch")
    /\ UNCHANGED <<disk, machine, manual, runIid, history>>

(* main_init, stage 4, local: purge_cache removes boot-finished through the *)
(* instance link, and data/no-net goes.                                     *)
PurgeCache ==
    /\ At({"local"}, "start")
    /\ fin' = fin \ {link}
    /\ noNet' = FALSE
    /\ Goto("fetch")
    /\ UNCHANGED <<machine, manual, link, pkl, marker, iidFile, runIid, sem, ccFile, net>>
    /\ UNCHANGED history

(* An upstart job writes data/no-net when the network does not come up.     *)
NetworkTimesOut ==
    /\ Upstart /\ At({"network"}, "start") /\ ~noNet
    /\ noNet' = TRUE
    /\ UNCHANGED <<disk, process, machine, manual, runIid, history>>

(* main_init, stage 4, network: stop early when data/no-net is there.       *)
StopEarly ==
    /\ At({"network"}, "start") /\ noNet
    /\ EndStage
    /\ UNCHANGED <<disk, world, history>>

Proceed ==
    /\ \/ At({"network"}, "start") /\ ~noNet
       \/ At(ModuleStages, "start")
    /\ Goto("fetch")
    /\ UNCHANGED <<disk, world, history>>

Checked == checked' = (checked \/ stage = "local")

\* main_init, stage 5: a datasource of the local stage needs nothing more here.
\* main_modules goes straight to the modules.
AfterFetch(d) ==
    \/ /\ stage = "network" /\ d.dsmode = "local"
       /\ EndStage
    \/ /\ stage = "network" => d.dsmode # "local"
       /\ ds' = d
       /\ pc' = IF stage \in InitStages THEN "unlink" ELSE "modules"
       /\ UNCHANGED <<stage, prev>>

(* Init._get_data_source with a cache that holds.                           *)
FetchCached ==
    /\ pc = "fetch" /\ CacheValid
    /\ AfterFetch(Cached)
    /\ Checked
    /\ UNCHANGED <<disk, world, missed, failed, finNow, unpurged, unrendered, torn, consumed, activated>>

\* Mutant: a cache that does not hold stays reachable.
FetchDropsLink_KeepsLink ==
    /\ pc = "fetch" /\ ~CacheValid /\ link # Directory
    /\ Goto("find")
    /\ Checked
    /\ UNCHANGED <<disk, world, missed, failed, finNow, unpurged, unrendered, torn, consumed, activated>>

(* Init._get_data_source without one: the instance link goes first.         *)
FetchDropsLink ==
    /\ pc = "fetch" /\ ~CacheValid /\ link # Directory
    /\ link' = None
    /\ Goto("find")
    /\ Checked
    /\ UNCHANGED <<pkl, marker, iidFile, sem, ccFile, fin, net, world,
                   missed, failed, finNow, unpurged, unrendered, torn, consumed, activated>>

(* del_file does not remove a directory: it raises, and so does the stage.   *)
FetchRaises ==
    /\ pc = "fetch" /\ link = Directory
    /\ EndStage
    /\ failed' = TRUE
    /\ UNCHANGED <<disk, world, missed, checked, finNow, unpurged, unrendered, torn, consumed, activated>>

FindSource ==
    /\ pc = "find" /\ MayFind
    /\ AfterFetch(machine)
    /\ UNCHANGED <<disk, world, history>>

(* Nothing else is there for this stage, or it did not answer: the stage     *)
(* goes on with DataSourceNone, as with any other source.                   *)
FindNone ==
    /\ pc = "find" /\ NoneIsTried
    /\ AfterFetch(NoneSource)
    /\ missed' = (missed \/ stage = "network")
    /\ UNCHANGED <<disk, world, checked, failed, finNow, unpurged, unrendered, torn, consumed, activated>>

(* The search fails.  main_modules gives up; main_init still applies a      *)
(* network config.                                                          *)
FindNothing ==
    /\ pc = "find" /\ ~NoneIsTried
    /\ IF stage \in InitStages THEN Goto("no_ds") ELSE EndStage
    /\ UNCHANGED <<disk, world, history>>

ApplyWithoutDatasource ==
    /\ pc = "no_ds"
    /\ ApplyNetworkConfig(None, TRUE)
    /\ EndStage
    /\ UNCHANGED <<link, pkl, marker, iidFile, sem, ccFile, fin, world, history>>

(* Init._reflect_cur_instance, one file after the other.                    *)
Unlink ==
    /\ pc = "unlink"
    /\ link' = None
    /\ Goto("link")
    /\ UNCHANGED <<pkl, marker, iidFile, sem, ccFile, fin, net, world, history>>

Link ==
    /\ pc = "link"
    /\ link' = ds.iid
    /\ Goto("iid")
    /\ UNCHANGED <<pkl, marker, iidFile, sem, ccFile, fin, net, world, history>>

WriteIid ==
    /\ pc = "iid"
    /\ prev' = PreviousIid
    /\ iidFile' = ds.iid
    /\ activated' = IF iidFile \in {None, ds.iid} THEN activated ELSE {}
    /\ pc' = "run_iid"
    /\ UNCHANGED <<stage, ds, link, pkl, marker, sem, ccFile, fin, net, world,
                   missed, checked, failed, finNow, unpurged, unrendered, torn, consumed>>

WriteRunIid ==
    /\ pc = "run_iid"
    /\ runIid' = ds.iid
    /\ Goto("cache")
    /\ UNCHANGED <<disk, machine, manual, noNet, history>>

\* Init._write_to_cache, through the instance link: the marker, then the object.
Marked == IF manual THEN marker \cup {link} ELSE marker
WriteToCache == marker' = Marked /\ pkl' = [pkl EXCEPT ![link] = ds]

Cache ==
    /\ pc = "cache"
    /\ WriteToCache
    /\ Goto("net")
    /\ UNCHANGED <<link, iidFile, sem, ccFile, fin, net, world, history>>

(* Init.apply_network_config; the local stage ends here unless it may do    *)
(* everything.                                                              *)
ApplyNetwork ==
    /\ pc = "net"
    /\ ApplyNetworkConfig(ds, IsNew)
    /\ IF stage = "local" /\ ds.dsmode # "local" THEN EndStage ELSE Goto("setup")
    /\ UNCHANGED <<link, pkl, marker, iidFile, sem, ccFile, fin, world, history>>

(* Init.setup_datasource and Init.update.                                   *)
Setup ==
    /\ pc = "setup"
    /\ Goto("consume")
    /\ UNCHANGED <<disk, world, history>>

\* Mutant: when the instance's user-data was consumed nothing is, per boot.
ConsumeHasRun_NoAlways ==
    /\ pc = "consume"
    /\ Goto(IF ds.iid \in sem THEN "activate" ELSE "sem")
    /\ UNCHANGED <<disk, world, history>>

(* The consume_data semaphore of the instance (module Runners).             *)
ConsumeHasRun ==
    /\ pc = "consume"
    /\ Goto(IF ds.iid \in sem THEN "always" ELSE "sem")
    /\ UNCHANGED <<disk, world, history>>

\* Mutant: the semaphore is not written before the handlers run.
ConsumeAcquire_NoSem ==
    /\ pc = "sem"
    /\ consumed' = [consumed EXCEPT ![ds.iid] = IF @ = 0 THEN 1 ELSE 2]
    /\ Goto("handlers")
    /\ UNCHANGED <<disk, world, missed, checked, failed, finNow, unpurged, unrendered, torn, activated>>

(* Runners.run writes the semaphore, then consume_data(PER_INSTANCE) runs.  *)
ConsumeAcquire ==
    /\ pc = "sem"
    /\ sem' = sem \cup {ds.iid}
    /\ consumed' = [consumed EXCEPT ![ds.iid] = IF @ = 0 THEN 1 ELSE 2]
    /\ Goto("handlers")
    /\ UNCHANGED <<link, pkl, marker, iidFile, ccFile, fin, net, world,
                   missed, checked, failed, finNow, unpurged, unrendered, torn, activated>>

(* Init.consume_data: the handlers write cloud-config.txt of the instance,  *)
(* in a consumption per instance and in one per boot alike.                 *)
ConsumeData ==
    /\ pc \in {"handlers", "always"}
    /\ ccFile' = ccFile \cup {ds.iid}
    /\ Goto("activate")
    /\ UNCHANGED <<link, pkl, marker, iidFile, sem, fin, net, world, history>>

(* Init.activate_datasource tells the datasource whether it is new, then    *)
(* caches it again.                                                         *)
Activate ==
    /\ pc = "activate"
    /\ activated' = activated \cup {ds.iid}
    /\ Goto("recache")
    /\ UNCHANGED <<disk, world, missed, checked, failed, finNow, unpurged, unrendered, torn, consumed>>

Recache ==
    /\ pc = "recache"
    /\ WriteToCache
    /\ Goto("modules")
    /\ UNCHANGED <<link, iidFile, sem, ccFile, fin, net, world, history>>

(* The modules of the stage run; the last of the final ones writes          *)
(* boot-finished through the instance link.  main_modules sets no link: where *)
(* there is none, write_file makes a directory of that name for its file.    *)
RunModules ==
    /\ pc = "modules"
    /\ IF stage = "final"
       THEN /\ link' = IF link = None THEN Directory ELSE link
            /\ fin' = fin \cup {link'}
       ELSE UNCHANGED <<link, fin>>
    /\ finNow' = (finNow \/ stage = "final")
    /\ EndStage
    /\ UNCHANGED <<pkl, marker, iidFile, sem, ccFile, net, world,
                   missed, checked, failed, unpurged, unrendered, torn, consumed, activated>>

----------------------------------------------------------------------------
\* What is lost when a stage ends here: the purge, or the rendering.
Interrupted ==
    /\ unpurged' = (unpurged \/ At({"local"}, "start"))
    /\ unrendered' = (unrendered \/ pc \in {"run_iid", "cache", "net"})

(* A stage raises or is killed; the next unit starts all the same.          *)
Fail ==
    /\ MayFail /\ stage # "up"
    /\ EndStage
    /\ failed' = TRUE
    /\ Interrupted
    /\ UNCHANGED <<disk, world, missed, checked, finNow, torn, consumed, activated>>

(* util.write_file truncates, then writes: a stage that ends in between     *)
(* leaves an empty instance-id or obj.pkl, or the marker without the object. *)
TearIid ==
    /\ MayFail /\ pc = "iid"
    /\ iidFile' = None
    /\ torn' = TRUE /\ failed' = TRUE
    /\ EndStage
    /\ UNCHANGED <<link, pkl, marker, sem, ccFile, fin, net, world,
                   missed, checked, finNow, unpurged, unrendered, consumed, activated>>

TearCache ==
    /\ MayFail /\ pc \in {"cache", "recache"}
    /\ marker' = Marked
    /\ pkl' \in {pkl, [pkl EXCEPT ![link] = None]}
    /\ failed' = TRUE
    /\ EndStage
    /\ Interrupted
    /\ UNCHANGED <<link, iidFile, sem, ccFile, fin, net, world,
                   missed, checked, finNow, torn, consumed, activated>>

\* The boot leaves a network config for a machine whose id it never recorded.
Unrecorded == net # None /\ iidFile \notin {None, NoneIid} /\ net.iid # iidFile

(* The image boots again: on the same machine, or on another.  /run is      *)
(* empty, and the configuration in the image may have been edited.          *)
Reboot(m, mc) ==
    /\ stage = "up" \/ MayLosePower
    /\ machine' = m /\ manual' = mc
    /\ runIid' = None
    /\ stage' = "local" /\ pc' = "start" /\ ds' = None /\ prev' = Unread
    /\ missed' = FALSE /\ checked' = FALSE /\ failed' = FALSE /\ finNow' = FALSE
    /\ unpurged' = (unpurged \/ At({"local"}, "start"))
    /\ unrendered' = (unrendered \/ pc \in {"run_iid", "cache", "net"} \/ Unrecorded)
    /\ UNCHANGED <<disk, noNet, torn, consumed, activated>>

StageStep ==
    \/ PurgeCache \/ StopEarly \/ Proceed
    \/ FetchCached \/ FetchDropsLink \/ FetchRaises
    \/ FindSource \/ FindNone \/ FindNothing
    \/ ApplyWithoutDatasource
    \/ Unlink \/ Link \/ WriteIid \/ WriteRunIid \/ Cache \/ ApplyNetwork
    \/ Setup \/ ConsumeHasRun \/ ConsumeAcquire \/ ConsumeData
    \/ Activate \/ Recache \/ RunModules

Next ==
    \/ StageStep
    \/ NetworkTimesOut
    \/ Fail \/ TearIid \/ TearCache
    \/ \E m \in Machines, mc \in ManualChoices : Reboot(m, mc)

Spec == Init /\ [][Next]_vars

----------------------------------------------------------------------------
(* What the four stages promise together.                                   *)

\* Once the local stage of this boot has decided about the cache, every later
\* stage that trusts the cache works for the instance it runs on, whatever was
\* cached on this image by earlier boots on other machines, unless the image is
\* told to keep its cache.  It is DataSourceNone's instance, the same on all
\* machines, only where the network stage of this very boot found nothing else; or,
\* in the config and final stages, which search again, where the stages before
\* failed, had no network, or forgot what they had found.
RightInstance ==
    ManualChoices = {FALSE} /\ checked /\ ds # None =>
        \/ ds.iid = machine.iid
        \/ ds = NoneSource /\ (missed \/ (stage \in ModuleStages /\ (failed \/ noNet \/ Forgotten)))

Promise == INSTANCE AtMostOnce WITH Items <- Iids, count <- consumed

\* User-data is consumed per instance at most once, over every failure, loss of
\* power and detour of the image over another machine.
ConsumedAtMostOnce == Promise!Spec

\* When the datasource may use the network, the network config on disk is that
\* of this machine - unless a stage ended between recording the instance id and
\* rendering, an earlier boot rendered a fallback and recorded nothing, or the
\* datasource is DataSourceNone, whose id does not tell machines apart.
NetworkIsOfThisMachine ==
    /\ ManualChoices = {FALSE} /\ checked /\ ~unrendered /\ ds # NoneSource
    /\ pc = "setup" /\ SystemNetwork # "disabled"
    => net # None /\ net.iid = machine.iid

\* The datasource is not told twice that an instance is new (Azure formats a
\* disk then), unless data/instance-id was torn or another instance ran between.
NewOnlyOnce ==
    pc = "activate" /\ ~torn /\ IsNew => ds.iid \notin activated

\* When no stage of this boot failed, the modules of the config and final stages
\* find the cloud-config of their instance's user-data, but for a source that the
\* network stage forgets.
ModulesSeeCloudConfig ==
    stage \in ModuleStages /\ pc = "modules" /\ checked /\ ~failed /\ ~noNet /\ ~Forgotten
    => ds.iid \in ccFile

\* instance/boot-finished, which other programs wait for, is of this boot from
\* the purge on: also when the link moves to an instance that finished long ago.
FinishedIsOfThisBoot ==
    link \in fin /\ ~unpurged /\ ~At({"local"}, "start") => finNow

\* An image that cached its datasource under manual_cache_clean keeps its
\* instance on whatever machine it boots, as long as no boot is interrupted.
KeptInstance ==
    ~MayFail /\ ~MayLosePower /\ iidFile \in marker /\ ds # None => ds.iid = iidFile

(* What makes RightInstance, FinishedIsOfThisBoot and ConsumedAtMostOnce    *)
(* inductive.                                                               *)

HasDatasource == {"unlink", "link", "iid", "run_iid", "cache", "net", "setup", "consume", "sem",
                  "handlers", "always", "activate", "recache", "modules"}
Linked == HasDatasource \ {"unlink", "link"}

\* A module stage that found DataSourceNone by itself sets no link.
Unlinked == stage \in ModuleStages /\ ds = NoneSource /\ link = None

\* A stage past its search has a datasource, and past Link the link is its.
ProcessInv ==
    /\ ds # None <=> pc \in HasDatasource
    /\ pc \in HasDatasource \ {"modules"} => stage \in InitStages
    /\ pc \in {"find", "no_ds"} => link = None
    /\ pc \in Linked => link = ds.iid \/ Unlinked
    /\ stage = "up" => pc = "start"

\* The object cached for an instance is of that instance.
CacheInv == \A i \in Iids : pkl[i] # None => pkl[i].iid = i

\* The local stage starts with an empty /run and an undecided cache; once it has
\* decided, the link leads to this machine's instance or nowhere.
CheckedInv ==
    /\ stage = "local" /\ pc \in {"start", "fetch"} => runIid = None /\ ~checked
    /\ ManualChoices = {FALSE} =>
        /\ ~manual /\ marker = {}
        /\ checked => link \in {None, Directory, machine.iid, NoneIid}
        /\ checked /\ ds # None => ds.iid \in {machine.iid, NoneIid}

\* A consumption leaves its semaphore; whoever is about to write it looked.
ConsumeInv ==
    /\ \A i \in Iids : consumed[i] >= 1 => i \in sem
    /\ pc = "sem" => ds.iid \notin sem
    /\ \A i \in Iids : consumed[i] <= 1

\* Only the instance that is linked can be finished, and only at the end of a
\* boot or before the purge of the next.
FinishedInv ==
    ~unpurged =>
        /\ fin \subseteq {link}
        /\ ~finNow /\ ~At({"local"}, "start") => fin = {}
        /\ finNow => stage = "up"

BootInv == TypeOK /\ ProcessInv /\ CacheInv /\ CheckedInv /\ ConsumeInv /\ FinishedInv

(* What makes the other promises inductive, each beside BootInv.            *)

Recorded == {"run_iid", "cache", "net", "setup", "consume", "sem", "handlers", "always",
             "activate", "recache"}
Cacheable == Linked \ {"iid", "run_iid", "cache"}

\* A stage of main_init reads the previous id once, as it records its own; an id
\* that is not there but for a tear was never activated.
ActivatedInv ==
    /\ pc \notin Recorded \cup {"modules"} => prev = Unread
    /\ pc \in Recorded => prev # Unread /\ iidFile = ds.iid
    /\ ~torn /\ iidFile = None => activated = {}
    /\ ~torn /\ pc \in Recorded \ {"recache"} /\ prev # ds.iid => activated = {}

\* The config on disk is of the recorded instance or made on this machine, but
\* where a new id is recorded and its config not rendered.
RenderedInv ==
    /\ SystemNetwork # "disabled" /\ ~unrendered /\ iidFile \notin {None, NoneIid}
    /\ pc \in {"run_iid", "cache", "net"} => prev = ds.iid
    => net # None /\ net.iid \in {iidFile, machine.iid}

\* What was cached is what the stage works with.
CachedInv ==
    pc \in Cacheable => Unlinked \/ pkl[link] = ds

\* With DataSourceNone in the list the network stage comes to a datasource and caches
\* it, or it failed.
FoundInv ==
    /\ pc = "no_ds" => stage = "local" \/ (stage = "network" /\ ~NoneListed)
    /\ Unlinked => NoneListed
    /\ NoneListed /\ ~Forgotten /\ stage \in ModuleStages /\ ~failed /\ ~noNet => Cached # None

\* So DataSourceNone is at hand or linked only after a search that found nothing else.
SearchedInv ==
    ManualChoices = {FALSE} /\ checked /\ ~missed =>
        /\ link # NoneIid
        /\ ds = NoneSource => stage \in ModuleStages /\ (failed \/ noNet \/ Forgotten)

\* A stage that ends without a failure leaves a link to consumed data, no link, or,
\* where only the local stage ended, a datasource that waits for the network.
SeenInv ==
    /\ stage \in InitStages /\ pc \in {"activate", "recache", "modules"} => ds.iid \in ccFile
    /\ stage = "network" /\ pc \in {"start", "fetch"} /\ ~failed =>
         (Cached # None /\ Cached.dsmode = "local" => link \in ccFile)
    /\ stage \in ModuleStages /\ ~failed /\ ~noNet /\ Cached # None => link \in ccFile

\* The instance that was told to stay is linked and cached whenever no stage is at
\* work on it.
KeptInv ==
    ~MayFail /\ ~MayLosePower /\ iidFile \in marker =>
        IF ds = None \/ Unlinked THEN link = iidFile /\ pkl[link] # None ELSE ds.iid = iidFile

BootMoreInv == ActivatedInv /\ RenderedInv /\ CachedInv /\ FoundInv /\ SearchedInv /\ SeenInv /\ KeptInv

=============================================================================
