-------------------------------- MODULE Guest --------------------------------
(***************************************************************************)
(* A guest over its boots: user-data and vendor-data are consumed, and the  *)
(* modules of Names, Mounts and Accounts run, in the order of cloud.cfg and *)
(* with its frequencies, on what they make of the configuration.  Between   *)
(* boots the user changes the machine, or it is cloned as another instance. *)
(* A process may be killed anywhere; a stage that fails is followed by the  *)
(* next.                                                                   *)
(***************************************************************************)
EXTENDS Accounts

CONSTANTS PerInstance,  \* the modules that run once for an instance
          Kills         \* may processes be killed?

VARIABLES at,      \* where the boot is
          sems,    \* <<instance, module>> that were called
          called   \* history: the modules that were called in this boot, and not killed

guest == <<at, sems, called>>
vars == <<cvars, names, mounts, accounts, guest>>

\* cloud_init_modules and cloud_config_modules, as far as they are modelled.
InitModules == {"mounts", "set_hostname", "update_hostname", "update_etc_hosts", "users-groups", "ssh"}
ConfigModules == {"set-passwords"}
Modules == InitModules \cup ConfigModules

Places == <<"update", "user-data", "vendor-data", "mounts", "set_hostname", "update_hostname",
            "update_etc_hosts", "users-groups", "ssh", "config", "set-passwords", "up">>
After(place) == Places[1 + CHOOSE n \in DOMAIN Places : Places[n] = place]

Init ==
    /\ ConsumptionInit /\ NamesInit /\ MountsInit /\ AccountsInit
    /\ at = "off" /\ sems = {} /\ called = {}

Goes(place) == at = place /\ at' = After(place)

PowerOn(i) ==
    /\ at = "off"
    /\ at' = "update"
    /\ Instancify(i) /\ SwapAtBoot
    /\ kernelName' = sysName /\ UNCHANGED <<sysName, prevName, hosts, chosen>>
    /\ called' = {}
    /\ UNCHANGED <<accounts, sems>>

Update == Goes("update") /\ Process /\ UNCHANGED <<names, mounts, accounts, sems, called>>

\* The exception ends the stage: its modules do not run, the next stage does.
UpdateFails ==
    /\ at = "update" /\ at' = "config"
    /\ IncludeRaises
    /\ UNCHANGED <<names, mounts, accounts, sems, called>>

ConsumeUser ==
    /\ Goes("user-data") /\ ConsumeUserdata
    /\ UNCHANGED <<names, mounts, accounts, sems, called>>

ConsumeVendor ==
    /\ Goes("vendor-data") /\ ConsumeVendordata
    /\ UNCHANGED <<names, mounts, accounts, sems, called>>

StageConfig ==
    /\ Goes("config") /\ ReadConfig
    /\ UNCHANGED <<names, mounts, accounts, sems, called>>

\* The handler of a module, with what it leaves alone.
Handler(m) ==
    \/ m = "mounts"           /\ HandleMounts /\ UNCHANGED <<names, accounts>>
    \/ m = "set_hostname"     /\ SetHostname /\ UNCHANGED <<mounts, accounts>>
    \/ m = "update_hostname"  /\ UpdateHostname /\ UNCHANGED <<mounts, accounts>>
    \/ m = "update_etc_hosts" /\ UpdateEtcHosts /\ UNCHANGED <<mounts, accounts>>
    \/ m = "users-groups"     /\ UsersGroups /\ UNCHANGED <<names, mounts>>
    \/ m = "ssh"              /\ Ssh /\ UNCHANGED <<names, mounts>>
    \/ m = "set-passwords"    /\ SetPasswords /\ UNCHANGED <<names, mounts>>

\* Not in the list of the configuration, or has a semaphore.
Skipped(m) == m \notin cfg.modules \/ (m \in PerInstance /\ <<inst, m>> \in sems)

(* Runners.run of a module: its semaphore, then its handler.                *)
Module(m) ==
    /\ Goes(m)
    /\ IF Skipped(m) THEN UNCHANGED <<names, mounts, accounts, sems, called>>
       ELSE /\ Handler(m)
            /\ sems' = sems \cup {<<inst, m>>}
            /\ called' = called \cup {m}
    /\ UNCHANGED cvars

(* The process is killed: in the url cache, or between a semaphore and what  *)
(* it is for.                                                               *)
Killed ==
    /\ Kills /\ at \notin {"off", "up"} /\ at' = "off"
    /\ \/ at = "update" /\ IncludeTorn /\ UNCHANGED sems
       \/ UNCHANGED cvars /\ UNCHANGED sems
       \/ /\ cfg # <<>> /\ at \in PerInstance /\ ~Skipped(at)
          /\ sems' = sems \cup {<<inst, at>>} /\ UNCHANGED cvars
    /\ UNCHANGED <<names, mounts, accounts, called>>

\* Between boots the user has the machine; then it goes down.
UserActs ==
    /\ at = "up" /\ at' = "off"
    /\ \/ UNCHANGED <<names, mounts, accounts>>
       \/ (\E n \in UserNames : UserRenames(n)) /\ UNCHANGED <<mounts, accounts>>
       \/ (\E l \in Range(UserLines) : UserMounts([l EXCEPT !.file = "/own"]))
             /\ UNCHANGED <<names, accounts>>
       \/ (\E k \in AuthKeys : UserAuthorizes(k)) /\ UNCHANGED <<names, mounts>>
    /\ UNCHANGED <<cvars, sems, called>>

Next ==
    \/ \E i \in Instances : PowerOn(i)
    \/ Update \/ UpdateFails \/ ConsumeUser \/ ConsumeVendor \/ StageConfig
    \/ \E m \in Modules : Module(m)
    \/ Killed \/ UserActs

Spec == Init /\ [][Next]_vars

----------------------------------------------------------------------------
TypeOK ==
    /\ ConsumptionTypeOK
    /\ at \in Range(Places) \cup {"off"}
    /\ called \subseteq Range(Places) /\ sems \subseteq Instances \X (Range(Places))
    /\ exist \subseteq Users /\ locked \cup expired \subseteq exist
    /\ authorized \in [Users \cup {"root"} -> [AuthKeys -> {"open", "restricted", "absent"}]]
    /\ FstabTypeOK /\ swapFile \in {"absent", "made", "used"}

----------------------------------------------------------------------------
\* What a disk image brings from another machine does not identify this one: where
\* the ssh module ran last, no host key, private or public, is another's - save files
\* that could not be deleted.
HostKeysOfInstance ==
    \A t \in KeyTypes :
        /\ <<t, "key">> \notin rid[2] => hostKeys[t] \in {rid[1], NoDevice} \/ rid[1] = NoDevice
        /\ {<<t, "key">>, <<t, "pub">>} \cap rid[2] = {} =>
              hostPubs[t] \in {rid[1], NoDevice} \/ rid[1] = NoDevice

\* Once ssh has run in a boot, its keys - whoever brought them to root's file before,
\* with whatever options - log nobody in as root while root is disabled, until the boot
\* is over.
RootStaysRestricted ==
    at \in {"config", "set-passwords", "up"} /\ "ssh" \in called /\ DefaultUser \subseteq exist
        /\ Setting("disable_root", "true") = "true" =>
        \A k \in InstanceKeys : authorized["root"][k] # "open"

----------------------------------------------------------------------------
(* Why they hold, as an inductive invariant.                                *)

\* What was consumed of an include-once is what its file has, and what is processed of it,
\* or pickled, has been taken from there.
FromCache(i) ==
    IF urlcache[i].there
    THEN /\ onced[i] \subseteq {urlcache[i].cfg}
         /\ pkl[i].data.there => pkl[i].data.cfg = urlcache[i].cfg
         /\ i = inst /\ processed.there => processed.cfg = urlcache[i].cfg
    ELSE onced[i] = {}

CacheDecides ==
    /\ \A i \in Instances : urlcache[i].there => data[i].kind = "once"
    /\ ~processed.there => ~pkl[inst].data.there
    /\ at = "user-data" => processed.there
    /\ \A i \in Instances \ torn : FromCache(i)

Wanted(i) ==
    /\ "off" \notin said[i] /\ System.vendor_data = "on"
    /\ vendor[i].given /\ "vendor_data" \notin DOMAIN vendor[i].cfg

\* The files are what the data said: of the user's, the last of what is said; of
\* vendor-data's, only its own.  Init.cfg is of before the boot, the modules' of after.
FilesDecide ==
    /\ \A i \in Instances :
         /\ userFile[i] = Absent \/ Saying(userFile[i].cfg) \in said[i]
         /\ vendorFile[i] \in {Absent, Holding(vendor[i].cfg)}
         /\ said[i] \subseteq {"off"} => ~vendorFile[i].there
    /\ at = "vendor-data" => Saying(userFile[inst].cfg) \in said[inst]
    /\ at \in {"update", "user-data", "vendor-data"} =>
         /\ cfg = <<>>
         /\ Wanted(inst) => "vendor_data" \in DOMAIN base /\ base.vendor_data = "on"
    /\ (at \in Modules \cup {"config", "up"} \/ cfg # <<>>) /\ processed.there /\ Wanted(inst) =>
         vendorFile[inst] = Holding(vendor[inst].cfg)

\* A name the user chose is the system's, and cloud-init writes no such name itself.
NamesApart ==
    /\ chosen # NoName => sysName = chosen /\ chosen \in UserNames
    /\ prevName \notin UserNames

\* The modules run with what the files say.
ModulesConfigured ==
    /\ at \in InitModules => cfg = Merged(inst)
    /\ at \in InitModules \cup {"update", "user-data", "vendor-data"} => "ssh" \notin called
    /\ at \in {"config", "set-passwords", "up"} /\ "ssh" \in called => cfg = Merged(inst)

GuestInv ==
    /\ TypeOK /\ CacheDecides /\ FilesDecide /\ NamesApart
    /\ ModulesConfigured /\ HostKeysOfInstance /\ RootStaysRestricted
=============================================================================
