------------------------------ MODULE Discovery ------------------------------
(***************************************************************************)
(* How a machine comes to its datasource, boot after boot: ds-identify       *)
(* narrows the list (Identify), the local stage tries the classes that need *)
(* no network one after the other (sources.find_source), the network stage  *)
(* the others.  An exception is logged and the next one tried.  A metadata  *)
(* service may be down for a boot.  Between boots media go and seeds come.  *)
(***************************************************************************)
EXTENDS Identify

CONSTANTS Clouds,    \* [own |-> a source, machine |-> a machine it is made for]
          Leftovers, \* files that an image may bring from elsewhere
          Lists,     \* datasource_list of the configuration, <<>> if it has none
          Policies,  \* the policy, {} is the default one
          MaxBoots

VARIABLES at,     \* "off", "identify", "local", "network", "found", "disabled"
          m,      \* the machine
          cloud,  \* the member of Clouds that it is
          list,   \* datasource_list of the configuration
          policy, \* of ds-identify
          search, \* the names left to try in this stage
          names,  \* the names cloud-init searches in this boot
          found,  \* the datasource of this boot
          boot,   \* history: [files |-> when it began, down |-> service, number |-> which]
          seeded  \* history: a user added a seed

vars == <<at, m, cloud, list, policy, search, names, found, boot, seeded>>

Init ==
    /\ cloud \in Clouds /\ list \in Lists /\ policy \in Policies
    /\ \E f \in Leftovers : m = [cloud.machine EXCEPT !.files = @ \cup f]
    /\ at = "off" /\ search = <<>> /\ names = <<>> /\ found = "" /\ seeded = FALSE
    /\ boot = [files |-> m.files, down |-> "", number |-> 0]

PowerOn ==
    /\ at = "off" /\ boot.number < MaxBoots /\ at' = "identify"
    /\ \E s \in cloud.machine.services \cup {""} :
         /\ m' = [m EXCEPT !.services = cloud.machine.services \ {s}]
         /\ boot' = [files |-> m.files, down |-> s, number |-> boot.number + 1]
    /\ found' = "" /\ UNCHANGED <<cloud, list, policy, search, names, seeded>>

ThePolicy == IF policy = {} THEN DefaultPolicy(m) ELSE CHOOSE p \in policy : TRUE
DiList == IF list = <<>> THEN DiDefault ELSE list

(* The generator: ds-identify, and cloud-init with the list it wrote.         *)
RunIdentify ==
    /\ at = "identify"
    /\ IF Enabled(DiList, m, ThePolicy)
       THEN LET written == Written(DiList, m, ThePolicy)
            IN  /\ at' = "local"
                /\ names' = IF written # <<>> THEN written ELSE IF list # <<>> THEN list ELSE Builtin
                /\ search' = SelectSeq(names', LAMBDA s : s \in LocalSources)
       ELSE at' = "disabled" /\ names' = <<>> /\ search' = <<>>
    /\ UNCHANGED <<m, cloud, list, policy, found, boot, seeded>>

\* find_source: False and an exception are the same to it.
Goes(s) == GetData(s, at = "network", m) \in {"no", "raises"}

(* One datasource is tried.                                                 *)
Try ==
    /\ at \in {"local", "network"} /\ search # <<>>
    /\ LET s == Head(search)
       IN  /\ m' = [m EXCEPT !.files = FilesAfter(s, at = "network", m)]
           /\ IF GetData(s, at = "network", m) = "found"
              THEN at' = "found" /\ found' = s /\ search' = <<>>
              ELSE IF Goes(s) THEN search' = Tail(search) /\ UNCHANGED <<at, found>>
              ELSE search' = <<>> /\ UNCHANGED <<at, found>>
    /\ UNCHANGED <<cloud, list, policy, names, boot, seeded>>

(* Nothing in the local stage is left to the network stage; nothing there is *)
(* an error, and a boot without a datasource.                              *)
NextStage ==
    /\ search = <<>>
    /\ \/ at = "local" /\ at' = "network"
          /\ search' = SelectSeq(names, LAMBDA s : s \in NetworkSources)
       \/ at = "network" /\ at' = "found" /\ UNCHANGED search
    /\ UNCHANGED <<m, cloud, list, policy, names, found, boot, seeded>>

\* Azure ejects its cdrom, the files below /run are gone, a user may add a seed; the
\* instance id is on the disk.
Reboot ==
    /\ at \in {"found", "disabled"} /\ at' = "off"
    /\ \E seed \in {{}, {"nocloud"}} :
         /\ m' = [m EXCEPT !.files = (@ \ {"vmware-imc/cust.cfg", "link-local"}) \cup seed,
                           !.disks = IF cloud.own = "Azure" THEN {} ELSE @,
                           !.iid = IF at = "found" THEN found ELSE @]
         /\ seeded' = (seeded \/ seed # {})
    /\ UNCHANGED <<cloud, list, policy, search, names, found, boot>>

Next == PowerOn \/ RunIdentify \/ Try \/ NextStage \/ Reboot

Spec == Init /\ [][Next]_vars

----------------------------------------------------------------------------
\* Its service answers, a seed directory of its own from elsewhere does not hide the
\* rest (MAAS's raises, OpenNebula's is read instead of the devices), and VMware's file,
\* which the datasource deletes, is there: the next boot does not find it.
Undisturbed ==
    /\ boot.down = "" /\ ~(cloud.own = "MAAS" /\ HasFile(m, "maas, torn") /\ ~HasFile(m, "maas"))
    /\ ~(cloud.own = "OpenNebula" /\ HasFile(m, "opennebula/meta-data") /\ ~HasFile(m, "opennebula/context.sh"))
    /\ "customization" \in m.config => "vmware-imc/cust.cfg" \in boot.files

\* The script wrote what to search.
IsNarrowed == names \notin {Builtin, list}

\* What a datasource goes by and ds-identify does not look at: a product that it knows
\* by another name, a medium without the label it asks for, a seed, an address in the
\* configuration, a service that anyone may run; and OpenStack's service beside a config
\* drive, which may be for another source, or for none ("pass").
Overlooked(s, m0) ==
    CASE s = "AltCloud" -> ~HasFile(m0, "cloud-info RHEV") /\ ~HasFile(m0, "cloud-info VSPHERE") /\ m0.product # "RHEV"
      [] s = "CloudSigma" -> m0.product # "CloudSigma"
      [] s = "Scaleway" -> m0.vendor # "Scaleway" /\ ~HasFile(m0, "run/scaleway") /\ "scaleway" \notin m0.cmdline
      [] s = "ConfigDrive" -> ~HasFile(m0, "config_drive") /\ \A d \in m0.disks : d.label # "config-2"
      [] s = "OpenNebula" -> \A d \in m0.disks : d.label # "CONTEXT"
      [] s = "OVF" -> HasFile(m0, "ovf-env.xml")
      [] s = "MAAS" -> HasFile(m0, "maas")
      [] s = "CloudStack" -> HasFile(m0, "cs")
      [] s = "NoCloud" -> "seedfrom" \in m0.config
      [] s = "Ec2" -> Ec2Platform(m0) = "Unknown" /\ m0.config \cap {"strict_id: warn", "strict_id: true"} = {}
      [] s = "OpenStack" -> \E d \in m0.disks : d.label = "config-2"
      [] OTHER -> FALSE

\* What it takes for a datasource that then finds nothing.
Mistaken(m0) ==
    \/ HasFile(m0, "opennebula/meta-data") \/ HasFile(m0, "ovf/ovf-env.xml")
    \/ HasFile(m0, "azure/ovf-env.xml") /\ m0.chassis # AzureChassis
    \/ \E d \in m0.disks : d.label = "cidata" /\ ~(Known(d) /\ d.holds = "nocloud")

Lost(s, m0) == (Overlooked(s, m0) /\ Sees(s, m0) = "no") \/ Mistaken(m0)
Listed == list = <<>> \/ Contains(list, cloud.own)

\* A machine comes to the datasource it was made for, in whatever image, in every boot
\* also when its media are gone; while its service is down a narrowed search comes to that
\* one or none, not to another's data.  It is not disabled where it has one.  Excepted are
\* narrowed searches on machines that ds-identify does not see as their datasource does
\* (Lost), and a configuration that does not list the datasource.
OwnSourceIsFound ==
    /\ at = "found" /\ ~seeded /\ Listed /\ Undisturbed => found = cloud.own \/ (IsNarrowed /\ Lost(cloud.own, m))
    /\ at = "found" /\ ~seeded /\ Listed /\ IsNarrowed => found \in {cloud.own, "None"} \/ Lost(cloud.own, m)
    /\ at = "disabled" => cloud.own = "None" \/ ThePolicy.mode = "disabled" \/ ~Listed \/ Lost(cloud.own, m)

\* The first that finds data, in the stage that comes first.
FullSearch(names0, m0) ==
    LET hits(net, S) == SelectSeq(names0, LAMBDA s : s \in S /\ GetData(s, net, m0) = "found")
    IN  IF hits(FALSE, LocalSources) # <<>> THEN Head(hits(FALSE, LocalSources))
        ELSE Head(hits(TRUE, NetworkSources))

\* ds-identify takes no datasource away that would have been found, but those it does
\* not see as they see themselves (Lost): a search of the whole configured list comes to
\* the same one.
NarrowedAlike ==
    at = "found" /\ list # <<>> /\ IsNarrowed /\ boot.down = "" =>
        LET was == [m EXCEPT !.files = boot.files]
        full == FullSearch(list, was)
        IN  found = full \/ Lost(full, was)
=============================================================================
