------------------------------- MODULE Identify -------------------------------
(***************************************************************************)
(* tools/ds-identify: run by the generator before cloud-init, it looks at   *)
(* the machine without mounting or asking anything, and writes which        *)
(* datasources to search - or that cloud-init has nothing to do here.  What *)
(* it tests is not always what the datasource itself does (DataSources).   *)
(***************************************************************************)
EXTENDS DataSources

\* is_container knows fewer containers than the Python side.
DiContainer(m) == m.virt = "lxc"
DiDmi(m, field) == IF DiContainer(m) THEN "" ELSE m[field]
Labels(m) == IF DiContainer(m) THEN {} ELSE {d.label : d \in m.disks}
Product(m, names) == DiDmi(m, "product") \in names

\* parse_policy: the default depends on whether the architecture has DMI data.
DefaultPolicy(m) ==
    [mode |-> "search", found |-> "all", maybe |-> "all",
     notfound |-> IF m.arch = "x86" THEN "disabled" ELSE "enabled"]

\* check_configdrive_v2; of version 1 it says nothing.
SeesConfigDrive(m) == "config-2" \in Labels(m) \/ HasFile(m, "config_drive")

\* ec2_identify_platform: only an ec2 uuid of the hypervisor goes before the DMI's.
DiEc2Platform(m) ==
    IF m.serial = "x.brightbox.com" THEN "Brightbox"
    ELSE IF m.hyper = "ec2-1" \/ (m.uuid = "ec2-1" /\ m.serial = "ec2-1") THEN "AWS" ELSE "Unknown"

SeesEc2(m) ==
    IF HasFile(m, "ec2") THEN "found"
    ELSE IF DiContainer(m) THEN "no"
    ELSE IF DiEc2Platform(m) # "Unknown" THEN "found"
    ELSE IF "strict_id: warn" \in m.config THEN "maybe" ELSE "no"

SeesOpenStack(m) ==
    IF SeesConfigDrive(m) THEN "no"
    ELSE IF \/ Product(m, {"OpenStack Nova", "OpenStack Compute"})
            \/ HasFile(m, "product_name=OpenStack Nova") THEN "found"
    ELSE IF m.arch # "x86" THEN "maybe" ELSE "no"

\* Mutant: the seed directories are not looked into.
SeesNoCloud_NoSeed(m) ==
    If(m.cmdline \cap NoCloudIds # {} \/ m.serial \in NoCloudIds \/ "cidata" \in Labels(m))

SeesNoCloud(m) ==
    If(\/ m.cmdline \cap NoCloudIds # {} \/ m.serial \in NoCloudIds
       \/ HasFile(m, "nocloud") \/ "cidata" \in Labels(m))

\* The plugin and the configuration; else any cdrom may hold an environment.
SeesOVF(m) ==
    IF \/ HasFile(m, "ovf/ovf-env.xml")
       \/ m.virt = "vmware" /\ HasFile(m, "libdeployPkgPlugin.so") /\ "customization" \in m.config
    THEN "found"
    ELSE IF \E d \in m.disks : Cdrom(d) THEN "maybe" ELSE "no"

SeesAzure(m) ==
    If(\/ DiDmi(m, "chassis") = AzureChassis \/ HasFile(m, "azure/ovf-env.xml")
       \/ m.virt = "microsoft" /\ "rd_rdfe_stable" \in Labels(m))

\* The cloud-info file, or the whole product name.
DiCloudType(m) ==
    IF HasFile(m, "cloud-info RHEV") THEN "RHEV"
    ELSE IF HasFile(m, "cloud-info VSPHERE") THEN "VSPHERE" ELSE m.product

SeesAltCloud(m) ==
    IF \/ DiCloudType(m) = "RHEV" /\ \E d \in m.disks : d.dev = "fd0"
       \/ DiCloudType(m) = "VSPHERE" /\ \E d \in m.disks : d.label = "CDROM" THEN "maybe" ELSE "no"

SeesScaleway(m) ==
    If(m.vendor = "Scaleway" \/ "scaleway" \in m.cmdline \/ HasFile(m, "run/scaleway"))

\* dscheck_*: there is none for other names.
Sees(s, m) ==
    CASE s = "NoCloud" -> SeesNoCloud(m)     [] s = "ConfigDrive" -> If(SeesConfigDrive(m))
      [] s = "OpenStack" -> SeesOpenStack(m) [] s = "Ec2" -> SeesEc2(m)
      [] s = "OVF" -> SeesOVF(m)             [] s = "Azure" -> SeesAzure(m)
      [] s = "AltCloud" -> SeesAltCloud(m)   [] s = "Scaleway" -> SeesScaleway(m)
      [] s = "OpenNebula" -> If(HasFile(m, "opennebula/meta-data") \/ "CONTEXT" \in Labels(m))
      [] s = "DigitalOcean" -> If(DiDmi(m, "vendor") = "DigitalOcean")
      [] s = "MAAS" -> If(~DiContainer(m) /\ ("maas" \in m.cmdline \/ "MAAS" \in m.config))
      [] s = "GCE" -> If(Product(m, {"Google Compute Engine"}) \/ DiDmi(m, "serial") = "GoogleCloud-1")
      [] s = "AliYun" -> If(HasFile(m, "AliYun") \/ Product(m, {"Alibaba Cloud ECS"}))
      [] s = "CloudSigma" -> If(Product(m, {"CloudSigma"}))
      [] s = "CloudStack" -> If(Product(m, {"CloudStack KVM Hypervisor"}))
      [] s = "SmartOS" -> If(\/ Product(m, {"SmartDC HVM"})
                             \/ m.kernel = "BrandZ virtual linux" /\ m.virt = "container-other")
      [] s = "Bigstep" -> If(HasFile(m, "bigstep/url"))
      [] OTHER -> "no"

\* What the Python side searches without a list, and what this script does.
Builtin == <<"NoCloud", "ConfigDrive", "OpenNebula", "DigitalOcean", "Azure", "AltCloud", "OVF",
             "MAAS", "GCE", "OpenStack", "AliYun", "Ec2", "CloudSigma", "CloudStack", "SmartOS",
             "Bigstep", "Scaleway", "None">>
DiDefault == <<"MAAS", "ConfigDrive", "NoCloud", "AltCloud", "Azure", "Bigstep", "CloudSigma",
               "CloudStack", "DigitalOcean", "AliYun", "Ec2", "GCE", "OpenNebula", "OpenStack",
               "OVF", "SmartOS", "Scaleway">>

\* found: None goes last.
WithNone(list) == IF Contains(list, "None") THEN list ELSE Append(list, "None")

\* _main: a single name is taken for granted; what is there goes before what may be.
Narrowed(list, m, policy) ==
    LET seen(what) == SelectSeq(list, LAMBDA s : Sees(s, m) = what)
    IN  IF Len(list) = 1 \/ (Len(list) = 2 /\ list[2] = "None") THEN WithNone(list)
        ELSE IF seen("found") # <<>>
             THEN WithNone(IF policy.found = "first" THEN <<Head(seen("found"))>> ELSE seen("found"))
        ELSE IF policy.maybe # "none" /\ seen("maybe") # <<>> THEN WithNone(seen("maybe")) ELSE <<>>

(* What is written for cloud-init to search: <<>> is nothing, so that it      *)
(* searches its own list.  In report mode it is for a reader only.  A name    *)
(* on the command line, which goes before the search, is left out.          *)
Written(list, m, policy) ==
    IF policy.mode \in {"enabled", "disabled", "report"} THEN <<>>
    ELSE IF HasFile(m, "manual-clean") THEN <<>>
    ELSE Narrowed(list, m, policy)

(* Whether cloud-init is enabled.                                           *)
Enabled(list, m, policy) ==
    CASE policy.mode = "disabled" -> FALSE
      [] policy.mode \in {"enabled", "report"} -> TRUE
      [] OTHER -> \/ HasFile(m, "manual-clean")
                  \/ Narrowed(list, m, policy) # <<>> \/ policy.notfound = "enabled"
=============================================================================
