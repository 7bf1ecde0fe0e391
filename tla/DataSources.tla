----------------------------- MODULE DataSources -----------------------------
(***************************************************************************)
(* What each datasource's get_data makes of a machine: it finds its data,   *)
(* returns False or raises.  A machine is what the datasources look at:     *)
(*   virt      what systemd-detect-virt says                               *)
(*   arch      "x86" or another                                            *)
(*   product, vendor, serial, uuid, chassis   DMI, "" where absent          *)
(*   hyper     /sys/hypervisor/uuid                                        *)
(*   kernel    the version uname reports                                   *)
(*   cmdline   the words of the kernel command line that matter             *)
(*   config    what the system configuration says about datasources         *)
(*   files     seeds and other files, by what they are complete for         *)
(*   disks     filesystems: device, label, type and what is on them         *)
(*   says      the dsmode in the metadata, or ""                            *)
(*   services  the metadata services that answer                           *)
(*   iid       the source whose instance id data/instance-id has            *)
(* Words stand for all strings a test cannot tell apart.  Of a kind of      *)
(* medium a machine has one.  Not modelled: an address to seed from inside   *)
(* an OVF environment, and what is in the data beyond its dsmode.           *)
(***************************************************************************)
EXTENDS Naturals, Sequences, SequencesExt

Container(m) == m.virt \in {"lxc", "container-other"}

\* util.read_dmi_data: nothing in a container.
Dmi(m, field) == IF Container(m) THEN "" ELSE m[field]

If(found) == IF found THEN "found" ELSE "no"
Answers(m, service) == service \in m.services
HasFile(m, f) == f \in m.files
Known(d) == d.type \in {"vfat", "iso9660"}
Cdrom(d) == d.dev \in {"sr0", "hda", "xvdd"}

----------------------------------------------------------------------------
(* NoCloud: the serial, the command line, seed directories, the config and   *)
(* a labelled filesystem say that it is meant.                              *)
NoCloudIds == {"ds=nocloud", "ds=nocloud-net", "ds=nocloud;s=http"}
NoCloudHints(m) ==
    ({Dmi(m, "serial")} \cup m.cmdline \cup m.config) \cap (NoCloudIds \cup {"seedfrom"})
NoCloudMedium(m) == \E d \in m.disks : d.label = "cidata" /\ Known(d) /\ d.holds = "nocloud"

\* An address to seed from is for the class that has a network; to read it may raise.
NoCloud(m, net) ==
    IF NoCloudHints(m) \cap {"ds=nocloud;s=http", "seedfrom"} # {}
    THEN IF ~net THEN "no"
         ELSE IF Answers(m, "seed") THEN If(m.says # "disabled") ELSE "raises"
    ELSE If((NoCloudHints(m) # {} \/ HasFile(m, "nocloud") \/ NoCloudMedium(m)) /\ m.says # "disabled")

----------------------------------------------------------------------------
(* ConfigDrive: a directory, or a filesystem that is labelled or, vfat or    *)
(* iso9660, tried for what is on it.  What raises on a device is logged.    *)
Drives(m) == {d \in m.disks : d.label = "config-2" \/ Known(d)}

\* read_config_drive: version 2, else 1; v1 is not for this source unless it says so.
DriveVersions(m) ==
    IF HasFile(m, "config_drive") THEN {"2"}
    ELSE IF \E d \in Drives(m) : d.holds = "openstack" THEN {"2"}
    ELSE IF \E d \in Drives(m) : d.holds = "openstack-1" THEN {"1"} ELSE {}

DriveMode(m) == IF m.says # "" THEN m.says ELSE IF "1" \in DriveVersions(m) THEN "pass" ELSE "net"

ConfigDrive(m) == If(DriveVersions(m) # {} /\ DriveMode(m) \notin {"disabled", "pass"})

\* on_first_boot: injected files are written, also by a source that does not claim.
ConfigDriveWrites(m) ==
    IF DriveVersions(m) # {} /\ DriveMode(m) # "disabled" /\ m.iid # "ConfigDrive"
    THEN {"injected"} ELSE {}

(* OpenStack: the metadata service, of whatever machine.                     *)
OpenStack(m) == If(Answers(m, "openstack") /\ m.says # "disabled")

----------------------------------------------------------------------------
\* identify_platform: the hypervisor's uuid, where there is one, hides the DMI's.
Ec2Uuid(m) == IF m.hyper # "" THEN m.hyper ELSE Dmi(m, "uuid")
Ec2Platform(m) ==
    IF Ec2Uuid(m) = "ec2-1" /\ (m.hyper # "" \/ Dmi(m, "serial") = "ec2-1") THEN "AWS"
    ELSE IF Dmi(m, "serial") = "x.brightbox.com" THEN "Brightbox" ELSE "Unknown"

(* Ec2: in the local stage AWS only, with a lease of its own (see Metadata); *)
(* with the network any machine that the configuration does not exclude.    *)
Ec2(m, net) ==
    IF ~net /\ Ec2Platform(m) # "AWS" THEN "no"
    ELSE IF HasFile(m, "ec2") THEN "found"
    ELSE If(~(Ec2Platform(m) = "Unknown" /\ "strict_id: true" \in m.config) /\ Answers(m, "ec2"))

AliYun(m) ==
    If(HasFile(m, "AliYun") \/ (Dmi(m, "product") = "Alibaba Cloud ECS" /\ Answers(m, "aliyun")))

\* The virtual router is the server of the lease or the gateway; without one the
\* constructor raises.
CloudStack(m) ==
    IF ~Answers(m, "gateway") THEN "raises"
    ELSE If(HasFile(m, "cs") \/ Answers(m, "cloudstack"))

(* DigitalOcean: a droplet without an id raises, and so does its service.    *)
DigitalOcean(m) ==
    IF Dmi(m, "vendor") # "DigitalOcean" THEN "no"
    ELSE IF Dmi(m, "serial") # "" /\ Answers(m, "digitalocean") THEN "found" ELSE "raises"

\* The address to ask with is taken away again, unless asking raised.
DigitalOceanLeaves(m) ==
    IF Dmi(m, "vendor") = "DigitalOcean" /\ Dmi(m, "serial") # "" /\ ~Answers(m, "digitalocean")
    THEN {"link-local"} ELSE {}

GCE(m) ==
    If(/\ Dmi(m, "product") = "Google Compute Engine" \/ Dmi(m, "serial") = "GoogleCloud-1"
       /\ Answers(m, "gce"))

\* Words of the command line contain "scaleway" where they do not equal it.
Scaleway(m) ==
    IF Dmi(m, "vendor") # "Scaleway" /\ ~HasFile(m, "run/scaleway")
        /\ m.cmdline \cap {"scaleway", "bootfrom=scaleway"} = {} THEN "no"
    ELSE IF Answers(m, "scaleway") THEN "found" ELSE "raises"

Bigstep(m) ==
    IF ~HasFile(m, "bigstep/url") THEN "no" ELSE IF Answers(m, "bigstep") THEN "found" ELSE "raises"

(* MAAS: a seed, which raises if it lacks a file; else the configured url.   *)
MAAS(m) ==
    IF HasFile(m, "maas") THEN "found" ELSE IF HasFile(m, "maas, torn") THEN "raises"
    ELSE If("MAAS" \in m.config /\ Answers(m, "maas"))

CloudSigma(m) ==
    If(Dmi(m, "product") \in {"CloudSigma", "CloudSigma 2"} /\ Answers(m, "cloudsigma"))

\* get_smartos_environ: zones have no DMI but a kernel of their own.
SmartOS(m) ==
    If((m.kernel = "BrandZ virtual linux" \/ Dmi(m, "product") = "SmartDC HVM") /\ Answers(m, "smartos"))

----------------------------------------------------------------------------
AzureChassis == "7783-7084-3265-9085-8269-3286-77"

\* Mutant: the directory of the agent is not looked into.
AzureEnv_NoDataDir(m) ==
    HasFile(m, "azure/ovf-env.xml")
        \/ \E d \in m.disks : d.type \in {"iso9660", "udf"} /\ d.holds = "azure-env"

\* The seed, the optical media, and what an earlier boot kept in the agent's directory.
AzureEnv(m) ==
    \/ HasFile(m, "azure/ovf-env.xml") \/ HasFile(m, "waagent/ovf-env.xml")
    \/ \E d \in m.disks : d.type \in {"iso9660", "udf"} /\ d.holds = "azure-env"

Azure(m) == If(Dmi(m, "chassis") = AzureChassis /\ AzureEnv(m))

\* A cloud-info file of the image goes before the product's name.
AltCloudType(m) ==
    IF \E t \in {"RHEV", "VSPHERE"} : HasFile(m, "cloud-info " \o t)
    THEN CHOOSE t \in {"RHEV", "VSPHERE"} : HasFile(m, "cloud-info " \o t)
    ELSE IF Dmi(m, "product") \in {"RHEV", "RHEV Hypervisor"} THEN "RHEV"
    ELSE IF Dmi(m, "product") = "VMware Virtual Platform" THEN "VSPHERE" ELSE "UNKNOWN"

(* AltCloud: user-data on the floppy or on a filesystem labelled CDROM.      *)
AltCloud(m) ==
    If(\E d \in m.disks : d.holds = "user-data.txt"
         /\ \/ AltCloudType(m) = "RHEV" /\ d.dev = "fd0"
            \/ AltCloudType(m) = "VSPHERE" /\ d.label = "CDROM")

(* OpenNebula: the seed, or a filesystem on which there is a context.        *)
OpenNebula(m) ==
    If(/\ \/ HasFile(m, "opennebula/context.sh")
          \/ /\ ~HasFile(m, "opennebula/context.sh") /\ ~HasFile(m, "opennebula/meta-data")
             /\ \E d \in m.disks : (d.label \in {"CONTEXT", "CDROM"} \/ d.type = "iso9660")
                                     /\ d.holds = "context.sh"
       /\ "OpenNebula disabled" \notin m.config)

----------------------------------------------------------------------------
\* VMware's customization: enabled, possible, and its file arrives in time.
Customized(m, net) ==
    /\ ~net /\ ~HasFile(m, "ovf-env.xml")
    /\ Dmi(m, "product") = "VMware Virtual Platform"
    /\ "customization" \in m.config /\ HasFile(m, "libdeployPkgPlugin.so")
    /\ HasFile(m, "vmware-imc/cust.cfg")

OvfMedia(m) == {d \in m.disks : d.type = "iso9660" /\ Cdrom(d) /\ d.holds \in {"ovf-env", "azure-env"}}

(* OVF: an environment among the seeds, the customization, an iso in a cdrom *)
(* drive.  An environment without properties raises.                        *)
OVF(m, net) ==
    IF ~Customized(m, net) /\ \E d \in OvfMedia(m) : d.holds = "azure-env" THEN "raises"
    ELSE If(HasFile(m, "ovf-env.xml") \/ Customized(m, net) \/ OvfMedia(m) # {})

----------------------------------------------------------------------------
\* The sources whose classes depend on the filesystem alone, and on the network too.
LocalSources == {"NoCloud", "ConfigDrive", "OpenNebula", "DigitalOcean", "Azure", "OVF", "Ec2",
                 "CloudSigma", "SmartOS"}
NetworkSources == {"NoCloud", "AltCloud", "OVF", "MAAS", "GCE", "OpenStack", "AliYun", "Ec2",
                   "CloudStack", "Bigstep", "Scaleway", "None"}

GetData(s, net, m) ==
    CASE s = "NoCloud" -> NoCloud(m, net) [] s = "ConfigDrive" -> ConfigDrive(m)
      [] s = "OpenNebula" -> OpenNebula(m) [] s = "DigitalOcean" -> DigitalOcean(m)
      [] s = "Azure" -> Azure(m)           [] s = "AltCloud" -> AltCloud(m)
      [] s = "OVF" -> OVF(m, net)          [] s = "MAAS" -> MAAS(m)
      [] s = "GCE" -> GCE(m)               [] s = "OpenStack" -> OpenStack(m)
      [] s = "AliYun" -> AliYun(m)         [] s = "Ec2" -> Ec2(m, net)
      [] s = "CloudSigma" -> CloudSigma(m) [] s = "CloudStack" -> CloudStack(m)
      [] s = "SmartOS" -> SmartOS(m)       [] s = "Bigstep" -> Bigstep(m)
      [] s = "Scaleway" -> Scaleway(m)     [] s = "None" -> "found"

\* What it leaves behind, found or not.
FilesAfter(s, net, m) ==
    CASE s = "Azure" /\ Azure(m) = "found" -> m.files \cup {"waagent/ovf-env.xml"}
      [] s = "OVF" /\ Customized(m, net) -> m.files \ {"vmware-imc/cust.cfg"}
      [] s = "ConfigDrive" -> m.files \cup ConfigDriveWrites(m)
      [] s = "DigitalOcean" -> m.files \cup DigitalOceanLeaves(m)
      [] OTHER -> m.files
=============================================================================
