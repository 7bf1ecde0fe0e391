----------------------------- MODULE MCDiscovery -----------------------------
(***************************************************************************)
(* Discovery for TLC: the machines the clouds make.                        *)
(***************************************************************************)
EXTENDS Discovery

Bare == [virt |-> "kvm", arch |-> "x86", product |-> "", vendor |-> "", serial |-> "", uuid |-> "other",
         chassis |-> "", hyper |-> "", kernel |-> "", cmdline |-> {}, config |-> {}, files |-> {},
         disks |-> {}, says |-> "", services |-> {"gateway"}, iid |-> ""]

Disk(dev, label, type, holds) == [dev |-> dev, label |-> label, type |-> type, holds |-> holds]
With(services) == services \cup {"gateway"}
C(own, machine) == [own |-> own, machine |-> machine]

Amazon ==
    {C("Ec2", [Bare EXCEPT !.virt = "xen", !.hyper = "ec2-1", !.uuid = "ec2-1", !.services = With({"ec2"})]),
     C("Ec2", [Bare EXCEPT !.uuid = "ec2-1", !.serial = "ec2-1", !.services = With({"ec2"})]),
     C("Ec2", [Bare EXCEPT !.serial = "x.brightbox.com", !.services = With({"ec2"})]),
     C("Ec2", [Bare EXCEPT !.config = {"strict_id: warn"}, !.services = With({"ec2"}),
                           !.disks = {Disk("sr0", "", "iso9660", "")}]),
     C("Ec2", [Bare EXCEPT !.services = With({"ec2"})]),
     C("AliYun", [Bare EXCEPT !.product = "Alibaba Cloud ECS", !.services = With({"aliyun"})])}

ConfigDisk == Disk("vdb", "config-2", "iso9660", "openstack")
NovaServices == With({"openstack", "ec2"})
OpenStacks ==
    {C("OpenStack", [Bare EXCEPT !.product = "OpenStack Nova", !.services = NovaServices]),
     C("ConfigDrive", [Bare EXCEPT !.product = "OpenStack Nova", !.services = NovaServices, !.disks = {ConfigDisk}]),
     C("ConfigDrive", [Bare EXCEPT !.product = "OpenStack Nova", !.disks = {ConfigDisk}, !.says = "local"]),
     C("ConfigDrive", [Bare EXCEPT !.disks = {Disk("vdb", "", "vfat", "openstack")}]),
     C("ConfigDrive", [Bare EXCEPT !.product = "OpenStack Nova", !.services = NovaServices,
                                   !.disks = {Disk("vdb", "", "vfat", "openstack-1")}, !.says = "local"]),
     C("OpenStack", [Bare EXCEPT !.product = "OpenStack Nova", !.services = NovaServices, !.disks = {ConfigDisk}, !.says = "pass"]),
     C("OpenStack", [Bare EXCEPT !.virt = "lxc", !.services = NovaServices, !.files = {"product_name=OpenStack Nova"}]),
     C("OpenStack", [Bare EXCEPT !.arch = "ppc64", !.services = NovaServices])}

VMware == [Bare EXCEPT !.virt = "vmware", !.product = "VMware Virtual Platform"]
Media ==
    {C("Azure", [Bare EXCEPT !.virt = "microsoft", !.chassis = AzureChassis,
                             !.disks = {Disk("sr0", "rd_rdfe_stable", "udf", "azure-env")}]),
     C("NoCloud", [Bare EXCEPT !.disks = {Disk("vdb", "cidata", "iso9660", "nocloud")}]),
     C("NoCloud", [VMware EXCEPT !.disks = {Disk("sr0", "cidata", "iso9660", "nocloud")}]),
     C("NoCloud", [Bare EXCEPT !.virt = "lxc", !.files = {"nocloud"}]),
     C("NoCloud", [Bare EXCEPT !.cmdline = {"ds=nocloud;s=http"}, !.services = With({"seed"})]),
     C("NoCloud", [Bare EXCEPT !.serial = "ds=nocloud"]),
     C("NoCloud", [Bare EXCEPT !.config = {"seedfrom"}, !.services = With({"seed"})]),
     C("OVF", [VMware EXCEPT !.disks = {Disk("sr0", "", "iso9660", "ovf-env")}]),
     C("AltCloud", [VMware EXCEPT !.disks = {Disk("sr0", "CDROM", "iso9660", "user-data.txt")},
                                  !.files = {"cloud-info VSPHERE"}]),
     C("AltCloud", [VMware EXCEPT !.disks = {Disk("sr0", "CDROM", "iso9660", "user-data.txt")}]),
     C("AltCloud", [Bare EXCEPT !.product = "RHEV Hypervisor", !.disks = {Disk("fd0", "", "vfat", "user-data.txt")}]),
     C("AltCloud", [Bare EXCEPT !.product = "RHEV Hypervisor", !.files = {"cloud-info RHEV"},
                                !.disks = {Disk("fd0", "", "vfat", "user-data.txt")}]),
     C("OVF", [VMware EXCEPT !.config = {"customization"},
                             !.files = {"libdeployPkgPlugin.so", "vmware-imc/cust.cfg"}]),
     C("None", [VMware EXCEPT !.disks = {Disk("sr0", "cidata", "iso9660", "nocloud")}, !.says = "disabled"]),
     C("OVF", [VMware EXCEPT !.files = {"ovf-env.xml"}]),
     C("OpenNebula", [Bare EXCEPT !.disks = {Disk("vdb", "CONTEXT", "iso9660", "context.sh")}]),
     C("OpenNebula", [Bare EXCEPT !.disks = {Disk("vdb", "CDROM", "vfat", "context.sh")}]),
     C("OpenNebula", [Bare EXCEPT !.files = {"opennebula/context.sh"}])}

Others ==
    {C("GCE", [Bare EXCEPT !.product = "Google Compute Engine", !.services = With({"gce"})]),
     C("GCE", [Bare EXCEPT !.serial = "GoogleCloud-1", !.services = With({"gce"})]),
     C("CloudStack", [Bare EXCEPT !.product = "CloudStack KVM Hypervisor", !.services = With({"cloudstack"})]),
     C("DigitalOcean", [Bare EXCEPT !.vendor = "DigitalOcean", !.serial = "droplet", !.services = With({"digitalocean"})]),
     C("CloudSigma", [Bare EXCEPT !.product = "CloudSigma", !.services = {"cloudsigma"}]),
     C("CloudSigma", [Bare EXCEPT !.product = "CloudSigma 2", !.services = {"cloudsigma"}]),
     C("CloudStack", [Bare EXCEPT !.files = {"cs"}]),
     C("SmartOS", [Bare EXCEPT !.product = "SmartDC HVM", !.services = With({"smartos"})]),
     C("SmartOS", [Bare EXCEPT !.virt = "container-other", !.kernel = "BrandZ virtual linux", !.services = {"smartos"}]),
     C("Bigstep", [Bare EXCEPT !.files = {"bigstep/url"}, !.services = {"bigstep"}]),
     C("Scaleway", [Bare EXCEPT !.cmdline = {"scaleway"}, !.services = With({"scaleway"})]),
     C("Scaleway", [Bare EXCEPT !.cmdline = {"bootfrom=scaleway"}, !.services = With({"scaleway"})]),
     C("None", Bare), C("None", [Bare EXCEPT !.arch = "ppc64"]),
     C("MAAS", [Bare EXCEPT !.files = {"maas"}]),
     C("MAAS", [Bare EXCEPT !.config = {"MAAS"}, !.services = With({"maas"})])}

AllClouds == Amazon \cup OpenStacks \cup Media \cup Others

\* An image was made on Azure or VMware, or has a seed that was not finished.
AllLeftovers == {{}, {"waagent/ovf-env.xml"}, {"opennebula/meta-data"}, {"maas, torn"}, {"manual-clean"},
                 {"vmware-imc/cust.cfg", "libdeployPkgPlugin.so"}}

AllLists == {<<>>, Builtin, <<"OpenStack", "Ec2", "None">>}
Search(f, b) == {[mode |-> "search", found |-> f, maybe |-> b, notfound |-> "enabled"]}
Mode(mode) == {[mode |-> mode, found |-> "all", maybe |-> "all", notfound |-> "enabled"]}
AllPolicies == {{}, Search("first", "all"), Mode("report"), Mode("enabled"), Mode("disabled")}
=============================================================================
