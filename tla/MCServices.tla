------------------------------ MODULE MCServices ------------------------------
(***************************************************************************)
(* Services for TLC: two urls to wait for; eleven crawlers and what their    *)
(* services publish, a tree of EC2 metadata with a credential in it; and the *)
(* environments of an Azure machine.                                        *)
(***************************************************************************)
EXTENDS Services

MCUrls == <<"http://169.254.169.254", "http://instance-data.:8773">>
MCMaxWaits == {-1, 1, 7, 16}

F(name, path, kind) == [name |-> name, path |-> path, kind |-> kind]
MCTree ==
    [d \in {"meta-data/", "meta-data/public-keys/", "meta-data/iam/", "meta-data/network/"} |->
        CASE d = "meta-data/" ->
               <<F("instance-id", "meta-data/instance-id", "leaf"), F("public-keys", "meta-data/public-keys/", "dir"),
                 F("iam", "meta-data/iam/", "dir"), F("network", "meta-data/network/", "dir")>>
          [] d = "meta-data/public-keys/" -> <<F("my-key", "meta-data/public-keys/0/openssh-key", "leaf")>>
          [] d = "meta-data/iam/" -> <<F("security-credentials", "meta-data/iam/security-credentials", "leaf")>>
          [] d = "meta-data/network/" -> <<F("mac", "meta-data/network/mac", "leaf")>>]

Some(required, optional) == {required \cup s : s \in SUBSET optional}
OsBase == {"versions", "meta_data.json", "2012-08-10"}
OpenStackOffers ==
    Some(OsBase, {"user_data", "content/0000", "meta-data/"})
        \cup Some(OsBase \cup {"2013-10-17", "2015-10-15", "user_data"},
                  {"vendor_data.json", "network_data.json", "content/network_config"})
MCOffers ==
    [c \in {"Ec2", "AliYun", "OpenStack", "ConfigDrive", "CloudStack", "MAAS", "Scaleway", "GCE",
            "Bigstep", "SmartOS", "DigitalOcean"} |->
        CASE c = "Ec2" -> Some({"meta-data/"}, {"version", "user-data"})
          [] c = "AliYun" -> Some({"meta-data/"}, {"user-data"})
          [] c = "CloudStack" -> Some({"meta-data/", "saved_password"}, {"user-data", "password"})
          [] c = "OpenStack" -> OpenStackOffers
          [] c = "ConfigDrive" -> {(o \ {"meta-data/"}) \cup e : o \in OpenStackOffers, e \in {{}, {"ec2/latest/meta-data.json"}}}
          [] c = "MAAS" -> Some({"instance-id", "local-hostname"}, {"public-keys", "vendor-data", "user-data"})
          [] c = "Scaleway" -> Some({"conf"}, {"user-data", "vendor-data"})
          [] c = "GCE" -> Some({"instance-id", "zone", "hostname"}, {"project sshKeys", "instance ssh-keys", "user-data"})
                              \cup {{"instance-id", "zone", "hostname", "user-data", "user-data-encoding"}}
          [] c = "Bigstep" -> {{"url"}}
          [] c = "SmartOS" -> Some({"sdc:uuid"}, {"hostname", "cloud-init:user-data", "sdc:nics"})
          [] c = "DigitalOcean" -> {{"v1.json"}}]
----------------------------------------------------------------------------
MCEnvironments ==
    [username : {"", "u"}, password : {"absent", "", "secret"}, disable : {"", "true", "false"},
     keys : {"", "value", "fingerprint"}]
==============================================================================
