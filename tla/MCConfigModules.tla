----------------------------- MODULE MCConfigModules -----------------------------
(***************************************************************************)
(* What config modules make of a machine, for TLC: of its ephemeral disk on  *)
(* Azure (AzureDisk), of the disk with its root filesystem (RootDisk), or of *)
(* its packages and services (Configure).  None concerns another.           *)
(* Ephemeral disks with up to two partitions, by                            *)
(* the config of the datasource and others of a user.  Root filesystems of  *)
(* every kind, on a partition, a whole disk or a device the kernel calls    *)
(* /dev/root, with a second disk that is listed or not.  For each module    *)
(* of packages and services two to six configurations, images with the      *)
(* files of the distribution and without.                                   *)
(***************************************************************************)
EXTENDS AzureDisk, RootDisk, Configure

----------------------------------------------------------------------------
(* The three machines side by side: a behaviour is of one of them.          *)

NoRoot ==
    /\ machine = NoMachine /\ part = <<>> /\ stage = "off" /\ entries = <<>>
    /\ child = FALSE /\ smooth1 = TRUE
NoEphemeral ==
    /\ disk = Blank /\ table = BuiltinTable /\ fss = BuiltinFs
    /\ sems = {} /\ pc = "off" /\ todo = <<>> /\ smooth = TRUE /\ missed = FALSE

NoModule ==
    /\ module = "none" /\ asked = <<>> /\ files = <<>> /\ left = <<>> /\ at = "off"
    /\ clean = TRUE /\ found = <<>> /\ runs = 0 /\ again = FALSE

ModulesInit ==
    \/ Init /\ NoRoot /\ NoModule
    \/ NoEphemeral /\ RootInit /\ NoModule
    \/ NoEphemeral /\ NoRoot /\ ConfInit
ModulesNext ==
    \/ module = "none" /\ machine = NoMachine /\ Next /\ UNCHANGED <<rootVars, confVars>>
    \/ machine # NoMachine /\ RootNext /\ UNCHANGED <<vars, confVars>>
    \/ module # "none" /\ ConfNext /\ UNCHANGED <<vars, rootVars>>
ModulesSpec == ModulesInit /\ [][ModulesNext]_<<vars, rootVars, confVars>>

----------------------------------------------------------------------------
(* Their disks, filesystems, files and configurations.                      *)

MCWords == {None, "7", "82", "83", "0C01", "ntfs", "ext4", "xfs", "temp", "data", "a", "b"}

A(fs, label, data) == [fs |-> fs, label |-> label, files |-> data]
P(code, fs, label, data) == [code |-> code, on |-> A(fs, label, data)]
D(kind, parts) == [table |-> kind, raw |-> Empty, parts |-> parts]

Ntfs == P("7", "ntfs", "temp", FALSE)
MCFreshDisks == {D("mbr", <<Ntfs>>), D("gpt", <<P("0C01", None, None, FALSE), Ntfs>>)}
MCDisks ==
    MCFreshDisks \cup
    {Blank, [Blank EXCEPT !.raw = A("ext4", None, TRUE)], [Blank EXCEPT !.raw = A("xfs", "data", FALSE)],
     D("gpt", <<P("83", "xfs", "data", TRUE)>>), D("gpt", <<P("83", "ext4", None, TRUE)>>), D("mbr", <<P("83", "ext4", "data", TRUE), P("82", None, None, FALSE)>>),
     D("mbr", <<P("7", "ntfs", "temp", TRUE)>>)}

Table(type, layout, codes, overwrite) ==
    [table_type |-> type, layout |-> layout, codes |-> codes, overwrite |-> overwrite]
MCTables ==
    {BuiltinTable, Table("mbr", "whole", <<>>, FALSE), Table("gpt", "list", <<None, "82">>, FALSE),
     Table("mbr", "no", <<>>, FALSE), Table("mbr", "remove", <<>>, FALSE)}

Fs(type, label, partition, number, overwrite, replace) ==
    [filesystem |-> type, label |-> label, partition |-> partition, number |-> number,
     overwrite |-> overwrite, replace_fs |-> replace]
MCFilesystems ==
    {BuiltinFs, <<Fs("ext4", "data", "auto", 0, FALSE, None)>>,
     <<Fs("xfs", None, "any", 0, FALSE, "ntfs")>>, <<Fs("ext4", None, "none", 0, FALSE, None)>>,
     <<Fs("ext4", "a", "number", 1, FALSE, None), Fs("ext4", "b", "any", 0, FALSE, None)>>,
     <<Fs("xfs", None, "any", 0, FALSE, None), Fs("ext4", "data", "auto", 0, FALSE, None)>>}

----------------------------------------------------------------------------
Mount(point, fs, dev) == [point |-> point, fs |-> fs, dev |-> dev, good |-> TRUE]
Data == Mount(<<"data">>, "ext4", "vdb1")
Entry(point) == [dev |-> "", point |-> point]
Vda == [vda1 |-> "partition", vdb1 |-> "partition"]
Typical ==
    [container |-> FALSE, mounts |-> <<Mount(<<>>, "rootfs", "rootfs"), Mount(<<"proc">>, "proc", "proc"),
                                       Mount(<<>>, "ext4", "vda1"), Data>>,
     rootarg |-> "vda1", devs |-> Vda, tools |-> {"growpart"}, mode |-> "auto", devices |-> <<Entry(<<>>)>>,
     marker |-> FALSE, ignore |-> FALSE, resize |-> "true", root |-> "vda1"]
On1(fs, dev) == <<Mount(<<>>, fs, dev), Data>>
MCMachines ==
    [container : {FALSE}, mounts : {Typical.mounts, On1("xfs", "root"), On1("ext4", "root"), On1("ufs", "vda1"), On1("zfs", "vda1")},
     rootarg : {"vda1", ""}, devs : {Vda}, tools : {{"growpart"}, {"gpart"}}, mode : {"auto", "gpart"},
     devices : {<<Entry(<<>>)>>, <<Entry(<<"data">>), [dev |-> "vda1", point |-> <<>>]>>},
     marker : {FALSE}, ignore : {FALSE}, resize : {"true", "noblock"}, root : {"vda1"}] \cup
    {[Typical EXCEPT !.mode = "off"], [Typical EXCEPT !.marker = TRUE], [Typical EXCEPT !.resize = "false"],
     [Typical EXCEPT !.marker = TRUE, !.ignore = TRUE], [Typical EXCEPT !.tools = {}],
     [Typical EXCEPT !.mounts[4].good = FALSE],
     [Typical EXCEPT !.mounts = On1("ext4", "vda"), !.devs = [vda |-> "disk", vdb1 |-> "partition"], !.root = "vda"],
     [Typical EXCEPT !.mounts = On1("overlay", "overlayroot"), !.devs = [vda1 |-> "partition", vdb1 |-> "partition"]],
     [Typical EXCEPT !.container = TRUE, !.mounts = On1("ext4", "root")]}

----------------------------------------------------------------------------
Line(dir, suite) == <<"deb", dir, suite>>
Template == <<<<"#", "written">>, Line("$MIRROR", "$RELEASE"), Line("$MIRROR", "$RELEASE-updates"), Line("$SECURITY", "$RELEASE-security")>>
AptFacts ==
    [arch |-> "amd64", apt |-> TRUE, cloud |-> [PRIMARY |-> "near", SECURITY |-> "security"], resolves |-> {"two", "mirror.cloud"},
     domain |-> ".cloud", template |-> Template,
     suites |-> ("$RELEASE" :> "xenial") @@ ("$RELEASE-updates" :> "xenial-updates") @@ ("$RELEASE-security" :> "xenial-security")]
Source(base, fields) == [name |-> [dir |-> "", base |-> base], ent |-> fields]
Deb(w) == [kind |-> "deb", line |-> <<"deb", "$MIRROR", w>>]
Ppa == [kind |-> "ppa", line |-> <<"ppa:one/two">>]
AptConfigs ==
    {<<>>,
     [apt |-> [proxy |-> "squid", ftp_proxy |-> "ftpd", conf |-> "Recommends no", disable_suites |-> {"updates"},
               primary |-> <<[arches |-> {"arm64"}, uri |-> "arm"], [arches |-> {"default"}, search |-> <<"one", "two">>]>>]],
     [apt |-> [https_proxy |-> "tls", preserve_sources_list |-> TRUE,
               sources |-> <<Source("a", [source |-> Deb("a"), keyid |-> "k1"]), Source("b", [source |-> Ppa, key |-> "k2"])>>]],
     [apt |-> [primary |-> <<[arches |-> {"default"}, search_dns |-> TRUE]>>, security |-> <<[arches |-> {"amd64"}, uri |-> "safe"]>>,
               sources_list |-> <<<<"deb", "[", "arch=amd64", "]", "$PRIMARY", "$RELEASE-security">>>>, disable_suites |-> {"security"},
               debconf_selections |-> <<<<"cloud-init", "datasources">> :> "Ec2", <<"other", "q">> :> "yes">>]],
     [apt_mirror |-> "two", apt_proxy |-> "squid",
      apt_sources_list |-> <<[source |-> Deb("x")], [source |-> Deb("y")], [source |-> Deb("z"), filename |-> [dir |-> "", base |-> "z"]]>>],
     [apt_ftp_proxy |-> "ftpd", apt_https_proxy |-> "tls"],
     [apt_proxy |-> "old", apt |-> [proxy |-> "new"]]}
AptImages ==
    {SourcesList :> <<Line("archive", "trusty")>> @@ Lists :> {<<"archive", "xenial">>, <<"security", "xenial-security">>} @@
     Packages :> {"cloud-init"} @@ DpkgCfg :> (<<"cloud-init", "datasources">> :> "None"),
     ProxyFile :> <<<<"http", "factory">>>>}

----------------------------------------------------------------------------
MCSpelled == ("Epel-Testing" :> "epel_testing") @@ ("Base-URL" :> "baseurl") @@ ("a b" :> "a_b")
YumConfigs ==
    {<<[id |-> "Epel-Testing", config |-> [baseurl |-> "u1"]], [id |-> "epel_testing", config |-> [baseurl |-> "u2"]]>>,
     <<[id |-> "epel_testing", config |-> [name |-> "n"]], [id |-> "Epel-Testing", config |-> "Base-URL" :> "u3"]>>,
     <<[id |-> "other", config |-> [baseurl |-> "u4"]], [id |-> "bad", config |-> <<>>]>>}
YumImages == {<<>>, <<"yum.repos.d", "other">> :> [baseurl |-> "distribution"]}

Set(k, v) == <<k, v>>
ZypperConfigs ==
    {[repos |-> <<[id |-> "a b", baseurl |-> "u1"], [id |-> "x"]>>, config |-> <<Set("download", "1"), Set("configdir", "/x"), Set("solver", "s")>>],
     [repos |-> <<[id |-> "a_b", baseurl |-> "u2", enabled |-> "0"], [id |-> "a b", baseurl |-> "u3"]>>, config |-> <<Set("solver", "t"), Set("reposdir", "/r")>>],
     [repos |-> <<[id |-> "c", baseurl |-> "u4"], [id |-> "c", baseurl |-> "u5"]>>],
     [config |-> <<Set("solver", "u")>>]}
ZypperImages == {ZyppConf :> <<<<"download", "0", "eol">>>>, <<>>}

CaConfigs ==
    {[trusted |-> {"c1"}], [trusted |-> {"c2", "c3"}], [remove_defaults |-> TRUE], [remove_defaults |-> TRUE, trusted |-> {"c4"}], <<>>}
CaImages ==
    {CaDir :> [mozilla |-> {"m"}] @@ CaConf :> <<"mozilla">> @@ Trusted :> {"m"},
     CaDir :> [mozilla |-> {"m"}] @@ CaConf :> <<"mozilla", "site">> @@ Trusted :> {"m"}}

UpgradeConfigs ==
    {[packages |-> {"p", "q"}, package_update |-> TRUE], [apt_upgrade |-> TRUE, package_reboot_if_required |-> TRUE],
     [packages |-> {"r"}, apt_reboot_if_required |-> TRUE], [package_reboot_if_required |-> TRUE]}

SnapConfigs ==
    {[packages |-> <<<<"etcd">>, <<"pkg2", "smoser">>>>, config |-> (<<"pkg2", "smoser">> :> "c2") @@ (<<"core">> :> "c0")],
     [config |-> (<<"foo">> :> "c3") @@ (<<"etcd">> :> "c4"), ssh_enabled |-> "false"],
     [ssh_enabled |-> "true"], [system_snappy |-> "false", packages |-> <<<<"etcd">>>>]}
SnapFacts == [snappy |-> TRUE, snaps |-> <<[name |-> <<"foo", "me">>, files |-> [short |-> "f1", noext |-> "f2"]]>>]
SnapImages == {Snaps :> [core |-> Unset], NotToBeRun :> <<>> @@ Snaps :> <<>>}

LxdConfigs ==
    {[init |-> [storage_backend |-> "zfs"], bridge |-> [mode |-> "new", name |-> "br1", ipv4_address |-> "10.0.0.1"]],
     [bridge |-> [mode |-> "new", ipv6_address |-> "fe80::1", ipv6_nat |-> "true"]], [bridge |-> [mode |-> "existing", name |-> "br2"]],
     [bridge |-> [mode |-> "none"]], [bridge |-> [mode |-> "else"]], [init |-> [storage_backend |-> "dir"]]}
LxdImages == {<<>>, LxdBridge :> [setup |-> "false"]}

----------------------------------------------------------------------------
ChefConfigs ==
    {[server_url |-> "s1", validation_cert |-> "pem1", delete_validation_post_exec |-> TRUE, exec |-> TRUE, run_list |-> "r1"],
     [server_url |-> "s2", validation_cert |-> "system", node_name |-> "n2", install_type |-> "gems", firstboot_path |-> <<>>],
     [server_url |-> "s3", validation_cert |-> "pem3", validation_key |-> <<"own.pem">>, install_type |-> "omnibus", force_install |-> TRUE],
     [server_url |-> "s4", install_type |-> "other", exec |-> TRUE, initial_attributes |-> [x |-> "y"]],
     [server_url |-> "s5", validation_cert |-> "pem5", install_type |-> "gems", delete_validation_post_exec |-> TRUE],
     [validation_cert |-> "pem6", exec |-> TRUE]}
ChefImages == {<<>>, <<"packages">> :> {"chef"} @@ ChefPem :> "factory" @@ ClientRb :> [node_name |-> "old"]}

Sec(name, items) == [name |-> name, items |-> items]
PuppetConfigs ==
    {[conf |-> <<Sec("agent", [server |-> "s1"]), Sec("ca_cert", [pem |-> "c1"]), Sec("main", [report |-> "yes"])>>],
     [install |-> FALSE, conf |-> <<Sec("agent", [server |-> "s2", certname |-> "i2"])>>], [conf |-> <<Sec("agent", [ca_cert |-> "c3"])>>], [install |-> TRUE]}
PuppetImages ==
    {PuppetConf :> (<<"main", "logdir">> :> "/var/log") @@ <<"default", "puppet">> :> [START |-> "no"],
     PuppetConf :> (<<"agent", "server">> :> "factory"), <<>>}

McoConfigs ==
    {[conf |-> (<<"", "public-cert">> :> "p1") @@ (<<"", "private-cert">> :> "p2") @@ (<<"", "loglevel">> :> "debug")],
     [conf |-> (<<"main", "x">> :> "y") @@ (<<"", "loglevel">> :> "warn")], <<>>}
McoImages == {<<>>, ServerCfg :> (<<"", "loglevel">> :> "info") @@ (<<"", "identity">> :> "me")}

LandscapeConfigs == {[url |-> "u1"], [log_level |-> "debug", tags |-> "t"], <<>>}
LandscapeImages == {<<>>, ClientConf :> [url |-> "u0", id |-> "i0"]}

NtpConfigs == {[servers |-> {"s1", "s2"}], [pools |-> {"p1"}], <<>>, [servers |-> {"s3"}, pools |-> {"p3"}]}
NtpImages == {<<>>, NtpConf :> [servers |-> {"d"}, pools |-> {}], <<"packages">> :> {"ntp"}}

E(c) == [content |-> <<<<c>>>>]
EF(c, f) == [content |-> <<<<c>>>>, filename |-> f]
Remote(name, words, proto, addr, colon, bracket) ==
    [name |-> name, words |-> words, match |-> "auth.*", proto |-> proto, addr |-> addr, colon |-> colon, bracket |-> bracket, port |-> "514"]
SyslogConfigs ==
    {[list |-> <<E("l1"), EF("l2", <<"x.conf">>), E("l3")>>, rsyslog_filename |-> <<"y.conf">>],
     [configs |-> <<EF("l4", <<"/var", "z.conf">>), EF("l5", <<>>), [filename |-> <<"x.conf">>], E("l6")>>,
      remotes |-> <<Remote("r1", 1, "", "host", FALSE, FALSE), Remote("r2", 2, "@@", "::1", TRUE, TRUE), Remote("r3", 1, "@", "::2", TRUE, FALSE),
                    Remote("r4", 3, "@", "host", FALSE, FALSE)>>],
     [config_dir |-> "d2", remotes |-> <<Remote("r5", 1, "@", "", FALSE, FALSE)>>], <<>>}
SyslogImages == {<<>>, <<"rsyslog.d", "x.conf">> :> <<<<"factory">>>>}

F(path, layers, encoding) == [path |-> path, layers |-> layers, data |-> "d", encoding |-> encoding]
WriteConfigs ==
    {<<F(<<"/a">>, <<"b64", "gz">>, "gz+b64"), F(<<"/b">>, <<>>, "rot13"), [layers |-> <<>>, data |-> "nowhere"]>>,
     <<F(<<"/b">>, <<"b64">>, "base64"), F(<<"/a">>, <<"gz">>, "b64"), F(<<"/c">>, <<>>, "")>>,
     <<[F(<<"/a">>, <<"gz">>, "gzip") EXCEPT !.data = "e"] @@ [permissions |-> "0600"], F(<<"/c">>, <<>>, "") @@ [owner |-> "nobody"]>>,
     <<F(<<"/a">>, <<>>, "") @@ [permissions |-> "bad"]>>}

ResolvConfigs ==
    {[manage_resolv_conf |-> TRUE, resolv_conf |-> [nameservers |-> {"n1"}, options |-> [rotate |-> "true", inet6 |-> "false", timeout |-> "1"]]],
     [manage_resolv_conf |-> TRUE, resolv_conf |-> [nameservers |-> {}]], [manage_resolv_conf |-> TRUE], <<>>}

SeedConfigs ==
    {[data |-> "d1", encoding |-> "b64"], [file |-> <<"pool">>, data |-> "d2", command |-> "pollinate", command_required |-> TRUE],
     [data |-> "d3", encoding |-> "rot13"], [command |-> "absent", command_required |-> TRUE], [command |-> "absent"]}

----------------------------------------------------------------------------
MCConfigs ==
    [apt |-> AptConfigs, yum |-> YumConfigs, zypper |-> ZypperConfigs, ca_certs |-> CaConfigs, upgrade |-> UpgradeConfigs,
     snappy |-> SnapConfigs, lxd |-> LxdConfigs, chef |-> ChefConfigs, puppet |-> PuppetConfigs, mcollective |-> McoConfigs,
     landscape |-> LandscapeConfigs, ntp |-> NtpConfigs, rsyslog |-> SyslogConfigs, write_files |-> WriteConfigs,
     resolv_conf |-> ResolvConfigs, seed_random |-> SeedConfigs]
MCImages ==
    [apt |-> AptImages, yum |-> YumImages, zypper |-> ZypperImages, ca_certs |-> CaImages, upgrade |-> {<<>>},
     snappy |-> SnapImages, lxd |-> LxdImages, chef |-> ChefImages, puppet |-> PuppetImages, mcollective |-> McoImages,
     landscape |-> LandscapeImages, ntp |-> NtpImages, rsyslog |-> SyslogImages, write_files |-> {<<>>, <<"/b">> :> [layers |-> <<>>, data |-> "old", mode |-> "0644"]},
     resolv_conf |-> {<<>>}, seed_random |-> {<<>>}]
MCFacts ==
    [apt |-> AptFacts, snappy |-> SnapFacts, lxd |-> [which |-> {"lxd", "debconf-communicate"}],
     chef |-> [iid |-> "i1", templates |-> {"chef_client.rb"}], puppet |-> [which |-> {"systemctl"}],
     ntp |-> [snappy |-> FALSE, which |-> {"apt-get"}, templates |-> {"ntp.conf"}],
     write_files |-> [users |-> {"root"}], resolv_conf |-> [templates |-> {"resolv.conf"}],
     seed_random |-> [seed |-> "cloud", which |-> {"pollinate"}]]
==============================================================================
