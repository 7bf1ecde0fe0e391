------------------------------ MODULE Packaging ------------------------------
(***************************************************************************)
(* Modules about packages: repositories of yum and zypper, trusted          *)
(* certificates, updates, snaps and lxd.  Of each, the effects of its        *)
(* handler on files f, and when what its configuration c asks is in effect,  *)
(* f0 being the files it found.                                             *)
(***************************************************************************)
EXTENDS ConfigFiles, FiniteSets

CONSTANT Spelled   \* names in another spelling -> the one they are brought to

Canonical(name) == Get(Spelled, name, name)
Cleaned(settings) ==
    [k \in {Canonical(raw) : raw \in DOMAIN settings} |-> settings[CHOOSE raw \in DOMAIN settings : Canonical(raw) = k]]
Picked(seq, set) == LET order == SetToSortSeq(set, <) IN [i \in DOMAIN order |-> seq[order[i]]]

----------------------------------------------------------------------------
(* yum: a repository that has a file keeps it, of two with one file the      *)
(* first that is complete counts.                                           *)
YumFile(repo) == <<"yum.repos.d", Canonical(repo.id)>>
YumComplete(repo) == "baseurl" \in DOMAIN Cleaned(repo.config)
YumValid(repos, f) ==
    {i \in DOMAIN repos : /\ YumFile(repos[i]) \notin DOMAIN f /\ YumComplete(repos[i])
                          /\ ~\E j \in 1..(i - 1) : YumFile(repos[j]) = YumFile(repos[i]) /\ YumComplete(repos[j])}
YumEffects(repos, f) ==
    LET valid == Picked(repos, YumValid(repos, f))
    IN  [i \in DOMAIN valid |-> Write(YumFile(valid[i]), Cleaned(valid[i].config))]

YumInEffect(repos, f0, f) ==
    /\ \A p \in DOMAIN f0 : f[p] = f0[p]
    /\ \A i \in DOMAIN repos : YumComplete(repos[i]) => YumFile(repos[i]) \in DOMAIN f
    /\ \A p \in DOMAIN f \ DOMAIN f0 : \E i \in DOMAIN repos : YumFile(repos[i]) = p /\ f[p] = Cleaned(repos[i].config)

----------------------------------------------------------------------------
(* zypper: lines of zypp.conf are tuples of words, with the end of the line. *)
ZyppConf == <<"zypp.conf">>

Glued(a, b) ==
    IF a = <<>> \/ Last(Last(a)) = "eol" THEN a \o b ELSE Front(a) \o <<Last(a) \o b[1]>> \o Tail(b)
ZyppConfig(settings, f) ==
    LET kept == SelectSeq(settings, LAMBDA s : s[1] # "configdir" /\ s[2] # "")
        lines == [i \in DOMAIN kept |-> IF i = Len(kept) THEN kept[i] ELSE kept[i] \o <<"eol">>]
    IN  CASE settings = <<>> -> <<>>
          [] settings # <<>> /\ ZyppConf \notin DOMAIN f -> <<Raise>>
          [] OTHER -> <<Write(ZyppConf, IF kept = <<>> THEN f[ZyppConf]
                                        ELSE Glued(f[ZyppConf], <<<<"# Added via cloud.cfg", "eol">>>> \o lines))>>

ZypperDir(c) ==
    LET at == SelectSeq(Get(c, "config", <<>>), LAMBDA s : s[1] = "reposdir") IN IF at = <<>> THEN "repos.d" ELSE at[1][2]
ZypperFile(c, repo) == <<ZypperDir(c), Canonical(repo.id)>>
ZypperComplete(repo) == {"id", "baseurl"} \subseteq DOMAIN repo
ZypperValid(c, f) ==
    {i \in DOMAIN c.repos : /\ ZypperComplete(c.repos[i]) /\ ZypperFile(c, c.repos[i]) \notin DOMAIN f
                            /\ ~\E j \in 1..(i - 1) : ZypperComplete(c.repos[j]) /\ c.repos[j].id = c.repos[i].id}
ZypperContent(repo) == Cleaned(Without(repo, {"id"})) ++ [enabled |-> "1", autorefresh |-> "1"]

ZypperEffects(c, f) ==
    LET valid == Picked(c.repos, ZypperValid(c, f))
    IN  IF Get(c, "repos", <<>>) = <<>> THEN <<>>
        ELSE ZyppConfig(Get(c, "config", <<>>), f) \o
             [i \in DOMAIN valid |-> Write(ZypperFile(c, valid[i]), ZypperContent(valid[i]))]

\* A setting is what the last line with its name says, without a word more.
\* Without repositories the settings are ignored too, and a repository that has
\* a file keeps it.
ZypperInEffect(c, f0, f) ==
    Get(c, "repos", <<>>) # <<>> =>
        /\ \A i \in DOMAIN Get(c, "config", <<>>) : c.config[i][1] # "configdir" /\ c.config[i][2] # "" =>
              LET said == SelectSeq(f[ZyppConf], LAMBDA l : l[1] = c.config[i][1])
              IN  said # <<>> /\ Last(said) \in {c.config[i], c.config[i] \o <<"eol">>}
        /\ \A i \in DOMAIN c.repos : ZypperComplete(c.repos[i]) => ZypperFile(c, c.repos[i]) \in DOMAIN f
        /\ \A p \in DOMAIN f0 \ {ZyppConf} : f[p] = f0[p]

----------------------------------------------------------------------------
(* Certificates: the directory, the list of those that are used, and what   *)
(* update-ca-certificates makes of both: the names after a blank line are   *)
(* ignored.                                                                 *)
CaDir == <<"ca-certificates">>
CaConf == <<"ca-certificates.conf">>
Trusted == <<"certs">>
OurCert == "cloud-init-ca-certs.crt"

UsedCerts(dir, conf) ==
    LET upTo == {i \in DOMAIN conf : ~\E j \in 1..i : conf[j] = ""}
    IN  UNION {Get(dir, conf[i], {}) : i \in upTo}

CaEffects(c, f) ==
    LET removed == Get(c, "remove_defaults", FALSE)
        trusted == Get(c, "trusted", {})
        others == SelectSeq(IF removed THEN <<>> ELSE Get(f, CaConf, <<>>), LAMBDA l : l # OurCert)
        dir == (IF trusted = {} THEN <<>> ELSE One(OurCert, trusted)) ++ (IF removed THEN <<>> ELSE Get(f, CaDir, <<>>))
        conf == IF trusted = {} THEN (IF removed THEN <<>> ELSE Get(f, CaConf, <<>>))
                ELSE (IF others = <<>> THEN <<"">> ELSE others) \o <<OurCert>>
    IN  If(removed, <<Write(CaDir, <<>>), Write(Trusted, {}), Write(CaConf, <<>>), Run(<<"preseeds">>, {"trust_new_crts no"})>>) \o
        If(trusted # {}, <<Settings(CaDir, One(OurCert, trusted)),
                           IF ~removed /\ CaConf \notin DOMAIN f THEN Raise ELSE Write(CaConf, conf)>>) \o
        <<Effect("write", Trusted, UsedCerts(dir, conf), "raise")>>

CertsAreTrusted(c, f) == Get(c, "trusted", {}) \subseteq f[Trusted]
\* Not as documented: to a list that was emptied the name is added after a
\* blank line, at which the list ends, so that no certificate is used.
EndsEarly(f) == "" \in Range(Get(f, CaConf, <<>>))
CaInEffect(c, f0, f) ==
    LET others == Without(Get(f0, CaDir, <<>>), {OurCert})
    IN  /\ EndsEarly(f) => f[Trusted] = {}
        /\ ~EndsEarly(f) =>
              /\ CertsAreTrusted(c, f)
              /\ ~Get(c, "remove_defaults", FALSE) => UsedCerts(others, Get(f0, CaConf, <<>>)) \subseteq f[Trusted]
        /\ Get(c, "remove_defaults", FALSE) => f[Trusted] \subseteq Get(c, "trusted", {})

----------------------------------------------------------------------------
(* Updates: what fails is raised when all is done.                          *)
RebootFile == <<"reboot-required">>
Asks(c, old, new) == Get(c, old, FALSE) \/ Get(c, new, FALSE)
Upgrades(c) == Asks(c, "package_upgrade", "apt_upgrade")
PackageList(c) == Get(c, "packages", {})

UpgradeEffects(c) ==
    If(Asks(c, "apt_update", "package_update") \/ Upgrades(c) \/ PackageList(c) # {}, <<Collect(<<"package", "lists">>, {"updated"})>>) \o
    If(Upgrades(c), <<Collect(RebootFile, {"kernel"})>>) \o
    If(PackageList(c) # {}, <<Collect(<<"packages">>, PackageList(c))>>) \o <<Resume>>
UpgradeRest(c, f) ==
    If(/\ Upgrades(c) \/ PackageList(c) # {}
       /\ Asks(c, "apt_reboot_if_required", "package_reboot_if_required") /\ RebootFile \in DOMAIN f,
       <<Collect(<<"reboots">>, {"requested"})>>)

UpgradeInEffect(c, f) ==
    /\ PackageList(c) \subseteq Get(f, <<"packages">>, {})
    /\ Upgrades(c) /\ Asks(c, "apt_reboot_if_required", "package_reboot_if_required") => <<"reboots">> \in DOMAIN f

----------------------------------------------------------------------------
(* Snaps: a name is a tuple, the developer last; each has its config.       *)
Snaps == <<"snaps">>
NotToBeRun == <<"sshd_not_to_be_run">>

PackageConfig(configs, name) == Get(configs, name, Get(configs, <<name[1]>>, Unset))
CfgFile(snap) ==
    LET found == SelectSeq(<<"noext", "name", "short">>, LAMBDA k : k \in DOMAIN snap.files)
    IN  IF found = <<>> THEN Unset ELSE snap.files[found[1]]

SnapOp(name, config, f) ==
    Effect("set", Snaps, One(name[1], IF config = Unset THEN Get(Get(f, Snaps, <<>>), name[1], Unset) ELSE config), "collect")
SnapOps(c, dir, f) ==
    LET packages == Get(c, "packages", <<>>)
        configs == Get(c, "config", <<>>)
        installs == {dir[i].name[1] : i \in DOMAIN dir} \cup {packages[i][1] : i \in DOMAIN packages}
        others == SetToSeq({n \in DOMAIN configs : n[1] \notin installs /\ n[1] \in DOMAIN Get(f, Snaps, <<>>)})
        ofDir(snap) == LET given == PackageConfig(configs, snap.name) IN IF given = Unset THEN CfgFile(snap) ELSE given
    IN  [i \in DOMAIN dir |-> SnapOp(dir[i].name, ofDir(dir[i]), f)] \o
        [i \in DOMAIN packages |-> SnapOp(packages[i], PackageConfig(configs, packages[i]), f)] \o
        [i \in DOMAIN others |-> SnapOp(others[i], PackageConfig(configs, others[i]), f)]

\* "auto" stays what it is where nothing asks for ssh, and is taken for true.
EnableSsh(c) == Get(c, "ssh_enabled", "auto") # "false"
DisableEnableSsh(enabled) ==
    IF enabled THEN <<Delete(NotToBeRun), Service(<<"ssh", "started">>)>> ELSE <<Service(<<"ssh", "stopped">>), Write(NotToBeRun, <<>>)>>
SystemIsSnappy(c, m) ==
    LET said == Get(c, "system_snappy", "auto") IN said = "true" \/ (said = "auto" /\ m.snappy)

SnappyEffects(c, m, f) ==
    If(SystemIsSnappy(c, m), <<Run(<<"snap", "list">>, {})>> \o SnapOps(c, m.snaps, f) \o DisableEnableSsh(EnableSsh(c)))

\* Not as documented: "auto" enables ssh also where nothing asks for it.
SnappyInEffect(c, m, f0, f) ==
    SystemIsSnappy(c, m) =>
        /\ \A i \in DOMAIN Get(c, "packages", <<>>) : c.packages[i][1] \in DOMAIN f[Snaps]
        /\ \A i \in DOMAIN m.snaps : m.snaps[i].name[1] \in DOMAIN f[Snaps]
        /\ \A n \in DOMAIN Get(c, "config", <<>>) : n[1] \in DOMAIN Get(f, Snaps, <<>>) =>
              f[Snaps][n[1]] \in {c.config[o] : o \in {o \in DOMAIN c.config : o[1] = n[1]}}
        /\ Get(c, "ssh_enabled", "auto") # "auto" => (NotToBeRun \in DOMAIN f) = (c.ssh_enabled = "false")

----------------------------------------------------------------------------
(* lxd: a bridge made by the package through debconf, or by lxd itself.  An *)
(* address stands for the address and its netmask.                          *)
LxdBridge == <<"lxd-bridge">>
LxdPackages(c, m) ==
    {p \in {"lxd", "zfs"} : p \notin m.which /\ (p = "zfs" => Get(Get(c, "init", <<>>), "storage_backend", Unset) = "zfs")}

FamilyQuestions(bridge, family, names) ==
    IF ~Given(bridge, family) THEN <<>>
    ELSE One(family, bridge[family]) ++ [n \in names |-> Get(bridge, n, IF n = "ipv4_nat" THEN "true" ELSE "false")]
BridgeToDebconf(bridge) ==
    LET name == IF Given(bridge, "name") THEN [name |-> bridge.name] ELSE <<>>
    IN  CASE bridge.mode = "none" -> [setup |-> "false", name |-> ""]
          [] bridge.mode = "existing" -> [setup |-> "false", use_existing |-> "true"] ++ name
          [] bridge.mode = "new" ->
                [setup |-> "true"] ++ name ++ FamilyQuestions(bridge, "ipv4_address", {"ipv4_nat"}) ++
                FamilyQuestions(bridge, "ipv6_address", {"ipv6_nat"})
          [] OTHER -> Unset

BridgeSettings(bridge, family, nat) ==
    IF Given(bridge, family) THEN One(family, bridge[family]) ++ One(nat, Get(bridge, nat, IF nat = "ipv4_nat" THEN "true" ELSE "false"))
    ELSE One(family, "none")
BridgeToCmd(bridge) ==
    CASE bridge.mode = "none" -> <<>>
      \* The message about the attachment needs the command that creates.
      [] bridge.mode = "existing" -> <<Raise>>
      [] bridge.mode = "new" ->
            <<RunSettings(<<"bridges">>, One(Get(bridge, "name", "lxdbr0"),
                                              BridgeSettings(bridge, "ipv4_address", "ipv4_nat") ++
                                              BridgeSettings(bridge, "ipv6_address", "ipv6_nat"))),
              Run(<<"attached">>, {Get(bridge, "name", "lxdbr0")})>>
      [] OTHER -> <<Raise>>

LxdEffects(c, m) ==
    If(LxdPackages(c, m) # {}, <<Effect("add", <<"packages">>, LxdPackages(c, m), "stop")>>) \o
    If(Get(c, "init", <<>>) # <<>>, <<RunSettings(<<"lxd", "init">>, c.init)>>) \o <<Resume>>
LxdRest(c, m, f) ==
    LET asked == BridgeToDebconf(c.bridge)
        all == asked ++ Get(f, <<"lxd", "debconf">>, <<>>)
    IN  CASE Get(c, "bridge", <<>>) = <<>> -> <<>>
          [] Get(c, "bridge", <<>>) # <<>> /\ (LxdBridge \notin DOMAIN f \/ "debconf-communicate" \notin m.which) -> BridgeToCmd(c.bridge)
          [] OTHER -> IF asked = Unset THEN <<Raise>>
                      ELSE <<Effect("set", <<"lxd", "debconf">>, asked, "log"), Delete(LxdBridge),
                             Effect("write", LxdBridge, all, "raise")>>

LxdInEffect(c, m, f) ==
    Get(c, "bridge", <<>>) # <<>> =>
        \/ /\ LxdBridge \in DOMAIN f
           /\ \A q \in DOMAIN BridgeToDebconf(c.bridge) : f[LxdBridge][q] = BridgeToDebconf(c.bridge)[q]
        \/ c.bridge.mode = "new" => /\ Get(c.bridge, "name", "lxdbr0") \in f[<<"attached">>]
                                    /\ Get(c.bridge, "name", "lxdbr0") \in DOMAIN f[<<"bridges">>]
=============================================================================
