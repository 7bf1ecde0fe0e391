------------------------------ MODULE AptConfig ------------------------------
(***************************************************************************)
(* cc_apt_configure: sources, mirrors, proxies, keys and preseeds of apt,   *)
(* in three formats of the configuration, the old ones converted.  A file   *)
(* of sources is a sequence of lines, a line a tuple of words; words with $ *)
(* are rendered.  What the machine is (m): its arch and release, the mirrors *)
(* its cloud has, the names that resolve, and the template of the distro.   *)
(***************************************************************************)
EXTENDS ConfigFiles, FiniteSets

SourcesList == <<"sources.list">>
ProxyFile == <<"90cloud-init-aptproxy">>
ConfFile == <<"94cloud-init-config">>
Lists == <<"lists">>
Keyring == <<"keyring">>
Debconf == <<"debconf">>
DpkgCfg == <<"cloud.cfg.d", "90_dpkg.cfg">>
Packages == <<"packages">>

(* Formats.                                                                *)

MapOldKeys ==
    [apt_sources |-> "sources", apt_proxy |-> "proxy", apt_http_proxy |-> "http_proxy",
     apt_ftp_proxy |-> "https_proxy", apt_https_proxy |-> "ftp_proxy",
     apt_preserve_sources_list |-> "preserve_sources_list",
     apt_custom_sources_list |-> "sources_list", add_apt_repo_match |-> "add_apt_repo_match"]
MirrorKeys == [apt_mirror |-> "uri", apt_mirror_search |-> "search", apt_mirror_search_dns |-> "search_dns"]

Renamed(keys, top) ==
    LET given == {k \in DOMAIN keys : Given(top, k)}
    IN  [n \in {keys[k] : k \in given} |-> top[CHOOSE k \in given : keys[k] = n]]

(* The first format, a list: of entries for one file the last is kept,      *)
(* those without a file are all.                                            *)
CloudConfigSources == [dir |-> "", base |-> "cloud_config_sources"]
ListAsDict(list) ==
    LET kept == {i \in DOMAIN list : ~\E j \in DOMAIN list :
                    j > i /\ "filename" \in DOMAIN list[i] \cap DOMAIN list[j] /\ list[j].filename = list[i].filename}
    IN  [k \in 1..Cardinality(kept) |->
            LET ent == list[SetToSortSeq(kept, <)[k]]
            IN  [name |-> Get(ent, "filename", CloudConfigSources), ent |-> ent]]
InV2(top) ==
    IF "apt_sources_list" \in DOMAIN top
    THEN [apt_sources |-> ListAsDict(top.apt_sources_list)] ++ Without(top, {"apt_sources_list"}) ELSE top

OldGiven(top) == Renamed(MapOldKeys, top) # <<>> \/ Renamed(MirrorKeys, top) # <<>>
Unequal(top) ==
    Given(top, "apt") /\ \E k \in DOMAIN MapOldKeys :
        Given(top, k) /\ Given(top.apt, MapOldKeys[k]) /\ top.apt[MapOldKeys[k]] # top[k]
Primary(mirrors) == IF mirrors = <<>> THEN <<>> ELSE [primary |-> <<[arches |-> {"default"}] ++ mirrors>>]
InV3(top) ==
    IF Given(top, "apt") \/ ~OldGiven(top) THEN Get(top, "apt", <<>>)
    ELSE Renamed(MapOldKeys, top) ++ Primary(Renamed(MirrorKeys, top))

(* Mirrors.                                                                *)

DefaultMirrors(arch) ==
    CASE arch \in {"amd64", "i386"} -> [PRIMARY |-> "archive", SECURITY |-> "security"]
      [] arch \in {"s390x", "arm64", "armhf", "powerpc", "ppc64el"} -> [PRIMARY |-> "ports", SECURITY |-> "ports"]
      [] OTHER -> Unset

ArchMirrorConfig(list, arch) ==
    LET exact == SelectSeq(list, LAMBDA e : arch \in e.arches)
        default == SelectSeq(list, LAMBDA e : "default" \in e.arches)
    IN  CASE exact # <<>> -> exact[1] [] exact = <<>> /\ default # <<>> -> Last(default) [] OTHER -> Unset

SearchForMirror(candidates, m) ==
    LET found == SelectSeq(candidates, LAMBDA c : c \in m.resolves) IN IF found = <<>> THEN Unset ELSE found[1]
DnsNames(type, m) ==
    LET names == IF type = "primary" THEN "mirror" ELSE "security-mirror"
        doms == (IF m.domain = "" THEN <<>> ELSE <<m.domain>>) \o <<".localdomain", "">>
    IN  [i \in DOMAIN doms |-> names \o doms[i]]

Mirror(cfg, type, m) ==
    LET mcfg == ArchMirrorConfig(Get(cfg, type, <<>>), m.arch)
        searched == SearchForMirror(Get(mcfg, "search", <<>>), m)
    IN  CASE mcfg = Unset -> Unset
          [] mcfg # Unset /\ Given(mcfg, "uri") -> mcfg.uri
          [] mcfg # Unset /\ ~Given(mcfg, "uri") /\ searched # Unset -> searched
          [] OTHER -> IF Get(mcfg, "search_dns", FALSE) THEN SearchForMirror(DnsNames(type, m), m) ELSE Unset

MirrorInfo(cfg, m) ==
    LET primary == Mirror(cfg, "primary", m)
        security == Mirror(cfg, "security", m)
    IN  CASE primary # Unset -> [PRIMARY |-> primary, SECURITY |-> IF security = Unset THEN primary ELSE security]
          [] primary = Unset /\ m.cloud # Unset -> m.cloud
          [] OTHER -> DefaultMirrors(m.arch)

(* sources.list.                                                           *)

Params(cfg, m) ==
    LET info == MirrorInfo(cfg, m)
    IN  One("$MIRROR", info.PRIMARY) ++ One("$PRIMARY", info.PRIMARY) ++ One("$SECURITY", info.SECURITY) ++ m.suites
Render(line, params) == [i \in DOMAIN line |-> Get(params, line[i], line[i])]

KnownSuites ==
    [updates |-> "$RELEASE-updates", backports |-> "$RELEASE-backports", security |-> "$RELEASE-security",
     proposed |-> "$RELEASE-proposed", release |-> "$RELEASE"]

(* deb [ options ] url suite: the suite comes after the options.            *)
SuiteColumn(line) == 3 + (IF line[2] = "[" THEN (CHOOSE i \in DOMAIN line : line[i] = "]") - 1 ELSE 0)
Looked(line) == line[1] # "#" /\ Len(line) > 1
TooShort(line) == Looked(line) /\ SuiteColumn(line) > Len(line)
Disabled(line, suites) ==
    IF Looked(line) /\ line[SuiteColumn(line)] \in suites THEN <<"#">> \o line ELSE line

GenerateSourcesList(cfg, m) ==
    LET params == Params(cfg, m)
        tmpl == Get(cfg, "sources_list", m.template)
        lines == [i \in DOMAIN tmpl |-> Render(tmpl[i], params)]
        suites == {Get(params, s, s) : s \in {Get(KnownSuites, s, s) : s \in Get(cfg, "disable_suites", {})}}
    IN  CASE tmpl = Unset -> <<>>
          [] tmpl # Unset /\ suites # {} /\ \E i \in DOMAIN lines : TooShort(lines[i]) -> <<Raise>>
          [] OTHER -> <<Write(SourcesList, IF suites = {} THEN lines ELSE [i \in DOMAIN lines |-> Disabled(lines[i], suites)])>>

(* The package lists of a default mirror become those of the mirror.        *)
RenameAptLists(cfg, m, f) ==
    LET default == DefaultMirrors(m.arch)
        info == MirrorInfo(cfg, m)
        to(name, lists) == {IF l[1] = default[name] THEN <<info[name], l[2]>> ELSE l : l \in lists}
    IN  CASE default = Unset -> <<Raise>>
          [] default # Unset /\ Lists \in DOMAIN f -> <<Write(Lists, to("SECURITY", to("PRIMARY", f[Lists])))>>
          [] OTHER -> <<>>

(* Proxies and configuration.                                              *)

ProxyKeys == <<<<"proxy", "http">>, <<"http_proxy", "http">>, <<"ftp_proxy", "ftp">>, <<"https_proxy", "https">>>>
\* Mutant: a proxy is written when there is one, and one of before stays.
ApplyAptConfig_KeepsProxy(cfg) ==
    LET given == SelectSeq(ProxyKeys, LAMBDA p : Given(cfg, p[1]))
    IN  If(given # <<>>, <<Write(ProxyFile, [i \in DOMAIN given |-> <<given[i][2], cfg[given[i][1]]>>])>>) \o
        <<IF Given(cfg, "conf") THEN Write(ConfFile, <<<<cfg.conf>>>>) ELSE Delete(ConfFile)>>
ApplyAptConfig(cfg) ==
    LET given == SelectSeq(ProxyKeys, LAMBDA p : Given(cfg, p[1]))
    IN  <<IF given = <<>> THEN Delete(ProxyFile)
          ELSE Write(ProxyFile, [i \in DOMAIN given |-> <<given[i][2], cfg[given[i][1]]>>]),
          IF Given(cfg, "conf") THEN Write(ConfFile, <<<<cfg.conf>>>>) ELSE Delete(ConfFile)>>

(* Sources and keys.                                                       *)

AddAptKey(ent) ==
    If("keyid" \in DOMAIN ent /\ "key" \notin DOMAIN ent, <<Run(<<"fetched", "keys">>, {ent.keyid})>>) \o
    If("keyid" \in DOMAIN ent \/ "key" \in DOMAIN ent, <<Run(Keyring, {Get(ent, "key", Get(ent, "keyid", Unset))})>>)

SourceFile(entry) ==
    LET name == Get(entry.ent, "filename", entry.name)
    IN  <<IF name.dir = "" THEN "sources.list.d" ELSE name.dir, name.base>>

AddAptSource(entry, matched, params) ==
    AddAptKey(entry.ent) \o
    If("source" \in DOMAIN entry.ent,
       LET line == Render(entry.ent.source.line, params)
       IN  <<IF entry.ent.source.kind \in matched THEN Run(<<"repositories">>, {line})
             ELSE AppendTo(SourceFile(entry), <<line>>)>>)

AddAptSources(cfg, m) ==
    LET matched == Get(cfg, "add_apt_repo_match", {"ppa"})
    IN  IF matched = {} THEN <<Raise>>
        ELSE FlattenSeq([i \in DOMAIN cfg.sources |-> AddAptSource(cfg.sources[i], matched, Params(cfg, m))])
             \o <<Run(<<"package", "lists">>, {"updated"})>>

(* Preseeds: of a package that is installed they take effect when it is     *)
(* configured again, and what was configured before is cleaned out.         *)
Selections(cfg) == FoldLeft(LAMBDA all, s : s ++ all, <<>>, Get(cfg, "debconf_selections", <<>>))
ApplyDebconfSelections(cfg, f) ==
    LET all == Selections(cfg) ++ Get(f, Debconf, <<>>)
        own == {q \in DOMAIN all : q[1] = "cloud-init"}
        again == "cloud-init" \in {q[1] : q \in DOMAIN Selections(cfg)} \cap Get(f, Packages, {})
    IN  If(Selections(cfg) # <<>>,
           <<RunSettings(Debconf, Selections(cfg))>> \o
           If(again, <<Delete(DpkgCfg), Effect("write", DpkgCfg, [q \in own |-> all[q]], "raise")>>))

(* The order of the whole.                                                 *)
NothingToDo(cfg, m) == cfg = <<>> /\ ~m.apt
ApplyApt(cfg, m, f) ==
    IF NothingToDo(cfg, m) THEN <<>>
    ELSE IF MirrorInfo(cfg, m) = Unset THEN <<Raise>>
    ELSE If(~Get(cfg, "preserve_sources_list", FALSE), GenerateSourcesList(cfg, m) \o RenameAptLists(cfg, m, f)) \o
         ApplyAptConfig(cfg) \o
         If("sources" \in DOMAIN cfg, AddAptSources(cfg, m))

AptEffects(top, m, f) ==
    LET cfg == InV3(InV2(top))
    IN  IF Unequal(InV2(top)) \/ cfg = Unset THEN <<Raise>>
        ELSE ApplyDebconfSelections(cfg, f) \o ApplyApt(cfg, m, f)

----------------------------------------------------------------------------
(* What a user means by the keys, whichever the format: the words of the    *)
(* documentation, and no order of steps.                                    *)
Asked(top, old, new) == IF Given(top, "apt") \/ ~Given(top, old) THEN Get(Get(top, "apt", <<>>), new, Unset) ELSE top[old]

\* Not as documented: by the old keys, the proxy for ftp becomes the one for
\* https and the other way round (MapOldKeys).
Exchanged(top) == ~Given(top, "apt") /\ (Given(top, "apt_ftp_proxy") \/ Given(top, "apt_https_proxy"))
AskedProxies(top) ==
    LET ftp == Asked(top, "apt_ftp_proxy", "ftp_proxy")
        https == Asked(top, "apt_https_proxy", "https_proxy")
    IN  {<<"http", Asked(top, "apt_proxy", "proxy")>>, <<"http", Asked(top, "apt_http_proxy", "http_proxy")>>} \cup
        (IF Exchanged(top) THEN {<<"ftp", https>>, <<"https", ftp>>} ELSE {<<"ftp", ftp>>, <<"https", https>>})

AptInEffect(top, m, f) ==
    LET cfg == InV3(InV2(top))
        live == {l \in Range(Get(f, SourcesList, <<>>)) : l[1] # "#"}
    IN  ~NothingToDo(cfg, m) =>
        \* No proxy or configuration is left from before, all that are asked are there.
        /\ Range(Get(f, ProxyFile, <<>>)) = {p \in AskedProxies(top) : p[2] # Unset}
        /\ Range(Get(f, ConfFile, <<>>)) = IF Given(cfg, "conf") THEN {<<cfg.conf>>} ELSE {}
        \* The mirror asked for is used, and suites that are disabled are not.
        /\ (Asked(top, "apt_mirror", "uri") # Unset /\ ~Get(cfg, "preserve_sources_list", FALSE) /\ m.template # Unset
                /\ ~Given(cfg, "sources_list"))
            => \A l \in live : l[2] = Asked(top, "apt_mirror", "uri")
        /\ ~Get(cfg, "preserve_sources_list", FALSE) => \A l \in live, s \in Get(cfg, "disable_suites", {}) :
              Last(l) # Get(m.suites, Get(KnownSuites, s, s), s)
        \* Every source is in its file or a repository, every key with apt.
        /\ \A i \in DOMAIN Get(cfg, "sources", <<>>) : LET e == cfg.sources[i] IN
              /\ \A k \in {"key", "keyid"} \cap DOMAIN e.ent :
                    k = "key" \/ "key" \notin DOMAIN e.ent => e.ent[k] \in Get(f, Keyring, {})
              /\ "source" \in DOMAIN e.ent =>
                    Render(e.ent.source.line, Params(cfg, m)) \in
                        Get(f, <<"repositories">>, {}) \cup Range(Get(f, SourceFile(e), <<>>))
        \* What is preseeded is what debconf has and the package uses.
        /\ \A q \in DOMAIN Selections(cfg) :
              /\ f[Debconf][q] = Selections(cfg)[q]
              /\ q[1] = "cloud-init" /\ "cloud-init" \in Get(f, Packages, {}) => f[DpkgCfg][q] = Selections(cfg)[q]
=============================================================================
