-------------------------------- MODULE Agents --------------------------------
(***************************************************************************)
(* Modules that configure services: chef, puppet, mcollective, landscape,   *)
(* ntp, rsyslog; and files, resolv.conf and entropy.  Of each the effects   *)
(* of its handler, and when what its configuration c asks is in effect.     *)
(* m is what does not change: programs, templates, the instance's id.       *)
(***************************************************************************)
EXTENDS ConfigFiles, FiniteSets

Installed(f, package) == package \in Get(f, <<"packages">>, {})
Install(packages) == Run(<<"packages">>, packages)

----------------------------------------------------------------------------
(* chef.                                                                   *)
ChefPem == <<"validation.pem">>
ClientRb == <<"client.rb">>
FirstBoot == <<"firstboot.json">>
ChefKey(c) == Get(c, "validation_key", ChefPem)

ChefParams(c, m) ==
    Without(c, {"validation_cert", "run_list", "initial_attributes", "install_type", "exec", "force_install",
                "delete_validation_post_exec", "firstboot_path"}) ++
    [node_name |-> m.iid, environment |-> "_default", log_level |-> ":info", validation_key |-> ChefPem]
FirstBootJson(c) ==
    Get(c, "initial_attributes", <<>>) ++ (IF "run_list" \in DOMAIN c THEN [run_list |-> c.run_list] ELSE <<>>)

\* Chef runs after an install from gems unless told not to, else when told to.
InstallChef(c) ==
    CASE Get(c, "install_type", "packages") = "gems" ->
            <<Install({"ruby"}), Effect("add", <<"links">>, {"gem"}, "no"), Run(<<"packages">>, {"chef"})>>
      [] Get(c, "install_type", "packages") = "packages" -> <<Install({"chef"})>>
      [] Get(c, "install_type", "packages") = "omnibus" -> <<Run(<<"fetched">>, {"omnibus"}), Install({"chef"})>>
      [] OTHER -> <<>>
ChefRuns(c, installs) ==
    CASE installs /\ Get(c, "install_type", "packages") = "gems" -> Get(c, "exec", TRUE)
      [] installs /\ Get(c, "install_type", "packages") \notin {"gems", "packages", "omnibus"} -> FALSE
      [] OTHER -> Get(c, "exec", FALSE)

ChefEffects(c, m, f) ==
    LET installs == ~Installed(f, "chef") \/ Get(c, "force_install", FALSE)
    IN  If(Given(c, "validation_cert") /\ c.validation_cert # "system", <<Write(ChefKey(c), c.validation_cert)>>) \o
        If("chef_client.rb" \in m.templates, <<IF "server_url" \in DOMAIN c THEN Write(ClientRb, ChefParams(c, m)) ELSE Raise>>) \o
        If(Get(c, "firstboot_path", FirstBoot) # <<>>, <<Write(Get(c, "firstboot_path", FirstBoot), FirstBootJson(c))>>) \o
        If(installs, InstallChef(c)) \o
        If(ChefRuns(c, installs), <<Run(<<"chef", "ran">>, {m.iid})>> \o
                                  If(Get(c, "delete_validation_post_exec", FALSE), <<Delete(ChefPem)>>))

\* Chef runs as "exec" says, which is true by default for gems.  Not as
\* documented: it does not run when it was to be installed in a way that is not
\* known, nor by default when the gem is there already.
ChefIsToRun(c) == Get(c, "exec", Get(c, "install_type", "packages") = "gems")
UnknownInstall(c) == Get(c, "install_type", "packages") \notin {"gems", "packages", "omnibus"}
OnlyByDefault(c) == "exec" \notin DOMAIN c /\ Get(c, "install_type", "packages") = "gems"
ChefIsLeft(c, f0) ==
    LET installs == ~Installed(f0, "chef") \/ Get(c, "force_install", FALSE)
    IN  (UnknownInstall(c) /\ installs) \/ (OnlyByDefault(c) /\ ~installs)

\* The node is this instance, the key is this chef's and, where it has the
\* builtin place, gone when asked.
ChefInEffect(c, m, f0, f) ==
    /\ "chef_client.rb" \in m.templates =>
          /\ f[ClientRb]["node_name"] = Get(c, "node_name", m.iid)
          /\ f[ClientRb]["server_url"] = c.server_url
    /\ Get(c, "firstboot_path", FirstBoot) # <<>> /\ "run_list" \in DOMAIN c => f[Get(c, "firstboot_path", FirstBoot)]["run_list"] = c.run_list
    /\ ChefIsToRun(c) /\ ~ChefIsLeft(c, f0) =>
          /\ m.iid \in Get(f, <<"chef", "ran">>, {})
          /\ Get(c, "delete_validation_post_exec", FALSE) => ChefPem \notin DOMAIN f
    /\ Given(c, "validation_cert") /\ c.validation_cert # "system" /\ ~Get(c, "delete_validation_post_exec", FALSE)
          => f[ChefKey(c)] = c.validation_cert
    /\ ~UnknownInstall(c) => Installed(f, "chef")

----------------------------------------------------------------------------
(* puppet: for each section the previous file is renamed and all is written. *)
PuppetConf == <<"puppet.conf">>
PuppetOld == <<"puppet.conf", "old">>
PuppetCert == <<"ssl", "ca.pem">>

PuppetEffects(c) ==
    If(Get(c, "install", TRUE), <<Install({"puppet"})>>) \o <<Resume>>
PuppetSections(c, upTo) ==
    [k \in UNION {{<<c.conf[i].name, o>> : o \in DOMAIN c.conf[i].items} : i \in {i \in 1..upTo : c.conf[i].name # "ca_cert"}} |->
        LET last == CHOOSE i \in 1..upTo : /\ c.conf[i].name = k[1] /\ k[2] \in DOMAIN c.conf[i].items
        IN  c.conf[last].items[k[2]]]
PuppetConfig(c, f) ==
    IF PuppetConf \notin DOMAIN f THEN <<Raise>>
    ELSE FlattenSeq([i \in DOMAIN c.conf |->
            If(c.conf[i].name = "ca_cert", <<Write(PuppetCert, c.conf[i].items.pem)>>) \o
            <<Move(PuppetConf, PuppetOld), Write(PuppetConf, PuppetSections(c, i) ++ f[PuppetConf])>>])
Autostart(f, m) ==
    CASE <<"default", "puppet">> \in DOMAIN f -> <<RunSettings(<<"default", "puppet">>, [START |-> "yes"])>>
      [] <<"default", "puppet">> \notin DOMAIN f /\ m.which \cap {"systemctl", "chkconfig"} # {} -> <<Service(<<"puppet", "enabled">>)>>
      [] OTHER -> <<>>
PuppetRest(c, m, f) ==
    If("conf" \in DOMAIN c, PuppetConfig(c, f)) \o
    (IF "conf" \in DOMAIN c /\ PuppetConf \notin DOMAIN f THEN <<>> ELSE Autostart(f, m) \o <<Service(<<"puppet", "started">>)>>)

\* Not as documented: a certificate given below a section is taken for one of
\* its settings.
TakenForSetting(section, f) == f[PuppetConf][<<section.name, "ca_cert">>] = section.items.ca_cert

\* The settings are there and those of the package with them; it starts again.
PuppetInEffect(c, m, f0, f) ==
    /\ "conf" \in DOMAIN c => LET said == PuppetSections(c, Len(c.conf)) IN
          /\ \A k \in DOMAIN said : f[PuppetConf][k] = said[k]
          /\ \A k \in DOMAIN Get(f0, PuppetConf, <<>>) \ DOMAIN said : f[PuppetConf][k] = f0[PuppetConf][k]
          /\ \A i \in DOMAIN c.conf : c.conf[i].name = "ca_cert" => f[PuppetCert] = c.conf[i].items.pem
          /\ \A i \in DOMAIN c.conf : "ca_cert" \in DOMAIN c.conf[i].items =>
                Get(f, PuppetCert, Unset) = c.conf[i].items.ca_cert \/ TakenForSetting(c.conf[i], f)
    /\ <<"default", "puppet">> \in DOMAIN f => f[<<"default", "puppet">>]["START"] = "yes"
    /\ <<"puppet", "started">> \in f[<<"services">>]

----------------------------------------------------------------------------
(* mcollective: settings are <<section, name>>, the section may be "".      *)
ServerCfg == <<"server.cfg">>
PubCert == <<"ssl", "server-public.pem">>
PriCert == <<"ssl", "server-private.pem">>

McoSettings(conf) ==
    Without(conf, {<<"", "public-cert">>, <<"", "private-cert">>}) ++
    (IF <<"", "public-cert">> \in DOMAIN conf THEN One(<<"", "plugin.ssl_server_public">>, "server-public.pem") ELSE <<>>) ++
    (IF <<"", "private-cert">> \in DOMAIN conf THEN One(<<"", "plugin.ssl_server_private">>, "server-private.pem") ELSE <<>>) ++
    (IF {<<"", "public-cert">>, <<"", "private-cert">>} \cap DOMAIN conf # {} THEN One(<<"", "securityprovider">>, "ssl") ELSE <<>>)
McoConfigure(conf, f) ==
    If(<<"", "public-cert">> \in DOMAIN conf, <<Write(PubCert, conf[<<"", "public-cert">>])>>) \o
    If(<<"", "private-cert">> \in DOMAIN conf, <<Write(PriCert, conf[<<"", "private-cert">>])>>) \o
    If(ServerCfg \in DOMAIN f, <<Copy(ServerCfg, <<"server.cfg", "old">>)>>) \o
    <<Write(ServerCfg, McoSettings(conf) ++ Get(f, ServerCfg, <<>>))>>

McoEffects == <<Install({"mcollective"}), Resume>>
McoRest(c, f) == If("conf" \in DOMAIN c, McoConfigure(c.conf, f)) \o <<Service(<<"mcollective", "restarted">>)>>

McoInEffect(c, f0, f) ==
    "conf" \in DOMAIN c =>
        /\ \A k \in DOMAIN McoSettings(c.conf) : f[ServerCfg][k] = McoSettings(c.conf)[k]
        /\ \A k \in DOMAIN Get(f0, ServerCfg, <<>>) \ DOMAIN McoSettings(c.conf) : f[ServerCfg][k] = f0[ServerCfg][k]
        /\ <<"", "private-cert">> \in DOMAIN c.conf => f[PriCert] = c.conf[<<"", "private-cert">>]

----------------------------------------------------------------------------
(* landscape: what is built in, then the file, then the configuration.      *)
ClientConf == <<"client.conf">>
LandscapeBuiltin == [log_level |-> "info", url |-> "landscape.canonical.com"]

LandscapeEffects(c) == If(c # <<>>, <<Install({"landscape-client"}), Resume>>)
LandscapeRest(c, f) ==
    <<Write(ClientConf, c ++ Get(f, ClientConf, <<>>) ++ LandscapeBuiltin),
      Write(<<"default", "landscape-client">>, [RUN |-> "1"]), Service(<<"landscape-client", "restarted">>)>>

LandscapeInEffect(c, f0, f) ==
    c # <<>> =>
        /\ \A k \in DOMAIN c : f[ClientConf][k] = c[k]
        /\ \A k \in DOMAIN Get(f0, ClientConf, <<>>) \ DOMAIN c : f[ClientConf][k] = f0[ClientConf][k]
        /\ f[<<"default", "landscape-client">>] = [RUN |-> "1"]

----------------------------------------------------------------------------
(* ntp: the distribution's ntp.conf is renamed, also where timesyncd is used. *)
NtpConf == <<"ntp.conf">>
NtpInstallable(m) == ~m.snappy /\ m.which \cap {"apt-get", "dnf", "yum", "zypper"} # {}
NtpPath(m) == IF NtpInstallable(m) THEN NtpConf ELSE <<"timesyncd.conf">>
NtpTemplates(m) == {"ntp.conf"} \cup (IF NtpInstallable(m) THEN {} ELSE {"timesyncd.conf"})

NtpServers(c) ==
    LET servers == Get(c, "servers", {})  pools == Get(c, "pools", {})
    IN  [servers |-> servers, pools |-> IF servers = {} /\ pools = {} THEN {"0.pool", "1.pool", "2.pool", "3.pool"} ELSE pools]
NtpEffects(c, m, f) ==
    If(NtpConf \in DOMAIN f, <<Move(NtpConf, <<"ntp.conf", "dist">>)>>) \o
    (IF NtpTemplates(m) \cap m.templates = {} THEN <<Raise>>
     ELSE <<Write(NtpPath(m), NtpServers(c))>> \o
          If(NtpInstallable(m) /\ ~Installed(f, "ntp"), <<Install({"ntp"})>>) \o
          <<Service(<<"ntp", "restarted">>)>>)

\* The file the service reads has exactly what is asked, and it read it.
NtpInEffect(c, m, f) ==
    /\ f[NtpPath(m)].servers = Get(c, "servers", {})
    /\ Get(c, "pools", {}) # {} => f[NtpPath(m)].pools = c.pools
    /\ f[NtpPath(m)].servers \cup f[NtpPath(m)].pools # {}
    /\ <<"ntp", "restarted">> \in f[<<"services">>]

----------------------------------------------------------------------------
(* rsyslog.  The old format has a list, and a directory and file beside it.  *)
SyslogConfig(c) ==
    IF "list" \in DOMAIN c
    THEN [configs |-> c.list, dir |-> Get(c, "rsyslog_dir", "rsyslog.d"),
          filename |-> Get(c, "rsyslog_filename", <<"20-cloud-config.conf">>), remotes |-> <<>>]
    ELSE [configs |-> Get(c, "configs", <<>>), dir |-> Get(c, "config_dir", "rsyslog.d"),
          filename |-> Get(c, "config_filename", <<"20-cloud-config.conf">>), remotes |-> Get(c, "remotes", <<>>)]

(* A remote: the words of its line, and of the last the protocol, address,   *)
(* brackets and port.  An address with a colon needs the brackets.          *)
RemoteError(r) == r.words > 2 \/ (r.colon /\ ~r.bracket)
RemoteLine(r) ==
    <<IF r.words = 2 THEN r.match ELSE "*.*", IF r.proto = "@@" THEN "@@" ELSE "@",
      IF r.colon THEN "[" \o r.addr \o "]" ELSE r.addr, r.port, "# " \o r.name>>
RemoteLines(remotes) ==
    LET good == SelectSeq(remotes, LAMBDA r : ~RemoteError(r))
    IN  <<<<"# begin remotes">>>> \o [i \in DOMAIN good |-> RemoteLine(good[i])] \o <<<<"# end remotes">>>>

\* A relative name is one word, an absolute path two.
SyslogPath(s, e) == LET n == Get(e, "filename", s.filename) IN IF Len(n) = 1 THEN <<s.dir>> \o n ELSE n
SyslogEntries(s) ==
    SelectSeq(s.configs \o If(s.remotes # <<>>, <<[content |-> RemoteLines(s.remotes)]>>),
              LAMBDA e : "content" \in DOMAIN e /\ Get(e, "filename", s.filename) # <<>>)

\* Mutant: what a file holds is never truncated.
ApplySyslog_Appends(s) ==
    LET kept == SyslogEntries(s) IN [i \in DOMAIN kept |-> AppendTo(SyslogPath(s, kept[i]), kept[i].content)]
\* A file is truncated the first time it is seen.
ApplySyslog(s) ==
    LET kept == SyslogEntries(s)
        seen(i) == \E j \in 1..(i - 1) : SyslogPath(s, kept[j]) = SyslogPath(s, kept[i])
    IN  [i \in DOMAIN kept |-> IF seen(i) THEN AppendTo(SyslogPath(s, kept[i]), kept[i].content)
                               ELSE Write(SyslogPath(s, kept[i]), kept[i].content)]
SyslogEffects(c) ==
    LET s == SyslogConfig(c)
    IN  \* An address that is empty is not an error that is expected.
        IF \E i \in DOMAIN s.remotes : s.remotes[i].addr = "" /\ ~RemoteError(s.remotes[i]) THEN <<Raise>>
        ELSE ApplySyslog(s) \o If(SyslogEntries(s) # <<>>, <<Attempt(<<"services">>, {<<"rsyslog", "reloaded">>})>>)

\* Of a file that is named all lines are those of this configuration, in order.
SyslogInEffect(c, f) ==
    LET s == SyslogConfig(c)
        kept == SyslogEntries(s)
    IN  /\ \A p \in {SyslogPath(s, kept[i]) : i \in DOMAIN kept} :
              f[p] = FlattenSeq([i \in DOMAIN kept |-> If(SyslogPath(s, kept[i]) = p, kept[i].content)])
        /\ \A i \in DOMAIN s.remotes : ~RemoteError(s.remotes[i]) /\ s.filename # <<>> =>
              RemoteLine(s.remotes[i]) \in Range(f[SyslogPath(s, <<>>)])

----------------------------------------------------------------------------
(* write_files: the content has layers, and the encoding says which to take  *)
(* off.                                                                    *)
Extractions(encoding) ==
    CASE encoding \in {"gz", "gzip"} -> <<"gz">>
      [] encoding \in {"gz+base64", "gzip+base64", "gz+b64", "gzip+b64"} -> <<"b64", "gz">>
      [] encoding \in {"b64", "base64"} -> <<"b64">>
      [] OTHER -> <<>>
Extractable(e) == IsPrefix(Extractions(Get(e, "encoding", "")), e.layers)
Extracted(e) == [layers |-> SubSeq(e.layers, Len(Extractions(Get(e, "encoding", ""))) + 1, Len(e.layers)), data |-> e.data,
                 mode |-> IF Get(e, "permissions", "bad") = "bad" THEN "0644" ELSE e.permissions]
WriteFile(e, m) ==
    IF ~Extractable(e) THEN <<Raise>>
    ELSE <<Write(e.path, Extracted(e))>> \o If(Get(e, "owner", "root") \notin m.users, <<Raise>>)
WriteFilesEffects(c, m) == FlattenSeq([i \in DOMAIN c |-> If("path" \in DOMAIN c[i], WriteFile(c[i], m))])

WriteFilesInEffect(c, f) ==
    \A i \in DOMAIN c : "path" \in DOMAIN c[i] /\ (~\E j \in DOMAIN c : j > i /\ Get(c[j], "path", <<>>) = c[i].path)
        => f[c[i].path] = Extracted(c[i])

----------------------------------------------------------------------------
(* resolv.conf: options that are true are flags, those that are false none.  *)
ManagesResolv(c, m) == Get(c, "manage_resolv_conf", FALSE) /\ "resolv.conf" \in m.templates
ResolvEffects(c, m) ==
    LET options == Get(Get(c, "resolv_conf", <<>>), "options", <<>>)
        flags == {o \in DOMAIN options : options[o] = "true"}
    IN  CASE ~ManagesResolv(c, m) -> <<>>
          [] ManagesResolv(c, m) /\ "resolv_conf" \notin DOMAIN c -> <<Raise>>
          [] OTHER -> <<Write(<<"resolv.conf">>,
                        [nameservers |-> Get(c.resolv_conf, "nameservers", {}), flags |-> flags,
                         options |-> [o \in {o \in DOMAIN options : options[o] \notin {"true", "false"}} |-> options[o]]])>>
ResolvInEffect(c, m, f) ==
    ManagesResolv(c, m) =>
        /\ f[<<"resolv.conf">>].nameservers = Get(c.resolv_conf, "nameservers", {})
        /\ \A o \in DOMAIN Get(c.resolv_conf, "options", <<>>) : LET v == c.resolv_conf.options[o] IN
              /\ o \in f[<<"resolv.conf">>].flags <=> v = "true"
              /\ v \notin {"true", "false"} => f[<<"resolv.conf">>].options[o] = v

----------------------------------------------------------------------------
(* Entropy.                                                                *)
SeedData(c, m) == If(Given(c, "data"), <<<<c.data>>>>) \o If(m.seed # Unset, <<<<m.seed>>>>)
SeedEffects(c, m) ==
    LET command == Get(c, "command", Unset)
        runs == command # Unset /\ command \in m.which
    IN  IF Given(c, "data") /\ Get(c, "encoding", "raw") \notin {"raw", "base64", "b64", "gzip", "gz"} THEN <<Raise>>
        ELSE If(SeedData(c, m) # <<>>, <<AppendTo(Get(c, "file", <<"urandom">>), SeedData(c, m))>>) \o
             (IF runs THEN <<Run(<<"seeded">>, {command})>> ELSE If(Get(c, "command_required", FALSE), <<Raise>>))
SeedInEffect(c, m, f) ==
    /\ Range(SeedData(c, m)) \subseteq Range(Get(f, Get(c, "file", <<"urandom">>), <<>>))
    /\ Get(c, "command_required", FALSE) => <<"seeded">> \in DOMAIN f
=============================================================================
