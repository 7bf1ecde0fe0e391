------------------------------- MODULE MCGuest -------------------------------
(***************************************************************************)
(* Guest for TLC: worlds about one topic each, so that what they leave to   *)
(* chance does not multiply.                                               *)
(***************************************************************************)
EXTENDS Guest

M(ms) == "modules" :> ms

\* What is said of vendor-data, and what is behind an include.
Off == [vendor_data |-> "off"]
On == [vendor_data |-> "on"]
ServedConfigs == {<<>>, Off, On}

NameTopic == M({"set_hostname", "update_hostname", "update_etc_hosts"})
NameConfigs ==
    {NameTopic @@ [manage_etc_hosts |-> "localhost"],
     NameTopic @@ [fqdn |-> "web.example", manage_etc_hosts |-> "localhost"],
     NameTopic @@ [hostname |-> "db.example", manage_etc_hosts |-> "template"],
     NameTopic @@ [hostname |-> "db", preserve_hostname |-> "true"]}

MountTopic == M({"mounts"})
MountConfigs ==
    {MountTopic, MountTopic @@ [swap |-> "auto"],
     MountTopic @@ [mounts |-> <<Entry("ephemeral0", Null), Entry("swap", Null)>>],
     MountTopic @@ [mounts |-> <<Entry("sdc", "/a"), Entry("sdb1", "/b"), Entry("ephemeral0", Null),
                                 Entry("sdb1", "/c")>>]}

AccountTopic == M({"users-groups", "ssh", "set-passwords"})
U(default, keys) == [default |-> default, keys |-> keys, lock |-> default, passwd |-> ~default]
AccountConfigs ==
    {AccountTopic @@ [users |-> ("ubuntu" :> U(TRUE, {}) @@ "joe" :> U(FALSE, {"k1"})),
                      ssh_authorized_keys |-> {"k2"}, password |-> "secret"],
     AccountTopic @@ [users |-> ("joe" :> U(FALSE, {"k1"})), chpasswd |-> {"joe"},
                      disable_root |-> "false", ssh_deletekeys |-> "false",
                      ssh_keys |-> {"rsa"}, ssh_pwauth |-> "no"],
     AccountTopic @@ [users |-> ("ubuntu" :> U(TRUE, {"k1"})), expire |-> "false",
                      ssh_keys |-> {"rsa"}, chpasswd |-> {"ubuntu"}]}

AllConfigs == ServedConfigs \cup NameConfigs \cup MountConfigs \cup AccountConfigs

D(kind, c) == [kind |-> kind, cfg |-> c]
V(given, c) == [given |-> given, cfg |-> c]
SameFor(x) == [i \in Instances |-> x]

AllWorlds ==
    {[data |-> [i \in Instances |-> IF i = "i1" THEN d ELSE e], vendor |-> SameFor(v), boots |-> 3] :
        d \in {D("include", <<>>), D("once", <<>>)}, e \in {D("plain", Off), D("once", <<>>)},
        v \in {V(FALSE, <<>>), V(TRUE, <<>>), V(TRUE, Off)}}
    \cup
    {[data |-> [i \in Instances |-> D("plain", IF i = "i1" THEN c ELSE d)],
      vendor |-> SameFor(V(FALSE, <<>>)), boots |-> 3] : c, d \in NameConfigs}
    \cup
    {[data |-> [i \in Instances |-> D("plain", IF i = "i1" THEN c ELSE d)],
      vendor |-> SameFor(V(FALSE, <<>>)), boots |-> 3] : c, d \in MountConfigs}
    \cup
    {[data |-> [i \in Instances |-> D("plain", IF i = "i1" THEN c ELSE d)],
      vendor |-> SameFor(V(FALSE, <<>>)), boots |-> 2] : c, d \in AccountConfigs}

SystemConfig == [vendor_data |-> "on", modules |-> {}]

Short == ("web.example" :> "web") @@ ("db.example" :> "db") @@ ("db" :> "db")
CloudNames == [i \in Instances |-> IF i = "i1" THEN [short |-> "ip-1", fqdn |-> "ip-1.internal"]
                                   ELSE [short |-> "ip-2", fqdn |-> "ip-2"]]
RealDevices ==
    [i \in Instances |->
        ("ephemeral0" :> IF i = "i1" THEN "sdb1" ELSE NoDevice) @@ ("swap" :> NoDevice)
        @@ ("sdb1" :> "sdb1") @@ ("sdc" :> IF i = "i1" THEN NoDevice ELSE "sdc")]
ImageLines == <<[spec |-> "LABEL=root", file |-> "/", ours |-> FALSE]>>
KeysOfCloud == [i \in Instances |-> IF i = "i1" THEN {"k1"} ELSE {"k3"}]
=============================================================================
