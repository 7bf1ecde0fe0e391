---------------------------- MODULE NetworkSources ----------------------------
(***************************************************************************)
(* How the clouds describe a network and what cloud-init makes of it: a      *)
(* config of version 1, as the set of its commands (NetworkConfig).  known   *)
(* are the interfaces of the machine, [MAC address -> name].                 *)
(***************************************************************************)
EXTENDS NetworkConfig, FiniteSets, TLC

Made(kind, name, subnets, members, link) ==
    [kind |-> kind, name |-> name, subnets |-> subnets, members |-> members, link |-> link,
     complete |-> TRUE]
MadePhysical(name, subnets) == Made("physical", name, subnets, {}, "")

----------------------------------------------------------------------------
(* OpenStack's network_data.json, [links, networks].  A link is [id, type,   *)
(* name, mac, members, on, vid], a network [link, type, address, gateway,    *)
(* routes].  The ids are the names of the host's devices, not to be used.    *)
Virtual == {"bond", "vlan"}

NetJsonSubnet(n) ==
    [type |-> CASE n.type = "ipv6_dhcp" -> "dhcp6" [] n.type = "ipv4_dhcp" -> "dhcp4" [] OTHER -> "static",
     address |-> n.address, gateway |-> n.gateway, routes |-> n.routes]

SubnetsOfLink(said, l) ==
    LET its == SelectSeq(said.networks, LAMBDA n : n.link = l.id)
    IN  [i \in DOMAIN its |-> NetJsonSubnet(its[i])]

\* Bonds are numbered as they are met.
BondName(said, l) ==
    LET bonds == SelectSeq(said.links, LAMBDA k : k.type = "bond")
    IN  "bond" \o ToString((CHOOSE i \in DOMAIN bonds : bonds[i] = l) - 1)

PhysicalName(l, known) ==
    IF l.name # "" \/ l.mac \notin DOMAIN known THEN l.name ELSE known[l.mac]

\* link_id_info: what another link calls this one.
IdName(said, known, id) ==
    LET l == said.links[SelectInSeq(said.links, LAMBDA k : k.id = id)]
    IN  CASE l.type = "bond" -> BondName(said, l)
          [] l.type = "vlan" -> l.on \o "." \o l.vid
          [] OTHER -> PhysicalName(l, known)

ConvertLink(said, known, l) ==
    LET subnets == SubnetsOfLink(said, l)
    IN  CASE l.type = "bond" ->
               Made("bond", BondName(said, l), subnets, {IdName(said, known, m) : m \in l.members}, "")
          [] l.type = "vlan" ->
               LET on == IdName(said, known, l.on)
               IN  Made("vlan", on \o "." \o l.vid, subnets, {}, on)
          [] OTHER -> MadePhysical(PhysicalName(l, known), subnets)

ConvertNetJson(said, known) == {ConvertLink(said, known, l) : l \in ToSet(said.links)}

\* "Unable to find a system nic".
NetJsonRaises(said, known) ==
    \E l \in ToSet(said.links) : l.type \notin Virtual /\ PhysicalName(l, known) = ""

----------------------------------------------------------------------------
(* The lines of a file /etc/network/interfaces, [option, name, value]; a     *)
(* name is <<device, label>>.                                               *)
NoIface == [auto |-> FALSE, method |-> "", address |-> <<>>, gateway |-> <<>>]
EniStart == [order |-> <<>>, ifaces |-> <<>>, currif |-> <<>>, broken |-> FALSE]

Met(st, name) ==
    IF name \in DOMAIN st.ifaces THEN st
    ELSE [st EXCEPT !.order = Append(@, name),
                    !.ifaces = [n \in DOMAIN @ \cup {name} |-> IF n = name THEN NoIface ELSE @[n]]]

ParseLine(st, line) ==
    LET met == Met(st, line.name)
    IN  IF st.broken THEN st
        ELSE CASE line.option = "auto" -> [met EXCEPT !.ifaces[line.name].auto = TRUE]
               [] line.option = "iface" ->
                    IF met.ifaces[line.name].method # "" THEN [st EXCEPT !.broken = TRUE]
                    ELSE [met EXCEPT !.ifaces[line.name].method = line.value, !.currif = line.name]
               [] OTHER ->
                    IF st.currif = <<>> THEN [st EXCEPT !.broken = TRUE]
                    ELSE [st EXCEPT !.ifaces[st.currif][line.option] = line.value]

ParseEni(lines) == FoldLeft(ParseLine, EniStart, lines)

EniRefused(lines) ==
    LET st == ParseEni(lines)
    IN  \/ st.broken
        \/ \E n \in DOMAIN st.ifaces :
             LET i == st.ifaces[n] IN i.method = "" \/ (i.method = "static" /\ i.address = <<>>)

\* The labels of a device become its subnets; the family of a stanza is not looked at.
ConvertEni(lines) ==
    LET st == ParseEni(lines)
        labels(d) == SelectSeq(st.order, LAMBDA n : n[1] = d)
        subnet(i) == Subnet(i.method, IF i.method = "static" THEN i.address ELSE <<>>, i.gateway)
    IN  {[MadePhysical(d, [k \in DOMAIN labels(d) |-> subnet(st.ifaces[labels(d)[k]])])
            EXCEPT !.kind = IF d = "lo" THEN "loopback" ELSE @]
         : d \in {n[1] : n \in DOMAIN st.ifaces}}

\* A config drive with both is read by the json.
ConfigDriveNetwork(said, known) ==
    IF said.json # <<>> THEN ConvertNetJson(said.json[1], known) ELSE ConvertEni(said.eni)
ConfigDriveRaises(said, known) ==
    IF said.json # <<>> THEN NetJsonRaises(said.json[1], known) ELSE EniRefused(said.eni)

----------------------------------------------------------------------------
(* DigitalOcean: of every kind a list of interfaces, [mac, type, parts], the  *)
(* first of which counts; a part is <<>> or [address, gateway].              *)
Parts == <<"ipv4", "ipv6", "anchor_ipv4", "anchor_ipv6">>

DropletSubnets(nic) ==
    LET have == SelectSeq(Parts, LAMBDA p : nic.parts[p] # <<>>)
        public(p) == nic.type = "public" /\ p \in {"ipv4", "ipv6"}
    IN  [i \in DOMAIN have |->
            LET part == nic.parts[have[i]][1]
            IN  Subnet("static", part.address, IF public(have[i]) THEN part.gateway ELSE <<>>)]

\* NIC_MAP.
DropletName(nic, known) ==
    CASE nic.type = "public" -> "eth0" [] nic.type = "private" -> "eth1" [] OTHER -> known[nic.mac]

ConvertDroplet(kinds, known) ==
    {MadePhysical(DropletName(nics[1], known), DropletSubnets(nics[1])) : nics \in ToSet(kinds)}
DropletRaises(kinds, known) == \E nics \in ToSet(kinds) : nics[1].mac \notin DOMAIN known

----------------------------------------------------------------------------
(* SmartOS: a list of interfaces, [interface, ips, gateways, primary]; an ip *)
(* is <<>> for dhcp.                                                        *)
FirstGateway(nic, family) ==
    LET i == SelectInSeq(nic.gateways, LAMBDA g : g[1] = family)
    IN  IF i = 0 THEN <<>> ELSE nic.gateways[i]

\* pgws: a gateway of each family, taken by the first address of a primary interface.
SmartSubnets(said, nic) ==
    LET Taken(family) == \E m \in ToSet(said) :
            m # nic /\ m.primary /\ (\E ip \in ToSet(m.ips) : ip # <<>> /\ ip[1] = family)
              /\ FirstGateway(m, family) # <<>>
              /\ SelectInSeq(said, LAMBDA k : k = m) < SelectInSeq(said, LAMBDA k : k = nic)
        First(i) == \A j \in 1..(i - 1) : nic.ips[j] = <<>> \/ nic.ips[j][1] # nic.ips[i][1]
    IN  [i \in DOMAIN nic.ips |->
            IF nic.ips[i] = <<>> THEN Subnet("dhcp4", <<>>, <<>>)
            ELSE Subnet("static", nic.ips[i],
                        IF nic.primary /\ First(i) /\ ~Taken(nic.ips[i][1])
                        THEN FirstGateway(nic, nic.ips[i][1]) ELSE <<>>)]

ConvertSmart(said) == {MadePhysical(nic.interface, SmartSubnets(said, nic)) : nic \in ToSet(said)}

----------------------------------------------------------------------------
(* Ec2: [MAC -> whether the interface has public IPv4, and IPv6 addresses].   *)
ConvertEc2(said, known) ==
    LET Ask(flag, type) == IF flag THEN <<Subnet(type, <<>>, <<>>)>> ELSE <<>>
    IN  {MadePhysical(known[m], Ask(said[m].public4, "dhcp4") \o Ask(said[m].ipv6s, "dhcp6"))
         : m \in DOMAIN known \cap DOMAIN said}

----------------------------------------------------------------------------
(* What klibc's ipconfig has left in the initramfs: files [device, proto,    *)
(* proto6, filename, four, six], the addresses <<>> or [address, gateway].    *)
Proto(file) ==
    CASE file.proto # "" -> file.proto
      [] file.proto = "" /\ file.proto6 # "" -> file.proto6
      [] OTHER -> IF file.filename THEN "dhcp" ELSE "static"

KlibcSubnets(file) ==
    LET proto6 == IF file.proto6 # "" THEN file.proto6 ELSE Proto(file)
        Of(part, proto) ==
            IF part = <<>> THEN <<>>
            ELSE <<Subnet(proto, IF proto = "static" THEN part[1].address ELSE <<>>, part[1].gateway)>>
    IN  Of(file.four, Proto(file)) \o Of(file.six, proto6)

\* config_from_klibc_net_cfg: a device's files are put together.
ConvertKlibc(files) ==
    {MadePhysical(d, FlattenSeq([i \in DOMAIN files |->
                        IF files[i].device = d THEN KlibcSubnets(files[i]) ELSE <<>>]))
     : d \in {f.device : f \in ToSet(files)}}
KlibcRaises(files) == \E f \in ToSet(files) : Proto(f) \notin {"static", "dhcp", "dhcp6"}

----------------------------------------------------------------------------
(* No cloud says anything: the interfaces in the order of their names, each  *)
(* [name, kind, driver, state, mac].                                        *)
FallbackNic(nics, blacklist) ==
    LET usable == SelectSeq(nics, LAMBDA n :
                    n.driver \notin blacklist /\ n.kind \notin {"lo", "veth", "bridge", "bond"})
        In(states) == SelectSeq(usable, LAMBDA n : n.state \in states)
        likely == IF In({"carrier"}) # <<>> THEN In({"carrier"}) ELSE In({"dormant", "down"})
        names == SelectSeq(likely, LAMBDA n : n.name = "eth0") \o SelectSeq(likely, LAMBDA n : n.name # "eth0")
        first == SelectInSeq(names, LAMBDA n : n.mac # "")
    IN  IF first = 0 THEN <<>> ELSE <<names[first].name>>

FallbackConfig(said) ==
    {MadePhysical(name, <<Subnet("dhcp", <<>>, <<>>)>>) : name \in ToSet(FallbackNic(said.nics, said.blacklist))}

(* Azure: the same, of the devices that are not for a bond; those get a name. *)
AzureConfig(said) ==
    LET slaves == SelectSeq(said.nics, LAMBDA n : n.driver \in said.blacklist)
    IN  FallbackConfig(said) \cup {MadePhysical("vf" \o ToString(i), <<>>) : i \in DOMAIN slaves}
AzureRaises(said) == FallbackNic(said.nics, said.blacklist) = <<>>

----------------------------------------------------------------------------
Convert(format, said, known) ==
    CASE format = "config drive" -> ConfigDriveNetwork(said, known)
      [] format = "droplet" -> ConvertDroplet(said, known)
      [] format = "smartos" -> ConvertSmart(said)
      [] format = "ec2" -> ConvertEc2(said, known)
      [] format = "klibc" -> ConvertKlibc(said)
      [] format = "fallback" -> FallbackConfig(said)
      [] format = "azure" -> AzureConfig(said)

ConvertRaises(format, said, known) ==
    CASE format = "config drive" -> ConfigDriveRaises(said, known)
      [] format = "droplet" -> DropletRaises(said, known)
      [] format = "klibc" -> KlibcRaises(said)
      [] format = "azure" -> AzureRaises(said)
      [] OTHER -> FALSE
=============================================================================
