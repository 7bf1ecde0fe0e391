---------------------------- MODULE MCApplyNetwork ----------------------------
(***************************************************************************)
(* ApplyNetwork for TLC.  Networks that rename: three interfaces, two of     *)
(* which share a MAC address, as those a failover driver pairs do, and every *)
(* config that names some of them, in any order, with their drivers or not. *)
(* Networks with devices: bonds, bridges and vlans upon another, the one on  *)
(* top with every kind of subnet.  A network does one or the other.          *)
(***************************************************************************)
EXTENDS ApplyNetwork, FiniteSetsExt

CONSTANTS n1, n2, n3, eth0, eth1, eth2

MCNics == {n1, n2, n3}
MCNames == {eth0, eth1, eth2}
MCMac == (n1 :> "a") @@ (n2 :> "b") @@ (n3 :> "b")
MCDriver == (n1 :> "x") @@ (n2 :> "x") @@ (n3 :> "y")

Entry(n, name, driven) ==
    [mac |-> MCMac[n], name |-> name, driver |-> IF driven THEN MCDriver[n] ELSE "none"]
MCConfigs ==
    UNION {{[i \in 1..k |-> Entry(ns[i], names[i], driven)] :
              ns \in Injection(1..k, MCNics), names \in Injection(1..k, MCNames), driven \in BOOLEAN}
           : k \in 0..3}

NameSymmetry == Permutations(MCNames)

----------------------------------------------------------------------------
MCBeforeDot == ("bond0.5" :> "bond0") @@ ("card.5" :> "card") @@ ("storage" :> "storag")

A(family, word) == <<family, word>>
To(family, word) == [to |-> A(family, word), via |-> A(family, "via"), masked |-> FALSE]
Masked(route) == [route EXCEPT !.masked = TRUE]
S4 == Subnet("static", A(4, "a"), A(4, "g"))
S6(word) == Subnet("static", A(6, word), <<>>)
D(type) == Subnet(type, <<>>, <<>>)
Routed(s, routes) == [s EXCEPT !.routes = routes]
V1Subnets ==
    {<<>>, <<D("manual")>>, <<D("dhcp"), S6("a")>>, <<D("dhcp4"), D("dhcp6")>>, <<D("dhcp6")>>,
     <<S4, S6("a"), S6("b"), S6("c")>>, <<S4, Subnet("static", A(4, "b"), A(4, "h"))>>,
     <<Routed(S4, <<To(4, "n"), To(4, "m")>>), Routed(S6("a"), <<To(6, "default")>>)>>,
     <<Routed(Subnet("static", A(4, "a"), <<>>), <<To(4, "default"), To(4, "n")>>)>>,
     <<Routed(S6("a"), <<To(6, "n")>>)>>, <<Routed(S6("a"), <<Masked(To(6, "n")), To(4, "m")>>)>>,
     <<Routed(D("dhcp4"), <<To(4, "n")>>), S4>>}
V2Ips ==
    [dhcp4 : {"absent", "true", "false"}, dhcp6 : {"absent", "true"},
     addresses : {<<>>, <<A(4, "a"), A(6, "b"), A(4, "c")>>, <<A(6, "a"), A(6, "b"), A(6, "c")>>},
     gateways : {<<>>, <<A(4, "g")>>, <<A(4, "g"), A(6, "h")>>},
     routes : {<<>>, <<To(4, "n"), To(4, "m")>>, <<To(4, "default")>>}]
NoIp == [dhcp4 |-> "absent", dhcp6 |-> "absent", addresses |-> <<>>, gateways |-> <<>>, routes |-> <<>>]

Dev(kind, name, members, link) ==
    [kind |-> kind, name |-> name, members |-> members, link |-> link, complete |-> TRUE,
     subnets |-> <<>>, ip |-> NoIp, setName |-> ""]
Eth(name) == Dev("physical", name, {}, "")
Bond == {Eth("eth0"), Eth("eth1"), Dev("bond", "bond0", {"eth0", "eth1"}, "")}
Towers == \* the device on top, and those below it
    {<<Eth("eth0"), {}>>,
     <<Dev("bond", "bond0", {"eth0", "eth1"}, ""), {Eth("eth0"), Eth("eth1")}>>,
     <<Dev("bridge", "br0", {"bond0", "eth2"}, ""), Bond \cup {Eth("eth2")}>>,
     <<Dev("vlan", "bond0.5", {}, "bond0"), Bond>>,
     <<Dev("vlan", "storage", {}, "bond0"), Bond>>,
     <<Dev("bridge", "br0", {"eth0"}, ""), {}>>,
     <<Eth("eth2"), {[Dev("bond", "bond0", {"eth0", "eth1"}, "") EXCEPT !.complete = FALSE], Eth("eth0")}>>}

\* A definition whose id is not the name it gives: alone, beside a bond, a member by its id
\* or by its name, under a vlan; and one that set-name gives its own id.
Card == [Eth("card") EXCEPT !.setName = "eth2"]
RenamedTowers ==
    {{Card}, Bond \cup {Card}, {Card, Eth("eth0"), Dev("bond", "bond0", {"card", "eth0"}, "")},
     {Card, Eth("eth0"), Dev("bond", "bond0", {"eth2", "eth0"}, "")}, {Card, Dev("bridge", "br0", {"card"}, "")},
     {Card, Dev("vlan", "card.5", {}, "card")},
     {[Eth("eth0") EXCEPT !.setName = "eth0"], Eth("eth1"), Dev("bond", "bond0", {"eth0", "eth1"}, "")}}
RenamedNetworks ==
    {{IF c = d THEN [c EXCEPT !.ip = ip] ELSE c : c \in t} :
        t \in RenamedTowers, d \in UNION RenamedTowers, ip \in {i \in V2Ips : i.dhcp4 = "true" /\ i.dhcp6 = "absent"}}

Given(version, devices) == [version |-> version, format |-> "given", case |-> 0, devices |-> devices]

----------------------------------------------------------------------------
(* The same devices as the clouds describe them.                             *)
Listed(set) == FoldSet(LAMBDA x, seq : Append(seq, x), <<>>, set)
Hw == [name \in {"eth0", "eth1", "eth2"} |-> "mac of " \o name]
Known == [m \in {Hw[n] : n \in DOMAIN Hw} |-> CHOOSE n \in DOMAIN Hw : Hw[n] = m]
Case(said, devices) == [said |-> said, known |-> Known, devices |-> devices]
With(d, subnets) == [d EXCEPT !.subnets = subnets]

IdOf(name) == "tap-" \o name
NetLink(c) ==
    [id |-> IdOf(c.name), type |-> IF c.kind = "physical" THEN "phy" ELSE c.kind, name |-> "",
     mac |-> IF c.kind = "physical" THEN Hw[c.name] ELSE "", members |-> {IdOf(m) : m \in c.members},
     on |-> IF c.link = "" THEN "" ELSE IdOf(c.link), vid |-> IF c.kind = "vlan" THEN "5" ELSE ""]
NetOf(c, s) ==
    [link |-> IdOf(c.name), address |-> s.address, gateway |-> s.gateway, routes |-> s.routes,
     type |-> CASE s.type = "dhcp4" -> "ipv4_dhcp" [] s.type = "dhcp6" -> "ipv6_dhcp"
                [] OTHER -> IF s.address[1] = 6 THEN "ipv6" ELSE "ipv4"]
NetJson(order) ==
    [links |-> [i \in DOMAIN order |-> NetLink(order[i])],
     networks |-> FlattenSeq([i \in DOMAIN order |->
                    [k \in DOMAIN order[i].subnets |-> NetOf(order[i], order[i].subnets[k])]])]
NetJsonSubnets == {ss \in V1Subnets : \A s \in ToSet(ss) : s.type \in {"static", "dhcp4", "dhcp6"}}
NetJsonDesigns ==
    {t[2] \cup {With(t[1], ss)} : t \in {u \in Towers : u[1].name \notin {"br0", "storage", "eth2"}}, ss \in NetJsonSubnets}
OpenStackCases ==
    UNION {{Case([json |-> <<NetJson(order)>>, eni |-> <<>>], d) : order \in {Listed(d), Reverse(Listed(d))}}
           : d \in NetJsonDesigns}
    \cup {[said |-> [json |-> <<NetJson(<<Eth("eth0")>>)>>, eni |-> <<>>], known |-> <<>>, devices |-> {}]}

Line(option, name, value) == [option |-> option, name |-> name, value |-> value]
Stanza(name, s) ==
    <<Line("auto", name, ""), Line("iface", name, s.type)>>
    \o (IF s.address = <<>> THEN <<>> ELSE <<Line("address", name, s.address)>>)
    \o (IF s.gateway = <<>> THEN <<>> ELSE <<Line("gateway", name, s.gateway)>>)
Labels(name, ss) == FlattenSeq([i \in DOMAIN ss |-> Stanza(<<name, IF i = 1 THEN "" ELSE ToString(i)>>, ss[i])])
Lo == <<Line("auto", <<"lo", "">>, ""), Line("iface", <<"lo", "">>, "loopback")>>
EniCases ==
    {Case([json |-> <<>>, eni |-> Lo \o Labels("eth0", ss) \o Labels("eth1", <<D("dhcp")>>)],
          {With(Eth("eth0"), ss), With(Eth("eth1"), <<D("dhcp")>>)})
     : ss \in {<<D("dhcp")>>, <<S4>>, <<S4, S6("a"), S6("b")>>, <<S6("a"), D("dhcp"), S6("b")>>}}
    \cup {Case([json |-> <<>>, eni |-> Stanza(<<"eth0", "">>, S4) \o Stanza(<<"eth0", "">>, S6("a"))], {}),
          Case([json |-> <<>>, eni |-> <<Line("auto", <<"eth0", "">>, "")>>], {})}

Part(address, gateway) == <<[address |-> address, gateway |-> gateway]>>
Private(s) == [s EXCEPT !.gateway = <<>>]
DropletCases ==
    {Case(<<<<[mac |-> Hw["eth0"], type |-> "public",
               parts |-> [ipv4 |-> Part(A(4, "a"), A(4, "g")), ipv6 |-> six, anchor_ipv4 |-> anchor, anchor_ipv6 |-> <<>>]]>>,
            <<[mac |-> Hw["eth1"], type |-> "private",
               parts |-> [ipv4 |-> Part(A(4, "p"), A(4, "q")), ipv6 |-> <<>>, anchor_ipv4 |-> <<>>, anchor_ipv6 |-> <<>>]]>>>>,
          {With(Eth("eth0"), <<S4>> \o (IF six = <<>> THEN <<>> ELSE <<Subnet("static", A(6, "a"), A(6, "g"))>>)
                               \o (IF anchor = <<>> THEN <<>> ELSE <<Subnet("static", A(4, "c"), <<>>)>>)),
           With(Eth("eth1"), <<Subnet("static", A(4, "p"), <<>>)>>)})
     : six \in {<<>>, Part(A(6, "a"), A(6, "g"))}, anchor \in {<<>>, Part(A(4, "c"), A(4, "d"))}}
    \cup {Case(<<<<[mac |-> "mac of another", type |-> "public",
                   parts |-> [p \in ToSet(Parts) |-> <<>>]]>>>>, {})}

SmartNic(name, ss, primary, others) ==
    [interface |-> name, ips |-> [i \in DOMAIN ss |-> ss[i].address], primary |-> primary,
     gateways |-> SelectSeq([i \in DOMAIN ss |-> ss[i].gateway], LAMBDA g : g # <<>>) \o others]
SmartCases ==
    UNION {{Case(order, {With(Eth("eth0"), ss), With(Eth("eth1"), <<Private(S4)>>)})
            : order \in {<<SmartNic("eth0", ss, TRUE, <<>>), SmartNic("eth1", <<Private(S4)>>, FALSE, <<A(4, "q")>>)>>,
                         <<SmartNic("eth1", <<Private(S4)>>, FALSE, <<A(4, "q")>>), SmartNic("eth0", ss, TRUE, <<>>)>>}}
           : ss \in {<<D("dhcp4")>>, <<S4, S6("a"), Subnet("static", A(4, "b"), <<>>)>>,
                     <<S6("a"), S4>>, <<D("dhcp4"), S4>>}}

Ec2Cases ==
    {Case([m \in {Hw["eth0"], "mac of another"} |-> [public4 |-> four, ipv6s |-> six]],
          {With(Eth("eth0"), (IF four THEN <<D("dhcp4")>> ELSE <<>>) \o (IF six THEN <<D("dhcp6")>> ELSE <<>>))})
     : four \in BOOLEAN, six \in BOOLEAN}

File(device, proto, proto6, four, six) ==
    [device |-> device, proto |-> proto, proto6 |-> proto6, filename |-> FALSE, four |-> four, six |-> six]
Net4 == File("eth0", "dhcp", "", Part(A(4, "a"), A(4, "g")), <<>>)
Net6 == File("eth0", "", "dhcp6", <<>>, Part(A(6, "a"), <<>>))
Dhcp4 == Subnet("dhcp", <<>>, A(4, "g"))
KlibcCases ==
    {Case(<<Net4>>, {With(Eth("eth0"), <<Dhcp4>>)}),
     Case(<<Net4, Net6>>, {With(Eth("eth0"), <<Dhcp4, D("dhcp6")>>)}),
     Case(<<Net6>>, {With(Eth("eth0"), <<D("dhcp6")>>)}),
     Case(<<[Net4 EXCEPT !.proto = "", !.filename = TRUE]>>, {With(Eth("eth0"), <<Dhcp4>>)}),
     Case(<<[Net4 EXCEPT !.proto = ""], [Net4 EXCEPT !.device = "eth1"]>>,
          {With(Eth("eth0"), <<S4>>), With(Eth("eth1"), <<Dhcp4>>)}),
     Case(<<[Net4 EXCEPT !.proto6 = "dhcp6", !.six = Part(A(6, "a"), <<>>)]>>,
          {With(Eth("eth0"), <<Dhcp4, D("dhcp6")>>)}),
     Case(<<[Net4 EXCEPT !.proto = "none"]>>, {})}

Nic(name, kind, driver, state, mac) == [name |-> name, kind |-> kind, driver |-> driver, state |-> state, mac |-> mac]
Plain(name, state) == Nic(name, "nic", "x", state, "mac")
NicCase(nics, blacklist, devices) == Case([nics |-> nics, blacklist |-> blacklist], devices)
OnDhcp(name) == {With(Eth(name), <<D("dhcp")>>)}
Bridge == Nic("br0", "bridge", "", "carrier", "mac")
Virtuals == <<Nic("lo", "lo", "", "carrier", "mac"), Nic("veth1", "veth", "", "carrier", "mac")>>
Slave == Nic("ens3", "nic", "mlx4_core", "carrier", "mac")
FallbackCases ==
    {NicCase(<<Bridge, Plain("ens3", "carrier"), Plain("eth0", "down")>>, {}, OnDhcp("ens3")),
     NicCase(<<Plain("ens3", "carrier"), Plain("eth0", "carrier")>>, {}, OnDhcp("eth0")),
     NicCase(<<Plain("ens3", "lost"), Plain("ens4", "down")>>, {}, OnDhcp("ens4")),
     NicCase(<<Nic("ens3", "nic", "x", "carrier", ""), Plain("ens4", "carrier")>>, {}, OnDhcp("ens4")),
     NicCase(Virtuals, {}, {})}
AzureCases ==
    {NicCase(<<Slave, Plain("ens4", "down")>>, {"mlx4_core"}, OnDhcp("ens4") \cup {Eth("vf1")}),
     NicCase(<<Slave, Plain("eth0", "carrier"), [Slave EXCEPT !.name = "ens5"]>>, {"mlx4_core"},
             OnDhcp("eth0") \cup {Eth("vf1"), Eth("vf2")}),
     NicCase(Virtuals, {"mlx4_core"}, {})}

CasesOf ==
    [format \in {"config drive", "droplet", "smartos", "ec2", "klibc", "fallback", "azure"} |-> Listed(
        CASE format = "config drive" -> OpenStackCases \cup EniCases
          [] format = "droplet" -> DropletCases
          [] format = "smartos" -> SmartCases
          [] format = "ec2" -> Ec2Cases
          [] format = "klibc" -> KlibcCases
          [] format = "fallback" -> FallbackCases
          [] format = "azure" -> AzureCases)]
MCDescriptions == CasesOf

MCNetworks ==
    {[Given(1, {}) EXCEPT !.format = "none"]} \cup
    {Given(1, t[2] \cup {[t[1] EXCEPT !.subnets = s]}) : t \in Towers, s \in V1Subnets} \cup
    {Given(2, t[2] \cup {[t[1] EXCEPT !.ip = ip]}) :
        t \in {u \in Towers : \A c \in u[2] : c.complete}, ip \in V2Ips} \cup
    {Given(2, d) : d \in RenamedNetworks} \cup
    UNION {{[version |-> 1, format |-> f, case |-> i, devices |-> CasesOf[f][i].devices] : i \in DOMAIN CasesOf[f]}
           : f \in DOMAIN CasesOf}
=============================================================================
