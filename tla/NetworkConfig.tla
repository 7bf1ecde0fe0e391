----------------------------- MODULE NetworkConfig -----------------------------
(***************************************************************************)
(* cloudinit/net/network_state.py, which reads a network config of version  *)
(* 1 or 2 command by command into a table of interfaces, and the renderers  *)
(* eni, netplan and sysconfig, which write the table for the system.        *)
(*                                                                         *)
(* A command is [kind, name, complete, members, link, subnets]: kind one of  *)
(* "physical", "bond", "bridge", "vlan".  In version 2 its name is the id of *)
(* its definition, setName what set-name says, "" if nothing, and it has ip  *)
(* instead of subnets: [dhcp4, dhcp6, addresses, gateways, routes].  An      *)
(* address, a gateway or the destination of a route is <<family, word>>,     *)
(* family 4 or 6; <<>> is none; a route is masked if it has a netmask of its *)
(* own.  What prefixes and masks say, MTUs, hardware addresses, parameters   *)
(* of bonds and bridges, name servers and routes of no interface are left    *)
(* out.                                                                      *)
(***************************************************************************)
EXTENDS Naturals, Sequences, SequencesExt

Address == {4, 6} \X STRING
Route == [to : Address, via : Address, masked : BOOLEAN]
SubnetTypes == {"static", "dhcp", "dhcp4", "dhcp6", "manual"}
SubnetRecord ==
    [type : SubnetTypes, address : Address \cup {<<>>}, gateway : Address \cup {<<>>}, routes : Seq(Route)]
IpRecord ==
    [dhcp4 : {"absent", "true", "false"}, dhcp6 : {"absent", "true", "false"},
     addresses : Seq(Address), gateways : Seq(Address), routes : Seq(Route)]

Default(family) == <<family, "default">>

----------------------------------------------------------------------------
(* The table: what a name that nobody has defined has.                       *)
Nothing == [type |-> "", subnets |-> <<>>, master |-> "", ports |-> {}, link |-> ""]
Get(table, name) == IF name \in DOMAIN table THEN table[name] ELSE Nothing
Put(table, name, entry) ==
    [n \in DOMAIN table \cup {name} |-> IF n = name THEN entry ELSE table[n]]

\* Mutant: what a command of another interface put there is forgotten.
HandlePhysical_Afresh(table, name, type, subnets) ==
    Put(table, name, [Nothing EXCEPT !.type = type, !.subnets = subnets])

\* What another command has put there stays, but for these two.
HandlePhysical(table, name, type, subnets) ==
    Put(table, name, [Get(table, name) EXCEPT !.type = type, !.subnets = subnets])

\* Members that were not met so far.
Placeholders(table, names, type) ==
    [n \in DOMAIN table \cup names |->
        IF n \in DOMAIN table THEN table[n] ELSE [Nothing EXCEPT !.type = type]]

HandleBond(table, c, subnets) ==
    LET made == Placeholders(HandlePhysical(table, c.name, "bond", subnets), c.members, "bond")
    IN  [n \in DOMAIN made |->
            IF n \in c.members THEN [made[n] EXCEPT !.master = c.name] ELSE made[n]]

HandleBridge(table, c, subnets) ==
    LET made == HandlePhysical(Placeholders(table, c.members, ""), c.name, "bridge", subnets)
    IN  [made EXCEPT ![c.name].ports = c.members]

HandleVlan(table, c, subnets) ==
    LET made == HandlePhysical(table, c.name, "vlan", subnets)
    IN  [made EXCEPT ![c.name].link = c.link]

----------------------------------------------------------------------------
Dhcp(type) == type \in {"dhcp", "dhcp4", "dhcp6"}
DhcpFamily(type) == IF type = "dhcp6" THEN 6 ELSE 4
Subnet(type, address, gateway) ==
    [type |-> type, address |-> address, gateway |-> gateway, routes |-> <<>>]

\* _v2_to_v1_ipcfg: that the key is there means dhcp; a gateway goes to the first
\* address of its family, the routes to the first subnet, if there is one.
FirstOfFamily(ip, i) == \A j \in 1..(i - 1) : ip.addresses[j][1] # ip.addresses[i][1]
FamilyGateways(ip, i) == {g \in ToSet(ip.gateways) : g[1] = ip.addresses[i][1]}
V2Gateway(ip, i) ==
    IF FirstOfFamily(ip, i) /\ FamilyGateways(ip, i) # {} THEN CHOOSE g \in FamilyGateways(ip, i) : TRUE ELSE <<>>
V2Dhcp(key, type) == IF key = "absent" THEN <<>> ELSE <<Subnet(type, <<>>, <<>>)>>
V2Static(ip) == [i \in DOMAIN ip.addresses |-> Subnet("static", ip.addresses[i], V2Gateway(ip, i))]
V2Listed(ip) == V2Dhcp(ip.dhcp4, "dhcp4") \o V2Dhcp(ip.dhcp6, "dhcp6") \o V2Static(ip)
V2Subnets(ip) == IF V2Listed(ip) = <<>> THEN <<>> ELSE [V2Listed(ip) EXCEPT ![1].routes = ip.routes]

SubnetsOf(version, c) == IF version = 2 THEN V2Subnets(c.ip) ELSE c.subnets

\* Of version 2 an ethernet has the name set-name gives it; the members of bonds and
\* bridges and the links of vlans keep the ids.
NameOf(version, c) == IF version = 2 /\ c.kind = "physical" /\ c.setName # "" THEN c.setName ELSE c.name

\* parse_config: a command that lacks a key is logged and skipped.
Handle(version, table, c) ==
    LET subnets == SubnetsOf(version, c)
    IN  IF ~c.complete THEN table
        ELSE CASE c.kind \in {"physical", "loopback"} -> HandlePhysical(table, NameOf(version, c), c.kind, subnets)
               [] c.kind = "bond" -> HandleBond(table, c, subnets)
               [] c.kind = "bridge" -> HandleBridge(table, c, subnets)
               [] c.kind = "vlan" -> HandleVlan(table, c, subnets)

----------------------------------------------------------------------------
(* What the written files make of an interface: [dhcp: families, addresses, *)
(* gateways, routes, kind, master, ports, link].                            *)
RoutesIn(subnets) == UNION {ToSet(s.routes) : s \in subnets}
IsDefault(r) == r.to = Default(r.to[1])
Vias(routes) == {r.via : r \in {q \in routes : IsDefault(q)}}
Others(routes) == {q \in routes : ~IsDefault(q)}
Words(set) == set \ {<<>>}

\* The last subnet of a kind that has one for the family, as key after key is overwritten.
LastGateways(subnets) ==
    {subnets[i].gateway : i \in {j \in DOMAIN subnets :
        /\ subnets[j].type = "static" /\ subnets[j].gateway # <<>>
        /\ \A k \in (j + 1)..Len(subnets) :
             subnets[k].type = "static" /\ subnets[k].gateway # <<>>
                => subnets[k].gateway[1] # subnets[j].gateway[1]}}

\* eni: a stanza for each subnet; a table with a port nobody defined cannot be
\* sorted.  A route to an IPv6 network is written as one of IPv4.
EniRaises(table) == \E n \in DOMAIN table : table[n].type = ""
Eni(table, n) ==
    LET subnets == table[n].subnets
        routes == RoutesIn(ToSet(subnets))
    IN  [dhcp |-> {DhcpFamily(s.type) : s \in {t \in ToSet(subnets) : Dhcp(t.type)}},
         addresses |-> Words({s.address : s \in ToSet(subnets)}),
         gateways |-> Words({s.gateway : s \in ToSet(subnets)}) \cup Vias(routes),
         routes |-> {[r EXCEPT !.to = <<4, @[2]>>] : r \in Others(routes)},
         kind |-> table[n].type, master |-> table[n].master, ports |-> table[n].ports,
         link |-> table[n].link]

\* A slave is listed by its bond, or its file is given a master by it.
SlaveOf(table, n) == IF Get(table, table[n].master).type = "bond" THEN table[n].master ELSE ""

\* netplan, of version 1: routes of static subnets only.
Netplan(table, n) ==
    LET subnets == table[n].subnets
        static == {s \in ToSet(subnets) : s.type = "static"}
        routes == RoutesIn(static)
    IN  [dhcp |-> {DhcpFamily(s.type) : s \in {t \in ToSet(subnets) : Dhcp(t.type)}},
         addresses |-> {s.address : s \in static},
         gateways |-> LastGateways(subnets) \cup Vias(routes),
         routes |-> Others(routes),
         kind |-> table[n].type, master |-> SlaveOf(table, n),
         ports |-> table[n].ports, link |-> table[n].link]

\* Mutant: every route gets the number of the first.
RouteFile_OneNumber(routes) ==
    LET others == SelectSeq(routes, LAMBDA r : ~IsDefault(r))
    IN  IF others = <<>> THEN <<>> ELSE <<Last(others)>>

\* _render_subnet_routes: numbered from 1, default routes into the ifcfg file.
RouteFile(routes) == FlattenSeq([k \in DOMAIN routes |-> IF IsDefault(routes[k]) THEN <<>> ELSE <<routes[k]>>])

\* to_string asks for a netmask, which a route to an IPv6 network gets from nobody but
\* its author.
SysconfigRaises(table) ==
    \E n \in DOMAIN table : \E r \in Others(RoutesIn(ToSet(table[n].subnets))) : r.to[1] = 6 /\ ~r.masked

\* BOOTPROTO is dhcp for either family, and DHCPV6C for the one.
BootProto(subnets) ==
    LET types == {s.type : s \in ToSet(subnets)}
    IN  IF "dhcp6" \in types THEN {4, 6} ELSE {4 : t \in {u \in types : Dhcp(u)}}

\* The keys of a gateway are overwritten, by default routes last.
IfcfgGateways(subnets) ==
    LET vias == Vias(RoutesIn(ToSet(subnets)))
    IN  vias \cup {g \in LastGateways(subnets) : \A v \in vias : v[1] # g[1]}

\* PHYSDEV is the name before its last dot.
PhysDev(table, n, beforeDot) == IF table[n].type = "vlan" THEN beforeDot[n] ELSE ""

Sysconfig(table, n, beforeDot) ==
    LET subnets == table[n].subnets
    IN  [dhcp |-> BootProto(subnets),
         addresses |-> {s.address : s \in {t \in ToSet(subnets) : t.type = "static"}},
         gateways |-> IfcfgGateways(subnets),
         routes |-> ToSet(RouteFile(FlattenSeq([i \in DOMAIN subnets |-> subnets[i].routes]))),
         kind |-> table[n].type, master |-> SlaveOf(table, n),
         ports |-> table[n].ports, link |-> PhysDev(table, n, beforeDot)]
=============================================================================
