----------------------------- MODULE ApplyNetwork -----------------------------
(***************************************************************************)
(* Init.apply_network_config: the interfaces get their names (Renames);      *)
(* then, whether that failed or not, for a new instance the config is read  *)
(* command by command and written with the renderer the system has          *)
(* (NetworkConfig).  Version 1 is a list in the order of its author, version *)
(* 2 is read section by section in the order of a dictionary: any.  Each     *)
(* command is one step.  The config is given as such, or converted from what *)
(* a cloud says (NetworkSources).                                            *)
(***************************************************************************)
EXTENDS Renames, NetworkSources

CONSTANTS Networks,     \* [version, format, case, devices: what is meant, as commands]
          Descriptions, \* [format -> a sequence of [said, known]]
          BeforeDot     \* of the names of vlans

Described(n) == n.format \notin {"none", "given"}
Cloud(n) == Descriptions[n.format][n.case]
Refused(n) == Described(n) /\ ConvertRaises(n.format, Cloud(n).said, Cloud(n).known)
CommandsOf(n) == IF Described(n) THEN Convert(n.format, Cloud(n).said, Cloud(n).known) ELSE n.devices

\* What is read of commands: the incomplete ones are skipped.
Complete(commands) == {c \in commands : c.complete}
AsRead(version, commands) ==
    {[kind |-> c.kind, name |-> NameOf(version, c), members |-> c.members, link |-> c.link,
      subnets |-> SubnetsOf(version, c)] : c \in Complete(commands)}
Bonds(commands) == {c \in commands : c.kind = "bond"}

\* An interface has one definition and one master; and what a description is converted to
\* has the devices that are meant, and no bonds but those.  A static subnet has an
\* address, another one has none; version 2 has a key for the gateway of each family and
\* none for the netmask of a route.
ASSUME NetworksAssumption ==
    \A n \in Networks :
        LET read == Complete(CommandsOf(n))
        IN  /\ Refused(n) => n.devices = {}
            /\ \A c \in Complete(n.devices) :
                 /\ c.subnets \in Seq(SubnetRecord)
                 /\ \A s \in ToSet(c.subnets) : s.type = "static" <=> s.address # <<>>
                 /\ n.version = 2 => c.ip \in IpRecord
                 /\ n.version = 2 => \A g, h \in ToSet(c.ip.gateways) : g[1] = h[1] => g = h
                 /\ n.version = 2 => \A r \in ToSet(c.ip.routes) : ~r.masked
            /\ ~Refused(n) =>
                 /\ \A c \in read : c.kind \in {"physical", "loopback", "bond", "bridge", "vlan"}
                 /\ \A c, d \in read : NameOf(n.version, c) = NameOf(n.version, d) => c = d
                 /\ \A c, d \in Bonds(read) : c.members \cap d.members # {} => c = d
                 /\ AsRead(n.version, n.devices) \subseteq AsRead(n.version, read)
                 /\ Bonds(AsRead(n.version, read)) \subseteq AsRead(n.version, n.devices)

Renderers == {"eni", "netplan", "sysconfig"}

VARIABLES network,  \* the config
          todo,     \* its commands that are not read, {} while the names are changed
          section,  \* the kind of the command read last
          table,    \* the interfaces read
          written   \* [by |-> a renderer, how |-> it ended, out |-> what it wrote]

net == <<todo, section, table, written>>
allVars == <<vars, network, net>>

NotWritten == [by |-> "nobody", how |-> "nothing", out |-> <<>>]

ApplyInit ==
    /\ Init /\ network \in Networks
    /\ network.format # "none" => busy = {} /\ \A n \in Nics : links[n].up
    /\ todo = {} /\ section = "" /\ table = <<>> /\ written = NotWritten

Reading == todo # {} \/ table # <<>>

\* Bound: a network with devices has all its names, one without has others each time.
EachTime == {c \in Configs : network.format # "none" => c = <<>>}

ApplyNames ==
    /\ ~Reading /\ written = NotWritten
    /\ (pc = "idle" /\ \E c \in EachTime : Begin(c)) \/ PlanEntry \/ Ambiguous \/ PlanMade \/ Command \/ Return
    /\ UNCHANGED <<network, net>>

(* The instance is not new: only the names are applied.                      *)
NotNew == Leave /\ UNCHANGED <<network, net>>

IsNew ==
    /\ Leave /\ network.format # "none"
    /\ ~Refused(network) /\ todo' = CommandsOf(network)
    /\ UNCHANGED <<network, section, table, written>>

(* The stage has no config and ends.                                         *)
NoConfig ==
    /\ Leave /\ Refused(network)
    /\ written' = [NotWritten EXCEPT !.how = "no config"] /\ UNCHANGED <<network, todo, section, table>>

ReadCommand ==
    /\ \E c \in todo :
         /\ network.version = 2 /\ c.kind # section => \A d \in todo : d.kind # section
         /\ table' = Handle(network.version, table, c)
         /\ section' = c.kind /\ todo' = todo \ {c}
    /\ UNCHANGED <<vars, network, written>>

Raises(by) ==
    CASE by = "eni" -> EniRaises(table)
      [] by = "sysconfig" -> SysconfigRaises(table)
      [] OTHER -> FALSE

RenderedDevice(by, n) ==
    CASE by = "eni" -> Eni(table, n)
      [] by = "sysconfig" -> Sysconfig(table, n, BeforeDot)
      [] by = "netplan" -> Netplan(table, n)

\* netplan gets a config of version 2 as it is.
Rendered(by) ==
    CASE by = "netplan" /\ network.version = 2 -> [by |-> by, how |-> "as given", out |-> <<>>]
      [] by # "netplan" /\ Raises(by) -> [by |-> by, how |-> "raised", out |-> <<>>]
      [] OTHER -> [by |-> by, how |-> "written", out |-> [n \in DOMAIN table |-> RenderedDevice(by, n)]]

Render ==
    /\ todo = {} /\ table # <<>>
    /\ \E by \in Renderers : written' = Rendered(by)
    /\ table' = <<>> /\ section' = "" /\ UNCHANGED <<vars, network, todo>>

(* Another boot, or stage, calls again.                                      *)
Again == written # NotWritten /\ written' = NotWritten /\ UNCHANGED <<vars, network, todo, section, table>>

ApplyNext == ApplyNames \/ NotNew \/ IsNew \/ NoConfig \/ ReadCommand \/ Render \/ Again

ApplySpec == ApplyInit /\ [][ApplyNext]_allVars

----------------------------------------------------------------------------
Devices == Complete(network.devices)

\* The bond, among the commands, that lists an interface.
MasterIn(commands, n) ==
    LET bonds == {c.name : c \in {d \in Bonds(commands) : n \in d.members}}
    IN  IF bonds = {} THEN "" ELSE CHOOSE b \in bonds : TRUE
MasterOf(n) == MasterIn(Devices, n)
Ports(c) == IF c.kind = "bridge" THEN c.members ELSE {}
LinkOf(c) == IF c.kind = "vlan" THEN c.link ELSE ""

\* Whatever cloud describes it, and in whatever order the commands are read, an interface
\* is what its own command says, under the name the command gives it, with its addresses
\* in their order, and the slave of the bond that lists that name.  (network_state.py:403,
\* 457: interfaces that are members before they are defined.)
AnyOrderReadsTheSame ==
    todo = {} /\ table # <<>> => \A c \in Devices :
        table[NameOf(network.version, c)] =
            [type |-> c.kind, subnets |-> SubnetsOf(network.version, c),
             master |-> MasterOf(NameOf(network.version, c)), ports |-> Ports(c), link |-> LinkOf(c)]

(* Why it holds, as an inductive invariant.                                  *)

\* A table after some commands, whichever came first: of what they define it has what
\* they say, and of other interfaces the master at most.
TableOf(version, made, read) ==
    /\ \A c \in read :
         /\ NameOf(version, c) \in DOMAIN made
         /\ made[NameOf(version, c)] =
                [type |-> c.kind, subnets |-> SubnetsOf(version, c),
                 master |-> MasterIn(read, NameOf(version, c)), ports |-> Ports(c), link |-> LinkOf(c)]
    /\ \A n \in DOMAIN made \ {NameOf(version, c) : c \in read} :
         \E type \in {"", "bond"} :
             made[n] = [type |-> type, subnets |-> <<>>, master |-> MasterIn(read, n), ports |-> {}, link |-> ""]
    /\ \A c \in Bonds(read) : c.members \subseteq DOMAIN made

ReadInv ==
    Reading =>
        /\ pc = "idle" /\ ~Refused(network) /\ todo \subseteq CommandsOf(network)
        /\ TableOf(network.version, table, Complete(CommandsOf(network) \ todo))

\* What a config says of an interface, in either version.
Routes(version, c) == IF version = 2 THEN ToSet(c.ip.routes) ELSE RoutesIn(ToSet(c.subnets))
GatewaysOf(version, c) ==
    Vias(Routes(version, c)) \cup
        IF version = 2 THEN ToSet(c.ip.gateways) ELSE Words({s.gateway : s \in ToSet(c.subnets)})
Addresses(version, c) ==
    IF version = 2 THEN ToSet(c.ip.addresses) ELSE Words({s.address : s \in ToSet(c.subnets)})
DhcpOf(version, c) ==
    IF version = 2 THEN {f \in {4, 6} : (f = 4 /\ c.ip.dhcp4 = "true") \/ (f = 6 /\ c.ip.dhcp6 = "true")}
    ELSE {DhcpFamily(s.type) : s \in {t \in ToSet(c.subnets) : Dhcp(t.type)}}
\* Members and links are ids of definitions, or interfaces that have none.
NameOfId(n, id) ==
    LET names == {NameOf(n.version, d) : d \in {e \in Complete(n.devices) : e.name = id}}
    IN  IF names = {} THEN id ELSE CHOOSE name \in names : TRUE
Meant(n, c) ==
    [dhcp |-> DhcpOf(n.version, c), addresses |-> Addresses(n.version, c),
     gateways |-> GatewaysOf(n.version, c), routes |-> Others(Routes(n.version, c)),
     kind |-> c.kind, master |-> MasterIn(Complete(n.devices), c.name),
     ports |-> {NameOfId(n, id) : id \in Ports(c)}, link |-> IF c.kind = "vlan" THEN NameOfId(n, c.link) ELSE ""]

\* What version 2 can say and the table cannot: that there is no dhcp, a gateway without
\* an address of its family, routes of an interface without addresses.
InTheTable(version, c) ==
    version = 2 =>
        /\ "false" \notin {c.ip.dhcp4, c.ip.dhcp6}
        /\ \A g \in ToSet(c.ip.gateways) : g[1] \in {a[1] : a \in ToSet(c.ip.addresses)}
        /\ c.ip.routes # <<>> => V2Subnets(c.ip) # <<>>
OneGateway(version, c) == \A g, h \in GatewaysOf(version, c) : g # h => g[1] # h[1]

\* What each renderer can write.
Writable(version, by, c) ==
    /\ InTheTable(version, c)
    /\ CASE by = "eni" -> \A r \in Others(Routes(version, c)) : r.to[1] = 4
         [] by = "netplan" ->
              /\ OneGateway(version, c)
              /\ \A s \in ToSet(c.subnets) : s.type # "static" => s.routes = <<>> /\ s.gateway = <<>>
         [] by = "sysconfig" ->
              /\ OneGateway(version, c) /\ ~(DhcpOf(version, c) = {6})
              /\ \A s \in ToSet(c.subnets) : s.type # "static" => s.gateway = <<>>
              /\ c.kind = "vlan" => BeforeDot[c.name] = c.link

\* Exception: set-name gives an interface another name, but who lists it by its id is not
\* told (network_state.py:600, 683: the bond or bridge lists an interface nobody has, and
\* the one it means is left out).  So c itself is not listed under either name if it is
\* renamed, nor does it list one that is.
IdsAreNames(n, c) ==
    \A d, e \in Complete(n.devices) :
        NameOf(n.version, d) # d.name /\ c \in {d, e} =>
            {d.name, NameOf(n.version, d)} \cap (e.members \cup {e.link}) = {}

\* Whichever renderer the system has, what it writes says of each interface what the
\* config says: no address, route, gateway or member is lost between the description of
\* the cloud, the two versions, the table and the three formats, within what the format
\* can say (Writable) and but for members that set-name renames (IdsAreNames); a network
\* that is not of this machine is the only one refused.  Where a renderer raises nothing
\* is written: netplan never does, sysconfig for a route to an IPv6 network to which the
\* author gave no netmask and for nothing else (eni for a port nobody defined).
WrittenIsMeant ==
    /\ written.how = "no config" => network.devices = {}
    /\ written.how = "raised" =>
         /\ written.by # "netplan"
         /\ written.by = "sysconfig" => \E c \in Complete(CommandsOf(network)) :
                \E r \in Others(RoutesIn(ToSet(SubnetsOf(network.version, c)))) : r.to[1] = 6 /\ ~r.masked
    /\ written.how = "written" =>
         \A c \in Devices : Writable(network.version, written.by, c) /\ IdsAreNames(network, c) =>
             written.out[NameOf(network.version, c)] = Meant(network, c)
=============================================================================
