------------------------------- MODULE Renames -------------------------------
(***************************************************************************)
(* apply_network_config_names of cloudinit/net/__init__.py, which every     *)
(* boot stage that finds a network config calls: the interfaces get the     *)
(* names the config gives to their MAC addresses.  The whole plan is made   *)
(* on a copy of what the kernel says, an interface in the way being moved   *)
(* to a temporary name; then its "ip link" commands are run, whether or not *)
(* those before failed.  The pair of driver and device id of an interface   *)
(* is one value.                                                            *)
(***************************************************************************)
EXTENDS Naturals, Sequences, FiniteSets

CONSTANTS Nics,      \* interfaces
          Names,     \* names of interfaces, other than the temporary ones
          Mac,       \* the MAC address of each interface
          Driver,    \* the driver and device id of each interface
          NoDriver,  \* what an entry has that names no driver
          Configs,   \* network configs: sequences of [mac, name, driver]
          MaxTmp     \* bound: temporary names are numbered below this

\* What an entry of a network config is made of.
Entries == [mac : STRING, name : Names, driver : STRING]

ASSUME RenamesAssumption ==
    /\ MaxTmp \in Nat /\ IsFiniteSet(Nics)
    /\ Driver \in [Nics -> STRING] /\ Configs \subseteq Seq(Entries)

VARIABLES links,    \* the kernel: the name of each interface, and whether it is up
          before,   \* what links was when the call began
          busy,     \* interfaces that have an address: not to be taken down
          pc,       \* where the call is
          asked,    \* the renames of the call
          at,       \* the entry of asked the plan looks at next
          plan,     \* the interfaces as planned, the commands, the errors
          faulty    \* history: a command of this call failed by accident

vars == <<links, before, busy, pc, asked, at, plan, faulty>>

Tmp(i) == <<"cirename", i>>
AllNames == Names \cup {Tmp(i) : i \in 0..MaxTmp}
Tables == [Nics -> [name : AllNames, up : BOOLEAN]]
Called(table, name) == {n \in Nics : table[n].name = name}

Down(name) == <<"down", name, name>>
Up(name) == <<"up", name, name>>
Rename(name, new) == <<"rename", name, new>>
Commands == {"down", "up", "rename"} \X AllNames \X AllNames
Plans == [info : Tables, ops : Seq(Commands), ups : Seq(Commands), tmpi : 0..MaxTmp,
          errors : SUBSET {"not present", "ambiguous", "busy", "busy-target", "unknown"}]

TypeOK ==
    /\ links \in Tables /\ before \in Tables
    /\ busy \subseteq Nics
    /\ pc \in {"idle", "plan", "run", "raised", "returned"}
    /\ plan \in Plans
    /\ asked \in Seq(Entries) /\ at \in 1..(Len(asked) + 1)
    /\ faulty \in BOOLEAN

NoPlan(table) == [info |-> table, ops |-> <<>>, ups |-> <<>>, tmpi |-> 0, errors |-> {}]

Init ==
    /\ links \in [Nics -> [name : Names, up : BOOLEAN]]
    /\ \A m, n \in Nics : links[m].name = links[n].name => m = n
    /\ busy \in SUBSET {n \in Nics : links[n].up}
    /\ before = links /\ plan = NoPlan(links)
    /\ pc = "idle" /\ asked = <<>> /\ at = 1 /\ faulty = FALSE

----------------------------------------------------------------------------
\* An entry without a driver gets that of the interface that has its name now,
\* which need not be the one it is about.
WithDriver(e) ==
    [e EXCEPT !.driver =
        IF @ = NoDriver /\ Called(links, e.name) # {}
        THEN Driver[CHOOSE n \in Called(links, e.name) : TRUE] ELSE @]

(* apply_network_config_names reads the config and _get_current_rename_info *)
(* the kernel.                                                              *)
Begin(config) ==
    /\ pc = "idle"
    /\ asked' = [i \in DOMAIN config |-> WithDriver(config[i])]
    /\ before' = links /\ plan' = NoPlan(links)
    /\ pc' = "plan" /\ at' = 1 /\ faulty' = FALSE
    /\ UNCHANGED <<links, busy>>

\* find_entry: by MAC address, and by driver when there is one to compare.
Matches(e) == {n \in Nics : Mac[n] = e.mac /\ e.driver \in {Driver[n], NoDriver}}

Downable(n) == ~before[n].up \/ n \notin busy

\* Mutant: the failure of a command is not put down.
Failed_Unheard(p, err) == IF err = "unknown" THEN p ELSE [p EXCEPT !.errors = @ \cup {err}]

Failed(p, err) == [p EXCEPT !.errors = @ \cup {err}]

\* Interface n is taken down, or n is down already.
Lowered(p, n) ==
    IF p.info[n].up
    THEN [p EXCEPT !.ops = Append(@, Down(p.info[n].name)), !.info[n].up = FALSE] ELSE p

\* Interface t gives its name up for the i-th temporary one.  That it was taken
\* down for it is not recorded: it counts as up, to be raised under that name.
Vacated(p, t, i) ==
    LET name == p.info[t].name IN
    [p EXCEPT !.ops = @ \o (IF p.info[t].up THEN <<Down(name)>> ELSE <<>>) \o <<Rename(name, Tmp(i))>>,
              !.ups = @ \o (IF p.info[t].up THEN <<Up(Tmp(i))>> ELSE <<>>),
              !.info[t].name = Tmp(i), !.tmpi = i + 1]

Named(p, n, new) ==
    [p EXCEPT !.ops = Append(@, Rename(p.info[n].name, new)), !.info[n].name = new]

\* The ups an entry for n asks for, whether or not its commands are dropped.
Raising(p, n, new) == IF p.info[n].up THEN [p EXCEPT !.ups = Append(@, Up(new))] ELSE p

\* The temporary name the loop finds: the next number no interface has.
FirstFree(p, i) ==
    /\ Called(p.info, Tmp(i)) = {}
    /\ \A j \in p.tmpi..(i - 1) : Called(p.info, Tmp(j)) # {}

\* What the loop makes of the plan at entry e; i is the number of a free name.
Planned(p, e, i) ==
    LET n == CHOOSE m \in Matches(e) : TRUE
        t == CHOOSE m \in Called(p.info, e.name) : TRUE
        ready == Lowered(Raising(p, n, e.name), n)
    IN CASE Matches(e) = {} -> Failed(p, "not present")
         [] Matches(e) # {} /\ p.info[n].name = e.name -> p
         [] Matches(e) # {} /\ p.info[n].name # e.name /\ p.info[n].up /\ ~Downable(n) ->
              Failed(p, "busy")
         [] OTHER ->
              IF Called(p.info, e.name) = {} THEN Named(ready, n, e.name)
              ELSE IF p.info[t].up /\ ~Downable(t)
              THEN [Failed(ready, "busy-target") EXCEPT !.ops = p.ops]
              ELSE Named(Vacated(ready, t, i), n, e.name)

(* One entry of the plan.                                                   *)
PlanEntry ==
    /\ pc = "plan" /\ at <= Len(asked)
    /\ Cardinality(Matches(asked[at])) <= 1
    /\ \E i \in plan.tmpi..(MaxTmp - 1) :
         FirstFree(plan, i) /\ plan' = Planned(plan, asked[at], i)
    /\ at' = at + 1
    /\ UNCHANGED <<links, before, busy, pc, asked, faulty>>

(* Several interfaces match: ValueError, before any command is run.         *)
Ambiguous ==
    /\ pc = "plan" /\ at <= Len(asked)
    /\ Cardinality(Matches(asked[at])) > 1
    /\ plan' = Failed(plan, "ambiguous") /\ pc' = "raised"
    /\ UNCHANGED <<links, before, busy, asked, at, faulty>>

PlanMade ==
    /\ pc = "plan" /\ at > Len(asked)
    /\ pc' = "run"
    /\ plan' = [plan EXCEPT !.ops = @ \o plan.ups, !.ups = <<>>]
    /\ UNCHANGED <<links, before, busy, asked, at, faulty>>

----------------------------------------------------------------------------
\* What becomes of a table when the kernel carries "ip link set" out, if it does: for an
\* interface that exists; it renames only what is down, and to a name nobody has.
Outcomes(links0, cmd) ==
    IF cmd[1] \in {"up", "down"}
    THEN {[links0 EXCEPT ![n].up = (cmd[1] = "up")] : n \in Called(links0, cmd[2])}
    ELSE {[links0 EXCEPT ![n].name = cmd[3]] :
             n \in {m \in Called(links0, cmd[2]) : ~links0[m].up /\ Called(links0, cmd[3]) = {}}}

(* A command is run; one the kernel refuses, or that fails for a reason of  *)
(* its own, is put down as an error and passed over.                        *)
Command ==
    /\ pc = "run" /\ plan.ops # <<>>
    /\ \/ links' \in Outcomes(links, Head(plan.ops)) /\ plan' = [plan EXCEPT !.ops = Tail(@)] /\ faulty' = faulty
       \/ /\ Outcomes(links, Head(plan.ops)) = {} /\ links' = links /\ faulty' = faulty
          /\ plan' = [Failed(plan, "unknown") EXCEPT !.ops = Tail(@)]
       \/ /\ links' = links /\ faulty' = TRUE
          /\ plan' = [Failed(plan, "unknown") EXCEPT !.ops = Tail(@)]
    /\ UNCHANGED <<before, busy, pc, asked, at>>

Return ==
    /\ pc = "run" /\ plan.ops = <<>>
    /\ pc' = IF plan.errors = {} THEN "returned" ELSE "raised"
    /\ UNCHANGED <<links, before, busy, asked, at, plan, faulty>>

(* The variables of the call are gone with it.                              *)
Leave ==
    /\ pc \in {"returned", "raised"}
    /\ pc' = "idle" /\ before' = links /\ plan' = NoPlan(links)
    /\ asked' = <<>> /\ at' = 1 /\ faulty' = FALSE
    /\ UNCHANGED <<links, busy>>

Next ==
    \/ \E c \in Configs : Begin(c)
    \/ PlanEntry \/ Ambiguous \/ PlanMade \/ Command \/ Return \/ Leave

Spec == Init /\ [][Next]_vars

----------------------------------------------------------------------------
\* No two entries are about one interface or one name: what a network config is
\* expected to be.
WellFormed ==
    \A i, j \in DOMAIN asked :
        i # j => asked[i].name # asked[j].name /\ Matches(asked[i]) \cap Matches(asked[j]) = {}

\* A call that reports no error has done what it was asked for, and left every
\* interface that was up at the start up again - whatever names it went through.
SilentIsDone ==
    pc = "returned" /\ WellFormed =>
        /\ \A i \in DOMAIN asked : \A n \in Matches(asked[i]) : links[n].name = asked[i].name
        /\ \A n \in Nics : before[n].up => links[n].up

\* The plan never gives two interfaces one name: the copy it is made on stays a
\* table the kernel could have.
Distinct(table) == \A m, n \in Nics : table[m].name = table[n].name => m = n
PlanNamesDistinct == Distinct(plan.info)

----------------------------------------------------------------------------
(* Why SilentIsDone holds, as an inductive invariant.                       *)

\* The ways the first k commands of ops may all be carried out, from a table on.
Ways(table, ops, k) ==
    {w \in [0..k -> Tables] :
        w[0] = table /\ \A i \in 1..k : w[i] \in Outcomes(w[i - 1], ops[i])}
Ends(table, ops, k) == {w[k] : w \in Ways(table, ops, k)}

\* A table has the names of the plan, and whoever was up is, or is raised by one of ups.
Near(table, p, ups) ==
    \A n \in Nics : /\ table[n].name = p.info[n].name
                    /\ before[n].up => table[n].up \/ Up(p.info[n].name) \in ups

Sayings(ops, j, k) == {ops[i] : i \in j..k}

\* However the commands planned so far are carried out, they end near the plan.
PlanLeadsThere ==
    pc = "plan" => /\ links = before
                   /\ \A end \in Ends(links, plan.ops, Len(plan.ops)) :
                         Near(end, plan, Sayings(plan.ups, 1, Len(plan.ups)))
                   /\ \A i \in DOMAIN plan.ups : plan.ups[i][1] = "up"

\* The same of the commands that are left; those after some j-th only raise.
RestLeadsThere ==
    pc = "run" => \E j \in 0..Len(plan.ops) :
        /\ \A i \in (j + 1)..Len(plan.ops) : plan.ops[i][1] = "up"
        /\ \A end \in Ends(links, plan.ops, j) :
              Near(end, plan, Sayings(plan.ops, j + 1, Len(plan.ops)))

\* Every entry so far has given its interface its name in the plan; an interface that was
\* up and is down in it is that of an entry.
EntriesPlanned ==
    /\ \A i \in 1..(at - 1) : \A n \in Matches(asked[i]) : plan.info[n].name = asked[i].name
    /\ \A n \in Nics : before[n].up /\ ~plan.info[n].up =>
          \E i \in 1..(at - 1) : n \in Matches(asked[i])

\* The commands are run when every entry is planned; a call that returns put no error down.
Looked ==
    /\ pc \in {"run", "returned"} => at = Len(asked) + 1
    /\ pc = "returned" => plan.errors = {}

\* All of it, of a call without an error so far.
OnTheWay ==
    pc \in {"plan", "run", "returned"} /\ plan.errors = {} /\ WellFormed =>
        /\ EntriesPlanned /\ PlanLeadsThere /\ RestLeadsThere
        /\ pc = "returned" => Near(links, plan, {})

RenamesInv == TypeOK /\ Distinct(links) /\ PlanNamesDistinct /\ Looked /\ OnTheWay
=============================================================================
