------------------------------ MODULE Sections ------------------------------
(***************************************************************************)
(* The config modules of a boot.  Each of the stages init, config and final *)
(* reads a section of the configuration (stages.Modules.run_section), runs *)
(* its modules one after the other, each through Runners.run under the name *)
(* config-<name>, and collects what failed, for result.json, and what to   *)
(* report, in the children of its ReportEventStack.  "cloud-init single"   *)
(* runs one module by itself.  The module power-state-change forks a child *)
(* that waits for the stage to end, or for its timeout, and brings the     *)
(* machine down.  The semaphores are those of Runners, with one process at *)
(* a time.                                                                 *)
(***************************************************************************)
EXTENDS Runners, Sequences, SequencesExt

CONSTANTS Stages,      \* the sections in the order of the units
          Listed,      \* section -> its entries: [name, freq]
          Singles,     \* entries an administrator runs with "cloud-init single"
          JobOf,       \* name -> what canon_sem_name makes of config-<name>
          ModuleFreq,  \* name -> the attribute "frequency" of the module
          Known,       \* names whose module can be found
          Verified,    \* names whose module is for this distro, or for all
          Overridden,  \* the names in unverified_modules
          Migrator, Power \* the names of two modules with a life of their own

ASSUME SectionsAssumption ==
    /\ ~Concurrent /\ ClearOnFail = {} /\ Power # Migrator
    /\ \A s \in Range(Stages) : Listed[s] \in Seq([name : DOMAIN JobOf, freq : STRING])
    /\ Singles \subseteq [name : DOMAIN JobOf, freq : STRING]
    /\ Known \subseteq DOMAIN JobOf /\ \A n \in Known : JobOf[n] \in Jobs
    /\ Verified \subseteq Known /\ DOMAIN ModuleFreq = Known

\* power-state-change has the frequency that is its own.
ASSUME PowerAssumption ==
    /\ Power \in Known /\ ModuleFreq[Power] = "instance"
    /\ \A e \in Singles \cup UNION {Range(Listed[s]) : s \in Range(Stages)} :
           e.name = Power => e.freq \notin {"always", "once"}

VARIABLES reached,   \* how many stages of this boot were started
          phase,     \* of the latest process: "none", "running", "ended"
          listed,    \* the entries it runs, as _fixup_modules and run_section left them,
                     \* by their positions in the configuration
          todo,      \* the positions it has not come to
          current,   \* the position it came to last
          ran,       \* which_ran
          failures,  \* the names in failures
          children,  \* the children of its reporter: name -> result
          child,     \* the forked child of power-state-change: "none", "waiting"
          lost,      \* history: keys whose process died between file and functor
          downs      \* history: how often a child brought an instance down (2: more)

driver == <<reached, phase, listed, todo, current, ran, failures, children, child, lost, downs>>
svars == <<vars, driver>>

----------------------------------------------------------------------------
(* stages.Modules._fixup_modules and run_section: names without a module    *)
(* are dropped; so are modules of other distros, unless overridden.         *)
Filtered(entries, names) ==
    Restrict(entries, {n \in DOMAIN entries : entries[n].name \in names})
Fixup(entries) == Filtered(entries, Known)
Active(s) == Filtered(Fixup(Listed[s]), Verified \cup Overridden)

\* Mutant: a name without a frequency of its own is run always.
FreqOf_OwnOnly(e) == IF e.freq \in Frequencies THEN e.freq ELSE "always"

\* The frequency given with the name, if it is one; else the module's; else
\* per instance.
FreqOf(e) ==
    IF e.freq \in Frequencies THEN e.freq
    ELSE IF ModuleFreq[e.name] \in Frequencies THEN ModuleFreq[e.name] ELSE "instance"

KeyOf(e) == <<JobOf[e.name], ScopeOf(FreqOf(e))>>

\* ReportEventStack._childrens_finish_info: one child that failed is enough.
Result == IF "FAIL" \in {children[n] : n \in DOMAIN children} THEN "FAIL" ELSE "SUCCESS"

ProcessGone == \A p \in Procs : ~Alive(p)
Current == listed[current]

SectionsInit ==
    /\ Init /\ inst # NoInstance
    /\ reached = 0 /\ phase = "none"
    /\ listed = <<>> /\ todo = {} /\ current = 0
    /\ ran = <<>> /\ failures = {} /\ children = <<>>
    /\ child = "none" /\ lost = {} /\ downs = [i \in Instances |-> 0]

(* A process begins: a Modules object, and an event stack without children.  *)
Begin(entries) ==
    /\ phase # "running"
    /\ phase' = "running"
    /\ listed' = entries /\ todo' = DOMAIN entries /\ current' = 0
    /\ ran' = <<>> /\ failures' = {} /\ children' = <<>>
    /\ UNCHANGED <<vars, child, lost, downs>>

(* main_modules, with a datasource or with --force.  A stage that failed     *)
(* before its modules is one that was skipped.                              *)
StartStage(n) ==
    /\ n > reached
    /\ reached' = n
    /\ Begin(Active(Stages[n]))

(* main_single, the same: the distro is not looked at.                      *)
StartSingle(e) ==
    /\ Begin(Fixup(<<e>>))
    /\ UNCHANGED reached

(* _run_modules comes to a module: it counts as run before it is called, and *)
(* entering its event stack resets the parent's entry of that name.         *)
Call(p) ==
    /\ phase = "running"
    /\ \E n \in todo :
        LET name == listed[n].name IN
        /\ \A m \in todo : n <= m
        /\ current' = n /\ todo' = todo \ {n}
        /\ IF name = Migrator THEN MigrateStart(p) ELSE Run(p, JobOf[name], FreqOf(listed[n]))
        /\ ran' = Append(ran, name)
        /\ children' = [x \in DOMAIN children \cup {name} |-> IF x = name THEN "unset" ELSE children[x]]
    /\ UNCHANGED <<reached, phase, listed, failures, child, lost, downs>>

\* When Runners.run is left, with or without an exception, the event stack of
\* the module is, and the loop goes on with the next.
Back(p, failed) ==
    IF Alive(p)' THEN UNCHANGED <<failures, children>>
    ELSE /\ failures' = IF failed THEN failures \cup {Current.name} ELSE failures
         /\ children' = [children EXCEPT ![Current.name] = IF failed THEN "FAIL" ELSE "SUCCESS"]

Works(p) ==
    /\ \/ HasRun(p) \/ HasRunRaw(p) \/ AcquireFree(p) \/ WriteSem(p)
       \/ (\E k \in Keys : MigrateMove(p, k)) \/ MigrateDone(p)
    /\ Back(p, FALSE)
    /\ UNCHANGED <<reached, phase, listed, todo, current, ran, child, lost, downs>>

\* cc_power_state_change.handle: with a power_state that makes sense, a child.
Returns(p) ==
    /\ FunctorReturns(p)
    /\ Back(p, FALSE)
    /\ child' \in {child} \cup (IF Current.name = Power THEN {"waiting"} ELSE {})
    /\ UNCHANGED <<reached, phase, listed, todo, current, ran, lost, downs>>

\* Mutant: a lock that is not given is taken for a module that ran.
Fails_NoLockIsFine(p) ==
    /\ WriteFails(p) \/ FunctorRaises(p)
    /\ Back(p, pc[p] = "running")
    /\ lost' = lost \cup {k \in {key[p]} : starts[k] = 0 /\ k \in canon'}
    /\ UNCHANGED <<reached, phase, listed, todo, current, ran, child, downs>>

(* What raises.  Nobody else writes semaphores: AcquireTaken cannot come.    *)
Fails(p) ==
    /\ WriteFails(p) \/ FunctorRaises(p)
    /\ Back(p, TRUE)
    /\ lost' = lost \cup {k \in {key[p]} : starts[k] = 0 /\ k \in canon'}
    /\ UNCHANGED <<reached, phase, listed, todo, current, ran, child, downs>>

(* run_module_section returns, the stage's event stack is left.             *)
EndSection ==
    /\ phase = "running" /\ todo = {} /\ ProcessGone
    /\ phase' = "ended"
    /\ UNCHANGED <<vars, reached, listed, todo, current, ran, failures, children, child, lost, downs>>

(* The process is killed: between two modules, or in one.                   *)
Killed ==
    /\ phase = "running"
    /\ phase' = "none" /\ todo' = {}
    /\ IF ProcessGone THEN UNCHANGED <<vars, lost>>
       ELSE \E p \in Procs :
              \/ Crash(p) /\ UNCHANGED lost
              \/ /\ WriteFails(p)
                 /\ lost' = lost \cup {k \in {key[p]} : starts[k] = 0 /\ k \in canon'}
    /\ UNCHANGED <<reached, listed, current, ran, failures, children, child, downs>>

(* The machine goes down, and comes up as some instance.                    *)
Down(i) ==
    /\ Reboot(i)
    /\ reached' = 0 /\ phase' = "none"
    /\ listed' = <<>> /\ todo' = {} /\ current' = 0 /\ ran' = <<>> /\ failures' = {} /\ children' = <<>>
    /\ child' = "none"
    /\ UNCHANGED lost

PowerFails(i) == Down(i) /\ UNCHANGED downs

(* run_after_pid_gone: the parent has ended, or the timeout passed first, in *)
(* the middle of its modules; the condition holds, shutdown is executed.    *)
ChildShutsDown(i) ==
    /\ child = "waiting"
    /\ Down(i)
    /\ downs' = IF inst = NoInstance THEN downs
                ELSE [downs EXCEPT ![inst] = IF @ = 0 THEN 1 ELSE 2]

(* The condition does not hold, or the command fails.                       *)
ChildGivesUp ==
    /\ child = "waiting"
    /\ child' = "none"
    /\ UNCHANGED <<vars, reached, phase, listed, todo, current, ran, failures, children, lost, downs>>

SectionsNext ==
    \/ \E n \in DOMAIN Stages : StartStage(n)
    \/ \E e \in Singles : StartSingle(e)
    \/ \E p \in Procs : Call(p) \/ Works(p) \/ Returns(p) \/ Fails(p)
    \/ EndSection \/ Killed \/ ChildGivesUp
    \/ \E i \in Instances \cup {NoInstance} :
          PowerFails(i) \/ ChildShutsDown(i)

SectionsSpec == SectionsInit /\ [][SectionsNext]_svars

----------------------------------------------------------------------------
SectionsTypeOK ==
    /\ TypeOK
    /\ phase \in {"none", "running", "ended"} /\ child \in {"none", "waiting"}
    /\ todo \subseteq DOMAIN listed
    /\ \A n \in DOMAIN listed :
           listed[n].name \in Known /\ (listed[n].name = Power => FreqOf(listed[n]) = "instance")
    /\ ran \in Seq(Known) /\ DOMAIN children = Range(ran)
    /\ lost \subseteq Keys /\ downs \in [Instances -> 0..2]

Ended == phase = "ended"

\* Two accounts are given of a section: its failures, which go to result.json,
\* and the result of its children, which is reported.  They agree, unless a name
\* is listed twice: then the later one takes the place of the earlier.  And they are
\* true: "ran successfully" and "previously ran" are the same to both, so a module
\* that is no failure has been called, now or in an earlier boot of the instance, by
\* this section or another - except after a process died between the file and the call.
AccountsAreTrue ==
    /\ Ended /\ IsInjective(ran) => (Result = "FAIL" <=> failures # {})
    /\ \A n \in DOMAIN listed :
           /\ Ended
           /\ listed[n].name \notin failures \cup {Migrator}
           /\ KeyOf(listed[n]) \in Keys
           => starts[KeyOf(listed[n])] >= 1 \/ KeyOf(listed[n]) \in lost

\* A machine that is told to reboot when it is set up does so once for each
\* instance, and not for ever: the file is written before the child is forked.
PowerChangeOnce == \A i \in Instances : downs[i] <= 1

\* What makes them inductive.  A process is alive in a section only, on behalf of the
\* entry it came to last, and under its semaphore.
AtHand ==
    \A p \in Procs : Alive(p) =>
        /\ phase = "running" /\ current \in DOMAIN listed \ todo
        /\ pc[p] = "migrating" <=> Current.name = Migrator
        /\ pc[p] # "migrating" => key[p] = KeyOf(Current)
        /\ ran # <<>> /\ ran[Len(ran)] = Current.name

\* A file is there because of a call, or of a process that died before it.
FilesTell ==
    /\ \A k \in canon \cup raw : starts[k] >= 1 \/ k \in lost
    /\ \A p \in Procs : pc[p] = "running" /\ key[p] \in Keys => starts[key[p]] >= 1

\* The entries the section is done with are accounted for.
Accounted(n) ==
    \/ listed[n].name \in failures \cup {Migrator} \/ KeyOf(listed[n]) \notin Keys
    \/ starts[KeyOf(listed[n])] >= 1 \/ KeyOf(listed[n]) \in lost
DoneInv ==
    /\ Ended => todo = {}
    /\ phase # "none" => \A n \in DOMAIN listed \ todo :
           Accounted(n) \/ (n = current /\ ~ProcessGone)

\* The two accounts differ in names that come twice only.
ReportInv ==
    /\ failures \subseteq DOMAIN children
    /\ \A x \in DOMAIN children : children[x] = "FAIL" => x \in failures
    /\ IsInjective(ran) => \A x \in failures : children[x] = "FAIL"
    /\ ~ProcessGone => children[Current.name] = "unset"

\* There is one call of power-state-change for an instance, and one child of it.
PowerKey(i) == <<JobOf[Power], i>>
PowerInv ==
    \A i \in Instances :
        /\ downs[i] <= 1
        /\ downs[i] = 1 \/ (child = "waiting" /\ inst = i) => starts[PowerKey(i)] >= 1
        /\ child = "waiting" /\ inst = i => downs[i] = 0
        /\ \A p \in Procs : pc[p] = "running" /\ key[p] = PowerKey(i) =>
               downs[i] = 0 /\ child = "none"

SectionsInv ==
    /\ SectionsTypeOK /\ RunnersInv /\ OneAlive
    /\ AtHand /\ FilesTell /\ DoneInv /\ ReportInv /\ PowerInv
=============================================================================
