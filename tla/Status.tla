------------------------------- MODULE Status -------------------------------
(***************************************************************************)
(* What cloud-init tells other programs about a boot: cmd/main.py,         *)
(* status_wrapper, which runs every stage.  status.json and result.json    *)
(* live in /var/lib/cloud/data and survive a reboot; the links to them in   *)
(* /run/cloud-init do not.  Both files are replaced by a rename             *)
(* (atomic_helper.write_json), so no reader sees half of one.               *)
(*                                                                         *)
(* systemd runs the stages in order, a stage after the one before it has   *)
(* ended in whatever way; a user may run some of them again.  Left out: the *)
(* name of the datasource, which both files carry along.                   *)
(***************************************************************************)
EXTENDS Naturals

CONSTANTS Procs,     \* processes
          MaxBoots,  \* bound: boots of the machine
          Reruns,    \* bound: the modes a user may run, also again
          Failing,   \* bound: the modes that may return errors
          Serial,    \* TRUE: no two processes at once
          MayKill,   \* TRUE: a process may be killed, power may be lost
          None

Modes == {"init-local", "init", "modules-config", "modules-final"}
\* What the command line takes.
Accepted == Modes \cup {"modules-init"}

\* An entry of status.json: the boot of the last start (0: none), whether it
\* finished after that, and whether its list of errors is not empty.
Entries == [start : 0..MaxBoots, finished : BOOLEAN, errors : BOOLEAN]
StatusFiles == [stage : Modes \cup {None}, of : [Modes -> Entries]]
ResultFiles == [boot : 1..MaxBoots, errors : SUBSET Modes]

ASSUME StatusAssumption ==
    /\ MaxBoots \in Nat \ {0}
    /\ Reruns \subseteq Accepted /\ Failing \subseteq Modes
    /\ Serial \in BOOLEAN /\ MayKill \in BOOLEAN
    /\ None \notin Accepted \cup StatusFiles \cup ResultFiles

VARIABLES
    boot,        \* the number of this boot
    status,      \* data/status.json
    result,      \* data/result.json
    statusLink,  \* the link to it in /run
    resultLink,
    over,        \* stages a run of which has ended in this boot
    pc, mode,    \* of each process
    mine,        \* of each process: its status
    \* history
    cleared,     \* status.json was removed in this boot
    failed       \* stages whose last run since then returned errors

vars == <<boot, status, result, statusLink, resultLink, over, pc, mode, mine,
          cleared, failed>>
files == <<status, result, statusLink, resultLink>>
history == <<cleared, failed>>

PCs == {"idle", "rm_status_link", "rm_result_link", "rm_status", "rm_result", "load", "start",
        "link", "symlink", "run", "end", "result", "link_result", "symlink_result",
        "raised"}

TypeOK ==
    /\ boot \in 1..MaxBoots
    /\ status \in StatusFiles \cup {None} /\ result \in ResultFiles \cup {None}
    /\ statusLink \in BOOLEAN /\ resultLink \in BOOLEAN
    /\ over \subseteq Modes
    /\ pc \in [Procs -> PCs] /\ mode \in [Procs -> Accepted \cup {None}]
    /\ mine \in [Procs -> StatusFiles \cup {None}]
    /\ cleared \in BOOLEAN /\ failed \subseteq Modes

NullStatus ==
    [stage |-> None,
     of |-> [m \in Modes |-> [start |-> 0, finished |-> FALSE, errors |-> FALSE]]]

----------------------------------------------------------------------------
Init ==
    /\ boot = 1
    /\ status = None /\ result = None /\ statusLink = FALSE /\ resultLink = FALSE
    /\ over = {}
    /\ pc = [p \in Procs |-> "idle"] /\ mode = [p \in Procs |-> None]
    /\ mine = [p \in Procs |-> None]
    /\ cleared = FALSE /\ failed = {}

Goto(p, c) == pc' = [pc EXCEPT ![p] = c] /\ UNCHANGED mode

\* The process is gone.
Exit(p) ==
    /\ pc' = [pc EXCEPT ![p] = "idle"]
    /\ mode' = [mode EXCEPT ![p] = None]
    /\ mine' = [mine EXCEPT ![p] = None]
    /\ over' = over \cup ({mode[p]} \cap Modes)

\* An exception that status_wrapper does not catch, and the end of the process.
Raise(p) == Goto(p, "raised") /\ UNCHANGED <<over, mine>>
Die(p) == pc[p] = "raised" /\ Exit(p) /\ UNCHANGED <<boot, files, history>>

\* The units say After=: a stage starts when the one before it is over.
Ready(m) ==
    CASE m = "init" -> "init-local" \in over
      [] m = "modules-config" -> "init" \in over
      [] m = "modules-final" -> "modules-config" \in over
      [] m = "modules-init" -> "init-local" \in over
      [] OTHER -> TRUE

(* systemd runs a stage, once in a boot, or a user does.                    *)
Start(p, m) ==
    /\ pc[p] = "idle" /\ Ready(m)
    /\ \/ m \in Reruns
       \/ m \in Modes \ over /\ \A q \in Procs : mode[q] # m
    /\ Serial => \A q \in Procs : pc[q] = "idle"
    /\ mode' = [mode EXCEPT ![p] = m]
    /\ pc' = [pc EXCEPT ![p] = IF m = "init-local" THEN "rm_status_link" ELSE "load"]
    /\ UNCHANGED <<boot, files, over, mine, history>>

(* init-local removes what earlier boots and runs left: first the links.    *)
Remove(p) ==
    /\ UNCHANGED <<boot, over, mine>>
    /\ \/ /\ pc[p] = "rm_status_link" /\ Goto(p, "rm_result_link")
          /\ statusLink' = FALSE /\ UNCHANGED <<status, result, resultLink, cleared, failed>>
       \/ /\ pc[p] = "rm_result_link" /\ Goto(p, "rm_status")
          /\ resultLink' = FALSE /\ UNCHANGED <<status, result, statusLink, cleared, failed>>
       \/ /\ pc[p] = "rm_status" /\ Goto(p, "rm_result")
          /\ status' = None /\ cleared' = TRUE /\ failed' = {}
          /\ UNCHANGED <<result, statusLink, resultLink>>
       \/ /\ pc[p] = "rm_result" /\ Goto(p, "load")
          /\ result' = None /\ UNCHANGED <<status, statusLink, resultLink, cleared, failed>>

\* What the start and the end of a stage change in a status.
Started(s, m) ==
    [stage |-> m, of |-> [s.of EXCEPT ![m] = [@ EXCEPT !.start = boot, !.finished = FALSE]]]
Ended(s, m, err) ==
    [stage |-> None, of |-> [s.of EXCEPT ![m] = [@ EXCEPT !.finished = TRUE, !.errors = err]]]

\* Mutant: what the earlier stages wrote is not read.
Load_Nothing(p) ==
    /\ pc[p] = "load" /\ mode[p] \in Modes
    /\ mine' = [mine EXCEPT ![p] = Started(NullStatus, mode[p])]
    /\ Goto(p, "start")
    /\ UNCHANGED <<boot, files, over, history>>

(* The other stages start from status.json, when there is one.              *)
Load(p) ==
    /\ pc[p] = "load" /\ mode[p] \in Modes
    /\ mine' = [mine EXCEPT ![p] =
                  Started(IF mode[p] = "init-local" \/ status = None THEN NullStatus ELSE status,
                          mode[p])]
    /\ Goto(p, "start")
    /\ UNCHANGED <<boot, files, over, history>>

(* v1[mode] of a mode without an entry is a KeyError.                       *)
UnknownMode(p) ==
    /\ pc[p] = "load" /\ mode[p] \notin Modes
    /\ Raise(p)
    /\ UNCHANGED <<boot, files, history>>

\* Mutant: the start is not written.
WriteStart_Not(p) ==
    /\ pc[p] = "start"
    /\ status' = IF status = None THEN mine[p] ELSE status
    /\ Goto(p, "link")
    /\ UNCHANGED <<boot, result, statusLink, resultLink, over, mine, history>>

WriteStart(p) ==
    /\ pc[p] = "start"
    /\ status' = mine[p]
    /\ Goto(p, "link")
    /\ UNCHANGED <<boot, result, statusLink, resultLink, over, mine, history>>

\* Mutant: the link is not forced.
LinkStatus_NoForce(p) ==
    /\ pc[p] = "link"
    /\ Goto(p, "symlink")
    /\ UNCHANGED <<boot, files, over, mine, history>>

(* util.sym_link(force=True) removes a link that leads somewhere, then makes *)
(* the new one; where a link is in the way, os.symlink raises.               *)
LinkStatus(p) ==
    /\ pc[p] = "link"
    /\ statusLink' = (statusLink /\ status = None)
    /\ Goto(p, "symlink")
    /\ UNCHANGED <<boot, status, result, resultLink, over, mine, history>>

SymlinkStatus(p) ==
    /\ pc[p] = "symlink"
    /\ \/ /\ ~statusLink /\ statusLink' = TRUE
          /\ Goto(p, "run")
          /\ UNCHANGED <<over, mine>>
       \/ statusLink /\ Raise(p) /\ UNCHANGED statusLink
    /\ UNCHANGED <<boot, status, result, resultLink, history>>

(* The stage ends, with errors (returned or raised) or without.             *)
FunctorReturns(p) ==
    /\ pc[p] = "run"
    /\ \E err \in BOOLEAN :
         /\ err => mode[p] \in Failing
         /\ mine' = [mine EXCEPT ![p] = Ended(mine[p], mode[p], err)]
    /\ Goto(p, "end")
    /\ UNCHANGED <<boot, files, over, history>>

WriteEnd(p) ==
    /\ pc[p] = "end"
    /\ status' = mine[p]
    /\ failed' = IF mine[p].of[mode[p]].errors THEN failed \cup {mode[p]} ELSE failed \ {mode[p]}
    /\ \/ /\ mode[p] = "modules-final" /\ Goto(p, "result")
          /\ UNCHANGED <<over, mine>>
       \/ mode[p] # "modules-final" /\ Exit(p)
    /\ UNCHANGED <<boot, result, statusLink, resultLink, cleared>>

Errors(s) == {m \in Modes : s.of[m].errors}

\* Mutant: the link is there before what it leads to.
WriteResult_LinkedFirst(p) ==
    /\ pc[p] \in {"result", "link_result"}
    /\ IF pc[p] = "result"
       THEN resultLink' = TRUE /\ Goto(p, "link_result") /\ UNCHANGED result
       ELSE /\ result' = [boot |-> boot, errors |-> Errors(mine[p])]
            /\ Goto(p, "symlink_result") /\ UNCHANGED resultLink
    /\ UNCHANGED <<boot, status, statusLink, over, mine, history>>

(* The final stage collects the errors of all stages.                       *)
WriteResult(p) ==
    /\ pc[p] = "result"
    /\ result' = [boot |-> boot, errors |-> Errors(mine[p])]
    /\ Goto(p, "link_result")
    /\ UNCHANGED <<boot, status, statusLink, resultLink, over, mine, history>>

LinkResult(p) ==
    /\ pc[p] = "link_result"
    /\ resultLink' = (resultLink /\ result = None)
    /\ Goto(p, "symlink_result")
    /\ UNCHANGED <<boot, status, result, statusLink, over, mine, history>>

SymlinkResult(p) ==
    /\ pc[p] = "symlink_result"
    /\ \/ /\ ~resultLink /\ resultLink' = TRUE /\ Exit(p)
       \/ resultLink /\ Raise(p) /\ UNCHANGED resultLink
    /\ UNCHANGED <<boot, status, result, statusLink, history>>

----------------------------------------------------------------------------
(* A process is killed, or the disk is full for write_json.                 *)
Kill(p) ==
    /\ MayKill /\ pc[p] # "idle"
    /\ Exit(p)
    /\ UNCHANGED <<boot, files, history>>

(* The machine boots: /run is empty.                                        *)
Reboot ==
    /\ boot < MaxBoots
    /\ MayKill \/ \A p \in Procs : pc[p] = "idle"
    /\ boot' = boot + 1
    /\ statusLink' = FALSE /\ resultLink' = FALSE
    /\ over' = {}
    /\ pc' = [p \in Procs |-> "idle"] /\ mode' = [p \in Procs |-> None]
    /\ mine' = [p \in Procs |-> None]
    /\ cleared' = FALSE /\ failed' = {}
    /\ UNCHANGED <<status, result>>

Wrapper(p) ==
    \/ Remove(p) \/ Load(p) \/ UnknownMode(p) \/ WriteStart(p)
    \/ LinkStatus(p) \/ SymlinkStatus(p) \/ FunctorReturns(p) \/ WriteEnd(p)
    \/ WriteResult(p) \/ LinkResult(p) \/ SymlinkResult(p)
    \/ Die(p)

Next ==
    \/ \E p \in Procs : Wrapper(p) \/ Kill(p)
    \/ \E p \in Procs, m \in Accepted : Start(p, m)
    \/ Reboot

Spec == Init /\ [][Next]_vars

----------------------------------------------------------------------------
(* What other programs may rely on.                                         *)

\* A result.json that is reached through /run was written in this boot, however
\* many processes run, are killed, or remove files at the same time.
ResultIsOfThisBoot ==
    resultLink /\ result # None => result.boot = boot

\* While a stage runs its functor, a reader of /run finds status.json naming it,
\* when no two processes run at once.
RunningIsVisible ==
    \A p \in Procs : Serial /\ pc[p] = "run" =>
        /\ statusLink /\ status # None
        /\ status.stage = mode[p] /\ ~status.of[mode[p]].finished

\* When no two processes run at once, no stage dies of its own bookkeeping,
\* whatever files and links the killed ones have left.
SerialRuns ==
    \A p \in Procs : Serial /\ pc[p] = "raised" => mode[p] \notin Modes

\* When no two processes run at once, the result names every stage that returned
\* errors since the status was cleared, and no other once it was.
ResultExact ==
    [][ Serial /\ result' # result /\ result' # None =>
            /\ failed \subseteq result'.errors
            /\ cleared => result'.errors = failed ]_vars

----------------------------------------------------------------------------
(* What makes them inductive.                                               *)

WithStatus == {"start", "link", "symlink", "run", "end", "result", "link_result", "symlink_result"}

\* What a process knows, whatever the others do.
ProcessInv ==
    \A p \in Procs :
        /\ pc[p] # "idle" => mode[p] \in Accepted
        /\ pc[p] \in WithStatus => mode[p] \in Modes /\ mine[p] \in StatusFiles
        /\ pc[p] \in {"start", "link", "symlink", "run"} =>
             mine[p].stage = mode[p] /\ ~mine[p].of[mode[p]].finished

ResultInv ==
    /\ ResultIsOfThisBoot
    /\ \A p \in Procs :
         pc[p] \in {"link_result", "symlink_result"} /\ result # None => result.boot = boot

\* The links of a serial run lead to a file, or are gone before it is.
LinksOf(p) ==
    /\ pc[p] \in {"rm_result_link", "rm_status", "rm_result"} => ~statusLink
    /\ pc[p] \in {"rm_status", "rm_result"} => ~resultLink
    /\ pc[p] \in {"link", "symlink", "run"} => status = mine[p]
    /\ pc[p] = "symlink" => ~statusLink
    /\ pc[p] = "run" => statusLink
    /\ pc[p] \in {"link_result", "symlink_result"} => result # None
    /\ pc[p] = "symlink_result" => ~resultLink
    /\ pc[p] = "raised" => mode[p] \notin Modes

LinksInv ==
    /\ \A p, q \in Procs : pc[p] # "idle" /\ pc[q] # "idle" => p = q
    /\ statusLink => status # None
    /\ resultLink => result # None
    /\ \A p \in Procs : LinksOf(p)

\* The errors of a status and those of the stages agree, those of the stage m
\* that is about to report apart.
Agree(s, m) ==
    /\ failed \ {m} \subseteq Errors(s)
    /\ cleared => Errors(s) \subseteq failed \cup {m}

ErrorsOf(p) ==
    /\ pc[p] = "rm_result" => status = None /\ cleared
    /\ pc[p] = "load" /\ mode[p] = "init-local" => cleared /\ failed = {}
    /\ pc[p] \in {"start", "link", "symlink", "run"} => Agree(mine[p], None)
    /\ pc[p] = "end" => Agree(mine[p], mode[p])
    /\ pc[p] = "result" => Agree(mine[p], None)

ErrorsInv ==
    /\ status # None => Agree(status, None)
    /\ status = None => failed = {}
    /\ \A p \in Procs : ErrorsOf(p)

SerialInv == Serial => LinksInv /\ ErrorsInv
StatusInv == TypeOK /\ ProcessInv /\ ResultInv /\ SerialInv

=============================================================================
