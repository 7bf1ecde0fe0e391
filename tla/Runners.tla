------------------------------ MODULE Runners ------------------------------
(***************************************************************************)
(* The run-once machinery of cloudinit/helpers.py.  Every config module    *)
(* and the consumption of user-data go through Runners.run, which guards a *)
(* functor by a semaphore: a plain file, per instance or once for all, that *)
(* is created before the functor is called and looked for before that.     *)
(* Nothing locks the file.  Several cloud-init processes may be alive: the *)
(* boot stages that systemd runs one after the other, and a "cloud-init    *)
(* single" an administrator types.  The migrator module renames the files  *)
(* that older releases wrote under uncanonicalized names.                  *)
(***************************************************************************)
EXTENDS Naturals

CONSTANTS Procs,        \* cloud-init processes
          Jobs,         \* names given to Runners.run
          Instances,    \* instance ids
          Dashed,       \* jobs whose name canon_sem_name changes
          ClearOnFail,  \* jobs run with clear_on_fail=True
          Concurrent,   \* FALSE: a process starts only when no other is alive
          NoInstance,   \* the instance id of a process without a datasource
          Once          \* the scope of a per-once semaphore

ASSUME RunnersAssumption ==
    /\ Dashed \subseteq Jobs /\ ClearOnFail \subseteq Jobs
    /\ Concurrent \in BOOLEAN
    /\ NoInstance \notin Instances /\ Once \notin Instances
    /\ NoInstance # Once

VARIABLES canon,   \* semaphore files under the canonical name
          raw,     \* semaphore files of an older release, name not canonical
          inst,    \* instance id of the datasource the processes loaded
          pc,      \* where each process is
          key,     \* what each process is running: a job and a scope
          starts,  \* history: how often the functor of a key was called (2: more)
          raced    \* history: keys two processes were about to write together

vars == <<canon, raw, inst, pc, key, starts, raced>>

Frequencies == {"always", "instance", "once"}
Scopes == Instances \cup {Once, NoInstance}
\* A semaphore: sem/<job> below instances/<scope>, or sem/<job>.once.
Keys == Jobs \X (Instances \cup {Once})
\* A process without a datasource has no semaphore directory; a process that
\* runs nothing has no key.
NoKey == <<NoInstance, NoInstance>>
AllKeys == (Jobs \X Scopes) \cup {NoKey}

PCs == {"idle", "has_run", "has_run_raw", "acquire", "write", "running", "migrating"}

----------------------------------------------------------------------------
(* Runners._get_sem: the directory that holds the semaphore of a frequency. *)
(* NoInstance stands for DummySemaphores.                                   *)
ScopeOf(freq) ==
    CASE freq = "always" -> NoInstance
      [] freq = "instance" -> inst
      [] freq = "once" -> Once

Alive(p) == pc[p] # "idle"

\* The functor of process p is called.
Count(k) == [starts EXCEPT ![k] = IF @ = 0 THEN 1 ELSE 2]

Cleared(k) == IF k[1] \in ClearOnFail THEN canon \ {k} ELSE canon

\* Runners.run returns, or raises into the loop that called it.
Leave(p) ==
    /\ pc' = [pc EXCEPT ![p] = "idle"]
    /\ key' = [key EXCEPT ![p] = NoKey]

MayStart(p) == ~Alive(p) /\ (Concurrent \/ \A q \in Procs : ~Alive(q))

----------------------------------------------------------------------------
TypeOK ==
    /\ canon \subseteq Keys
    /\ raw \subseteq Dashed \X (Instances \cup {Once})
    /\ inst \in Instances \cup {NoInstance}
    /\ pc \in [Procs -> PCs]
    /\ key \in [Procs -> AllKeys]
    /\ starts \in [Keys -> 0..2]
    /\ raced \subseteq Keys

Init ==
    /\ canon = {}
    /\ raw \in SUBSET (Dashed \X (Instances \cup {Once}))
    /\ inst \in Instances \cup {NoInstance}
    /\ pc = [p \in Procs |-> "idle"]
    /\ key = [p \in Procs |-> NoKey]
    /\ starts = [k \in Keys |-> IF k \in raw THEN 1 ELSE 0]
    /\ raced = {}

(* Runners.run: choose the semaphore.  A DummySemaphores never says that    *)
(* the job has run and always gives a lock: the functor is called at once.  *)
Run(p, j, freq) ==
    /\ MayStart(p)
    /\ key' = [key EXCEPT ![p] = <<j, ScopeOf(freq)>>]
    /\ pc' = [pc EXCEPT ![p] = IF ScopeOf(freq) = NoInstance THEN "running" ELSE "has_run"]
    /\ UNCHANGED <<canon, raw, inst, starts, raced>>

(* FileSemaphores.has_run, first look: the file under the canonical name.   *)
HasRun(p) ==
    /\ pc[p] = "has_run"
    /\ \/ key[p] \in canon /\ Leave(p)
       \/ /\ key[p] \notin canon
          /\ pc' = [pc EXCEPT ![p] = IF key[p][1] \in Dashed THEN "has_run_raw" ELSE "acquire"]
          /\ key' = key
    /\ UNCHANGED <<canon, raw, inst, starts, raced>>

(* FileSemaphores.has_run, second look: the file of an older release.       *)
HasRunRaw(p) ==
    /\ pc[p] = "has_run_raw"
    /\ \/ key[p] \in raw /\ Leave(p)
       \/ key[p] \notin raw /\ pc' = [pc EXCEPT ![p] = "acquire"] /\ key' = key
    /\ UNCHANGED <<canon, raw, inst, starts, raced>>

(* FileSemaphores._acquire looks again, for the canonical name only: a file *)
(* there gives no lock, Runners.run raises LockFailure inside the "with",   *)
(* and lock clears the semaphore if it was told to clear on failure.        *)
AcquireTaken(p) ==
    /\ pc[p] = "acquire" /\ key[p] \in canon
    /\ Leave(p)
    /\ canon' = Cleared(key[p])
    /\ UNCHANGED <<raw, inst, starts, raced>>

\* Mutant: _acquire does not look again.
AcquireFree_NoSecondLook(p) ==
    /\ pc[p] = "acquire"
    /\ pc' = [pc EXCEPT ![p] = "write"]
    /\ raced' = raced \cup {k \in {key[p]} : \E q \in Procs \ {p} : pc[q] = "write" /\ key[q] = k}
    /\ UNCHANGED <<canon, raw, inst, key, starts>>

AcquireFree(p) ==
    /\ pc[p] = "acquire" /\ key[p] \notin canon
    /\ pc' = [pc EXCEPT ![p] = "write"]
    /\ raced' = raced \cup {k \in {key[p]} : \E q \in Procs \ {p} : pc[q] = "write" /\ key[q] = k}
    /\ UNCHANGED <<canon, raw, inst, key, starts>>

\* Mutant: the semaphore is written when the functor has returned, so that a
\* failure in between leaves no trace.
WriteSem_AfterFunctor(p) ==
    /\ pc[p] = "write"
    /\ pc' = [pc EXCEPT ![p] = "running"]
    /\ starts' = Count(key[p])
    /\ UNCHANGED <<canon, raw, inst, key, raced>>

(* The semaphore is written, and the functor called.                        *)
WriteSem(p) ==
    /\ pc[p] = "write"
    /\ canon' = canon \cup {key[p]}
    /\ pc' = [pc EXCEPT ![p] = "running"]
    /\ starts' = Count(key[p])
    /\ UNCHANGED <<raw, inst, key, raced>>

(* Writing fails: no lock, LockFailure.  The file may be there all the same, *)
(* empty; and it is when the process is killed before it calls the functor. *)
WriteFails(p) ==
    /\ pc[p] = "write"
    /\ Leave(p)
    /\ canon' \in {Cleared(key[p]), canon \cup {key[p]}}
    /\ UNCHANGED <<raw, inst, starts, raced>>

FunctorReturns(p) ==
    /\ pc[p] = "running"
    /\ Leave(p)
    /\ UNCHANGED <<canon, raw, inst, starts, raced>>

(* The functor raises; lock clears the semaphore if told so, and re-raises. *)
FunctorRaises(p) ==
    /\ pc[p] = "running" /\ key[p] \in Keys
    /\ Leave(p)
    /\ canon' = Cleared(key[p])
    /\ UNCHANGED <<raw, inst, starts, raced>>

(* cc_migrator._migrate_canon_sems runs in a process, per always, and moves *)
(* one file after the other, in the two semaphore directories it can see.   *)
MigrateStart(p) ==
    /\ MayStart(p)
    /\ pc' = [pc EXCEPT ![p] = "migrating"]
    /\ UNCHANGED <<canon, raw, inst, key, starts, raced>>

\* Mutant: the migrator deletes what it should rename.
MigrateMove_Deletes(p, k) ==
    /\ pc[p] = "migrating"
    /\ k \in raw /\ k[2] \in {inst, Once}
    /\ raw' = raw \ {k}
    /\ UNCHANGED <<canon, inst, pc, key, starts, raced>>

MigrateMove(p, k) ==
    /\ pc[p] = "migrating"
    /\ k \in raw /\ k[2] \in {inst, Once}
    /\ raw' = raw \ {k}
    /\ canon' = canon \cup {k}
    /\ UNCHANGED <<inst, pc, key, starts, raced>>

MigrateDone(p) ==
    /\ pc[p] = "migrating"
    /\ \A k \in raw : k[2] \notin {inst, Once}
    /\ Leave(p)
    /\ UNCHANGED <<canon, raw, inst, starts, raced>>

(* A process is killed, or the migrator fails on a file that another moved. *)
Crash(p) ==
    /\ Alive(p)
    /\ Leave(p)
    /\ UNCHANGED <<canon, raw, inst, starts, raced>>

(* The machine restarts, perhaps as another instance, perhaps without a     *)
(* datasource.  The files stay.                                             *)
Reboot(i) ==
    /\ inst' = i
    /\ pc' = [p \in Procs |-> "idle"]
    /\ key' = [p \in Procs |-> NoKey]
    /\ UNCHANGED <<canon, raw, starts, raced>>

ProcStep(p) ==
    \/ \E j \in Jobs, f \in Frequencies : Run(p, j, f)
    \/ HasRun(p) \/ HasRunRaw(p)
    \/ AcquireTaken(p) \/ AcquireFree(p)
    \/ WriteSem(p) \/ WriteFails(p)
    \/ FunctorReturns(p) \/ FunctorRaises(p)
    \/ MigrateStart(p) \/ (\E k \in Keys : MigrateMove(p, k)) \/ MigrateDone(p)
    \/ Crash(p)

Next ==
    \/ \E p \in Procs : ProcStep(p)
    \/ \E i \in Instances \cup {NoInstance} : Reboot(i)

Spec == Init /\ [][Next]_vars

----------------------------------------------------------------------------
(* What the machinery promises.                                             *)

\* The comment in FileSemaphores._acquire admits a race and calls it harmless
\* "due to the nature of when and where cloud-init runs".  This is the exact
\* extent of it: a guarded functor is called a second time only if two processes
\* were between looking for the file and writing it at the same time - whatever
\* the migrator renames meanwhile, and whoever is killed.
OnceUnlessRaced ==
    \A k \in Keys : k[1] \notin ClearOnFail /\ starts[k] = 2 => k \in raced

\* When the stages run one after the other, as the systemd units order them, and
\* nobody runs cloud-init by hand, there is no race: a functor is called at most
\* once per instance (or once for ever), across crashes, failures and reboots.
SerialOnce ==
    ~Concurrent => \A k \in Keys : k[1] \notin ClearOnFail => starts[k] <= 1

\* A functor that was called leaves a trace on disk, under one of the two names,
\* for as long as the machine lives: no step, the migration included, may lose it.
StartedLeavesFile ==
    \A k \in Keys : k[1] \notin ClearOnFail /\ starts[k] >= 1 => k \in canon \cup raw

OnceKeys == {k \in Keys : k[1] \notin ClearOnFail}
Promise == INSTANCE AtMostOnce WITH Items <- OnceKeys, count <- [k \in OnceKeys |-> starts[k]]

\* Run serially, the machinery implements the abstract promise: the semaphores
\* of the jobs that are not cleared on failure each guard at most one call.
AtMostOncePerKey == Promise!Spec

\* What makes it inductive.  A process that passed the second look knows that
\* no older file is there, and none can appear; one that is about to write while
\* the file is there must have raced with the writer.
NoStaleCheck ==
    \A p \in Procs : pc[p] \in {"acquire", "write"} => key[p] \notin raw
WritersRaced ==
    \A p, q \in Procs :
        p # q /\ pc[p] = "write" /\ pc[q] = "write" /\ key[p] = key[q] => key[p] \in raced
LateWriterRaced ==
    \A p \in Procs : pc[p] = "write" /\ key[p] \in canon => key[p] \in raced
GuardedKeys ==
    \A p \in Procs : pc[p] \in {"has_run", "has_run_raw", "acquire", "write"} => key[p] \in Keys

RunnersInv ==
    /\ TypeOK /\ GuardedKeys /\ NoStaleCheck /\ WritersRaced /\ LateWriterRaced
    /\ StartedLeavesFile /\ OnceUnlessRaced

\* One process at a time when the stages are serial.
OneAlive ==
    ~Concurrent => (\A p, q \in Procs : Alive(p) /\ Alive(q) => p = q) /\ raced = {}
============================================================================
