--------------------------- MODULE SectionsProof ---------------------------
(***************************************************************************)
(* What TLAPS proves of the run-once machinery (Runners) and of the sections *)
(* that run their modules by it.                                            *)
(*                                                                         *)
(* Of the machinery, for any number of processes, jobs and instances:       *)
(* RunnersInv is inductive, as OnceUnlessRaced and StartedLeavesFile need   *)
(* to know what each process in flight has already seen on disk.            *)
(*                                                                         *)
(* Of the sections, for any stages, modules, names and instances, over      *)
(* failures, kills and reboots: a section takes the steps of Runners, so    *)
(* that its promises are those of the sections; the accounts of a section   *)
(* are true; and power-state-change brings an instance down once.           *)
(* SectionsInv is inductive: it says on whose behalf a process is alive,    *)
(* which ties the loop over the modules to the semaphores.                  *)
(***************************************************************************)
EXTENDS Sections, TLAPS


\* Initially nothing runs and only older files are there.
LEMMA InitInv == ASSUME Init PROVE RunnersInv
  BY RunnersAssumption
     DEF Init, RunnersInv, TypeOK, GuardedKeys, NoStaleCheck, WritersRaced, LateWriterRaced,
         StartedLeavesFile, OnceUnlessRaced, Keys, AllKeys, Scopes, NoKey, PCs

\* Clearing a semaphore never takes the file of a job that is not cleared on failure.
LEMMA ClearedKeeps ==
  \A k : /\ Cleared(k) \subseteq canon
         /\ \A l : l[1] \notin ClearOnFail /\ l \in canon => l \in Cleared(k)
  BY DEF Cleared

\* Leaving a call, clearing or not, preserves the invariant.
LEMMA LeaveInv ==
  ASSUME RunnersInv, NEW p \in Procs, Leave(p),
         canon' \subseteq canon,
         \A l : l[1] \notin ClearOnFail /\ l \in canon => l \in canon',
         UNCHANGED <<raw, inst, starts, raced>>
  PROVE  RunnersInv'
  <1>1. TypeOK' 
    BY DEF RunnersInv, TypeOK, Leave, AllKeys, PCs
  <1>2. GuardedKeys' /\ NoStaleCheck' /\ WritersRaced' /\ LateWriterRaced'
    BY DEF RunnersInv, TypeOK, Leave, GuardedKeys, NoStaleCheck, WritersRaced, LateWriterRaced
  <1>3. StartedLeavesFile' /\ OnceUnlessRaced'
    BY DEF RunnersInv, StartedLeavesFile, OnceUnlessRaced, Keys
  <1> QED BY <1>1, <1>2, <1>3 DEF RunnersInv

\* Every step preserves the invariant.
LEMMA NextInv == ASSUME RunnersInv, [Next]_vars PROVE RunnersInv'
  <1> USE RunnersAssumption
  <1>1. ASSUME NEW p \in Procs, NEW j \in Jobs, NEW f \in Frequencies, Run(p, j, f)
        PROVE  RunnersInv'
    <2>1. ScopeOf(f) \in Scopes
      BY DEF RunnersInv, TypeOK, ScopeOf, Scopes, Frequencies
    <2>2. ScopeOf(f) # NoInstance => <<j, ScopeOf(f)>> \in Keys
      BY <2>1 DEF Keys, Scopes
    <2>3. TypeOK'
      BY <1>1, <2>1 DEF RunnersInv, TypeOK, Run, AllKeys, PCs
    <2>4. GuardedKeys'
      BY <1>1, <2>2 DEF RunnersInv, TypeOK, Run, GuardedKeys
    <2>5. NoStaleCheck' /\ WritersRaced' /\ LateWriterRaced'
      BY <1>1 DEF RunnersInv, TypeOK, Run, NoStaleCheck, WritersRaced, LateWriterRaced
    <2>6. StartedLeavesFile' /\ OnceUnlessRaced'
      BY <1>1 DEF RunnersInv, Run, StartedLeavesFile, OnceUnlessRaced
    <2> QED BY <2>3, <2>4, <2>5, <2>6 DEF RunnersInv
  <1>2. ASSUME NEW p \in Procs, HasRun(p) PROVE RunnersInv'
    <2>1. CASE Leave(p)
      BY <1>2, <2>1, LeaveInv DEF HasRun
    <2>2. CASE ~Leave(p)
      <3>1. /\ pc' = [pc EXCEPT ![p] = IF key[p][1] \in Dashed THEN "has_run_raw" ELSE "acquire"]
            /\ pc[p] = "has_run"
            /\ UNCHANGED <<key, canon, raw, inst, starts, raced>>
        BY <1>2, <2>2 DEF HasRun
      <3>2. TypeOK' /\ GuardedKeys'
        BY <3>1 DEF RunnersInv, TypeOK, GuardedKeys, PCs
      <3>3. NoStaleCheck'
        BY <3>1 DEF RunnersInv, TypeOK, NoStaleCheck
      <3>4. WritersRaced' /\ LateWriterRaced' /\ StartedLeavesFile' /\ OnceUnlessRaced'
        BY <3>1 DEF RunnersInv, TypeOK, WritersRaced, LateWriterRaced, StartedLeavesFile, OnceUnlessRaced
      <3> QED BY <3>2, <3>3, <3>4 DEF RunnersInv
    <2> QED BY <2>1, <2>2
  <1>3. ASSUME NEW p \in Procs, HasRunRaw(p) PROVE RunnersInv'
    <2>1. CASE Leave(p)
      BY <1>3, <2>1, LeaveInv DEF HasRunRaw
    <2>2. CASE ~Leave(p)
      <3>1. /\ pc[p] = "has_run_raw" /\ key[p] \notin raw
            /\ pc' = [pc EXCEPT ![p] = "acquire"]
            /\ UNCHANGED <<key, canon, raw, inst, starts, raced>>
        BY <1>3, <2>2 DEF HasRunRaw
      <3> QED
        BY <3>1 DEF RunnersInv, TypeOK, GuardedKeys, PCs, NoStaleCheck, WritersRaced,
                    LateWriterRaced, StartedLeavesFile, OnceUnlessRaced
    <2> QED BY <2>1, <2>2
  <1>4. ASSUME NEW p \in Procs, AcquireTaken(p) \/ WriteFails(p) PROVE RunnersInv'
    <2>1. /\ Leave(p)
          /\ UNCHANGED <<raw, inst, starts, raced>>
      BY <1>4 DEF AcquireTaken, WriteFails
    <2>2. CASE canon' = Cleared(key[p])
      <3>1. /\ canon' \subseteq canon
            /\ \A l : l[1] \notin ClearOnFail /\ l \in canon => l \in canon'
        BY <2>2, ClearedKeeps
      <3> QED BY <2>1, <3>1, LeaveInv
    <2>3. CASE canon' = canon \cup {key[p]} /\ pc[p] = "write"
      \* The other writers of its key have raced with p.
      <3>1. key[p] \in Keys
        BY <2>3 DEF RunnersInv, GuardedKeys
      <3>2. /\ pc' = [pc EXCEPT ![p] = "idle"]
            /\ key' = [key EXCEPT ![p] = NoKey]
        BY <2>1 DEF Leave
      <3>3. TypeOK'
        BY <2>1, <2>3, <3>1, <3>2 DEF RunnersInv, TypeOK, PCs, AllKeys
      <3>4. GuardedKeys' /\ NoStaleCheck' /\ WritersRaced'
        BY <2>1, <3>2 DEF RunnersInv, TypeOK, GuardedKeys, NoStaleCheck, WritersRaced
      <3>5. LateWriterRaced'
        BY <2>1, <2>3, <3>2 DEF RunnersInv, TypeOK, WritersRaced, LateWriterRaced
      <3>6. StartedLeavesFile' /\ OnceUnlessRaced'
        BY <2>1, <2>3 DEF RunnersInv, StartedLeavesFile, OnceUnlessRaced
      <3> QED BY <3>3, <3>4, <3>5, <3>6 DEF RunnersInv
    <2> QED BY <1>4, <2>2, <2>3 DEF AcquireTaken, WriteFails
  <1>5. ASSUME NEW p \in Procs, AcquireFree(p) PROVE RunnersInv'
    <2>1. key[p] \in Keys /\ raced' \subseteq Keys
      BY <1>5 DEF RunnersInv, TypeOK, GuardedKeys, AcquireFree
    <2>2. TypeOK' /\ GuardedKeys' /\ NoStaleCheck'
      BY <1>5, <2>1 DEF RunnersInv, TypeOK, GuardedKeys, AcquireFree, NoStaleCheck, PCs
    <2>3. WritersRaced'
      BY <1>5 DEF RunnersInv, TypeOK, AcquireFree, WritersRaced
    <2>4. LateWriterRaced' /\ StartedLeavesFile' /\ OnceUnlessRaced'
      BY <1>5 DEF RunnersInv, TypeOK, AcquireFree, LateWriterRaced, StartedLeavesFile,
                  OnceUnlessRaced
    <2> QED BY <2>2, <2>3, <2>4 DEF RunnersInv
  <1>6. ASSUME NEW p \in Procs, WriteSem(p) PROVE RunnersInv'
    <2> DEFINE k == key[p]
    <2>1. k \in Keys /\ k \notin raw
      BY <1>6 DEF RunnersInv, GuardedKeys, NoStaleCheck, WriteSem
    <2>2. TypeOK'
      BY <1>6, <2>1 DEF RunnersInv, TypeOK, WriteSem, Count, PCs
    <2>3. GuardedKeys' /\ NoStaleCheck' /\ WritersRaced'
      BY <1>6 DEF RunnersInv, TypeOK, GuardedKeys, NoStaleCheck, WritersRaced, WriteSem
    <2>4. LateWriterRaced'
      \* The other writers of k have raced with p.
      BY <1>6 DEF RunnersInv, TypeOK, WritersRaced, LateWriterRaced, WriteSem
    <2>5. StartedLeavesFile'
      BY <1>6, <2>1 DEF RunnersInv, TypeOK, StartedLeavesFile, WriteSem, Count
    <2>6. OnceUnlessRaced'
      <3>1. SUFFICES ASSUME NEW l \in Keys, l[1] \notin ClearOnFail, starts'[l] = 2
                     PROVE  l \in raced
        BY <1>6 DEF OnceUnlessRaced, WriteSem
      <3>2. CASE l # k
        BY <1>6, <3>1, <3>2 DEF RunnersInv, TypeOK, OnceUnlessRaced, WriteSem, Count
      <3>3. CASE l = k
        <4>1. starts[k] \in 1..2
          BY <1>6, <2>1, <3>1, <3>3 DEF RunnersInv, TypeOK, WriteSem, Count
        <4>2. k \in canon
          BY <2>1, <3>1, <3>3, <4>1 DEF RunnersInv, StartedLeavesFile
        <4> QED
          BY <1>6, <3>3, <4>2 DEF RunnersInv, LateWriterRaced, WriteSem
      <3> QED BY <3>2, <3>3
    <2> QED BY <2>2, <2>3, <2>4, <2>5, <2>6 DEF RunnersInv
  <1>7. ASSUME NEW p \in Procs, FunctorReturns(p) \/ MigrateDone(p) \/ Crash(p)
        PROVE  RunnersInv'
    BY <1>7, LeaveInv DEF FunctorReturns, MigrateDone, Crash
  <1>8. ASSUME NEW p \in Procs, FunctorRaises(p) PROVE RunnersInv'
    <2>1. /\ canon' \subseteq canon
          /\ \A l : l[1] \notin ClearOnFail /\ l \in canon => l \in canon'
      BY <1>8, ClearedKeeps DEF FunctorRaises
    <2> QED BY <1>8, <2>1, LeaveInv DEF FunctorRaises
  <1>9. ASSUME NEW p \in Procs, MigrateStart(p) PROVE RunnersInv'
    BY <1>9 DEF RunnersInv, TypeOK, GuardedKeys, PCs, NoStaleCheck, WritersRaced,
                LateWriterRaced, StartedLeavesFile, OnceUnlessRaced, MigrateStart
  <1>10. ASSUME NEW p \in Procs, NEW k \in Keys, MigrateMove(p, k) PROVE RunnersInv'
    <2>1. TypeOK' /\ GuardedKeys' /\ NoStaleCheck' /\ WritersRaced'
      BY <1>10 DEF RunnersInv, TypeOK, GuardedKeys, NoStaleCheck, WritersRaced, MigrateMove
    <2>2. LateWriterRaced'
      \* Nobody is about to write a semaphore that still has its old name.
      BY <1>10 DEF RunnersInv, NoStaleCheck, LateWriterRaced, MigrateMove
    <2>3. StartedLeavesFile' /\ OnceUnlessRaced'
      BY <1>10 DEF RunnersInv, StartedLeavesFile, OnceUnlessRaced, MigrateMove
    <2> QED BY <2>1, <2>2, <2>3 DEF RunnersInv
  <1>11. ASSUME NEW i \in Instances \cup {NoInstance}, Reboot(i) PROVE RunnersInv'
    BY <1>11 DEF RunnersInv, TypeOK, GuardedKeys, PCs, AllKeys, NoStaleCheck, WritersRaced,
                 LateWriterRaced, StartedLeavesFile, OnceUnlessRaced, Reboot
  <1>12. CASE UNCHANGED vars
    BY <1>12 DEF vars, RunnersInv, TypeOK, GuardedKeys, NoStaleCheck, WritersRaced,
                 LateWriterRaced, StartedLeavesFile, OnceUnlessRaced, Keys, AllKeys, Scopes
  <1> QED
    BY <1>1, <1>2, <1>3, <1>4, <1>5, <1>6, <1>7, <1>8, <1>9, <1>10, <1>11, <1>12
       DEF Next, ProcStep

\* The machinery keeps its invariant: every state has the types TypeOK says, and
\* every process in flight knows what RunnersInv says it knows.
THEOREM RunnersInvariant == Spec => []RunnersInv
  <1>1. Init => RunnersInv
    BY InitInv
  <1>2. RunnersInv /\ [Next]_vars => RunnersInv'
    BY NextInv
  <1> QED BY <1>1, <1>2, PTL DEF Spec

\* The types of the machinery's state.
THEOREM RunnersTypes == Spec => []TypeOK
  <1>1. RunnersInv => TypeOK
    BY DEF RunnersInv
  <1> QED BY <1>1, RunnersInvariant, PTL

\* A guarded functor is called twice only when two processes raced for its
\* semaphore: for any number of processes, with kills, failed writes, reboots and
\* the migrator.
THEOREM OnceUnlessRacedAlways == Spec => []OnceUnlessRaced
  <1>1. RunnersInv => OnceUnlessRaced
    BY DEF RunnersInv
  <1> QED BY <1>1, RunnersInvariant, PTL

\* A call leaves its semaphore on disk, whoever is killed and whatever is migrated.
THEOREM StartedLeavesFileAlways == Spec => []StartedLeavesFile
  <1>1. RunnersInv => StartedLeavesFile
    BY DEF RunnersInv
  <1> QED BY <1>1, RunnersInvariant, PTL

\* Without concurrent processes, nobody races.
LEMMA OneAliveInductive ==
  ASSUME RunnersInv, OneAlive, [Next]_vars PROVE OneAlive'
  <1> SUFFICES ASSUME ~Concurrent
               PROVE  /\ \A p, q \in Procs : Alive(p)' /\ Alive(q)' => p = q
                      /\ raced' = {}
    BY RunnersAssumption DEF OneAlive
  <1>1. ASSUME NEW p \in Procs, ProcStep(p)
        PROVE  /\ \A q \in Procs : q # p => pc[q] = "idle" /\ pc'[q] = pc[q]
               /\ raced' = {}
    <2>1. \A q \in Procs : q # p => pc[q] = "idle"
      <3>1. Alive(p) \/ MayStart(p)
        BY <1>1 DEF ProcStep, Run, HasRun, HasRunRaw, AcquireTaken, AcquireFree, WriteSem,
                    WriteFails, FunctorReturns, FunctorRaises, MigrateStart, MigrateMove,
                    MigrateDone, Crash, Alive
      <3> QED BY <3>1 DEF OneAlive, Alive, MayStart
    <2>2. \A q \in Procs : q # p => pc'[q] = pc[q]
      BY <1>1 DEF RunnersInv, TypeOK, ProcStep, Run, HasRun, HasRunRaw, AcquireTaken, AcquireFree,
                  WriteSem, WriteFails, FunctorReturns, FunctorRaises, MigrateStart,
                  MigrateMove, MigrateDone, Crash, Leave
    <2>3. raced' = {}
      <3>1. CASE AcquireFree(p)
        BY <2>1, <3>1 DEF OneAlive, AcquireFree
      <3>2. CASE ~AcquireFree(p)
        BY <1>1, <3>2 DEF OneAlive, ProcStep, Run, HasRun, HasRunRaw, AcquireTaken, WriteSem,
                          WriteFails, FunctorReturns, FunctorRaises, MigrateStart,
                          MigrateMove, MigrateDone, Crash
      <3> QED BY <3>1, <3>2
    <2> QED BY <2>1, <2>2, <2>3
  <1>2. CASE \E p \in Procs : ProcStep(p)
    BY <1>1, <1>2 DEF Alive
  <1>3. CASE \E i \in Instances \cup {NoInstance} : Reboot(i)
    BY <1>3 DEF OneAlive, Alive, Reboot
  <1>4. CASE UNCHANGED vars
    BY <1>4 DEF OneAlive, Alive, vars
  <1> QED BY <1>2, <1>3, <1>4 DEF Next

\* Without races the invariant leaves at most one call per key.
LEMMA SerialOnceHolds == ASSUME RunnersInv, OneAlive PROVE SerialOnce
  BY DEF RunnersInv, TypeOK, OneAlive, SerialOnce, OnceUnlessRaced

\* When the stages run one after the other, a guarded functor is called at most
\* once per instance, or once for ever.
THEOREM SerialOnceAlways == Spec => []SerialOnce
  <1>1. Init => OneAlive
    BY DEF Init, OneAlive, Alive
  <1>2. RunnersInv /\ OneAlive /\ [Next]_vars => OneAlive'
    BY OneAliveInductive
  <1>3. RunnersInv /\ OneAlive => SerialOnce
    BY SerialOnceHolds
  <1> QED BY <1>1, <1>2, <1>3, RunnersInvariant, PTL DEF Spec

\* The initial states of the machinery are initial states of the promise.
LEMMA PromiseInit == Init => Promise!Init
  BY DEF Init, Promise!Init, OnceKeys, Keys

\* A step of the serial machinery performs one item for the first time or none.
LEMMA PromiseStep ==
  ASSUME ~Concurrent, RunnersInv, SerialOnce, SerialOnce', [Next]_vars
  PROVE  [Promise!Next]_([k \in OnceKeys |-> starts[k]])
  <1> DEFINE count == [k \in OnceKeys |-> starts[k]]
  <1>1. ASSUME NEW p \in Procs, WriteSem(p)
        PROVE  Promise!Next \/ UNCHANGED count
    <2>1. key[p] \in Keys
      BY <1>1 DEF RunnersInv, GuardedKeys, WriteSem
    <2>2. CASE key[p] \in OnceKeys
      <3>1. starts'[key[p]] <= 1 /\ starts[key[p]] \in 0..2
        BY <2>1, <2>2 DEF SerialOnce, OnceKeys, RunnersInv, TypeOK
      <3>2. starts'[key[p]] = IF starts[key[p]] = 0 THEN 1 ELSE 2
        BY <1>1, <2>1 DEF RunnersInv, TypeOK, WriteSem, Count
      <3>3. starts[key[p]] = 0
        BY <3>1, <3>2
      <3>4. starts' = [starts EXCEPT ![key[p]] = 1]
        BY <1>1, <2>1, <3>3 DEF RunnersInv, TypeOK, WriteSem, Count
      <3>5. count[key[p]] = 0 /\ count' = [count EXCEPT ![key[p]] = 1]
        BY <2>2, <3>3, <3>4 DEF RunnersInv, TypeOK, OnceKeys
      <3> QED BY <2>2, <3>5 DEF Promise!Next, Promise!Perform
    <2>3. CASE key[p] \notin OnceKeys
      BY <1>1, <2>1, <2>3 DEF RunnersInv, TypeOK, WriteSem, Count, OnceKeys
    <2> QED BY <2>2, <2>3
  <1>2. CASE \A p \in Procs : ~WriteSem(p)
    <2>1. UNCHANGED starts
      BY <1>2 DEF Next, vars, ProcStep, Run, HasRun, HasRunRaw, AcquireTaken, AcquireFree,
                  WriteFails, FunctorReturns, FunctorRaises, MigrateStart, MigrateMove,
                  MigrateDone, Crash, Reboot
    <2> QED BY <2>1
  <1> QED BY <1>1, <1>2

\* The serial machinery implements the abstract promise of AtMostOnce, for any
\* number of jobs and instances.
THEOREM SerialImplementsPromise ==
  ASSUME ~Concurrent PROVE Spec => AtMostOncePerKey
  <1>1. Init => OneAlive
    BY DEF Init, OneAlive, Alive
  <1>2. RunnersInv /\ OneAlive /\ [Next]_vars => OneAlive'
    BY OneAliveInductive
  <1>3. RunnersInv /\ OneAlive => SerialOnce
    BY SerialOnceHolds
  <1>4. RunnersInv /\ SerialOnce /\ SerialOnce' /\ [Next]_vars
        => [Promise!Next]_([k \in OnceKeys |-> starts[k]])
    BY PromiseStep
  <1> QED
    BY <1>1, <1>2, <1>3, <1>4, PromiseInit, RunnersInvariant, PTL
       DEF Spec, AtMostOncePerKey, Promise!Spec

----------------------------------------------------------------------------
(* The sections.                                                            *)

USE SectionsAssumption

\* A frequency is always one of the three, and power-state-change's is its own.
LEMMA FreqIsOne == \A e : FreqOf(e) \in Frequencies
  BY DEF FreqOf, Frequencies

LEMMA ScopeIsOne == \A f \in Frequencies : ScopeOf(f) \in {NoInstance, inst, Once}
  BY DEF ScopeOf, Frequencies

\* What is filtered are entries of the list, with the names that pass.
LEMMA FilteredSays ==
  ASSUME NEW entries, NEW names
  PROVE  /\ DOMAIN Filtered(entries, names) \subseteq DOMAIN entries
         /\ \A n \in DOMAIN Filtered(entries, names) :
                Filtered(entries, names)[n] = entries[n] /\ entries[n].name \in names
  BY DEF Filtered, Restrict

\* The entries of an active section, or of one module, have a module each.
LEMMA EntriesAreKnown ==
  ASSUME NEW entries, entries \in Seq([name : DOMAIN JobOf, freq : STRING]),
         \A e \in Range(entries) : e.name = Power => e.freq \notin {"always", "once"},
         NEW n \in DOMAIN Fixup(entries)
  PROVE  /\ Fixup(entries)[n].name \in Known
         /\ Fixup(entries)[n].name = Power => FreqOf(Fixup(entries)[n]) = "instance"
  <1>1. Fixup(entries)[n] = entries[n] /\ n \in DOMAIN entries /\ entries[n].name \in Known
    BY FilteredSays DEF Fixup
  <1>2. entries[n] \in Range(entries)
    BY <1>1 DEF Range
  <1>3. entries[n].name = Power => FreqOf(entries[n]) = "instance"
    BY <1>1, <1>2, PowerAssumption DEF FreqOf, Frequencies
  <1> QED BY <1>1, <1>3

LEMMA ActiveAreKnown ==
  ASSUME NEW s \in Range(Stages), NEW n \in DOMAIN Active(s)
  PROVE  /\ Active(s)[n].name \in Known
         /\ Active(s)[n].name = Power => FreqOf(Active(s)[n]) = "instance"
  <1>1. n \in DOMAIN Fixup(Listed[s]) /\ Active(s)[n] = Fixup(Listed[s])[n]
    BY FilteredSays DEF Active
  <1>2. \A e \in Range(Listed[s]) : e.name = Power => e.freq \notin {"always", "once"}
    BY PowerAssumption
  <1> QED BY <1>1, <1>2, EntriesAreKnown

LEMMA SinglesAreKnown ==
  ASSUME NEW e \in Singles, NEW n \in DOMAIN Fixup(<<e>>)
  PROVE  /\ Fixup(<<e>>)[n].name \in Known
         /\ Fixup(<<e>>)[n].name = Power => FreqOf(Fixup(<<e>>)[n]) = "instance"
  <1>1. <<e>> \in Seq([name : DOMAIN JobOf, freq : STRING])
    OBVIOUS
  <1>2. \A x \in Range(<<e>>) : x.name = Power => x.freq \notin {"always", "once"}
    BY PowerAssumption DEF Range
  <1> QED BY <1>1, <1>2, EntriesAreKnown

----------------------------------------------------------------------------
(* The steps of a section are steps of Runners.                             *)
LEMMA StepOfRunners ==
  ASSUME SectionsTypeOK, SectionsNext
  PROVE  [Next]_vars
  <1>1. ASSUME NEW p \in Procs, Call(p)
        PROVE  ProcStep(p)
    <2>1. PICK n \in todo : IF listed[n].name = Migrator THEN MigrateStart(p)
                            ELSE Run(p, JobOf[listed[n].name], FreqOf(listed[n]))
      BY <1>1 DEF Call
    <2>2. JobOf[listed[n].name] \in Jobs
      BY <2>1 DEF SectionsTypeOK
    <2> QED BY <2>1, <2>2, FreqIsOne DEF ProcStep
  <1>2. ASSUME NEW p \in Procs, Works(p) \/ Returns(p) \/ Fails(p)
        PROVE  ProcStep(p)
    BY <1>2 DEF ProcStep, Works, Returns, Fails
  <1>3. ASSUME Killed
        PROVE  (\E p \in Procs : ProcStep(p)) \/ UNCHANGED vars
    BY <1>3 DEF Killed, ProcStep
  <1>4. ASSUME NEW i \in Instances \cup {NoInstance}, PowerFails(i) \/ ChildShutsDown(i)
        PROVE  Reboot(i)
    BY <1>4 DEF PowerFails, ChildShutsDown, Down
  <1>5. ASSUME \/ \E n \in DOMAIN Stages : StartStage(n)
               \/ \E e \in Singles : StartSingle(e)
               \/ EndSection \/ ChildGivesUp
        PROVE  UNCHANGED vars
    BY <1>5 DEF StartStage, StartSingle, Begin, EndSection, ChildGivesUp
  <1> QED BY <1>1, <1>2, <1>3, <1>4, <1>5 DEF SectionsNext, Next

----------------------------------------------------------------------------
(* SectionsInv holds at first, and every step keeps it.                     *)
LEMMA SectionsInitInv == ASSUME SectionsInit PROVE SectionsInv
  <1>1. RunnersInv /\ OneAlive
    BY InitInv DEF SectionsInit, Init, OneAlive, Alive
  <1>2. SectionsTypeOK
    BY <1>1 DEF SectionsInit, SectionsTypeOK, RunnersInv, Range
  <1>3. ProcessGone
    BY DEF SectionsInit, Init, ProcessGone, Alive
  <1>4. AtHand /\ FilesTell
    BY <1>3, RunnersAssumption DEF SectionsInit, Init, AtHand, FilesTell, ProcessGone, Alive, Keys
  <1>5. DoneInv /\ ReportInv
    BY <1>3 DEF SectionsInit, DoneInv, Ended, ReportInv, IsInjective
  <1>6. PowerInv
    BY DEF SectionsInit, Init, PowerInv, PowerKey
  <1> QED BY <1>1, <1>2, <1>4, <1>5, <1>6 DEF SectionsInv

\* A process begins with entries that have modules, and no account of any.
LEMMA BeginKeeps ==
  ASSUME SectionsInv, NEW entries, Begin(entries),
         \A n \in DOMAIN entries :
             /\ entries[n].name \in Known
             /\ entries[n].name = Power => FreqOf(entries[n]) = "instance"
  PROVE  SectionsInv'
  <1>1. ProcessGone
    BY DEF SectionsInv, AtHand, Begin, ProcessGone
  <1>2. RunnersInv' /\ OneAlive' /\ FilesTell' /\ PowerInv'
    BY DEF SectionsInv, Begin, vars, RunnersInv, TypeOK, GuardedKeys, NoStaleCheck, WritersRaced,
           LateWriterRaced, StartedLeavesFile, OnceUnlessRaced, OneAlive, Alive, FilesTell,
           PowerInv, PowerKey
  <1>3. SectionsTypeOK'
    BY <1>2 DEF SectionsInv, Begin, SectionsTypeOK, RunnersInv, Range
  <1>4. AtHand'
    BY <1>1 DEF Begin, AtHand, ProcessGone, Alive, vars
  <1>5. DoneInv' /\ ReportInv'
    BY <1>1 DEF Begin, DoneInv, Ended, ReportInv, ProcessGone, Alive, vars, IsInjective
  <1> QED BY <1>2, <1>3, <1>4, <1>5 DEF SectionsInv

\* A process is called for the first position left, under the key of its entry.
LEMMA AppendSays ==
  ASSUME ran \in Seq(Known), NEW name \in Known, ran' = Append(ran, name)
  PROVE  /\ ran' \in Seq(Known) /\ ran' # <<>> /\ ran'[Len(ran')] = name
         /\ Range(ran') = Range(ran) \cup {name}
         /\ IsInjective(ran') => IsInjective(ran) /\ name \notin Range(ran)
  <1>1. ran' \in Seq(Known) /\ Len(ran') = Len(ran) + 1 /\ ran'[Len(ran')] = name
    OBVIOUS
  <1>2. \A n \in 1..Len(ran) : ran'[n] = ran[n]
    OBVIOUS
  <1>3. DOMAIN ran = 1..Len(ran) /\ DOMAIN ran' = 1..(Len(ran) + 1)
    BY <1>1
  <1>4. Range(ran') = Range(ran) \cup {name}
    BY <1>1, <1>2, <1>3 DEF Range
  <1>5. ASSUME IsInjective(ran')
        PROVE  IsInjective(ran) /\ name \notin Range(ran)
    <2>1. IsInjective(ran)
      BY <1>2, <1>3, <1>5 DEF IsInjective
    <2>2. \A n \in DOMAIN ran : n # Len(ran')
      BY <1>1, <1>3
    <2>3. name \notin Range(ran)
      BY <1>1, <1>2, <1>3, <1>5, <2>2 DEF IsInjective, Range
    <2> QED BY <2>1, <2>3
  <1> QED BY <1>1, <1>4, <1>5

LEMMA CallKeeps ==
  ASSUME SectionsInv, RunnersInv', OneAlive', NEW p \in Procs, Call(p)
  PROVE  SectionsInv'
  <1>1. PICK n \in todo :
          /\ current' = n /\ todo' = todo \ {n}
          /\ IF listed[n].name = Migrator THEN MigrateStart(p)
             ELSE Run(p, JobOf[listed[n].name], FreqOf(listed[n]))
          /\ ran' = Append(ran, listed[n].name)
          /\ children' = [x \in DOMAIN children \cup {listed[n].name} |->
                            IF x = listed[n].name THEN "unset" ELSE children[x]]
    BY DEF Call
  <1> DEFINE name == listed[n].name
  <1>2. /\ n \in DOMAIN listed /\ name \in Known /\ ran \in Seq(Known)
        /\ pc \in [Procs -> PCs] /\ key \in [Procs -> AllKeys] /\ DOMAIN children = Range(ran)
    BY <1>1 DEF SectionsInv, SectionsTypeOK, TypeOK
  <1>3. /\ UNCHANGED <<canon, raw, inst, starts, raced, phase, listed, failures, child, lost, downs>>
        /\ phase = "running" /\ ProcessGone
    BY <1>1 DEF Call, MigrateStart, Run, MayStart, ProcessGone
  <1>4. /\ ran' \in Seq(Known) /\ ran' # <<>> /\ ran'[Len(ran')] = name
        /\ Range(ran') = Range(ran) \cup {name}
        /\ IsInjective(ran') => IsInjective(ran) /\ name \notin Range(ran)
    BY <1>1, <1>2, AppendSays
  <1>5. /\ DOMAIN children' = DOMAIN children \cup {name}
        /\ \A x \in DOMAIN children' : children'[x] = IF x = name THEN "unset" ELSE children[x]
    BY <1>1
  <1>6. SectionsTypeOK'
    BY <1>1, <1>2, <1>3, <1>4, <1>5 DEF SectionsInv, SectionsTypeOK, RunnersInv
  <1>7. /\ \A q \in Procs : q # p => ~Alive(q)'
        /\ pc'[p] = "migrating" <=> name = Migrator
        /\ pc'[p] # "migrating" => key'[p] = <<JobOf[name], ScopeOf(FreqOf(listed[n]))>>
        /\ pc'[p] = "running" => key'[p][2] = NoInstance
        /\ pc'[p] # "idle"
    BY <1>1, <1>2, <1>3 DEF MigrateStart, Run, ProcessGone, Alive
  <1>8. AtHand'
    BY <1>1, <1>2, <1>3, <1>4, <1>7 DEF AtHand, Current, KeyOf, ScopeOf, Alive
  <1>9. FilesTell'
    BY <1>3, <1>7, RunnersAssumption DEF SectionsInv, FilesTell, Alive, Keys
  <1>10. DoneInv'
    <2>1. ~ProcessGone' /\ phase' = "running"
      BY <1>3, <1>7 DEF ProcessGone, Alive
    <2>2. \A m \in DOMAIN listed : Accounted(m) => Accounted(m)'
      <3>1. \A m \in DOMAIN listed : KeyOf(listed[m])' = KeyOf(listed[m])
        BY <1>3 DEF KeyOf, ScopeOf
      <3> QED BY <1>3, <3>1 DEF Accounted
    <2>3. \A m \in DOMAIN listed \ todo : Accounted(m)
      BY <1>3 DEF SectionsInv, DoneInv
    <2> QED BY <1>1, <1>3, <2>1, <2>2, <2>3 DEF DoneInv, Ended
  <1>11. ReportInv'
    BY <1>1, <1>2, <1>3, <1>4, <1>5 DEF SectionsInv, ReportInv, Current
  <1>12. PowerInv'
    BY <1>3, <1>7, RunnersAssumption DEF SectionsInv, PowerInv, PowerKey, Alive
  <1> QED BY <1>6, <1>8, <1>9, <1>10, <1>11, <1>12 DEF SectionsInv

\* A process that is alive stands for the entry the section came to last, under the
\* instance's key if it is power-state-change; nobody else is alive.
LEMMA OnBehalf ==
  ASSUME SectionsInv, NEW p \in Procs, Alive(p)
  PROVE  /\ phase = "running" /\ current \in DOMAIN listed \ todo /\ Current.name \in Known
         /\ \A q \in Procs : q # p => ~Alive(q)
         /\ pc[p] = "migrating" <=> Current.name = Migrator
         /\ pc[p] # "migrating" => key[p] = KeyOf(Current)
         /\ Current.name = Power => key[p] = PowerKey(inst)
         /\ Current.name \in DOMAIN children /\ children[Current.name] = "unset"
  <1>1. /\ phase = "running" /\ current \in DOMAIN listed \ todo
        /\ pc[p] = "migrating" <=> Current.name = Migrator
        /\ pc[p] # "migrating" => key[p] = KeyOf(Current)
        /\ ran # <<>> /\ ran[Len(ran)] = Current.name
    BY DEF SectionsInv, AtHand
  <1>2. \A q \in Procs : q # p => ~Alive(q)
    BY DEF SectionsInv, OneAlive
  <1>3. /\ Current.name \in Known
        /\ Current.name = Power => FreqOf(Current) = "instance"
        /\ ran \in Seq(Known) /\ DOMAIN children = Range(ran)
    BY <1>1 DEF SectionsInv, SectionsTypeOK, Current
  <1>4. Current.name = Power => key[p] = PowerKey(inst)
    BY <1>1, <1>3 DEF KeyOf, ScopeOf, PowerKey
  <1>5. Len(ran) \in DOMAIN ran
    BY <1>1, <1>3
  <1>6. Current.name \in DOMAIN children
    BY <1>1, <1>3, <1>5 DEF Range
  <1>7. children[Current.name] = "unset"
    BY DEF SectionsInv, ReportInv, ProcessGone
  <1> QED BY <1>1, <1>2, <1>3, <1>4, <1>6, <1>7

\* What a step of the process alive does to the section: it goes on, or the entry is
\* accounted for, as a failure or not.
LEMMA BackKeeps ==
  ASSUME SectionsInv, NEW p \in Procs, Alive(p), NEW failed \in BOOLEAN, Back(p, failed),
         RunnersInv', OneAlive', FilesTell', PowerInv',
         UNCHANGED <<inst, phase, listed, todo, current, ran, downs>>,
         child' \in {"none", "waiting"}, lost' \subseteq Keys, lost \subseteq lost',
         \A k \in Keys : starts[k] >= 1 => starts'[k] >= 1,
         \A q \in Procs : q # p => pc'[q] = pc[q],
         Alive(p)' => key'[p] = key[p] /\ (pc'[p] = "migrating" <=> pc[p] = "migrating"),
         ~Alive(p)' => failed \/ Accounted(current)'
  PROVE  SectionsInv'
  <1>1. /\ phase = "running" /\ current \in DOMAIN listed \ todo
        /\ \A q \in Procs : q # p => ~Alive(q)
        /\ pc[p] = "migrating" <=> Current.name = Migrator
        /\ pc[p] # "migrating" => key[p] = KeyOf(Current)
        /\ Current.name \in DOMAIN children /\ children[Current.name] = "unset"
    BY OnBehalf
  <1>2. Current' = Current /\ (\A m : KeyOf(listed[m])' = KeyOf(listed[m])) /\ KeyOf(Current)' = KeyOf(Current)
    BY DEF Current, KeyOf, ScopeOf
  <1>3. \A q \in Procs : q # p => ~Alive(q)'
    BY <1>1 DEF Alive
  <1>4. DOMAIN children' = DOMAIN children
    BY DEF Back
  <1>5. SectionsTypeOK'
    BY <1>4 DEF SectionsInv, SectionsTypeOK, RunnersInv
  <1>6. AtHand'
    BY <1>1, <1>2, <1>3 DEF SectionsInv, AtHand
  <1>7. failures \subseteq failures'
    BY DEF Back
  <1>8. DoneInv'
    <2>1. \A m \in DOMAIN listed : Accounted(m) => Accounted(m)'
      BY <1>2, <1>7 DEF Accounted
    <2>2. \A m \in DOMAIN listed \ todo : Accounted(m) \/ m = current
      BY <1>1 DEF SectionsInv, DoneInv
    <2>3. CASE Alive(p)'
      BY <1>1, <2>1, <2>2, <2>3 DEF DoneInv, Ended, ProcessGone
    <2>4. CASE ~Alive(p)'
      <3>1. Accounted(current)'
        BY <1>2, <2>4 DEF Back, Accounted, Current
      <3> QED BY <1>1, <2>1, <2>2, <3>1 DEF DoneInv, Ended
    <2> QED BY <2>3, <2>4
  <1>9. ReportInv'
    <2>1. CASE Alive(p)'
      BY <1>1, <1>2, <2>1 DEF SectionsInv, ReportInv, Back
    <2>2. CASE ~Alive(p)'
      <3>1. ProcessGone'
        BY <1>3, <2>2 DEF ProcessGone
      <3>2. failures' = IF failed THEN failures \cup {Current.name} ELSE failures
        BY <2>2 DEF Back
      <3>3. children' = [children EXCEPT ![Current.name] = IF failed THEN "FAIL" ELSE "SUCCESS"]
        BY <2>2 DEF Back
      <3>4. IsInjective(ran) => Current.name \notin failures
        BY <1>1 DEF SectionsInv, ReportInv
      <3> QED BY <1>1, <3>1, <3>2, <3>3, <3>4 DEF SectionsInv, ReportInv
    <2> QED BY <2>1, <2>2
  <1> QED BY <1>5, <1>6, <1>8, <1>9 DEF SectionsInv

\* A call under a semaphore is the first one.
LEMMA FirstCall ==
  ASSUME SectionsInv, RunnersInv', OneAlive', NEW p \in Procs, WriteSem(p)
  PROVE  key[p] \in Keys /\ starts[key[p]] = 0 /\ starts'[key[p]] = 1
  <1>1. key[p] \in Keys /\ starts \in [Keys -> 0..2]
    BY DEF SectionsInv, RunnersInv, GuardedKeys, TypeOK, WriteSem
  <1>2. starts'[key[p]] = IF starts[key[p]] = 0 THEN 1 ELSE 2
    BY <1>1 DEF WriteSem, Count
  <1>3. starts'[key[p]] # 2
    BY <1>1 DEF RunnersInv, OnceUnlessRaced, OneAlive
  <1> QED BY <1>1, <1>2, <1>3

\* Of the steps that go on, or leave without a failure, only the call changes what is known.
LEMMA WorksKeeps ==
  ASSUME SectionsInv, RunnersInv', OneAlive', NEW p \in Procs, Works(p)
  PROVE  SectionsInv'
  <1>1. /\ Back(p, FALSE)
        /\ UNCHANGED <<phase, listed, todo, current, ran, child, lost, downs>>
        /\ \/ HasRun(p) \/ HasRunRaw(p) \/ AcquireFree(p) \/ WriteSem(p)
           \/ (\E k \in Keys : MigrateMove(p, k)) \/ MigrateDone(p)
    BY DEF Works
  <1>2. Alive(p)
    BY <1>1 DEF HasRun, HasRunRaw, AcquireFree, WriteSem, MigrateMove, MigrateDone, Alive
  <1>3. /\ phase = "running" /\ current \in DOMAIN listed \ todo /\ Current.name \in Known
        /\ \A q \in Procs : q # p => ~Alive(q)
        /\ pc[p] = "migrating" <=> Current.name = Migrator
        /\ pc[p] # "migrating" => key[p] = KeyOf(Current)
    BY <1>2, OnBehalf
  <1>4. /\ pc \in [Procs -> PCs] /\ key \in [Procs -> AllKeys] /\ starts \in [Keys -> 0..2]
        /\ pc[p] \in {"has_run", "has_run_raw", "acquire", "write"} => key[p] \in Keys
    BY DEF SectionsInv, RunnersInv, TypeOK, GuardedKeys
  <1>5. Current' = Current /\ KeyOf(listed[current])' = KeyOf(listed[current]) /\ inst' = inst
    BY <1>1 DEF HasRun, HasRunRaw, AcquireFree, WriteSem, MigrateMove, MigrateDone, Current,
                KeyOf, ScopeOf
  <1>6. /\ \A q \in Procs : q # p => pc'[q] = pc[q] /\ key'[q] = key[q]
        /\ Alive(p)' => key'[p] = key[p] /\ (pc'[p] = "migrating" <=> pc[p] = "migrating")
    BY <1>1, <1>4 DEF HasRun, HasRunRaw, AcquireFree, WriteSem, MigrateMove, MigrateDone, Leave, Alive
  <1>7. /\ \A k \in Keys : starts[k] >= 1 => starts'[k] >= 1
        /\ FilesTell'
        /\ PowerInv'
    <2>1. CASE WriteSem(p)
      <3>1. key[p] \in Keys /\ starts[key[p]] = 0 /\ starts'[key[p]] = 1
        BY <2>1, FirstCall
      <3>2. /\ canon' = canon \cup {key[p]} /\ raw' = raw /\ pc' = [pc EXCEPT ![p] = "running"]
            /\ key' = key /\ \A k \in Keys : k # key[p] => starts'[k] = starts[k]
        BY <2>1, <1>4 DEF WriteSem, Count
      <3>3. FilesTell'
        <4>1. \A k \in canon' \cup raw' : starts'[k] >= 1 \/ k \in lost'
          <5>1. \A k \in canon \cup raw : k \in Keys /\ (starts[k] >= 1 \/ k \in lost)
            BY RunnersAssumption DEF SectionsInv, FilesTell, RunnersInv, TypeOK, Keys
          <5> QED BY <1>1, <3>1, <3>2, <5>1
        <4>2. \A q \in Procs : pc'[q] = "running" => q = p
          BY <1>3, <1>6 DEF Alive
        <4> QED BY <3>1, <3>2, <4>1, <4>2 DEF FilesTell
      <3>4. \A i \in Instances : key[p] = PowerKey(i) => i = inst
        <4>1. key[p] = <<JobOf[Current.name], ScopeOf(FreqOf(Current))>>
          BY <1>3, <2>1 DEF WriteSem, KeyOf
        <4>2. ScopeOf(FreqOf(Current)) \in {NoInstance, inst, Once}
          BY FreqIsOne, ScopeIsOne
        <4> QED BY <4>1, <4>2, RunnersAssumption DEF PowerKey
      <3>5. PowerInv'
        <4> SUFFICES ASSUME NEW i \in Instances
                     PROVE  /\ downs[i] <= 1
                            /\ downs[i] = 1 \/ (child = "waiting" /\ inst = i) => starts'[PowerKey(i)] >= 1
                            /\ child = "waiting" /\ inst = i => downs[i] = 0
                            /\ \A q \in Procs : pc'[q] = "running" /\ key'[q] = PowerKey(i) =>
                                   downs[i] = 0 /\ child = "none"
          BY <1>1, <1>5 DEF PowerInv, PowerKey
        <4>1. /\ downs[i] <= 1 /\ downs[i] \in 0..2 /\ child \in {"none", "waiting"}
              /\ downs[i] = 1 \/ (child = "waiting" /\ inst = i) => starts[PowerKey(i)] >= 1
              /\ child = "waiting" /\ inst = i => downs[i] = 0
          BY DEF SectionsInv, PowerInv, SectionsTypeOK
        <4>2. PowerKey(i) \in Keys
          BY PowerAssumption DEF PowerKey, Keys
        <4>3. ASSUME NEW q \in Procs, pc'[q] = "running", key'[q] = PowerKey(i)
              PROVE  downs[i] = 0 /\ child = "none"
          <5>1. q = p
            BY <1>3, <1>6, <4>3 DEF Alive
          <5> QED BY <3>1, <3>2, <3>4, <4>1, <4>3, <5>1
        <4> QED BY <3>1, <3>2, <4>1, <4>2, <4>3
      <3> QED BY <1>4, <3>1, <3>2, <3>3, <3>5
    <2>2. CASE ~WriteSem(p)
      <3>1. /\ starts' = starts /\ canon' \cup raw' \subseteq canon \cup raw
            /\ pc'[p] # "running"
        BY <1>1, <1>4, <2>2 DEF HasRun, HasRunRaw, AcquireFree, MigrateMove, MigrateDone, Leave
      <3>2. FilesTell'
        BY <1>1, <1>3, <1>6, <3>1 DEF SectionsInv, FilesTell, Alive
      <3>3. PowerInv'
        BY <1>1, <1>3, <1>5, <1>6, <3>1 DEF SectionsInv, PowerInv, PowerKey, Alive
      <3> QED BY <3>1, <3>2, <3>3
    <2> QED BY <2>1, <2>2
  <1>8. ~Alive(p)' => Accounted(current)'
    <2> SUFFICES ASSUME ~Alive(p)'
                 PROVE  Accounted(current)'
      OBVIOUS
    <2>1. CASE MigrateDone(p)
      BY <1>1, <1>3, <2>1 DEF MigrateDone, Accounted, Current
    <2>2. CASE HasRun(p) \/ HasRunRaw(p)
      <3>1. key[p] \in canon \cup raw /\ pc[p] # "migrating" /\ starts' = starts
        BY <1>4, <2>2 DEF HasRun, HasRunRaw, Alive
      <3>2. starts[key[p]] >= 1 \/ key[p] \in lost
        BY <3>1 DEF SectionsInv, FilesTell
      <3> QED BY <1>1, <1>3, <1>5, <3>1, <3>2 DEF Accounted, Current
    <2>3. CASE AcquireFree(p) \/ WriteSem(p) \/ \E k \in Keys : MigrateMove(p, k)
      BY <1>4, <2>3 DEF AcquireFree, WriteSem, MigrateMove, Alive
    <2> QED BY <1>1, <2>1, <2>2, <2>3
  <1>9. child' \in {"none", "waiting"} /\ lost' \subseteq Keys /\ lost \subseteq lost'
    BY <1>1 DEF SectionsInv, SectionsTypeOK
  <1> QED BY <1>1, <1>2, <1>5, <1>6, <1>7, <1>8, <1>9, BackKeeps

\* A functor that returned was called; power-state-change's leaves a child, the first.
LEMMA ReturnsKeeps ==
  ASSUME SectionsInv, RunnersInv', OneAlive', NEW p \in Procs, Returns(p)
  PROVE  SectionsInv'
  <1>1. /\ Back(p, FALSE) /\ FunctorReturns(p)
        /\ child' \in {child} \cup (IF Current.name = Power THEN {"waiting"} ELSE {})
        /\ UNCHANGED <<phase, listed, todo, current, ran, lost, downs>>
        /\ UNCHANGED <<canon, raw, inst, starts, raced>>
    BY DEF Returns, FunctorReturns
  <1>2. Alive(p) /\ pc[p] = "running"
    BY <1>1 DEF FunctorReturns, Alive
  <1>3. /\ phase = "running" /\ current \in DOMAIN listed \ todo /\ Current.name \in Known
        /\ \A q \in Procs : q # p => ~Alive(q)
        /\ key[p] = KeyOf(Current)
        /\ Current.name = Power => key[p] = PowerKey(inst)
    BY <1>2, OnBehalf
  <1>4. /\ pc \in [Procs -> PCs] /\ child \in {"none", "waiting"} /\ lost \subseteq Keys
        /\ downs \in [Instances -> 0..2]
    BY DEF SectionsInv, RunnersInv, TypeOK, SectionsTypeOK
  <1>5. pc' = [pc EXCEPT ![p] = "idle"]
    BY <1>1 DEF FunctorReturns, Leave
  <1>6. FilesTell'
    BY <1>1, <1>3, <1>4, <1>5 DEF SectionsInv, FilesTell, Alive
  <1>7. PowerInv'
    <2> SUFFICES ASSUME NEW i \in Instances
                 PROVE  /\ downs[i] <= 1
                        /\ downs[i] = 1 \/ (child' = "waiting" /\ inst = i) => starts[PowerKey(i)] >= 1
                        /\ child' = "waiting" /\ inst = i => downs[i] = 0
                        /\ \A q \in Procs : pc'[q] # "running"
      BY <1>1 DEF PowerInv, PowerKey
    <2>1. \A q \in Procs : pc'[q] # "running"
      BY <1>3, <1>4, <1>5 DEF Alive
    <2>2. /\ downs[i] <= 1
          /\ downs[i] = 1 \/ (child = "waiting" /\ inst = i) => starts[PowerKey(i)] >= 1
          /\ child = "waiting" /\ inst = i => downs[i] = 0
          /\ key[p] = PowerKey(i) => downs[i] = 0 /\ child = "none"
      BY <1>2 DEF SectionsInv, PowerInv
    <2>3. PowerKey(i) \in Keys
      BY PowerAssumption DEF PowerKey, Keys
    <2>4. key[p] = PowerKey(i) => starts[PowerKey(i)] >= 1
      BY <1>2, <2>3 DEF SectionsInv, FilesTell
    <2> QED BY <1>1, <1>3, <2>1, <2>2, <2>4
  <1>8. Accounted(current)'
    <2>1. KeyOf(listed[current])' = KeyOf(Current)
      BY <1>1 DEF KeyOf, ScopeOf, Current
    <2>2. key[p] \in Keys => starts[key[p]] >= 1
      BY <1>2 DEF SectionsInv, FilesTell
    <2> QED BY <1>1, <1>3, <2>1, <2>2 DEF Accounted
  <1>9. ~Alive(p)' /\ \A q \in Procs : q # p => pc'[q] = pc[q]
    BY <1>4, <1>5 DEF Alive
  <1> QED BY <1>1, <1>2, <1>4, <1>6, <1>7, <1>8, <1>9, BackKeeps

\* A file that is written and not followed by a call is remembered as lost.
LEMMA LostIsTold ==
  ASSUME SectionsInv, NEW p \in Procs, WriteFails(p) \/ FunctorRaises(p),
         lost' = lost \cup {k \in {key[p]} : starts[k] = 0 /\ k \in canon'}
  PROVE  /\ FilesTell' /\ lost' \subseteq Keys /\ lost \subseteq lost'
         /\ ProcessGone' /\ UNCHANGED <<raw, inst, starts, raced>>
         /\ \A q \in Procs : q # p => pc'[q] = pc[q]
  <1>1. /\ Alive(p) /\ key[p] \in Keys
        /\ starts \in [Keys -> 0..2] /\ pc \in [Procs -> PCs] /\ lost \subseteq Keys
        /\ canon \subseteq Keys /\ raw \subseteq Keys
    BY RunnersAssumption
       DEF WriteFails, FunctorRaises, Alive, SectionsInv, RunnersInv, TypeOK, GuardedKeys,
           SectionsTypeOK, Keys
  <1>2. /\ pc' = [pc EXCEPT ![p] = "idle"] /\ UNCHANGED <<raw, inst, starts, raced>>
        /\ canon' \in {canon, canon \cup {key[p]}}
    BY DEF WriteFails, FunctorRaises, Leave, Cleared
  <1>3. \A q \in Procs : q # p => ~Alive(q)
    BY <1>1, OnBehalf
  <1>4. \A q \in Procs : pc'[q] = "idle"
    BY <1>1, <1>2, <1>3 DEF Alive
  <1>5. \A k \in canon \cup raw : starts[k] >= 1 \/ k \in lost
    BY DEF SectionsInv, FilesTell
  <1>6. FilesTell'
    BY <1>1, <1>2, <1>4, <1>5 DEF FilesTell
  <1> QED BY <1>1, <1>2, <1>4, <1>6 DEF ProcessGone, Alive

\* Where nobody is alive any more PowerInv asks less.
LEMMA PowerRests ==
  ASSUME PowerInv, ProcessGone', UNCHANGED <<inst, starts, downs>>, child' \in {child, "none"}
  PROVE  PowerInv'
  BY DEF PowerInv, PowerKey, ProcessGone, Alive

LEMMA FailsKeeps ==
  ASSUME SectionsInv, RunnersInv', OneAlive', NEW p \in Procs, Fails(p)
  PROVE  SectionsInv'
  <1>1. /\ Back(p, TRUE) /\ (WriteFails(p) \/ FunctorRaises(p))
        /\ UNCHANGED <<phase, listed, todo, current, ran, child, downs>>
        /\ lost' = lost \cup {k \in {key[p]} : starts[k] = 0 /\ k \in canon'}
    BY DEF Fails
  <1>2. Alive(p)
    BY <1>1 DEF WriteFails, FunctorRaises, Alive
  <1>3. /\ FilesTell' /\ lost' \subseteq Keys /\ lost \subseteq lost'
        /\ ProcessGone' /\ UNCHANGED <<raw, inst, starts, raced>>
        /\ \A q \in Procs : q # p => pc'[q] = pc[q]
    BY <1>1, LostIsTold
  <1>4. PowerInv'
    BY <1>1, <1>3, PowerRests DEF SectionsInv
  <1>5. child' \in {"none", "waiting"} /\ ~Alive(p)'
    BY <1>1, <1>3 DEF SectionsInv, SectionsTypeOK, ProcessGone
  <1> QED BY <1>1, <1>2, <1>3, <1>4, <1>5, BackKeeps

\* A process that is killed leaves a section of which no account is given.
LEMMA KilledKeeps ==
  ASSUME SectionsInv, RunnersInv', OneAlive', Killed
  PROVE  SectionsInv'
  <1>1. /\ phase' = "none" /\ todo' = {}
        /\ UNCHANGED <<listed, current, ran, failures, children, child, downs>>
    BY DEF Killed
  <1>2. /\ ProcessGone' /\ FilesTell' /\ lost' \subseteq Keys /\ UNCHANGED <<inst, starts>>
    <2>1. CASE ProcessGone
      BY <2>1 DEF Killed, vars, SectionsInv, FilesTell, SectionsTypeOK, ProcessGone, Alive
    <2>2. ASSUME NEW p \in Procs, Crash(p), UNCHANGED lost
          PROVE  ProcessGone' /\ FilesTell' /\ lost' \subseteq Keys /\ UNCHANGED <<inst, starts>>
      <3>1. \A q \in Procs : q # p => ~Alive(q)
        BY <2>2, OnBehalf DEF Crash
      <3>2. \A q \in Procs : pc'[q] = "idle"
        BY <2>2, <3>1 DEF Crash, Leave, Alive, SectionsInv, RunnersInv, TypeOK
      <3> QED BY <2>2, <3>2 DEF Crash, SectionsInv, FilesTell, SectionsTypeOK, ProcessGone, Alive
    <2>3. ASSUME NEW p \in Procs, WriteFails(p),
                 lost' = lost \cup {k \in {key[p]} : starts[k] = 0 /\ k \in canon'}
          PROVE  ProcessGone' /\ FilesTell' /\ lost' \subseteq Keys /\ UNCHANGED <<inst, starts>>
      BY <2>3, LostIsTold
    <2> QED BY <2>1, <2>2, <2>3 DEF Killed
  <1>3. PowerInv'
    BY <1>1, <1>2, PowerRests DEF SectionsInv
  <1>4. SectionsTypeOK'
    BY <1>1, <1>2 DEF SectionsInv, SectionsTypeOK, RunnersInv
  <1>5. AtHand'
    BY <1>2 DEF AtHand, ProcessGone
  <1>6. DoneInv' /\ ReportInv'
    BY <1>1, <1>2 DEF SectionsInv, DoneInv, Ended, ReportInv
  <1> QED BY <1>2, <1>3, <1>4, <1>5, <1>6 DEF SectionsInv

\* A section that ends, or a child that does, changes nothing of this.
LEMMA EndKeeps ==
  ASSUME SectionsInv, RunnersInv', OneAlive', EndSection \/ ChildGivesUp
  PROVE  SectionsInv'
  <1>1. /\ UNCHANGED vars
        /\ UNCHANGED <<reached, listed, todo, current, ran, failures, children, lost, downs>>
        /\ child' \in {child, "none"}
        /\ phase' = phase \/ (phase' = "ended" /\ phase = "running" /\ todo = {} /\ ProcessGone)
    BY DEF EndSection, ChildGivesUp
  <1>2. /\ UNCHANGED <<canon, raw, inst, pc, key, starts, raced>>
        /\ Current' = Current /\ (ProcessGone' <=> ProcessGone)
        /\ \A e : KeyOf(e)' = KeyOf(e)
    BY <1>1 DEF vars, Current, KeyOf, ScopeOf, ProcessGone, Alive
  <1>3. SectionsTypeOK'
    BY <1>1 DEF SectionsInv, SectionsTypeOK, RunnersInv
  <1>4. AtHand'
    BY <1>1, <1>2 DEF SectionsInv, AtHand, Alive, ProcessGone
  <1>5. FilesTell' /\ PowerInv'
    BY <1>1, <1>2 DEF SectionsInv, FilesTell, PowerInv, PowerKey
  <1>6. DoneInv'
    <2>1. \A m \in DOMAIN listed : Accounted(m)' <=> Accounted(m)
      BY <1>1, <1>2 DEF Accounted
    <2> QED BY <1>1, <1>2, <2>1 DEF SectionsInv, DoneInv, Ended
  <1>7. ReportInv'
    BY <1>1, <1>2 DEF SectionsInv, ReportInv
  <1> QED BY <1>3, <1>4, <1>5, <1>6, <1>7 DEF SectionsInv

\* The machine goes down, by itself or by the child of power-state-change.
LEMMA DownKeeps ==
  ASSUME SectionsInv, RunnersInv', OneAlive', NEW i \in Instances \cup {NoInstance},
         PowerFails(i) \/ ChildShutsDown(i)
  PROVE  SectionsInv'
  <1>1. /\ phase' = "none" /\ listed' = <<>> /\ todo' = {} /\ ran' = <<>> /\ failures' = {}
        /\ children' = <<>> /\ child' = "none" /\ lost' = lost
        /\ canon' = canon /\ raw' = raw /\ starts' = starts
        /\ pc' = [p \in Procs |-> "idle"]
    BY DEF PowerFails, ChildShutsDown, Down, Reboot
  <1>2. ProcessGone'
    BY <1>1 DEF ProcessGone, Alive
  <1>3. downs' \in [Instances -> 0..2]
    BY DEF PowerFails, ChildShutsDown, SectionsInv, SectionsTypeOK
  <1>4. SectionsTypeOK'
    BY <1>1, <1>3 DEF SectionsInv, SectionsTypeOK, RunnersInv, Range
  <1>5. AtHand' /\ FilesTell'
    BY <1>1, <1>2 DEF SectionsInv, AtHand, FilesTell, ProcessGone
  <1>6. DoneInv' /\ ReportInv'
    BY <1>1, <1>2 DEF DoneInv, Ended, ReportInv
  <1>7. PowerInv'
    <2> SUFFICES ASSUME NEW j \in Instances
                 PROVE  downs'[j] <= 1 /\ (downs'[j] = 1 => starts[PowerKey(j)] >= 1)
      BY <1>1, <1>2 DEF PowerInv, PowerKey, ProcessGone, Alive
    <2>1. /\ downs[j] <= 1 /\ (downs[j] = 1 => starts[PowerKey(j)] >= 1)
          /\ child = "waiting" /\ inst = j => downs[j] = 0 /\ starts[PowerKey(j)] >= 1
          /\ downs \in [Instances -> 0..2]
      BY DEF SectionsInv, PowerInv, SectionsTypeOK
    <2>2. CASE downs'[j] = downs[j]
      BY <2>1, <2>2
    <2>3. CASE downs'[j] # downs[j]
      <3>1. child = "waiting" /\ inst = j /\ downs'[j] = IF downs[j] = 0 THEN 1 ELSE 2
        BY <2>1, <2>3 DEF PowerFails, ChildShutsDown
      <3> QED BY <2>1, <3>1
    <2> QED BY <2>2, <2>3
  <1> QED BY <1>4, <1>5, <1>6, <1>7 DEF SectionsInv

\* Every step keeps the invariant.
LEMMA SectionsNextInv ==
  ASSUME SectionsInv, [SectionsNext]_svars PROVE SectionsInv'
  <1>1. CASE SectionsNext
    <2>1. [Next]_vars
      BY <1>1, StepOfRunners DEF SectionsInv
    <2>2. RunnersInv' /\ OneAlive'
      BY <2>1, NextInv, OneAliveInductive DEF SectionsInv
    <2>3. ASSUME NEW n \in DOMAIN Stages, StartStage(n)
          PROVE  SectionsInv'
      <3>1. Stages[n] \in Range(Stages)
        BY DEF Range
      <3> QED BY <2>3, <3>1, ActiveAreKnown, BeginKeeps DEF StartStage
    <2>4. ASSUME NEW e \in Singles, StartSingle(e)
          PROVE  SectionsInv'
      BY <2>4, SinglesAreKnown, BeginKeeps DEF StartSingle
    <2>5. ASSUME NEW p \in Procs, Call(p) \/ Works(p) \/ Returns(p) \/ Fails(p)
          PROVE  SectionsInv'
      BY <2>2, <2>5, CallKeeps, WorksKeeps, ReturnsKeeps, FailsKeeps
    <2> QED BY <1>1, <2>2, <2>3, <2>4, <2>5, KilledKeeps, EndKeeps, DownKeeps DEF SectionsNext
  <1>2. CASE UNCHANGED svars
    <2>1. UNCHANGED vars /\ UNCHANGED driver
      BY <1>2 DEF svars
    <2>2. RunnersInv' /\ OneAlive'
      BY <2>1, NextInv, OneAliveInductive DEF SectionsInv
    <2>3. /\ UNCHANGED <<canon, raw, inst, pc, key, starts>>
          /\ UNCHANGED <<phase, listed, todo, current, ran, failures, children, child, lost, downs>>
          /\ Current' = Current /\ (ProcessGone' <=> ProcessGone)
          /\ \A e : KeyOf(e)' = KeyOf(e)
      BY <2>1 DEF vars, driver, Current, KeyOf, ScopeOf, ProcessGone, Alive
    <2>4. SectionsTypeOK' /\ AtHand'
      BY <2>2, <2>3 DEF SectionsInv, SectionsTypeOK, RunnersInv, AtHand, Alive
    <2>5. FilesTell' /\ PowerInv' /\ ReportInv'
      BY <2>3 DEF SectionsInv, FilesTell, PowerInv, PowerKey, ReportInv
    <2>6. DoneInv'
      <3>1. \A m \in DOMAIN listed : Accounted(m)' <=> Accounted(m)
        BY <2>3 DEF Accounted
      <3> QED BY <2>3, <3>1 DEF SectionsInv, DoneInv, Ended
    <2> QED BY <2>2, <2>4, <2>5, <2>6 DEF SectionsInv
  <1> QED BY <1>1, <1>2

\* The invariant of the sections.
THEOREM SectionsInvariant == SectionsSpec => []SectionsInv
  BY SectionsInitInv, SectionsNextInv, PTL DEF SectionsSpec

\* A section takes the steps of the machinery in helpers.py, and no other step changes
\* its semaphores: what is proved of Runners is true of the modules.
THEOREM SectionsImplementRunners == SectionsSpec => Spec
  <1>1. SectionsInit => Init
    BY DEF SectionsInit
  <1>2. SectionsInv /\ [SectionsNext]_svars => [Next]_vars
    BY StepOfRunners DEF SectionsInv, svars
  <1> QED BY <1>1, <1>2, SectionsInvariant, PTL DEF SectionsSpec, Spec

\* A module with a semaphore is called at most once for an instance, or once for ever,
\* whatever stages list it under whatever spelling, and whatever fails or is killed.
THEOREM ModulesAtMostOnceAlways == SectionsSpec => AtMostOncePerKey
  BY SectionsImplementRunners, SerialImplementsPromise, PTL

\* What a section says of its modules, in failures and in the report, is true.
THEOREM AccountsAreTrueAlways == SectionsSpec => []AccountsAreTrue
  <1>1. SectionsInv => AccountsAreTrue
    <2> SUFFICES ASSUME SectionsInv, Ended
                 PROVE  /\ IsInjective(ran) => (Result = "FAIL" <=> failures # {})
                        /\ \A n \in DOMAIN listed :
                               /\ listed[n].name \notin failures \cup {Migrator}
                               /\ KeyOf(listed[n]) \in Keys
                               => starts[KeyOf(listed[n])] >= 1 \/ KeyOf(listed[n]) \in lost
      BY DEF AccountsAreTrue
    <2>1. ProcessGone
      BY DEF SectionsInv, AtHand, ProcessGone, Ended
    <2>2. todo = {} /\ \A n \in DOMAIN listed : Accounted(n)
      BY <2>1 DEF SectionsInv, DoneInv, Ended
    <2>3. IsInjective(ran) => (Result = "FAIL" <=> failures # {})
      BY DEF SectionsInv, ReportInv, Result
    <2> QED BY <2>2, <2>3 DEF Accounted
  <1> QED BY <1>1, SectionsInvariant, PTL

\* power-state-change brings an instance down once.
THEOREM PowerChangeOnceAlways == SectionsSpec => []PowerChangeOnce
  <1>1. SectionsInv => PowerChangeOnce
    BY DEF SectionsInv, PowerInv, PowerChangeOnce
  <1> QED BY <1>1, SectionsInvariant, PTL
=============================================================================
