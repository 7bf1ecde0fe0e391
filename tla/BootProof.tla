----------------------------- MODULE BootProof -----------------------------
(***************************************************************************)
(* What TLAPS proves of the boot stages, for every set of instance ids and *)
(* machines, every configuration, and any failures and losses of power:    *)
(* the types; that stages which trust the cache work for the right         *)
(* instance; that user-data is consumed at most once per instance; and     *)
(* that boot-finished is of this boot.  BootInv is the inductive           *)
(* invariant: it says what a stage knows at each point, and what the files *)
(* of earlier boots can still say about another machine.                   *)
(***************************************************************************)
EXTENDS Boot, TLAPS

\* DataSourceNone is a source like any other, but for its id.
LEMMA SourceIids ==
  /\ Machines \subseteq Sources /\ NoneSource \in Sources
  /\ \A d \in Sources : d # None /\ d.iid \in Iids /\ (d.iid = NoneIid => d = NoneSource)
  /\ NoneSource.iid = NoneIid /\ NoneSource.dsmode = "network" /\ ~NoneSource.check
  /\ None \notin Iids /\ Directory \notin Iids /\ None # Directory
  BY BootAssumption DEF Sources, NoneSource

\* A rendered network config has the right type.
LEMMA RenderedType ==
  ASSUME TypeOK, NEW d \in Sources \cup {None} PROVE Rendered(d) \in NetConfigs
  <1>1. NetSource(d) \in {"ds", "system", "fallback"} /\ (NetSource(d) = "ds" => d \in Sources)
    BY DEF NetSource
  <1>2. machine.iid \in Iids /\ (NetSource(d) = "ds" => d.iid \in Iids)
    BY <1>1, SourceIids DEF TypeOK
  <1> QED BY <1>1, <1>2 DEF Rendered, NetConfigs

LEMMA InitInv == ASSUME Init PROVE BootInv
  <1> USE BootAssumption
  <1>1. TypeOK
    <2>1. /\ machine \in Machines /\ manual \in ManualChoices
          /\ pkl \in [Iids -> Sources \cup {None}] /\ consumed \in [Iids -> 0..2]
      BY DEF Init
    <2> QED BY <2>1 DEF Init, TypeOK, Stages, PCs
  <1>2. ProcessInv /\ CacheInv
    BY DEF Init, ProcessInv, CacheInv, HasDatasource, Linked
  <1>3. CheckedInv
    <2>1. ManualChoices = {FALSE} => ~manual
      BY DEF Init
    <2> QED BY <2>1 DEF Init, CheckedInv
  <1>4. ConsumeInv
    <2>1. \A i \in Iids : consumed[i] = 0
      BY DEF Init
    <2> QED BY <2>1 DEF Init, ConsumeInv
  <1>5. FinishedInv
    BY DEF Init, FinishedInv, At
  <1> QED BY <1>1, <1>2, <1>3, <1>4, <1>5 DEF BootInv

\* Every step preserves the invariant.
LEMMA NextInv == ASSUME BootInv, [Next]_vars PROVE BootInv'
  <1> USE BootAssumption, SourceIids DEF BootInv, disk, process, world, history, Unlinked, InitStages, ModuleStages
  <1>1. ASSUME PurgeCache PROVE BootInv'
    <2>1. TypeOK'
      <3>1. fin' \subseteq Iids \cup {Directory} /\ noNet' \in BOOLEAN /\ pc' \in PCs /\ stage' \in Stages
        BY <1>1 DEF PurgeCache, TypeOK, PCs, Goto
      <3>2. ds' = ds /\ prev' = prev /\ UNCHANGED <<machine, manual, link, pkl, marker, iidFile,
                                                     runIid, sem, ccFile, net, history>>
        BY <1>1 DEF PurgeCache, Goto
      <3> QED BY <3>1, <3>2 DEF TypeOK
    <2>2. ProcessInv' /\ CacheInv'
      BY <1>1 DEF PurgeCache, TypeOK, ProcessInv, CacheInv, HasDatasource, Linked, Goto, At
    <2>3. CheckedInv'
      BY <1>1 DEF PurgeCache, TypeOK, ProcessInv, CacheInv, CheckedInv, HasDatasource, Linked, Goto, At
    <2>4. ConsumeInv'
      BY <1>1 DEF PurgeCache, TypeOK, ProcessInv, ConsumeInv, HasDatasource, Goto, At
    <2>5. FinishedInv'
      BY <1>1 DEF PurgeCache, TypeOK, ProcessInv, FinishedInv, HasDatasource, Linked, At, Goto, At
    <2> QED BY <2>1, <2>2, <2>3, <2>4, <2>5
  <1>2. ASSUME StopEarly PROVE BootInv'
    <2>1. TypeOK'
      BY <1>2 DEF StopEarly, TypeOK, Stages, PCs, EndStage, NextStage, At
    <2>2. ProcessInv' /\ CacheInv'
      BY <1>2 DEF StopEarly, TypeOK, ProcessInv, CacheInv, HasDatasource, Linked, EndStage, NextStage, At
    <2>3. CheckedInv'
      BY <1>2 DEF StopEarly, TypeOK, ProcessInv, CacheInv, CheckedInv, HasDatasource, Linked, EndStage, NextStage, At
    <2>4. ConsumeInv'
      BY <1>2 DEF StopEarly, TypeOK, ProcessInv, ConsumeInv, HasDatasource, EndStage, NextStage, At
    <2>5. FinishedInv'
      BY <1>2 DEF StopEarly, TypeOK, ProcessInv, FinishedInv, HasDatasource, Linked, At, EndStage, NextStage, At
    <2> QED BY <2>1, <2>2, <2>3, <2>4, <2>5
  <1>3. ASSUME Proceed PROVE BootInv'
    <2>1. TypeOK'
      BY <1>3 DEF Proceed, TypeOK, Stages, PCs, Goto, At, ModuleStages
    <2>2. ProcessInv' /\ CacheInv'
      BY <1>3 DEF Proceed, TypeOK, ProcessInv, CacheInv, HasDatasource, Linked, Goto, At, ModuleStages
    <2>3. CheckedInv'
      BY <1>3 DEF Proceed, TypeOK, ProcessInv, CacheInv, CheckedInv, HasDatasource, Linked, Goto, At, ModuleStages
    <2>4. ConsumeInv'
      BY <1>3 DEF Proceed, TypeOK, ProcessInv, ConsumeInv, HasDatasource, Goto, At, ModuleStages
    <2>5. FinishedInv'
      BY <1>3 DEF Proceed, TypeOK, ProcessInv, FinishedInv, HasDatasource, Linked, At, Goto, At, ModuleStages
    <2> QED BY <2>1, <2>2, <2>3, <2>4, <2>5
  <1>4. ASSUME FetchCached PROVE BootInv'
    <2>1. TypeOK'
      BY <1>4 DEF FetchCached, TypeOK, Stages, PCs, AfterFetch, EndStage, NextStage, Checked, CacheValid, Cached, Trust, InitStages, ProcessInv, HasDatasource, Linked
    <2>2. ProcessInv' /\ CacheInv'
      BY <1>4 DEF FetchCached, TypeOK, ProcessInv, CacheInv, HasDatasource, Linked, AfterFetch, EndStage, NextStage, Checked, CacheValid, Cached, Trust, InitStages
    <2>3. CheckedInv'
      BY <1>4 DEF FetchCached, TypeOK, ProcessInv, CacheInv, CheckedInv, HasDatasource, Linked, AfterFetch, EndStage, NextStage, Checked, CacheValid, Cached, Trust, InitStages
    <2>4. ConsumeInv'
      BY <1>4 DEF FetchCached, TypeOK, ProcessInv, ConsumeInv, HasDatasource, AfterFetch, EndStage, NextStage, Checked, CacheValid, Cached, Trust, InitStages
    <2>5. FinishedInv'
      BY <1>4 DEF FetchCached, TypeOK, ProcessInv, FinishedInv, HasDatasource, Linked, At, AfterFetch, EndStage, NextStage, Checked, CacheValid, Cached, Trust, InitStages
    <2> QED BY <2>1, <2>2, <2>3, <2>4, <2>5
  <1>5. ASSUME FetchDropsLink PROVE BootInv'
    <2>1. TypeOK'
      BY <1>5 DEF FetchDropsLink, TypeOK, Stages, PCs, Goto, Checked, ProcessInv, HasDatasource, Linked
    <2>2. ProcessInv' /\ CacheInv'
      BY <1>5 DEF FetchDropsLink, TypeOK, ProcessInv, CacheInv, HasDatasource, Linked, Goto, Checked
    <2>3. CheckedInv'
      BY <1>5 DEF FetchDropsLink, TypeOK, ProcessInv, CacheInv, CheckedInv, HasDatasource, Linked, Goto, Checked
    <2>4. ConsumeInv'
      BY <1>5 DEF FetchDropsLink, TypeOK, ProcessInv, ConsumeInv, HasDatasource, Goto, Checked
    <2>5. FinishedInv'
      BY <1>5 DEF FetchDropsLink, TypeOK, ProcessInv, FinishedInv, HasDatasource, Linked, At, Goto, Checked
    <2> QED BY <2>1, <2>2, <2>3, <2>4, <2>5
  <1>6. ASSUME FindSource PROVE BootInv'
    <2>1. TypeOK'
      BY <1>6 DEF FindSource, TypeOK, Stages, PCs, AfterFetch, EndStage, NextStage, MayFind, InitStages, ProcessInv, HasDatasource, Linked
    <2>2. ProcessInv' /\ CacheInv'
      BY <1>6 DEF FindSource, TypeOK, ProcessInv, CacheInv, HasDatasource, Linked, AfterFetch, EndStage, NextStage, MayFind, InitStages
    <2>3. CheckedInv'
      BY <1>6 DEF FindSource, TypeOK, ProcessInv, CacheInv, CheckedInv, HasDatasource, Linked, AfterFetch, EndStage, NextStage, MayFind, InitStages
    <2>4. ConsumeInv'
      BY <1>6 DEF FindSource, TypeOK, ProcessInv, ConsumeInv, HasDatasource, AfterFetch, EndStage, NextStage, MayFind, InitStages
    <2>5. FinishedInv'
      BY <1>6 DEF FindSource, TypeOK, ProcessInv, FinishedInv, HasDatasource, Linked, At, AfterFetch, EndStage, NextStage, MayFind, InitStages
    <2> QED BY <2>1, <2>2, <2>3, <2>4, <2>5
  <1>7. ASSUME FindNothing PROVE BootInv'
    <2>1. TypeOK'
      BY <1>7 DEF FindNothing, TypeOK, Stages, PCs, Goto, EndStage, NextStage, InitStages, ProcessInv, HasDatasource, Linked
    <2>2. ProcessInv' /\ CacheInv'
      BY <1>7 DEF FindNothing, TypeOK, ProcessInv, CacheInv, HasDatasource, Linked, Goto, EndStage, NextStage, InitStages
    <2>3. CheckedInv'
      BY <1>7 DEF FindNothing, TypeOK, ProcessInv, CacheInv, CheckedInv, HasDatasource, Linked, Goto, EndStage, NextStage, InitStages
    <2>4. ConsumeInv'
      BY <1>7 DEF FindNothing, TypeOK, ProcessInv, ConsumeInv, HasDatasource, Goto, EndStage, NextStage, InitStages
    <2>5. FinishedInv'
      BY <1>7 DEF FindNothing, TypeOK, ProcessInv, FinishedInv, HasDatasource, Linked, At, Goto, EndStage, NextStage, InitStages
    <2> QED BY <2>1, <2>2, <2>3, <2>4, <2>5
  <1>8. ASSUME ApplyWithoutDatasource PROVE BootInv'
    <2>1. TypeOK'
      BY <1>8, RenderedType DEF ApplyWithoutDatasource, TypeOK, Stages, PCs, ApplyNetworkConfig, EndStage, NextStage, ProcessInv, HasDatasource, Linked
    <2>2. ProcessInv' /\ CacheInv'
      BY <1>8 DEF ApplyWithoutDatasource, TypeOK, ProcessInv, CacheInv, HasDatasource, Linked, ApplyNetworkConfig, EndStage, NextStage
    <2>3. CheckedInv'
      BY <1>8 DEF ApplyWithoutDatasource, TypeOK, ProcessInv, CacheInv, CheckedInv, HasDatasource, Linked, ApplyNetworkConfig, EndStage, NextStage
    <2>4. ConsumeInv'
      BY <1>8 DEF ApplyWithoutDatasource, TypeOK, ProcessInv, ConsumeInv, HasDatasource, ApplyNetworkConfig, EndStage, NextStage
    <2>5. FinishedInv'
      BY <1>8 DEF ApplyWithoutDatasource, TypeOK, ProcessInv, FinishedInv, HasDatasource, Linked, At, ApplyNetworkConfig, EndStage, NextStage
    <2> QED BY <2>1, <2>2, <2>3, <2>4, <2>5
  <1>9. ASSUME Unlink PROVE BootInv'
    <2>1. TypeOK'
      BY <1>9 DEF Unlink, TypeOK, Stages, PCs, Goto, ProcessInv, HasDatasource, Linked
    <2>2. ProcessInv' /\ CacheInv'
      BY <1>9 DEF Unlink, TypeOK, ProcessInv, CacheInv, HasDatasource, Linked, Goto
    <2>3. CheckedInv'
      BY <1>9 DEF Unlink, TypeOK, ProcessInv, CacheInv, CheckedInv, HasDatasource, Linked, Goto
    <2>4. ConsumeInv'
      BY <1>9 DEF Unlink, TypeOK, ProcessInv, ConsumeInv, HasDatasource, Goto
    <2>5. FinishedInv'
      BY <1>9 DEF Unlink, TypeOK, ProcessInv, FinishedInv, HasDatasource, Linked, At, Goto
    <2> QED BY <2>1, <2>2, <2>3, <2>4, <2>5
  <1>10. ASSUME Link PROVE BootInv'
    <2>1. TypeOK'
      BY <1>10 DEF Link, TypeOK, Stages, PCs, Goto, ProcessInv, HasDatasource, Linked
    <2>2. ProcessInv' /\ CacheInv'
      BY <1>10 DEF Link, TypeOK, ProcessInv, CacheInv, HasDatasource, Linked, Goto
    <2>3. CheckedInv'
      BY <1>10 DEF Link, TypeOK, ProcessInv, CacheInv, CheckedInv, HasDatasource, Linked, Goto
    <2>4. ConsumeInv'
      BY <1>10 DEF Link, TypeOK, ProcessInv, ConsumeInv, HasDatasource, Goto
    <2>5. FinishedInv'
      BY <1>10 DEF Link, TypeOK, ProcessInv, FinishedInv, HasDatasource, Linked, At, Goto
    <2> QED BY <2>1, <2>2, <2>3, <2>4, <2>5
  <1>11. ASSUME WriteIid PROVE BootInv'
    <2>1. TypeOK'
      BY <1>11 DEF WriteIid, TypeOK, Stages, PCs, PreviousIid, ProcessInv, HasDatasource, Linked
    <2>2. ProcessInv' /\ CacheInv'
      BY <1>11 DEF WriteIid, TypeOK, ProcessInv, CacheInv, HasDatasource, Linked, PreviousIid
    <2>3. CheckedInv'
      BY <1>11 DEF WriteIid, TypeOK, ProcessInv, CacheInv, CheckedInv, HasDatasource, Linked, PreviousIid
    <2>4. ConsumeInv'
      BY <1>11 DEF WriteIid, TypeOK, ProcessInv, ConsumeInv, HasDatasource, PreviousIid
    <2>5. FinishedInv'
      BY <1>11 DEF WriteIid, TypeOK, ProcessInv, FinishedInv, HasDatasource, Linked, At, PreviousIid
    <2> QED BY <2>1, <2>2, <2>3, <2>4, <2>5
  <1>12. ASSUME WriteRunIid PROVE BootInv'
    <2>1. TypeOK'
      BY <1>12 DEF WriteRunIid, TypeOK, Stages, PCs, Goto, ProcessInv, HasDatasource, Linked
    <2>2. ProcessInv' /\ CacheInv'
      BY <1>12 DEF WriteRunIid, TypeOK, ProcessInv, CacheInv, HasDatasource, Linked, Goto
    <2>3. CheckedInv'
      BY <1>12 DEF WriteRunIid, TypeOK, ProcessInv, CacheInv, CheckedInv, HasDatasource, Linked, Goto
    <2>4. ConsumeInv'
      BY <1>12 DEF WriteRunIid, TypeOK, ProcessInv, ConsumeInv, HasDatasource, Goto
    <2>5. FinishedInv'
      BY <1>12 DEF WriteRunIid, TypeOK, ProcessInv, FinishedInv, HasDatasource, Linked, At, Goto
    <2> QED BY <2>1, <2>2, <2>3, <2>4, <2>5
  <1>13. ASSUME Cache PROVE BootInv'
    <2>1. TypeOK'
      BY <1>13 DEF Cache, TypeOK, Stages, PCs, WriteToCache, Marked, Goto, ProcessInv, HasDatasource, Linked
    <2>2. ProcessInv' /\ CacheInv'
      BY <1>13 DEF Cache, TypeOK, ProcessInv, CacheInv, HasDatasource, Linked, WriteToCache, Marked, Goto
    <2>3. CheckedInv'
      BY <1>13 DEF Cache, TypeOK, ProcessInv, CacheInv, CheckedInv, HasDatasource, Linked, WriteToCache, Marked, Goto
    <2>4. ConsumeInv'
      BY <1>13 DEF Cache, TypeOK, ProcessInv, ConsumeInv, HasDatasource, WriteToCache, Marked, Goto
    <2>5. FinishedInv'
      BY <1>13 DEF Cache, TypeOK, ProcessInv, FinishedInv, HasDatasource, Linked, At, WriteToCache, Marked, Goto
    <2> QED BY <2>1, <2>2, <2>3, <2>4, <2>5
  <1>14. ASSUME ApplyNetwork PROVE BootInv'
    <2>1. TypeOK'
      BY <1>14, RenderedType DEF ApplyNetwork, TypeOK, Stages, PCs, ApplyNetworkConfig, EndStage, NextStage, Goto, ProcessInv, HasDatasource, Linked
    <2>2. ProcessInv' /\ CacheInv'
      BY <1>14 DEF ApplyNetwork, TypeOK, ProcessInv, CacheInv, HasDatasource, Linked, ApplyNetworkConfig, EndStage, NextStage, Goto
    <2>3. CheckedInv'
      BY <1>14 DEF ApplyNetwork, TypeOK, ProcessInv, CacheInv, CheckedInv, HasDatasource, Linked, ApplyNetworkConfig, EndStage, NextStage, Goto
    <2>4. ConsumeInv'
      BY <1>14 DEF ApplyNetwork, TypeOK, ProcessInv, ConsumeInv, HasDatasource, ApplyNetworkConfig, EndStage, NextStage, Goto
    <2>5. FinishedInv'
      BY <1>14 DEF ApplyNetwork, TypeOK, ProcessInv, FinishedInv, HasDatasource, Linked, At, ApplyNetworkConfig, EndStage, NextStage, Goto
    <2> QED BY <2>1, <2>2, <2>3, <2>4, <2>5
  <1>15. ASSUME Setup PROVE BootInv'
    <2>1. TypeOK'
      BY <1>15 DEF Setup, TypeOK, Stages, PCs, Goto, ProcessInv, HasDatasource, Linked
    <2>2. ProcessInv' /\ CacheInv'
      BY <1>15 DEF Setup, TypeOK, ProcessInv, CacheInv, HasDatasource, Linked, Goto
    <2>3. CheckedInv'
      BY <1>15 DEF Setup, TypeOK, ProcessInv, CacheInv, CheckedInv, HasDatasource, Linked, Goto
    <2>4. ConsumeInv'
      BY <1>15 DEF Setup, TypeOK, ProcessInv, ConsumeInv, HasDatasource, Goto
    <2>5. FinishedInv'
      BY <1>15 DEF Setup, TypeOK, ProcessInv, FinishedInv, HasDatasource, Linked, At, Goto
    <2> QED BY <2>1, <2>2, <2>3, <2>4, <2>5
  <1>16. ASSUME ConsumeHasRun PROVE BootInv'
    <2>1. TypeOK'
      BY <1>16 DEF ConsumeHasRun, TypeOK, Stages, PCs, Goto, ProcessInv, HasDatasource, Linked
    <2>2. ProcessInv' /\ CacheInv'
      BY <1>16 DEF ConsumeHasRun, TypeOK, ProcessInv, CacheInv, HasDatasource, Linked, Goto
    <2>3. CheckedInv'
      BY <1>16 DEF ConsumeHasRun, TypeOK, ProcessInv, CacheInv, CheckedInv, HasDatasource, Linked, Goto
    <2>4. ConsumeInv'
      BY <1>16 DEF ConsumeHasRun, TypeOK, ProcessInv, ConsumeInv, HasDatasource, Goto
    <2>5. FinishedInv'
      BY <1>16 DEF ConsumeHasRun, TypeOK, ProcessInv, FinishedInv, HasDatasource, Linked, At, Goto
    <2> QED BY <2>1, <2>2, <2>3, <2>4, <2>5
  <1>17. ASSUME ConsumeAcquire PROVE BootInv'
    <2>1. TypeOK'
      BY <1>17 DEF ConsumeAcquire, TypeOK, Stages, PCs, Goto, ProcessInv, HasDatasource, Linked
    <2>2. ProcessInv' /\ CacheInv'
      BY <1>17 DEF ConsumeAcquire, TypeOK, ProcessInv, CacheInv, HasDatasource, Linked, Goto
    <2>3. CheckedInv'
      BY <1>17 DEF ConsumeAcquire, TypeOK, ProcessInv, CacheInv, CheckedInv, HasDatasource, Linked, Goto
    <2>4. ConsumeInv'
      BY <1>17 DEF ConsumeAcquire, TypeOK, ProcessInv, ConsumeInv, HasDatasource, Goto
    <2>5. FinishedInv'
      BY <1>17 DEF ConsumeAcquire, TypeOK, ProcessInv, FinishedInv, HasDatasource, Linked, At, Goto
    <2> QED BY <2>1, <2>2, <2>3, <2>4, <2>5
  <1>18. ASSUME ConsumeData PROVE BootInv'
    <2>1. TypeOK'
      BY <1>18 DEF ConsumeData, TypeOK, Stages, PCs, Goto, ProcessInv, HasDatasource, Linked
    <2>2. ProcessInv' /\ CacheInv'
      BY <1>18 DEF ConsumeData, TypeOK, ProcessInv, CacheInv, HasDatasource, Linked, Goto
    <2>3. CheckedInv'
      BY <1>18 DEF ConsumeData, TypeOK, ProcessInv, CacheInv, CheckedInv, HasDatasource, Linked, Goto
    <2>4. ConsumeInv'
      BY <1>18 DEF ConsumeData, TypeOK, ProcessInv, ConsumeInv, HasDatasource, Goto
    <2>5. FinishedInv'
      BY <1>18 DEF ConsumeData, TypeOK, ProcessInv, FinishedInv, HasDatasource, Linked, At, Goto
    <2> QED BY <2>1, <2>2, <2>3, <2>4, <2>5
  <1>19. ASSUME Activate PROVE BootInv'
    <2>1. TypeOK'
      BY <1>19 DEF Activate, TypeOK, Stages, PCs, Goto, ProcessInv, HasDatasource, Linked
    <2>2. ProcessInv' /\ CacheInv'
      BY <1>19 DEF Activate, TypeOK, ProcessInv, CacheInv, HasDatasource, Linked, Goto
    <2>3. CheckedInv'
      BY <1>19 DEF Activate, TypeOK, ProcessInv, CacheInv, CheckedInv, HasDatasource, Linked, Goto
    <2>4. ConsumeInv'
      BY <1>19 DEF Activate, TypeOK, ProcessInv, ConsumeInv, HasDatasource, Goto
    <2>5. FinishedInv'
      BY <1>19 DEF Activate, TypeOK, ProcessInv, FinishedInv, HasDatasource, Linked, At, Goto
    <2> QED BY <2>1, <2>2, <2>3, <2>4, <2>5
  <1>20. ASSUME Recache PROVE BootInv'
    <2>1. TypeOK'
      BY <1>20 DEF Recache, TypeOK, Stages, PCs, WriteToCache, Marked, Goto, ProcessInv, HasDatasource, Linked
    <2>2. ProcessInv' /\ CacheInv'
      BY <1>20 DEF Recache, TypeOK, ProcessInv, CacheInv, HasDatasource, Linked, WriteToCache, Marked, Goto
    <2>3. CheckedInv'
      BY <1>20 DEF Recache, TypeOK, ProcessInv, CacheInv, CheckedInv, HasDatasource, Linked, WriteToCache, Marked, Goto
    <2>4. ConsumeInv'
      BY <1>20 DEF Recache, TypeOK, ProcessInv, ConsumeInv, HasDatasource, WriteToCache, Marked, Goto
    <2>5. FinishedInv'
      BY <1>20 DEF Recache, TypeOK, ProcessInv, FinishedInv, HasDatasource, Linked, At, WriteToCache, Marked, Goto
    <2> QED BY <2>1, <2>2, <2>3, <2>4, <2>5
  <1>21. ASSUME RunModules PROVE BootInv'
    <2>1. TypeOK'
      BY <1>21 DEF RunModules, TypeOK, Stages, PCs, EndStage, NextStage, ProcessInv, HasDatasource, Linked
    <2>2. ProcessInv' /\ CacheInv'
      BY <1>21 DEF RunModules, TypeOK, ProcessInv, CacheInv, HasDatasource, Linked, EndStage, NextStage
    <2>3. CheckedInv'
      BY <1>21 DEF RunModules, TypeOK, ProcessInv, CacheInv, CheckedInv, HasDatasource, Linked, EndStage, NextStage
    <2>4. ConsumeInv'
      BY <1>21 DEF RunModules, TypeOK, ProcessInv, ConsumeInv, HasDatasource, EndStage, NextStage
    <2>5. FinishedInv'
      BY <1>21 DEF RunModules, TypeOK, ProcessInv, FinishedInv, HasDatasource, Linked, At, EndStage, NextStage
    <2> QED BY <2>1, <2>2, <2>3, <2>4, <2>5
  <1>22. ASSUME NetworkTimesOut PROVE BootInv'
    <2>1. TypeOK'
      BY <1>22 DEF NetworkTimesOut, TypeOK, Stages, PCs, At
    <2>2. ProcessInv' /\ CacheInv'
      BY <1>22 DEF NetworkTimesOut, TypeOK, ProcessInv, CacheInv, HasDatasource, Linked, At
    <2>3. CheckedInv'
      BY <1>22 DEF NetworkTimesOut, TypeOK, ProcessInv, CacheInv, CheckedInv, HasDatasource, Linked, At
    <2>4. ConsumeInv'
      BY <1>22 DEF NetworkTimesOut, TypeOK, ProcessInv, ConsumeInv, HasDatasource, At
    <2>5. FinishedInv'
      BY <1>22 DEF NetworkTimesOut, TypeOK, ProcessInv, FinishedInv, HasDatasource, Linked, At, At
    <2> QED BY <2>1, <2>2, <2>3, <2>4, <2>5
  <1>23. ASSUME Fail PROVE BootInv'
    <2>1. TypeOK'
      BY <1>23 DEF Fail, TypeOK, Stages, PCs, EndStage, NextStage, Interrupted, At, ProcessInv, HasDatasource, Linked
    <2>2. ProcessInv' /\ CacheInv'
      BY <1>23 DEF Fail, TypeOK, ProcessInv, CacheInv, HasDatasource, Linked, EndStage, NextStage, Interrupted, At
    <2>3. CheckedInv'
      BY <1>23 DEF Fail, TypeOK, ProcessInv, CacheInv, CheckedInv, HasDatasource, Linked, EndStage, NextStage, Interrupted, At
    <2>4. ConsumeInv'
      BY <1>23 DEF Fail, TypeOK, ProcessInv, ConsumeInv, HasDatasource, EndStage, NextStage, Interrupted, At
    <2>5. FinishedInv'
      BY <1>23 DEF Fail, TypeOK, ProcessInv, FinishedInv, HasDatasource, Linked, At, EndStage, NextStage, Interrupted, At
    <2> QED BY <2>1, <2>2, <2>3, <2>4, <2>5
  <1>24. ASSUME TearIid PROVE BootInv'
    <2>1. TypeOK'
      BY <1>24 DEF TearIid, TypeOK, Stages, PCs, EndStage, NextStage, ProcessInv, HasDatasource, Linked
    <2>2. ProcessInv' /\ CacheInv'
      BY <1>24 DEF TearIid, TypeOK, ProcessInv, CacheInv, HasDatasource, Linked, EndStage, NextStage
    <2>3. CheckedInv'
      BY <1>24 DEF TearIid, TypeOK, ProcessInv, CacheInv, CheckedInv, HasDatasource, Linked, EndStage, NextStage
    <2>4. ConsumeInv'
      BY <1>24 DEF TearIid, TypeOK, ProcessInv, ConsumeInv, HasDatasource, EndStage, NextStage
    <2>5. FinishedInv'
      BY <1>24 DEF TearIid, TypeOK, ProcessInv, FinishedInv, HasDatasource, Linked, At, EndStage, NextStage
    <2> QED BY <2>1, <2>2, <2>3, <2>4, <2>5
  <1>25. ASSUME TearCache PROVE BootInv'
    <2>1. TypeOK'
      BY <1>25 DEF TearCache, Marked, TypeOK, Stages, PCs, EndStage, NextStage, Interrupted, At, ProcessInv, HasDatasource, Linked
    <2>2. ProcessInv' /\ CacheInv'
      BY <1>25 DEF TearCache, Marked, TypeOK, ProcessInv, CacheInv, HasDatasource, Linked, EndStage, NextStage, Interrupted, At
    <2>3. CheckedInv'
      BY <1>25 DEF TearCache, Marked, TypeOK, ProcessInv, CacheInv, CheckedInv, HasDatasource, Linked, EndStage, NextStage, Interrupted, At
    <2>4. ConsumeInv'
      BY <1>25 DEF TearCache, Marked, TypeOK, ProcessInv, ConsumeInv, HasDatasource, EndStage, NextStage, Interrupted, At
    <2>5. FinishedInv'
      BY <1>25 DEF TearCache, Marked, TypeOK, ProcessInv, FinishedInv, HasDatasource, Linked, At, EndStage, NextStage, Interrupted, At
    <2> QED BY <2>1, <2>2, <2>3, <2>4, <2>5
  <1>26. ASSUME NEW m \in Machines, NEW mc \in ManualChoices, Reboot(m, mc) PROVE BootInv'
    <2>1. TypeOK'
      BY <1>26 DEF Reboot, TypeOK, Stages, PCs, At, Unrecorded
    <2>2. ProcessInv' /\ CacheInv'
      BY <1>26 DEF Reboot, TypeOK, ProcessInv, CacheInv, HasDatasource, Linked
    <2>4. CheckedInv'
      BY <1>26 DEF Reboot, TypeOK, CheckedInv
    <2>5. ConsumeInv'
      BY <1>26 DEF Reboot, TypeOK, ConsumeInv
    <2>3. FinishedInv'
      BY <1>26 DEF Reboot, TypeOK, FinishedInv, At
    <2> QED BY <2>1, <2>2, <2>3, <2>4, <2>5
  <1>27. CASE UNCHANGED vars
    <2>1. TypeOK'
      BY <1>27 DEF vars, TypeOK
    <2>2. ProcessInv' /\ CacheInv'
      BY <1>27 DEF vars, ProcessInv, CacheInv, HasDatasource, Linked
    <2>3. CheckedInv' /\ ConsumeInv' /\ FinishedInv'
      BY <1>27 DEF vars, CheckedInv, ConsumeInv, FinishedInv, At
    <2> QED BY <2>1, <2>2, <2>3
  <1>28. ASSUME FetchRaises PROVE BootInv'
    <2>1. TypeOK'
      BY <1>28 DEF FetchRaises, TypeOK, Stages, PCs, EndStage, NextStage, Checked, ProcessInv, HasDatasource, Linked
    <2>2. ProcessInv' /\ CacheInv'
      BY <1>28 DEF FetchRaises, TypeOK, ProcessInv, CacheInv, HasDatasource, Linked, EndStage, NextStage, Checked
    <2>3. CheckedInv'
      BY <1>28 DEF FetchRaises, TypeOK, ProcessInv, CacheInv, CheckedInv, HasDatasource, Linked, EndStage, NextStage, Checked
    <2>4. ConsumeInv'
      BY <1>28 DEF FetchRaises, TypeOK, ProcessInv, ConsumeInv, HasDatasource, EndStage, NextStage, Checked
    <2>5. FinishedInv'
      BY <1>28 DEF FetchRaises, TypeOK, ProcessInv, FinishedInv, HasDatasource, Linked, At, EndStage, NextStage, Checked
    <2> QED BY <2>1, <2>2, <2>3, <2>4, <2>5
  <1>29. ASSUME FindNone PROVE BootInv'
    <2>1. TypeOK'
      BY <1>29 DEF FindNone, TypeOK, Stages, PCs, AfterFetch, EndStage, NextStage, NoneIsTried, InitStages, ProcessInv, HasDatasource, Linked
    <2>2. ProcessInv' /\ CacheInv'
      BY <1>29 DEF FindNone, TypeOK, Stages, ProcessInv, CacheInv, HasDatasource, Linked, AfterFetch, EndStage, NextStage, NoneIsTried, InitStages
    <2>3. CheckedInv'
      BY <1>29 DEF FindNone, TypeOK, ProcessInv, CacheInv, CheckedInv, HasDatasource, Linked, AfterFetch, EndStage, NextStage, NoneIsTried, InitStages
    <2>4. ConsumeInv'
      BY <1>29 DEF FindNone, TypeOK, ProcessInv, ConsumeInv, HasDatasource, AfterFetch, EndStage, NextStage, NoneIsTried, InitStages
    <2>5. FinishedInv'
      BY <1>29 DEF FindNone, TypeOK, ProcessInv, FinishedInv, HasDatasource, Linked, At, AfterFetch, EndStage, NextStage, NoneIsTried, InitStages
    <2> QED BY <2>1, <2>2, <2>3, <2>4, <2>5
  <1> QED
    BY <1>1, <1>2, <1>3, <1>4, <1>5, <1>6, <1>7, <1>8, <1>9, <1>10, <1>11, <1>12, <1>13,
       <1>14, <1>15, <1>16, <1>17, <1>18, <1>19, <1>20, <1>21, <1>22, <1>23, <1>24, <1>25, <1>26, <1>27, <1>28, <1>29
       DEF Next, StageStep

\* The boot stages keep their invariant.
THEOREM BootInvariant == Spec => []BootInv
  <1>1. Init => BootInv
    BY InitInv
  <1>2. BootInv /\ [Next]_vars => BootInv'
    BY NextInv
  <1> QED BY <1>1, <1>2, PTL DEF Spec

\* The types of the boot's state.
THEOREM BootTypes == Spec => []TypeOK
  <1>1. BootInv => TypeOK
    BY DEF BootInv
  <1> QED BY <1>1, BootInvariant, PTL

\* boot-finished below the instance link is of this boot.
THEOREM FinishedIsOfThisBootAlways == Spec => []FinishedIsOfThisBoot
  <1>1. BootInv => FinishedIsOfThisBoot
    BY DEF BootInv, FinishedInv, FinishedIsOfThisBoot
  <1> QED BY <1>1, BootInvariant, PTL

LEMMA PromiseInit == Init => Promise!Init
  BY DEF Init, Promise!Init

\* A step consumes the user-data of one instance for the first time, or none.
LEMMA PromiseStep ==
  ASSUME BootInv, [Next]_vars PROVE [Promise!Next]_consumed
  <1>1. CASE ConsumeAcquire
    <2>1. ds.iid \in Iids
      BY <1>1, SourceIids DEF ConsumeAcquire, BootInv, TypeOK, ProcessInv, HasDatasource
    <2>2. consumed[ds.iid] = 0
      BY <1>1, <2>1 DEF ConsumeAcquire, BootInv, TypeOK, ConsumeInv
    <2>3. consumed' = [consumed EXCEPT ![ds.iid] = 1]
      BY <1>1, <2>1, <2>2 DEF ConsumeAcquire, BootInv, TypeOK
    <2> QED BY <2>1, <2>2, <2>3 DEF Promise!Next, Promise!Perform
  <1>2. CASE ~ConsumeAcquire
    BY <1>2 DEF Next, StageStep, vars, history, PurgeCache, StopEarly, Proceed, FetchCached,
                FetchDropsLink, FetchRaises, FindSource, FindNone, FindNothing, ApplyWithoutDatasource, Unlink, Link,
                WriteIid, WriteRunIid, Cache, ApplyNetwork, Setup, ConsumeHasRun, ConsumeData,
                Activate, Recache, RunModules, NetworkTimesOut, Fail, TearIid, TearCache, Reboot
  <1> QED BY <1>1, <1>2

\* The boots of an image implement the abstract promise: user-data is consumed
\* at most once per instance.
THEOREM ConsumedAtMostOnceAlways == Spec => ConsumedAtMostOnce
  <1>1. BootInv /\ [Next]_vars => [Promise!Next]_consumed
    BY PromiseStep
  <1> QED BY <1>1, PromiseInit, BootInvariant, PTL DEF Spec, ConsumedAtMostOnce, Promise!Spec

----------------------------------------------------------------------------
(* The promises of later stages: the network config on disk is of this       *)
(* machine; no instance is new twice; the modules see the cloud-config of    *)
(* their instance's user-data; an image told to keep its instance keeps it.  *)
(* Each has an invariant of its own on top of BootInv, which says what the   *)
(* files tell a stage that did not write them itself.                        *)

\* The previous id is read once per stage, and what was activated is recorded.
LEMMA ActivatedKept == ASSUME BootInv, ActivatedInv, [Next]_vars PROVE ActivatedInv'
  <1> USE BootAssumption, SourceIids DEF BootInv, disk, process, world, history, Unlinked, InitStages, ModuleStages
  <1>1. ASSUME PurgeCache PROVE ActivatedInv'
    BY <1>1 DEF PurgeCache, TypeOK, ProcessInv, ActivatedInv, Recorded, HasDatasource, Goto, At
  <1>2. ASSUME StopEarly PROVE ActivatedInv'
    BY <1>2 DEF StopEarly, TypeOK, ProcessInv, ActivatedInv, Recorded, HasDatasource, EndStage,
        NextStage, At
  <1>3. ASSUME Proceed PROVE ActivatedInv'
    BY <1>3 DEF Proceed, TypeOK, ProcessInv, ActivatedInv, Recorded, HasDatasource, Goto, At,
        ModuleStages
  <1>4. ASSUME FetchCached PROVE ActivatedInv'
    BY <1>4 DEF FetchCached, TypeOK, ProcessInv, ActivatedInv, Recorded, HasDatasource,
        AfterFetch, EndStage, NextStage, Checked, CacheValid, Cached, Trust, InitStages
  <1>5. ASSUME FetchDropsLink PROVE ActivatedInv'
    BY <1>5 DEF FetchDropsLink, TypeOK, ProcessInv, ActivatedInv, Recorded, HasDatasource, Goto,
        Checked, CacheValid, Cached, Trust
  <1>6. ASSUME FindSource PROVE ActivatedInv'
    BY <1>6 DEF FindSource, TypeOK, ProcessInv, ActivatedInv, Recorded, HasDatasource,
        AfterFetch, EndStage, NextStage, MayFind, InitStages
  <1>7. ASSUME FindNothing PROVE ActivatedInv'
    BY <1>7 DEF FindNothing, TypeOK, ProcessInv, ActivatedInv, Recorded, HasDatasource, Goto,
        EndStage, NextStage, InitStages
  <1>8. ASSUME ApplyWithoutDatasource PROVE ActivatedInv'
    BY <1>8 DEF ApplyWithoutDatasource, TypeOK, ProcessInv, ActivatedInv, Recorded,
        HasDatasource, ApplyNetworkConfig, Rendered, NetSource, EndStage, NextStage
  <1>9. ASSUME Unlink PROVE ActivatedInv'
    BY <1>9 DEF Unlink, TypeOK, ProcessInv, ActivatedInv, Recorded, HasDatasource, Goto
  <1>10. ASSUME Link PROVE ActivatedInv'
    BY <1>10 DEF Link, TypeOK, ProcessInv, ActivatedInv, Recorded, HasDatasource, Goto
  <1>11. ASSUME WriteIid PROVE ActivatedInv'
    BY <1>11 DEF WriteIid, TypeOK, ProcessInv, ActivatedInv, Recorded, HasDatasource,
        PreviousIid
  <1>12. ASSUME WriteRunIid PROVE ActivatedInv'
    BY <1>12 DEF WriteRunIid, TypeOK, ProcessInv, ActivatedInv, Recorded, HasDatasource, Goto
  <1>13. ASSUME Cache PROVE ActivatedInv'
    BY <1>13 DEF Cache, TypeOK, ProcessInv, ActivatedInv, Recorded, HasDatasource, WriteToCache,
        Marked, Goto
  <1>14. ASSUME ApplyNetwork PROVE ActivatedInv'
    BY <1>14 DEF ApplyNetwork, TypeOK, ProcessInv, ActivatedInv, Recorded, HasDatasource,
        ApplyNetworkConfig, Rendered, NetSource, IsNew, PreviousIid, EndStage, NextStage, Goto
  <1>15. ASSUME Setup PROVE ActivatedInv'
    BY <1>15 DEF Setup, TypeOK, ProcessInv, ActivatedInv, Recorded, HasDatasource, Goto
  <1>16. ASSUME ConsumeHasRun PROVE ActivatedInv'
    BY <1>16 DEF ConsumeHasRun, TypeOK, ProcessInv, ActivatedInv, Recorded, HasDatasource, Goto
  <1>17. ASSUME ConsumeAcquire PROVE ActivatedInv'
    BY <1>17 DEF ConsumeAcquire, TypeOK, ProcessInv, ActivatedInv, Recorded, HasDatasource, Goto
  <1>18. ASSUME ConsumeData PROVE ActivatedInv'
    BY <1>18 DEF ConsumeData, TypeOK, ProcessInv, ActivatedInv, Recorded, HasDatasource, Goto
  <1>19. ASSUME Activate PROVE ActivatedInv'
    BY <1>19 DEF Activate, TypeOK, ProcessInv, ActivatedInv, Recorded, HasDatasource, Goto
  <1>20. ASSUME Recache PROVE ActivatedInv'
    BY <1>20 DEF Recache, TypeOK, ProcessInv, ActivatedInv, Recorded, HasDatasource,
        WriteToCache, Marked, Goto
  <1>21. ASSUME RunModules PROVE ActivatedInv'
    BY <1>21 DEF RunModules, TypeOK, ProcessInv, ActivatedInv, Recorded, HasDatasource,
        EndStage, NextStage
  <1>22. ASSUME NetworkTimesOut PROVE ActivatedInv'
    BY <1>22 DEF NetworkTimesOut, TypeOK, ProcessInv, ActivatedInv, Recorded, HasDatasource, At
  <1>23. ASSUME Fail PROVE ActivatedInv'
    BY <1>23 DEF Fail, TypeOK, ProcessInv, ActivatedInv, Recorded, HasDatasource, EndStage,
        NextStage, Interrupted, At
  <1>24. ASSUME TearIid PROVE ActivatedInv'
    BY <1>24 DEF TearIid, TypeOK, ProcessInv, ActivatedInv, Recorded, HasDatasource, EndStage,
        NextStage
  <1>25. ASSUME TearCache PROVE ActivatedInv'
    BY <1>25 DEF TearCache, TypeOK, ProcessInv, ActivatedInv, Recorded, HasDatasource, EndStage,
        NextStage, Interrupted, Marked, At
  <1>26. ASSUME NEW m \in Machines, NEW mc \in ManualChoices, Reboot(m, mc) PROVE ActivatedInv'
    BY <1>26 DEF Reboot, TypeOK, ProcessInv, ActivatedInv, Recorded, HasDatasource, At,
        Unrecorded
  <1>27. CASE UNCHANGED vars
    BY <1>27 DEF vars, TypeOK, ProcessInv, ActivatedInv, Recorded, HasDatasource
  <1>28. ASSUME FetchRaises PROVE ActivatedInv'
    BY <1>28 DEF FetchRaises, TypeOK, ProcessInv, ActivatedInv, Recorded, HasDatasource, EndStage, NextStage,
        Checked, CacheValid, Cached, Trust
  <1>29. ASSUME FindNone PROVE ActivatedInv'
    BY <1>29 DEF FindNone, TypeOK, ProcessInv, ActivatedInv, Recorded, HasDatasource,
        AfterFetch, EndStage, NextStage, NoneIsTried, InitStages
  <1> QED
    BY <1>1, <1>2, <1>3, <1>4, <1>5, <1>6, <1>7, <1>8, <1>9, <1>10, <1>11, <1>12, <1>13, <1>14,
        <1>15, <1>16, <1>17, <1>18, <1>19, <1>20, <1>21, <1>22, <1>23, <1>24, <1>25, <1>26,
        <1>27, <1>28, <1>29 DEF Next, StageStep

\* A stage at work finds its own datasource behind the link.
LEMMA CachedKept == ASSUME BootInv, CachedInv, [Next]_vars PROVE CachedInv'
  <1> USE BootAssumption, SourceIids DEF BootInv, disk, process, world, history, Unlinked, InitStages, ModuleStages
  <1>1. ASSUME PurgeCache PROVE CachedInv'
    BY <1>1 DEF PurgeCache, TypeOK, ProcessInv, CachedInv, Cacheable, HasDatasource, Linked,
        InitStages, Stages, Goto, At
  <1>2. ASSUME StopEarly PROVE CachedInv'
    BY <1>2 DEF StopEarly, TypeOK, ProcessInv, CachedInv, Cacheable, HasDatasource, Linked,
        InitStages, Stages, EndStage, NextStage, At
  <1>3. ASSUME Proceed PROVE CachedInv'
    BY <1>3 DEF Proceed, TypeOK, ProcessInv, CachedInv, Cacheable, HasDatasource, Linked,
        InitStages, Stages, Goto, At, ModuleStages
  <1>4. ASSUME FetchCached PROVE CachedInv'
    BY <1>4 DEF FetchCached, TypeOK, ProcessInv, CachedInv, Cacheable, HasDatasource, Linked,
        InitStages, Stages, AfterFetch, EndStage, NextStage, Checked, CacheValid, Cached, Trust
  <1>5. ASSUME FetchDropsLink PROVE CachedInv'
    BY <1>5 DEF FetchDropsLink, TypeOK, ProcessInv, CachedInv, Cacheable, HasDatasource, Linked,
        InitStages, Stages, Goto, Checked, CacheValid, Cached, Trust
  <1>6. ASSUME FindSource PROVE CachedInv'
    BY <1>6 DEF FindSource, TypeOK, ProcessInv, CachedInv, Cacheable, HasDatasource, Linked,
        InitStages, Stages, AfterFetch, EndStage, NextStage, MayFind
  <1>7. ASSUME FindNothing PROVE CachedInv'
    BY <1>7 DEF FindNothing, TypeOK, ProcessInv, CachedInv, Cacheable, HasDatasource, Linked,
        InitStages, Stages, Goto, EndStage, NextStage
  <1>8. ASSUME ApplyWithoutDatasource PROVE CachedInv'
    BY <1>8 DEF ApplyWithoutDatasource, TypeOK, ProcessInv, CachedInv, Cacheable, HasDatasource,
        Linked, InitStages, Stages, ApplyNetworkConfig, Rendered, NetSource, EndStage, NextStage
  <1>9. ASSUME Unlink PROVE CachedInv'
    BY <1>9 DEF Unlink, TypeOK, ProcessInv, CachedInv, Cacheable, HasDatasource, Linked,
        InitStages, Stages, Goto
  <1>10. ASSUME Link PROVE CachedInv'
    BY <1>10 DEF Link, TypeOK, ProcessInv, CachedInv, Cacheable, HasDatasource, Linked,
        InitStages, Stages, Goto
  <1>11. ASSUME WriteIid PROVE CachedInv'
    BY <1>11 DEF WriteIid, TypeOK, ProcessInv, CachedInv, Cacheable, HasDatasource, Linked,
        InitStages, Stages, PreviousIid
  <1>12. ASSUME WriteRunIid PROVE CachedInv'
    BY <1>12 DEF WriteRunIid, TypeOK, ProcessInv, CachedInv, Cacheable, HasDatasource, Linked,
        InitStages, Stages, Goto
  <1>13. ASSUME Cache PROVE CachedInv'
    BY <1>13 DEF Cache, TypeOK, ProcessInv, CachedInv, Cacheable, HasDatasource, Linked,
        InitStages, Stages, WriteToCache, Marked, Goto
  <1>14. ASSUME ApplyNetwork PROVE CachedInv'
    BY <1>14 DEF ApplyNetwork, TypeOK, ProcessInv, CachedInv, Cacheable, HasDatasource, Linked,
        InitStages, Stages, ApplyNetworkConfig, Rendered, NetSource, IsNew, PreviousIid,
        EndStage, NextStage, Goto
  <1>15. ASSUME Setup PROVE CachedInv'
    BY <1>15 DEF Setup, TypeOK, ProcessInv, CachedInv, Cacheable, HasDatasource, Linked,
        InitStages, Stages, Goto
  <1>16. ASSUME ConsumeHasRun PROVE CachedInv'
    BY <1>16 DEF ConsumeHasRun, TypeOK, ProcessInv, CachedInv, Cacheable, HasDatasource, Linked,
        InitStages, Stages, Goto
  <1>17. ASSUME ConsumeAcquire PROVE CachedInv'
    BY <1>17 DEF ConsumeAcquire, TypeOK, ProcessInv, CachedInv, Cacheable, HasDatasource,
        Linked, InitStages, Stages, Goto
  <1>18. ASSUME ConsumeData PROVE CachedInv'
    BY <1>18 DEF ConsumeData, TypeOK, ProcessInv, CachedInv, Cacheable, HasDatasource, Linked,
        InitStages, Stages, Goto
  <1>19. ASSUME Activate PROVE CachedInv'
    BY <1>19 DEF Activate, TypeOK, ProcessInv, CachedInv, Cacheable, HasDatasource, Linked,
        InitStages, Stages, Goto
  <1>20. ASSUME Recache PROVE CachedInv'
    BY <1>20 DEF Recache, TypeOK, ProcessInv, CachedInv, Cacheable, HasDatasource, Linked,
        InitStages, Stages, WriteToCache, Marked, Goto
  <1>21. ASSUME RunModules PROVE CachedInv'
    BY <1>21 DEF RunModules, TypeOK, ProcessInv, CachedInv, Cacheable, HasDatasource, Linked,
        InitStages, Stages, EndStage, NextStage
  <1>22. ASSUME NetworkTimesOut PROVE CachedInv'
    BY <1>22 DEF NetworkTimesOut, TypeOK, ProcessInv, CachedInv, Cacheable, HasDatasource,
        Linked, InitStages, Stages, At
  <1>23. ASSUME Fail PROVE CachedInv'
    BY <1>23 DEF Fail, TypeOK, ProcessInv, CachedInv, Cacheable, HasDatasource, Linked,
        InitStages, Stages, EndStage, NextStage, Interrupted, At
  <1>24. ASSUME TearIid PROVE CachedInv'
    BY <1>24 DEF TearIid, TypeOK, ProcessInv, CachedInv, Cacheable, HasDatasource, Linked,
        InitStages, Stages, EndStage, NextStage
  <1>25. ASSUME TearCache PROVE CachedInv'
    BY <1>25 DEF TearCache, TypeOK, ProcessInv, CachedInv, Cacheable, HasDatasource, Linked,
        InitStages, Stages, EndStage, NextStage, Interrupted, Marked, At
  <1>26. ASSUME NEW m \in Machines, NEW mc \in ManualChoices, Reboot(m, mc) PROVE CachedInv'
    BY <1>26 DEF Reboot, TypeOK, ProcessInv, CachedInv, Cacheable, HasDatasource, Linked,
        InitStages, Stages, At, Unrecorded
  <1>27. CASE UNCHANGED vars
    BY <1>27 DEF vars, TypeOK, ProcessInv, CachedInv, Cacheable, HasDatasource, Linked,
        InitStages, Stages
  <1>28. ASSUME FetchRaises PROVE CachedInv'
    BY <1>28 DEF FetchRaises, TypeOK, ProcessInv, CachedInv, Cacheable, HasDatasource, Linked,
        InitStages, Stages, EndStage, NextStage, Checked, CacheValid, Cached, Trust
  <1>29. ASSUME FindNone PROVE CachedInv'
    BY <1>29 DEF FindNone, TypeOK, ProcessInv, CachedInv, Cacheable, HasDatasource, Linked,
        InitStages, Stages, AfterFetch, EndStage, NextStage, NoneIsTried
  <1> QED
    BY <1>1, <1>2, <1>3, <1>4, <1>5, <1>6, <1>7, <1>8, <1>9, <1>10, <1>11, <1>12, <1>13, <1>14,
        <1>15, <1>16, <1>17, <1>18, <1>19, <1>20, <1>21, <1>22, <1>23, <1>24, <1>25, <1>26,
        <1>27, <1>28, <1>29 DEF Next, StageStep

\* The network config stays that of the recorded instance or of this machine.
LEMMA RenderedKept == ASSUME BootInv, ActivatedInv, RenderedInv, [Next]_vars PROVE RenderedInv'
  <1> USE BootAssumption, SourceIids DEF BootInv, disk, process, world, history, Unlinked, InitStages, ModuleStages
  <1>1. ASSUME PurgeCache PROVE RenderedInv'
    BY <1>1 DEF PurgeCache, TypeOK, ProcessInv, ActivatedInv, RenderedInv, Recorded,
        HasDatasource, Goto, At
  <1>2. ASSUME StopEarly PROVE RenderedInv'
    BY <1>2 DEF StopEarly, TypeOK, ProcessInv, ActivatedInv, RenderedInv, Recorded,
        HasDatasource, EndStage, NextStage, At
  <1>3. ASSUME Proceed PROVE RenderedInv'
    BY <1>3 DEF Proceed, TypeOK, ProcessInv, ActivatedInv, RenderedInv, Recorded, HasDatasource,
        Goto, At, ModuleStages
  <1>4. ASSUME FetchCached PROVE RenderedInv'
    BY <1>4 DEF FetchCached, TypeOK, ProcessInv, ActivatedInv, RenderedInv, Recorded,
        HasDatasource, AfterFetch, EndStage, NextStage, Checked, CacheValid, Cached, Trust,
        InitStages
  <1>5. ASSUME FetchDropsLink PROVE RenderedInv'
    BY <1>5 DEF FetchDropsLink, TypeOK, ProcessInv, ActivatedInv, RenderedInv, Recorded,
        HasDatasource, Goto, Checked, CacheValid, Cached, Trust
  <1>6. ASSUME FindSource PROVE RenderedInv'
    BY <1>6 DEF FindSource, TypeOK, ProcessInv, ActivatedInv, RenderedInv, Recorded,
        HasDatasource, AfterFetch, EndStage, NextStage, MayFind, InitStages
  <1>7. ASSUME FindNothing PROVE RenderedInv'
    BY <1>7 DEF FindNothing, TypeOK, ProcessInv, ActivatedInv, RenderedInv, Recorded,
        HasDatasource, Goto, EndStage, NextStage, InitStages
  <1>8. ASSUME ApplyWithoutDatasource PROVE RenderedInv'
    <2>1. net' # net => net' = Rendered(None)
      BY <1>8 DEF ApplyWithoutDatasource, ApplyNetworkConfig
    <2>2. Rendered(None).iid = machine.iid /\ Rendered(None) # None
      BY RenderedType DEF Rendered, NetSource, NetConfigs
    <2> QED BY <1>8, <2>1, <2>2 DEF ApplyWithoutDatasource, RenderedInv, EndStage
  <1>9. ASSUME Unlink PROVE RenderedInv'
    BY <1>9 DEF Unlink, TypeOK, ProcessInv, ActivatedInv, RenderedInv, Recorded, HasDatasource,
        Goto
  <1>10. ASSUME Link PROVE RenderedInv'
    BY <1>10 DEF Link, TypeOK, ProcessInv, ActivatedInv, RenderedInv, Recorded, HasDatasource,
        Goto
  <1>11. ASSUME WriteIid PROVE RenderedInv'
    BY <1>11 DEF WriteIid, TypeOK, ProcessInv, ActivatedInv, RenderedInv, Recorded,
        HasDatasource, PreviousIid
  <1>12. ASSUME WriteRunIid PROVE RenderedInv'
    BY <1>12 DEF WriteRunIid, TypeOK, ProcessInv, ActivatedInv, RenderedInv, Recorded,
        HasDatasource, Goto
  <1>13. ASSUME Cache PROVE RenderedInv'
    BY <1>13 DEF Cache, TypeOK, ProcessInv, ActivatedInv, RenderedInv, Recorded, HasDatasource,
        WriteToCache, Marked, Goto
  <1>14. ASSUME ApplyNetwork PROVE RenderedInv'
    <2>1. ds \in Sources /\ iidFile = ds.iid /\ prev # Unread
      BY <1>14 DEF ApplyNetwork, TypeOK, ProcessInv, HasDatasource, ActivatedInv, Recorded
    <2>2. Rendered(ds).iid \in {iidFile, machine.iid} /\ Rendered(ds) # None
      BY <2>1, RenderedType DEF Rendered
    <2>3. UNCHANGED <<iidFile, machine, unrendered>>
      BY <1>14 DEF ApplyNetwork
    <2>4. CASE IsNew /\ SystemNetwork # "disabled"
      BY <1>14, <2>2, <2>3, <2>4 DEF ApplyNetwork, ApplyNetworkConfig, RenderedInv
    <2>5. CASE SystemNetwork = "disabled"
      BY <2>5 DEF RenderedInv
    <2>6. CASE ~IsNew
      BY <1>14, <2>1, <2>3, <2>6 DEF ApplyNetwork, ApplyNetworkConfig, RenderedInv, IsNew, PreviousIid
    <2> QED BY <2>4, <2>5, <2>6
  <1>15. ASSUME Setup PROVE RenderedInv'
    BY <1>15 DEF Setup, TypeOK, ProcessInv, ActivatedInv, RenderedInv, Recorded, HasDatasource,
        Goto
  <1>16. ASSUME ConsumeHasRun PROVE RenderedInv'
    BY <1>16 DEF ConsumeHasRun, TypeOK, ProcessInv, ActivatedInv, RenderedInv, Recorded,
        HasDatasource, Goto
  <1>17. ASSUME ConsumeAcquire PROVE RenderedInv'
    BY <1>17 DEF ConsumeAcquire, TypeOK, ProcessInv, ActivatedInv, RenderedInv, Recorded,
        HasDatasource, Goto
  <1>18. ASSUME ConsumeData PROVE RenderedInv'
    BY <1>18 DEF ConsumeData, TypeOK, ProcessInv, ActivatedInv, RenderedInv, Recorded,
        HasDatasource, Goto
  <1>19. ASSUME Activate PROVE RenderedInv'
    BY <1>19 DEF Activate, TypeOK, ProcessInv, ActivatedInv, RenderedInv, Recorded,
        HasDatasource, Goto
  <1>20. ASSUME Recache PROVE RenderedInv'
    BY <1>20 DEF Recache, TypeOK, ProcessInv, ActivatedInv, RenderedInv, Recorded,
        HasDatasource, WriteToCache, Marked, Goto
  <1>21. ASSUME RunModules PROVE RenderedInv'
    BY <1>21 DEF RunModules, TypeOK, ProcessInv, ActivatedInv, RenderedInv, Recorded,
        HasDatasource, EndStage, NextStage
  <1>22. ASSUME NetworkTimesOut PROVE RenderedInv'
    BY <1>22 DEF NetworkTimesOut, TypeOK, ProcessInv, ActivatedInv, RenderedInv, Recorded,
        HasDatasource, At
  <1>23. ASSUME Fail PROVE RenderedInv'
    BY <1>23 DEF Fail, TypeOK, ProcessInv, ActivatedInv, RenderedInv, Recorded, HasDatasource,
        EndStage, NextStage, Interrupted, At
  <1>24. ASSUME TearIid PROVE RenderedInv'
    BY <1>24 DEF TearIid, TypeOK, ProcessInv, ActivatedInv, RenderedInv, Recorded,
        HasDatasource, EndStage, NextStage
  <1>25. ASSUME TearCache PROVE RenderedInv'
    BY <1>25 DEF TearCache, TypeOK, ProcessInv, ActivatedInv, RenderedInv, Recorded,
        HasDatasource, EndStage, NextStage, Interrupted, Marked, At
  <1>26. ASSUME NEW m \in Machines, NEW mc \in ManualChoices, Reboot(m, mc) PROVE RenderedInv'
    BY <1>26 DEF Reboot, TypeOK, ProcessInv, ActivatedInv, RenderedInv, Recorded, HasDatasource,
        At, Unrecorded
  <1>27. CASE UNCHANGED vars
    BY <1>27 DEF vars, TypeOK, ProcessInv, ActivatedInv, RenderedInv, Recorded, HasDatasource
  <1>28. ASSUME FetchRaises PROVE RenderedInv'
    BY <1>28 DEF FetchRaises, TypeOK, ProcessInv, ActivatedInv, RenderedInv, Recorded,
        HasDatasource, EndStage, NextStage, Checked, CacheValid, Cached, Trust
  <1>29. ASSUME FindNone PROVE RenderedInv'
    BY <1>29 DEF FindNone, TypeOK, ProcessInv, ActivatedInv, RenderedInv, Recorded,
        HasDatasource, AfterFetch, EndStage, NextStage, NoneIsTried, InitStages
  <1> QED
    BY <1>1, <1>2, <1>3, <1>4, <1>5, <1>6, <1>7, <1>8, <1>9, <1>10, <1>11, <1>12, <1>13, <1>14,
        <1>15, <1>16, <1>17, <1>18, <1>19, <1>20, <1>21, <1>22, <1>23, <1>24, <1>25, <1>26,
        <1>27, <1>28, <1>29 DEF Next, StageStep

\* A link that outlives an unfailed stage leads to consumed data.
LEMMA SeenKept == ASSUME BootInv, CachedInv, SeenInv, [Next]_vars PROVE SeenInv'
  <1> USE BootAssumption, SourceIids DEF BootInv, disk, process, world, history, Unlinked, InitStages, ModuleStages
  <1>1. ASSUME PurgeCache PROVE SeenInv'
    BY <1>1 DEF PurgeCache, TypeOK, ProcessInv, CacheInv, CachedInv, SeenInv, Cached, Cacheable,
        HasDatasource, Linked, InitStages, ModuleStages, Stages, Goto, At
  <1>2. ASSUME StopEarly PROVE SeenInv'
    BY <1>2 DEF StopEarly, TypeOK, ProcessInv, CacheInv, CachedInv, SeenInv, Cached, Cacheable,
        HasDatasource, Linked, InitStages, ModuleStages, Stages, EndStage, NextStage, At
  <1>3. ASSUME Proceed PROVE SeenInv'
    BY <1>3 DEF Proceed, TypeOK, ProcessInv, CacheInv, CachedInv, SeenInv, Cached, Cacheable,
        HasDatasource, Linked, InitStages, ModuleStages, Stages, Goto, At
  <1>4. ASSUME FetchCached PROVE SeenInv'
    BY <1>4 DEF FetchCached, TypeOK, ProcessInv, CacheInv, CachedInv, SeenInv, Cached,
        Cacheable, HasDatasource, Linked, InitStages, ModuleStages, Stages, AfterFetch,
        EndStage, NextStage, Checked, CacheValid, Trust
  <1>5. ASSUME FetchDropsLink PROVE SeenInv'
    BY <1>5 DEF FetchDropsLink, TypeOK, ProcessInv, CacheInv, CachedInv, SeenInv, Cached,
        Cacheable, HasDatasource, Linked, InitStages, ModuleStages, Stages, Goto, Checked,
        CacheValid, Trust
  <1>6. ASSUME FindSource PROVE SeenInv'
    BY <1>6 DEF FindSource, TypeOK, ProcessInv, CacheInv, CachedInv, SeenInv, Cached, Cacheable,
        HasDatasource, Linked, InitStages, ModuleStages, Stages, AfterFetch, EndStage,
        NextStage, MayFind
  <1>7. ASSUME FindNothing PROVE SeenInv'
    BY <1>7 DEF FindNothing, TypeOK, ProcessInv, CacheInv, CachedInv, SeenInv, Cached,
        Cacheable, HasDatasource, Linked, InitStages, ModuleStages, Stages, Goto, EndStage,
        NextStage
  <1>8. ASSUME ApplyWithoutDatasource PROVE SeenInv'
    BY <1>8 DEF ApplyWithoutDatasource, TypeOK, ProcessInv, CacheInv, CachedInv, SeenInv,
        Cached, Cacheable, HasDatasource, Linked, InitStages, ModuleStages, Stages,
        ApplyNetworkConfig, Rendered, NetSource, EndStage, NextStage
  <1>9. ASSUME Unlink PROVE SeenInv'
    BY <1>9 DEF Unlink, TypeOK, ProcessInv, CacheInv, CachedInv, SeenInv, Cached, Cacheable,
        HasDatasource, Linked, InitStages, ModuleStages, Stages, Goto
  <1>10. ASSUME Link PROVE SeenInv'
    BY <1>10 DEF Link, TypeOK, ProcessInv, CacheInv, CachedInv, SeenInv, Cached, Cacheable,
        HasDatasource, Linked, InitStages, ModuleStages, Stages, Goto
  <1>11. ASSUME WriteIid PROVE SeenInv'
    BY <1>11 DEF WriteIid, TypeOK, ProcessInv, CacheInv, CachedInv, SeenInv, Cached, Cacheable,
        HasDatasource, Linked, InitStages, ModuleStages, Stages, PreviousIid
  <1>12. ASSUME WriteRunIid PROVE SeenInv'
    BY <1>12 DEF WriteRunIid, TypeOK, ProcessInv, CacheInv, CachedInv, SeenInv, Cached,
        Cacheable, HasDatasource, Linked, InitStages, ModuleStages, Stages, Goto
  <1>13. ASSUME Cache PROVE SeenInv'
    BY <1>13 DEF Cache, TypeOK, ProcessInv, CacheInv, CachedInv, SeenInv, Cached, Cacheable,
        HasDatasource, Linked, InitStages, ModuleStages, Stages, WriteToCache, Marked, Goto
  <1>14. ASSUME ApplyNetwork PROVE SeenInv'
    BY <1>14 DEF ApplyNetwork, TypeOK, ProcessInv, CacheInv, CachedInv, SeenInv, Cached,
        Cacheable, HasDatasource, Linked, InitStages, ModuleStages, Stages, ApplyNetworkConfig,
        Rendered, NetSource, IsNew, PreviousIid, EndStage, NextStage, Goto
  <1>15. ASSUME Setup PROVE SeenInv'
    BY <1>15 DEF Setup, TypeOK, ProcessInv, CacheInv, CachedInv, SeenInv, Cached, Cacheable,
        HasDatasource, Linked, InitStages, ModuleStages, Stages, Goto
  <1>16. ASSUME ConsumeHasRun PROVE SeenInv'
    BY <1>16 DEF ConsumeHasRun, TypeOK, ProcessInv, CacheInv, CachedInv, SeenInv, Cached,
        Cacheable, HasDatasource, Linked, InitStages, ModuleStages, Stages, Goto
  <1>17. ASSUME ConsumeAcquire PROVE SeenInv'
    BY <1>17 DEF ConsumeAcquire, TypeOK, ProcessInv, CacheInv, CachedInv, SeenInv, Cached,
        Cacheable, HasDatasource, Linked, InitStages, ModuleStages, Stages, Goto
  <1>18. ASSUME ConsumeData PROVE SeenInv'
    BY <1>18 DEF ConsumeData, TypeOK, ProcessInv, CacheInv, CachedInv, SeenInv, Cached,
        Cacheable, HasDatasource, Linked, InitStages, ModuleStages, Stages, Goto
  <1>19. ASSUME Activate PROVE SeenInv'
    BY <1>19 DEF Activate, TypeOK, ProcessInv, CacheInv, CachedInv, SeenInv, Cached, Cacheable,
        HasDatasource, Linked, InitStages, ModuleStages, Stages, Goto
  <1>20. ASSUME Recache PROVE SeenInv'
    BY <1>20 DEF Recache, TypeOK, ProcessInv, CacheInv, CachedInv, SeenInv, Cached, Cacheable,
        HasDatasource, Linked, InitStages, ModuleStages, Stages, WriteToCache, Marked, Goto
  <1>21. ASSUME RunModules PROVE SeenInv'
    BY <1>21 DEF RunModules, TypeOK, ProcessInv, CacheInv, CachedInv, SeenInv, Cached,
        Cacheable, HasDatasource, Linked, InitStages, ModuleStages, Stages, EndStage, NextStage
  <1>22. ASSUME NetworkTimesOut PROVE SeenInv'
    BY <1>22 DEF NetworkTimesOut, TypeOK, ProcessInv, CacheInv, CachedInv, SeenInv, Cached,
        Cacheable, HasDatasource, Linked, InitStages, ModuleStages, Stages, At
  <1>23. ASSUME Fail PROVE SeenInv'
    BY <1>23 DEF Fail, TypeOK, ProcessInv, CacheInv, CachedInv, SeenInv, Cached, Cacheable,
        HasDatasource, Linked, InitStages, ModuleStages, Stages, EndStage, NextStage,
        Interrupted, At
  <1>24. ASSUME TearIid PROVE SeenInv'
    BY <1>24 DEF TearIid, TypeOK, ProcessInv, CacheInv, CachedInv, SeenInv, Cached, Cacheable,
        HasDatasource, Linked, InitStages, ModuleStages, Stages, EndStage, NextStage
  <1>25. ASSUME TearCache PROVE SeenInv'
    BY <1>25 DEF TearCache, TypeOK, ProcessInv, CacheInv, CachedInv, SeenInv, Cached, Cacheable,
        HasDatasource, Linked, InitStages, ModuleStages, Stages, EndStage, NextStage,
        Interrupted, Marked, At
  <1>26. ASSUME NEW m \in Machines, NEW mc \in ManualChoices, Reboot(m, mc) PROVE SeenInv'
    BY <1>26 DEF Reboot, TypeOK, ProcessInv, CacheInv, CachedInv, SeenInv, Cached, Cacheable,
        HasDatasource, Linked, InitStages, ModuleStages, Stages, At, Unrecorded
  <1>27. CASE UNCHANGED vars
    BY <1>27 DEF vars, TypeOK, ProcessInv, CacheInv, CachedInv, SeenInv, Cached, Cacheable,
        HasDatasource, Linked, InitStages, ModuleStages, Stages
  <1>28. ASSUME FetchRaises PROVE SeenInv'
    BY <1>28 DEF FetchRaises, TypeOK, ProcessInv, CacheInv, CachedInv, SeenInv, Cached,
        Cacheable, HasDatasource, Linked, InitStages, ModuleStages, Stages, EndStage, NextStage, Checked,
        CacheValid, Trust
  <1>29. ASSUME FindNone PROVE SeenInv'
    BY <1>29 DEF FindNone, TypeOK, ProcessInv, CacheInv, CachedInv, SeenInv, Cached, Cacheable,
        HasDatasource, Linked, InitStages, ModuleStages, Stages, AfterFetch, EndStage,
        NextStage, NoneIsTried
  <1> QED
    BY <1>1, <1>2, <1>3, <1>4, <1>5, <1>6, <1>7, <1>8, <1>9, <1>10, <1>11, <1>12, <1>13, <1>14,
        <1>15, <1>16, <1>17, <1>18, <1>19, <1>20, <1>21, <1>22, <1>23, <1>24, <1>25, <1>26,
        <1>27, <1>28, <1>29 DEF Next, StageStep

\* With DataSourceNone in the list, the network stage leaves a cached datasource.
LEMMA FoundKept == ASSUME BootInv, CachedInv, FoundInv, [Next]_vars PROVE FoundInv'
  <1> USE BootAssumption, SourceIids DEF BootInv, disk, process, world, history, Unlinked, InitStages, ModuleStages
  <1>1. ASSUME PurgeCache PROVE FoundInv'
    BY <1>1 DEF PurgeCache, TypeOK, ProcessInv, CacheInv, CachedInv, FoundInv, Forgotten, Stages, Trust, Cached, Cacheable,
        HasDatasource, Linked, Goto, At
  <1>2. ASSUME StopEarly PROVE FoundInv'
    BY <1>2 DEF StopEarly, TypeOK, ProcessInv, CacheInv, CachedInv, FoundInv, Forgotten, Stages, Trust, Cached, Cacheable,
        HasDatasource, Linked, EndStage, NextStage, At
  <1>3. ASSUME Proceed PROVE FoundInv'
    BY <1>3 DEF Proceed, TypeOK, ProcessInv, CacheInv, CachedInv, FoundInv, Forgotten, Stages, Trust, Cached, Cacheable,
        HasDatasource, Linked, Goto, At, ModuleStages
  <1>4. ASSUME FetchCached PROVE FoundInv'
    BY <1>4 DEF FetchCached, TypeOK, ProcessInv, CacheInv, CachedInv, FoundInv, Forgotten, Stages, Trust, Cached, Cacheable,
        HasDatasource, Linked, AfterFetch, EndStage, NextStage, Checked, CacheValid, Cached,
        Trust, InitStages
  <1>5. ASSUME FetchDropsLink PROVE FoundInv'
    BY <1>5 DEF FetchDropsLink, TypeOK, ProcessInv, CacheInv, CachedInv, FoundInv, Forgotten, Stages, Trust, Cached, Cacheable,
        HasDatasource, Linked, Goto, Checked, CacheValid, Cached, Trust
  <1>6. ASSUME FindSource PROVE FoundInv'
    BY <1>6 DEF FindSource, TypeOK, ProcessInv, CacheInv, CachedInv, FoundInv, Forgotten, Stages, Trust, Cached, Cacheable,
        HasDatasource, Linked, AfterFetch, EndStage, NextStage, MayFind, InitStages
  <1>7. ASSUME FindNothing PROVE FoundInv'
    BY <1>7 DEF FindNothing, NoneIsTried, TypeOK, ProcessInv, CacheInv, CachedInv, FoundInv, Forgotten, Stages, Trust, Cached, Cacheable,
        HasDatasource, Linked, Goto, EndStage, NextStage, InitStages
  <1>8. ASSUME ApplyWithoutDatasource PROVE FoundInv'
    BY <1>8 DEF ApplyWithoutDatasource, TypeOK, ProcessInv, CacheInv, CachedInv, FoundInv, Forgotten, Stages, Trust, Cached,
        Cacheable, HasDatasource, Linked, ApplyNetworkConfig, Rendered, NetSource, EndStage,
        NextStage
  <1>9. ASSUME Unlink PROVE FoundInv'
    BY <1>9 DEF Unlink, TypeOK, ProcessInv, CacheInv, CachedInv, FoundInv, Forgotten, Stages, Trust, Cached, Cacheable,
        HasDatasource, Linked, Goto
  <1>10. ASSUME Link PROVE FoundInv'
    BY <1>10 DEF Link, TypeOK, ProcessInv, CacheInv, CachedInv, FoundInv, Forgotten, Stages, Trust, Cached, Cacheable,
        HasDatasource, Linked, Goto
  <1>11. ASSUME WriteIid PROVE FoundInv'
    BY <1>11 DEF WriteIid, TypeOK, ProcessInv, CacheInv, CachedInv, FoundInv, Forgotten, Stages, Trust, Cached, Cacheable,
        HasDatasource, Linked, PreviousIid
  <1>12. ASSUME WriteRunIid PROVE FoundInv'
    BY <1>12 DEF WriteRunIid, TypeOK, ProcessInv, CacheInv, CachedInv, FoundInv, Forgotten, Stages, Trust, Cached, Cacheable,
        HasDatasource, Linked, Goto
  <1>13. ASSUME Cache PROVE FoundInv'
    BY <1>13 DEF Cache, TypeOK, ProcessInv, CacheInv, CachedInv, FoundInv, Forgotten, Stages, Trust, Cached, Cacheable,
        HasDatasource, Linked, WriteToCache, Marked, Goto
  <1>14. ASSUME ApplyNetwork PROVE FoundInv'
    BY <1>14 DEF ApplyNetwork, TypeOK, ProcessInv, CacheInv, CachedInv, FoundInv, Forgotten, Stages, Trust, Cached, Cacheable,
        HasDatasource, Linked, ApplyNetworkConfig, Rendered, NetSource, IsNew, PreviousIid,
        EndStage, NextStage, Goto
  <1>15. ASSUME Setup PROVE FoundInv'
    BY <1>15 DEF Setup, TypeOK, ProcessInv, CacheInv, CachedInv, FoundInv, Forgotten, Stages, Trust, Cached, Cacheable,
        HasDatasource, Linked, Goto
  <1>16. ASSUME ConsumeHasRun PROVE FoundInv'
    BY <1>16 DEF ConsumeHasRun, TypeOK, ProcessInv, CacheInv, CachedInv, FoundInv, Forgotten, Stages, Trust, Cached, Cacheable,
        HasDatasource, Linked, Goto
  <1>17. ASSUME ConsumeAcquire PROVE FoundInv'
    BY <1>17 DEF ConsumeAcquire, TypeOK, ProcessInv, CacheInv, CachedInv, FoundInv, Forgotten, Stages, Trust, Cached, Cacheable,
        HasDatasource, Linked, Goto
  <1>18. ASSUME ConsumeData PROVE FoundInv'
    BY <1>18 DEF ConsumeData, TypeOK, ProcessInv, CacheInv, CachedInv, FoundInv, Forgotten, Stages, Trust, Cached, Cacheable,
        HasDatasource, Linked, Goto
  <1>19. ASSUME Activate PROVE FoundInv'
    BY <1>19 DEF Activate, TypeOK, ProcessInv, CacheInv, CachedInv, FoundInv, Forgotten, Stages, Trust, Cached, Cacheable,
        HasDatasource, Linked, Goto
  <1>20. ASSUME Recache PROVE FoundInv'
    BY <1>20 DEF Recache, TypeOK, ProcessInv, CacheInv, CachedInv, FoundInv, Forgotten, Stages, Trust, Cached, Cacheable,
        HasDatasource, Linked, WriteToCache, Marked, Goto
  <1>21. ASSUME RunModules PROVE FoundInv'
    BY <1>21 DEF RunModules, TypeOK, ProcessInv, CacheInv, CachedInv, FoundInv, Forgotten, Stages, Trust, Cached, Cacheable,
        HasDatasource, Linked, EndStage, NextStage
  <1>22. ASSUME NetworkTimesOut PROVE FoundInv'
    BY <1>22 DEF NetworkTimesOut, TypeOK, ProcessInv, CacheInv, CachedInv, FoundInv, Forgotten, Stages, Trust, Cached, Cacheable,
        HasDatasource, Linked, At
  <1>23. ASSUME Fail PROVE FoundInv'
    BY <1>23 DEF Fail, TypeOK, ProcessInv, CacheInv, CachedInv, FoundInv, Forgotten, Stages, Trust, Cached, Cacheable,
        HasDatasource, Linked, EndStage, NextStage, Interrupted, At
  <1>24. ASSUME TearIid PROVE FoundInv'
    BY <1>24 DEF TearIid, TypeOK, ProcessInv, CacheInv, CachedInv, FoundInv, Forgotten, Stages, Trust, Cached, Cacheable,
        HasDatasource, Linked, EndStage, NextStage
  <1>25. ASSUME TearCache PROVE FoundInv'
    BY <1>25 DEF TearCache, TypeOK, ProcessInv, CacheInv, CachedInv, FoundInv, Forgotten, Stages, Trust, Cached, Cacheable,
        HasDatasource, Linked, EndStage, NextStage, Interrupted, Marked, At
  <1>26. ASSUME NEW m \in Machines, NEW mc \in ManualChoices, Reboot(m, mc) PROVE FoundInv'
    BY <1>26 DEF Reboot, TypeOK, ProcessInv, CacheInv, CachedInv, FoundInv, Forgotten, Stages, Trust, Cached, Cacheable,
        HasDatasource, Linked, At, Unrecorded
  <1>27. CASE UNCHANGED vars
    BY <1>27 DEF vars, TypeOK, ProcessInv, CacheInv, CachedInv, FoundInv, Forgotten, Stages, Trust, Cached, Cacheable,
        HasDatasource, Linked
  <1>28. ASSUME FetchRaises PROVE FoundInv'
    BY <1>28 DEF FetchRaises, TypeOK, ProcessInv, CacheInv, CachedInv, FoundInv, Forgotten, Stages, Trust, Cached, Cacheable,
        HasDatasource, Linked, EndStage, NextStage, Checked, CacheValid, Cached, Trust
  <1>29. ASSUME FindNone PROVE FoundInv'
    BY <1>29 DEF FindNone, TypeOK, ProcessInv, CacheInv, CachedInv, FoundInv, Forgotten, Stages, Trust, Cached, Cacheable,
        HasDatasource, Linked, AfterFetch, EndStage, NextStage, NoneIsTried, InitStages
  <1> QED
    BY <1>1, <1>2, <1>3, <1>4, <1>5, <1>6, <1>7, <1>8, <1>9, <1>10, <1>11, <1>12, <1>13, <1>14,
        <1>15, <1>16, <1>17, <1>18, <1>19, <1>20, <1>21, <1>22, <1>23, <1>24, <1>25, <1>26,
        <1>27, <1>28, <1>29 DEF Next, StageStep

\* DataSourceNone is at hand only after a search that found nothing else.
LEMMA SearchedKept == ASSUME BootInv, CachedInv, FoundInv, SearchedInv, [Next]_vars PROVE SearchedInv'
  <1> USE BootAssumption, SourceIids DEF BootInv, disk, process, world, history, Unlinked, InitStages, ModuleStages
  <1>1. ASSUME PurgeCache PROVE SearchedInv'
    BY <1>1 DEF PurgeCache, TypeOK, ProcessInv, CacheInv, CachedInv, FoundInv, SearchedInv, CheckedInv, Forgotten, Stages, Trust, Cached, Cacheable,
        HasDatasource, Linked, Goto, At
  <1>2. ASSUME StopEarly PROVE SearchedInv'
    BY <1>2 DEF StopEarly, TypeOK, ProcessInv, CacheInv, CachedInv, FoundInv, SearchedInv, CheckedInv, Forgotten, Stages, Trust, Cached, Cacheable,
        HasDatasource, Linked, EndStage, NextStage, At
  <1>3. ASSUME Proceed PROVE SearchedInv'
    BY <1>3 DEF Proceed, TypeOK, ProcessInv, CacheInv, CachedInv, FoundInv, SearchedInv, CheckedInv, Forgotten, Stages, Trust, Cached, Cacheable,
        HasDatasource, Linked, Goto, At, ModuleStages
  <1>4. ASSUME FetchCached PROVE SearchedInv'
    BY <1>4 DEF FetchCached, TypeOK, ProcessInv, CacheInv, CachedInv, FoundInv, SearchedInv, CheckedInv, Forgotten, Stages, Trust, Cached, Cacheable,
        HasDatasource, Linked, AfterFetch, EndStage, NextStage, Checked, CacheValid, Cached,
        Trust, InitStages
  <1>5. ASSUME FetchDropsLink PROVE SearchedInv'
    BY <1>5 DEF FetchDropsLink, TypeOK, ProcessInv, CacheInv, CachedInv, FoundInv, SearchedInv, CheckedInv, Forgotten, Stages, Trust, Cached, Cacheable,
        HasDatasource, Linked, Goto, Checked, CacheValid, Cached, Trust
  <1>6. ASSUME FindSource PROVE SearchedInv'
    BY <1>6 DEF FindSource, TypeOK, ProcessInv, CacheInv, CachedInv, FoundInv, SearchedInv, CheckedInv, Forgotten, Stages, Trust, Cached, Cacheable,
        HasDatasource, Linked, AfterFetch, EndStage, NextStage, MayFind, InitStages
  <1>7. ASSUME FindNothing PROVE SearchedInv'
    BY <1>7 DEF FindNothing, TypeOK, ProcessInv, CacheInv, CachedInv, FoundInv, SearchedInv, CheckedInv, Forgotten, Stages, Trust, Cached, Cacheable,
        HasDatasource, Linked, Goto, EndStage, NextStage, InitStages
  <1>8. ASSUME ApplyWithoutDatasource PROVE SearchedInv'
    BY <1>8 DEF ApplyWithoutDatasource, TypeOK, ProcessInv, CacheInv, CachedInv, FoundInv, SearchedInv, CheckedInv, Forgotten, Stages, Trust, Cached,
        Cacheable, HasDatasource, Linked, ApplyNetworkConfig, Rendered, NetSource, EndStage,
        NextStage
  <1>9. ASSUME Unlink PROVE SearchedInv'
    BY <1>9 DEF Unlink, TypeOK, ProcessInv, CacheInv, CachedInv, FoundInv, SearchedInv, CheckedInv, Forgotten, Stages, Trust, Cached, Cacheable,
        HasDatasource, Linked, Goto
  <1>10. ASSUME Link PROVE SearchedInv'
    BY <1>10 DEF Link, TypeOK, ProcessInv, CacheInv, CachedInv, FoundInv, SearchedInv, CheckedInv, Forgotten, Stages, Trust, Cached, Cacheable,
        HasDatasource, Linked, Goto
  <1>11. ASSUME WriteIid PROVE SearchedInv'
    BY <1>11 DEF WriteIid, TypeOK, ProcessInv, CacheInv, CachedInv, FoundInv, SearchedInv, CheckedInv, Forgotten, Stages, Trust, Cached, Cacheable,
        HasDatasource, Linked, PreviousIid
  <1>12. ASSUME WriteRunIid PROVE SearchedInv'
    BY <1>12 DEF WriteRunIid, TypeOK, ProcessInv, CacheInv, CachedInv, FoundInv, SearchedInv, CheckedInv, Forgotten, Stages, Trust, Cached, Cacheable,
        HasDatasource, Linked, Goto
  <1>13. ASSUME Cache PROVE SearchedInv'
    BY <1>13 DEF Cache, TypeOK, ProcessInv, CacheInv, CachedInv, FoundInv, SearchedInv, CheckedInv, Forgotten, Stages, Trust, Cached, Cacheable,
        HasDatasource, Linked, WriteToCache, Marked, Goto
  <1>14. ASSUME ApplyNetwork PROVE SearchedInv'
    BY <1>14 DEF ApplyNetwork, TypeOK, ProcessInv, CacheInv, CachedInv, FoundInv, SearchedInv, CheckedInv, Forgotten, Stages, Trust, Cached, Cacheable,
        HasDatasource, Linked, ApplyNetworkConfig, Rendered, NetSource, IsNew, PreviousIid,
        EndStage, NextStage, Goto
  <1>15. ASSUME Setup PROVE SearchedInv'
    BY <1>15 DEF Setup, TypeOK, ProcessInv, CacheInv, CachedInv, FoundInv, SearchedInv, CheckedInv, Forgotten, Stages, Trust, Cached, Cacheable,
        HasDatasource, Linked, Goto
  <1>16. ASSUME ConsumeHasRun PROVE SearchedInv'
    BY <1>16 DEF ConsumeHasRun, TypeOK, ProcessInv, CacheInv, CachedInv, FoundInv, SearchedInv, CheckedInv, Forgotten, Stages, Trust, Cached, Cacheable,
        HasDatasource, Linked, Goto
  <1>17. ASSUME ConsumeAcquire PROVE SearchedInv'
    BY <1>17 DEF ConsumeAcquire, TypeOK, ProcessInv, CacheInv, CachedInv, FoundInv, SearchedInv, CheckedInv, Forgotten, Stages, Trust, Cached, Cacheable,
        HasDatasource, Linked, Goto
  <1>18. ASSUME ConsumeData PROVE SearchedInv'
    BY <1>18 DEF ConsumeData, TypeOK, ProcessInv, CacheInv, CachedInv, FoundInv, SearchedInv, CheckedInv, Forgotten, Stages, Trust, Cached, Cacheable,
        HasDatasource, Linked, Goto
  <1>19. ASSUME Activate PROVE SearchedInv'
    BY <1>19 DEF Activate, TypeOK, ProcessInv, CacheInv, CachedInv, FoundInv, SearchedInv, CheckedInv, Forgotten, Stages, Trust, Cached, Cacheable,
        HasDatasource, Linked, Goto
  <1>20. ASSUME Recache PROVE SearchedInv'
    BY <1>20 DEF Recache, TypeOK, ProcessInv, CacheInv, CachedInv, FoundInv, SearchedInv, CheckedInv, Forgotten, Stages, Trust, Cached, Cacheable,
        HasDatasource, Linked, WriteToCache, Marked, Goto
  <1>21. ASSUME RunModules PROVE SearchedInv'
    BY <1>21 DEF RunModules, TypeOK, ProcessInv, CacheInv, CachedInv, FoundInv, SearchedInv, CheckedInv, Forgotten, Stages, Trust, Cached, Cacheable,
        HasDatasource, Linked, EndStage, NextStage
  <1>22. ASSUME NetworkTimesOut PROVE SearchedInv'
    BY <1>22 DEF NetworkTimesOut, TypeOK, ProcessInv, CacheInv, CachedInv, FoundInv, SearchedInv, CheckedInv, Forgotten, Stages, Trust, Cached, Cacheable,
        HasDatasource, Linked, At
  <1>23. ASSUME Fail PROVE SearchedInv'
    BY <1>23 DEF Fail, TypeOK, ProcessInv, CacheInv, CachedInv, FoundInv, SearchedInv, CheckedInv, Forgotten, Stages, Trust, Cached, Cacheable,
        HasDatasource, Linked, EndStage, NextStage, Interrupted, At
  <1>24. ASSUME TearIid PROVE SearchedInv'
    BY <1>24 DEF TearIid, TypeOK, ProcessInv, CacheInv, CachedInv, FoundInv, SearchedInv, CheckedInv, Forgotten, Stages, Trust, Cached, Cacheable,
        HasDatasource, Linked, EndStage, NextStage
  <1>25. ASSUME TearCache PROVE SearchedInv'
    BY <1>25 DEF TearCache, TypeOK, ProcessInv, CacheInv, CachedInv, FoundInv, SearchedInv, CheckedInv, Forgotten, Stages, Trust, Cached, Cacheable,
        HasDatasource, Linked, EndStage, NextStage, Interrupted, Marked, At
  <1>26. ASSUME NEW m \in Machines, NEW mc \in ManualChoices, Reboot(m, mc) PROVE SearchedInv'
    BY <1>26 DEF Reboot, TypeOK, ProcessInv, CacheInv, CachedInv, FoundInv, SearchedInv, CheckedInv, Forgotten, Stages, Trust, Cached, Cacheable,
        HasDatasource, Linked, At, Unrecorded
  <1>27. CASE UNCHANGED vars
    BY <1>27 DEF vars, TypeOK, ProcessInv, CacheInv, CachedInv, FoundInv, SearchedInv, CheckedInv, Forgotten, Stages, Trust, Cached, Cacheable,
        HasDatasource, Linked
  <1>28. ASSUME FetchRaises PROVE SearchedInv'
    BY <1>28 DEF FetchRaises, TypeOK, ProcessInv, CacheInv, CachedInv, FoundInv, SearchedInv, CheckedInv, Forgotten, Stages, Trust, Cached, Cacheable,
        HasDatasource, Linked, EndStage, NextStage, Checked, CacheValid, Cached, Trust
  <1>29. ASSUME FindNone PROVE SearchedInv'
    BY <1>29 DEF FindNone, TypeOK, ProcessInv, CacheInv, CachedInv, FoundInv, SearchedInv, CheckedInv, Forgotten, Stages, Trust, Cached, Cacheable,
        HasDatasource, Linked, AfterFetch, EndStage, NextStage, NoneIsTried, InitStages
  <1> QED
    BY <1>1, <1>2, <1>3, <1>4, <1>5, <1>6, <1>7, <1>8, <1>9, <1>10, <1>11, <1>12, <1>13, <1>14,
        <1>15, <1>16, <1>17, <1>18, <1>19, <1>20, <1>21, <1>22, <1>23, <1>24, <1>25, <1>26,
        <1>27, <1>28, <1>29 DEF Next, StageStep

\* Nothing takes the link of a marked instance away from it.
LEMMA KeptKept == ASSUME BootInv, CachedInv, KeptInv, [Next]_vars PROVE KeptInv'
  <1> USE BootAssumption, SourceIids DEF BootInv, disk, process, world, history, Unlinked, InitStages, ModuleStages
  <1>1. ASSUME PurgeCache PROVE KeptInv'
    BY <1>1 DEF PurgeCache, TypeOK, ProcessInv, CacheInv, CachedInv, KeptInv, Cacheable,
        HasDatasource, Linked, Goto, At
  <1>2. ASSUME StopEarly PROVE KeptInv'
    BY <1>2 DEF StopEarly, TypeOK, ProcessInv, CacheInv, CachedInv, KeptInv, Cacheable,
        HasDatasource, Linked, EndStage, NextStage, At
  <1>3. ASSUME Proceed PROVE KeptInv'
    BY <1>3 DEF Proceed, TypeOK, ProcessInv, CacheInv, CachedInv, KeptInv, Cacheable,
        HasDatasource, Linked, Goto, At, ModuleStages
  <1>4. ASSUME FetchCached PROVE KeptInv'
    BY <1>4 DEF FetchCached, TypeOK, ProcessInv, CacheInv, CachedInv, KeptInv, Cacheable,
        HasDatasource, Linked, AfterFetch, EndStage, NextStage, Checked, CacheValid, Cached,
        Trust, InitStages
  <1>5. ASSUME FetchDropsLink PROVE KeptInv'
    BY <1>5 DEF FetchDropsLink, TypeOK, ProcessInv, CacheInv, CachedInv, KeptInv, Cacheable,
        HasDatasource, Linked, Goto, Checked, CacheValid, Cached, Trust
  <1>6. ASSUME FindSource PROVE KeptInv'
    BY <1>6 DEF FindSource, TypeOK, ProcessInv, CacheInv, CachedInv, KeptInv, Cacheable,
        HasDatasource, Linked, AfterFetch, EndStage, NextStage, MayFind, InitStages
  <1>7. ASSUME FindNothing PROVE KeptInv'
    BY <1>7 DEF FindNothing, TypeOK, ProcessInv, CacheInv, CachedInv, KeptInv, Cacheable,
        HasDatasource, Linked, Goto, EndStage, NextStage, InitStages
  <1>8. ASSUME ApplyWithoutDatasource PROVE KeptInv'
    BY <1>8 DEF ApplyWithoutDatasource, TypeOK, ProcessInv, CacheInv, CachedInv, KeptInv,
        Cacheable, HasDatasource, Linked, ApplyNetworkConfig, Rendered, NetSource, EndStage,
        NextStage
  <1>9. ASSUME Unlink PROVE KeptInv'
    BY <1>9 DEF Unlink, TypeOK, ProcessInv, CacheInv, CachedInv, KeptInv, Cacheable,
        HasDatasource, Linked, Goto
  <1>10. ASSUME Link PROVE KeptInv'
    BY <1>10 DEF Link, TypeOK, ProcessInv, CacheInv, CachedInv, KeptInv, Cacheable,
        HasDatasource, Linked, Goto
  <1>11. ASSUME WriteIid PROVE KeptInv'
    BY <1>11 DEF WriteIid, TypeOK, ProcessInv, CacheInv, CachedInv, KeptInv, Cacheable,
        HasDatasource, Linked, PreviousIid
  <1>12. ASSUME WriteRunIid PROVE KeptInv'
    BY <1>12 DEF WriteRunIid, TypeOK, ProcessInv, CacheInv, CachedInv, KeptInv, Cacheable,
        HasDatasource, Linked, Goto
  <1>13. ASSUME Cache PROVE KeptInv'
    BY <1>13 DEF Cache, TypeOK, ProcessInv, CacheInv, CachedInv, KeptInv, Cacheable,
        HasDatasource, Linked, WriteToCache, Marked, Goto
  <1>14. ASSUME ApplyNetwork PROVE KeptInv'
    BY <1>14 DEF ApplyNetwork, TypeOK, ProcessInv, CacheInv, CachedInv, KeptInv, Cacheable,
        HasDatasource, Linked, ApplyNetworkConfig, Rendered, NetSource, IsNew, PreviousIid,
        EndStage, NextStage, Goto
  <1>15. ASSUME Setup PROVE KeptInv'
    BY <1>15 DEF Setup, TypeOK, ProcessInv, CacheInv, CachedInv, KeptInv, Cacheable,
        HasDatasource, Linked, Goto
  <1>16. ASSUME ConsumeHasRun PROVE KeptInv'
    BY <1>16 DEF ConsumeHasRun, TypeOK, ProcessInv, CacheInv, CachedInv, KeptInv, Cacheable,
        HasDatasource, Linked, Goto
  <1>17. ASSUME ConsumeAcquire PROVE KeptInv'
    BY <1>17 DEF ConsumeAcquire, TypeOK, ProcessInv, CacheInv, CachedInv, KeptInv, Cacheable,
        HasDatasource, Linked, Goto
  <1>18. ASSUME ConsumeData PROVE KeptInv'
    BY <1>18 DEF ConsumeData, TypeOK, ProcessInv, CacheInv, CachedInv, KeptInv, Cacheable,
        HasDatasource, Linked, Goto
  <1>19. ASSUME Activate PROVE KeptInv'
    BY <1>19 DEF Activate, TypeOK, ProcessInv, CacheInv, CachedInv, KeptInv, Cacheable,
        HasDatasource, Linked, Goto
  <1>20. ASSUME Recache PROVE KeptInv'
    BY <1>20 DEF Recache, TypeOK, ProcessInv, CacheInv, CachedInv, KeptInv, Cacheable,
        HasDatasource, Linked, WriteToCache, Marked, Goto
  <1>21. ASSUME RunModules PROVE KeptInv'
    BY <1>21 DEF RunModules, TypeOK, ProcessInv, CacheInv, CachedInv, KeptInv, Cacheable,
        HasDatasource, Linked, EndStage, NextStage
  <1>22. ASSUME NetworkTimesOut PROVE KeptInv'
    BY <1>22 DEF NetworkTimesOut, TypeOK, ProcessInv, CacheInv, CachedInv, KeptInv, Cacheable,
        HasDatasource, Linked, At
  <1>23. ASSUME Fail PROVE KeptInv'
    BY <1>23 DEF Fail, TypeOK, ProcessInv, CacheInv, CachedInv, KeptInv, Cacheable,
        HasDatasource, Linked, EndStage, NextStage, Interrupted, At
  <1>24. ASSUME TearIid PROVE KeptInv'
    BY <1>24 DEF TearIid, TypeOK, ProcessInv, CacheInv, CachedInv, KeptInv, Cacheable,
        HasDatasource, Linked, EndStage, NextStage
  <1>25. ASSUME TearCache PROVE KeptInv'
    BY <1>25 DEF TearCache, TypeOK, ProcessInv, CacheInv, CachedInv, KeptInv, Cacheable,
        HasDatasource, Linked, EndStage, NextStage, Interrupted, Marked, At
  <1>26. ASSUME NEW m \in Machines, NEW mc \in ManualChoices, Reboot(m, mc) PROVE KeptInv'
    BY <1>26 DEF Reboot, TypeOK, ProcessInv, CacheInv, CachedInv, KeptInv, Cacheable,
        HasDatasource, Linked, At, Unrecorded
  <1>27. CASE UNCHANGED vars
    BY <1>27 DEF vars, TypeOK, ProcessInv, CacheInv, CachedInv, KeptInv, Cacheable,
        HasDatasource, Linked
  <1>28. ASSUME FetchRaises PROVE KeptInv'
    BY <1>28 DEF FetchRaises, TypeOK, ProcessInv, CacheInv, CachedInv, KeptInv, Cacheable,
        HasDatasource, Linked, EndStage, NextStage, Checked, CacheValid, Cached, Trust
  <1>29. ASSUME FindNone PROVE KeptInv'
    BY <1>29 DEF FindNone, TypeOK, ProcessInv, CacheInv, CachedInv, KeptInv, Cacheable,
        HasDatasource, Linked, AfterFetch, EndStage, NextStage, NoneIsTried, InitStages
  <1> QED
    BY <1>1, <1>2, <1>3, <1>4, <1>5, <1>6, <1>7, <1>8, <1>9, <1>10, <1>11, <1>12, <1>13, <1>14,
        <1>15, <1>16, <1>17, <1>18, <1>19, <1>20, <1>21, <1>22, <1>23, <1>24, <1>25, <1>26,
        <1>27, <1>28, <1>29 DEF Next, StageStep

LEMMA InitMore == ASSUME Init PROVE BootMoreInv
  BY DEF Init, BootMoreInv, ActivatedInv, RenderedInv, CachedInv, SeenInv, KeptInv, Recorded,
         FoundInv, SearchedInv, Unlinked, Cacheable, HasDatasource, Linked, InitStages, ModuleStages, Cached

\* The boot stages keep all of it.
THEOREM BootMoreInvariant == Spec => []BootMoreInv
  <1>1. Init => BootMoreInv
    BY InitMore
  <1>2. BootInv /\ BootMoreInv /\ [Next]_vars => BootMoreInv'
    BY ActivatedKept, CachedKept, RenderedKept, FoundKept, SearchedKept, SeenKept, KeptKept DEF BootMoreInv
  <1> QED BY <1>1, <1>2, BootInvariant, PTL DEF Spec

\* Stages that trust the cache work for the instance they run on, once the local
\* stage of the boot has decided about it, or for DataSourceNone's where the search
\* of this boot, its failures or a forgotten source say why: for every set of
\* machines the image may have been on before.
THEOREM RightInstanceAlways == Spec => []RightInstance
  <1>1. BootInv /\ BootMoreInv => RightInstance
    BY SourceIids DEF BootInv, TypeOK, CheckedInv, BootMoreInv, SearchedInv, RightInstance
  <1> QED BY <1>1, BootInvariant, BootMoreInvariant, PTL

\* A stage that may use the network finds the config of its machine on disk, for every
\* set of machines and any loss of power that left no id without a config.
THEOREM NetworkIsOfThisMachineAlways == Spec => []NetworkIsOfThisMachine
  <1>1. ASSUME BootInv, BootMoreInv PROVE NetworkIsOfThisMachine
    <2> SUFFICES ASSUME ManualChoices = {FALSE}, checked, ~unrendered, pc = "setup",
                        SystemNetwork # "disabled", ds # NoneSource
                 PROVE  net # None /\ net.iid = machine.iid
      BY DEF NetworkIsOfThisMachine
    <2>1. ds \in Sources /\ ds.iid = machine.iid /\ ds.iid # NoneIid
      BY <1>1, SourceIids DEF BootInv, TypeOK, ProcessInv, HasDatasource, CheckedInv
    <2>2. iidFile = ds.iid
      BY <1>1 DEF BootMoreInv, ActivatedInv, Recorded
    <2>3. iidFile \notin {None, NoneIid}
      BY <2>1, <2>2, SourceIids
    <2> QED BY <1>1, <2>1, <2>2, <2>3 DEF BootMoreInv, RenderedInv
  <1> QED BY <1>1, BootInvariant, BootMoreInvariant, PTL

\* No datasource is told twice that its instance is new, but after a torn instance-id.
THEOREM NewOnlyOnceAlways == Spec => []NewOnlyOnce
  <1>1. ASSUME BootInv, BootMoreInv PROVE NewOnlyOnce
    <2> SUFFICES ASSUME pc = "activate", ~torn, IsNew PROVE ds.iid \notin activated
      BY DEF NewOnlyOnce
    <2>1. prev # Unread /\ ds.iid \in Iids
      BY <1>1, SourceIids DEF BootInv, TypeOK, ProcessInv, HasDatasource, BootMoreInv, ActivatedInv, Recorded
    <2>2. prev # ds.iid
      BY <2>1, BootAssumption DEF IsNew, PreviousIid
    <2> QED BY <1>1, <2>2 DEF BootMoreInv, ActivatedInv, Recorded
  <1> QED BY <1>1, BootInvariant, BootMoreInvariant, PTL

\* In a boot without failures the late stages' modules find their cloud-config.
THEOREM ModulesSeeCloudConfigAlways == Spec => []ModulesSeeCloudConfig
  <1>1. ASSUME BootInv, BootMoreInv PROVE ModulesSeeCloudConfig
    <2> SUFFICES ASSUME stage \in ModuleStages, pc = "modules", ~failed, ~noNet, ~Forgotten, checked
                 PROVE  ds.iid \in ccFile
      BY DEF ModulesSeeCloudConfig
    <2>1. ds \in Sources /\ ds.iid \in Iids
      BY <1>1, SourceIids DEF BootInv, TypeOK, ProcessInv, HasDatasource
    <2>2. CASE Unlinked
      BY <1>1, <2>2, SourceIids DEF BootMoreInv, FoundInv, Unlinked, Cached
    <2>3. CASE ~Unlinked
      <3>1. link = ds.iid /\ pkl[link] = ds
        BY <1>1, <2>3 DEF BootInv, ProcessInv, HasDatasource, Linked, BootMoreInv, CachedInv, Cacheable
      <3>2. Cached # None
        BY <2>1, <3>1, SourceIids DEF Cached
      <3> QED BY <1>1, <2>1, <3>1, <3>2 DEF BootMoreInv, SeenInv
    <2> QED BY <2>2, <2>3
  <1> QED BY <1>1, BootInvariant, BootMoreInvariant, PTL

\* An image with the marker keeps its instance, however often the configuration that
\* asked for it is edited and wherever it boots.
THEOREM KeptInstanceAlways == Spec => []KeptInstance
  <1>1. BootInv /\ BootMoreInv => KeptInstance
    BY SourceIids DEF BootInv, TypeOK, BootMoreInv, KeptInv, KeptInstance, Unlinked
  <1> QED BY <1>1, BootInvariant, BootMoreInvariant, PTL
=============================================================================
