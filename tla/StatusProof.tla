---------------------------- MODULE StatusProof ----------------------------
(***************************************************************************)
(* What TLAPS proves of status_wrapper, for any number of processes and    *)
(* boots: the types; that a linked result.json is of this boot, whatever   *)
(* runs at the same time; and of serial runs, that a stage is visible      *)
(* while it runs, that no stage dies of its own bookkeeping, and that the  *)
(* result has exactly the errors that were returned.  StatusInv is the     *)
(* inductive invariant: the links are gone before the files they lead to,  *)
(* and the status a process carries agrees with what has happened.         *)
(***************************************************************************)
EXTENDS Status, TLAPS

LEMMA NullStatusType == NullStatus \in StatusFiles /\ Errors(NullStatus) = {}
  <1>1. [start |-> 0, finished |-> FALSE, errors |-> FALSE] \in Entries
    BY StatusAssumption DEF Entries
  <1>2. [m \in Modes |-> [start |-> 0, finished |-> FALSE, errors |-> FALSE]] \in [Modes -> Entries]
    BY <1>1
  <1>3. NullStatus \in StatusFiles
    BY <1>2 DEF NullStatus, StatusFiles
  <1>4. Errors(NullStatus) = {}
    BY DEF NullStatus, Errors
  <1> QED BY <1>3, <1>4

\* The start of a stage changes its entry only, and no errors.
LEMMA StartedFacts ==
  ASSUME TypeOK, NEW s \in StatusFiles, NEW m \in Modes
  PROVE /\ Started(s, m) \in StatusFiles
        /\ Started(s, m).stage = m /\ ~Started(s, m).of[m].finished
        /\ Errors(Started(s, m)) = Errors(s)
  <1> DEFINE e == [s.of[m] EXCEPT !.start = boot, !.finished = FALSE]
             f == [s.of EXCEPT ![m] = e]
  <1>1. s.of \in [Modes -> Entries] /\ boot \in 0..MaxBoots
    BY StatusAssumption DEF StatusFiles, TypeOK
  <1>2. e \in Entries /\ ~e.finished /\ e.errors = s.of[m].errors
    BY <1>1 DEF Entries
  <1>3. f \in [Modes -> Entries] /\ \A n \in Modes : f[n].errors = s.of[n].errors
    BY <1>1, <1>2
  <1>4. Started(s, m) = [stage |-> m, of |-> f]
    BY DEF Started
  <1> HIDE DEF f
  <1>5. Started(s, m) \in StatusFiles /\ Started(s, m).stage = m
    BY <1>3, <1>4 DEF StatusFiles
  <1>6. ~Started(s, m).of[m].finished
    BY <1>1, <1>2, <1>4 DEF f
  <1>7. Errors(Started(s, m)) = Errors(s)
    BY <1>3, <1>4 DEF Errors
  <1> QED BY <1>5, <1>6, <1>7

\* The end of a stage changes its entry only, and its errors as it says.
LEMMA EndedFacts ==
  ASSUME NEW s \in StatusFiles, NEW m \in Modes, NEW err \in BOOLEAN
  PROVE /\ Ended(s, m, err) \in StatusFiles
        /\ Errors(Ended(s, m, err)) \ {m} = Errors(s) \ {m}
  <1> DEFINE t == Ended(s, m, err)
             e == [s.of[m] EXCEPT !.finished = TRUE, !.errors = err]
             f == [s.of EXCEPT ![m] = e]
  <1>1. s.of \in [Modes -> Entries]
    BY DEF StatusFiles
  <1>2. e \in Entries
    BY <1>1 DEF Entries
  <1>3. f \in [Modes -> Entries] /\ \A n \in Modes \ {m} : f[n] = s.of[n]
    BY <1>1, <1>2
  <1>4. t = [stage |-> None, of |-> f]
    BY DEF Ended
  <1> HIDE DEF f, t
  <1>5. t \in StatusFiles
    BY <1>3, <1>4 DEF StatusFiles
  <1>6. Errors(t) \ {m} = Errors(s) \ {m}
    BY <1>3, <1>4 DEF Errors
  <1> QED BY <1>5, <1>6 DEF t

LEMMA InitInv == ASSUME Init PROVE StatusInv
  <1>1. TypeOK
    <2>1. pc \in [Procs -> PCs] /\ mode \in [Procs -> Accepted \cup {None}]
          /\ mine \in [Procs -> StatusFiles \cup {None}]
      BY DEF Init, PCs
    <2>2. boot \in 1..MaxBoots /\ over \subseteq Modes /\ failed \subseteq Modes
      BY StatusAssumption DEF Init
    <2> QED BY <2>1, <2>2 DEF Init, TypeOK
  <1>2. ProcessInv /\ ResultInv
    BY DEF Init, ProcessInv, ResultInv, ResultIsOfThisBoot, WithStatus
  <1>3. LinksInv /\ ErrorsInv
    BY DEF Init, LinksInv, LinksOf, ErrorsInv, ErrorsOf, Agree
  <1> QED BY <1>1, <1>2, <1>3 DEF StatusInv, SerialInv

\* A step of a process leaves the others where they are; in a serial run there
\* are no others.
LEMMA Alone ==
  ASSUME LinksInv, NEW p \in Procs, pc[p] # "idle", NEW q \in Procs, q # p
  PROVE pc[q] = "idle"
  BY DEF LinksInv

LEMMA RemoveInv == ASSUME StatusInv, NEW p \in Procs, Remove(p) PROVE StatusInv'
  <1> USE StatusAssumption DEF files, history
  <1>1. TypeOK'
    <2>1. status' \in StatusFiles \cup {None} /\ result' \in ResultFiles \cup {None}
      BY SMTT(30) DEF Remove, Goto, StatusInv, TypeOK, ProcessInv, WithStatus
    <2>2. boot' \in 1..MaxBoots
      BY DEF Remove, Goto, StatusInv, TypeOK
    <2>7. statusLink' \in BOOLEAN /\ resultLink' \in BOOLEAN /\ cleared' \in BOOLEAN
      BY DEF Remove, Goto, StatusInv, TypeOK
    <2>3. over' \subseteq Modes /\ failed' \subseteq Modes
      BY SMTT(30) DEF Remove, Goto, StatusInv, TypeOK, ProcessInv, WithStatus
    <2>4. pc' \in [Procs -> PCs]
      BY SMTT(30) DEF Remove, Goto, StatusInv, TypeOK, PCs
    <2>5. mode' \in [Procs -> Accepted \cup {None}]
      BY SMTT(30) DEF Remove, Goto, StatusInv, TypeOK
    <2>6. mine' \in [Procs -> StatusFiles \cup {None}]
      BY SMTT(30) DEF Remove, Goto, StatusInv, TypeOK
    <2> QED BY <2>1, <2>2, <2>3, <2>4, <2>5, <2>6, <2>7 DEF TypeOK
  <1>2. ProcessInv'
    BY SMTT(30) DEF Remove, Goto, StatusInv, TypeOK, ProcessInv, WithStatus
  <1>3. ResultInv'
    BY SMTT(30) DEF Remove, Goto, StatusInv, TypeOK, ResultInv, ResultIsOfThisBoot
  <1>s. ASSUME Serial, NEW q \in Procs, q # p PROVE pc'[q] = "idle"
    BY <1>s, Alone DEF Remove, Goto, StatusInv, SerialInv, TypeOK
  <1>4. ASSUME Serial PROVE LinksInv'
    <2>1. (statusLink => status # None)' /\ (resultLink => result # None)'
      BY <1>4, SMTT(30) DEF Remove, Goto, StatusInv, SerialInv, TypeOK, ProcessInv, WithStatus, LinksInv, LinksOf
    <2>2. LinksOf(p)'
      BY <1>4, SMTT(30) DEF Remove, Goto, StatusInv, SerialInv, TypeOK, ProcessInv, WithStatus, LinksInv, LinksOf
    <2>3. \A q \in Procs : LinksOf(q)'
      BY <2>2, <1>s, <1>4 DEF LinksOf
    <2> QED BY <2>1, <2>3, <1>s, <1>4 DEF LinksInv
  <1>5. ASSUME Serial PROVE ErrorsInv'
    <2>1. (status # None => Agree(status, None))' /\ (status = None => failed = {})'
      BY <1>5, SMTT(30) DEF Remove, Goto, StatusInv, SerialInv, TypeOK, ProcessInv, WithStatus, LinksInv, LinksOf, ErrorsInv, ErrorsOf, Agree
    <2>2. ErrorsOf(p)'
      BY <1>5, SMTT(30) DEF Remove, Goto, StatusInv, SerialInv, TypeOK, ProcessInv, WithStatus, ErrorsInv, ErrorsOf, Agree
    <2>3. \A q \in Procs : ErrorsOf(q)'
      BY <2>2, <1>s, <1>5 DEF ErrorsOf
    <2> QED BY <2>1, <2>3 DEF ErrorsInv
  <1>6. SerialInv'
    BY <1>4, <1>5 DEF SerialInv
  <1> QED BY <1>1, <1>2, <1>3, <1>6 DEF StatusInv

LEMMA LoadInv == ASSUME StatusInv, NEW p \in Procs, Load(p) PROVE StatusInv'
  <1> USE StatusAssumption DEF files, history
  <1> DEFINE s == IF mode[p] = "init-local" \/ status = None THEN NullStatus ELSE status
             t == Started(s, mode[p])
  <1>a. s \in StatusFiles /\ mode[p] \in Modes
    BY NullStatusType DEF Load, StatusInv, TypeOK
  <1>b. /\ t \in StatusFiles /\ t.stage = mode[p] /\ ~t.of[mode[p]].finished
        /\ Errors(t) = Errors(s)
    BY <1>a, StartedFacts DEF StatusInv
  <1>c. mine' = [mine EXCEPT ![p] = t]
    BY DEF Load
  <1> HIDE DEF s, t
  <1>1. TypeOK'
    <2>1. status' \in StatusFiles \cup {None} /\ result' \in ResultFiles \cup {None}
      BY <1>a, <1>b, <1>c, SMTT(30) DEF Load, Goto, StatusInv, TypeOK, ProcessInv, WithStatus
    <2>2. boot' \in 1..MaxBoots
      BY DEF Load, Goto, StatusInv, TypeOK
    <2>7. statusLink' \in BOOLEAN /\ resultLink' \in BOOLEAN /\ cleared' \in BOOLEAN
      BY DEF Load, Goto, StatusInv, TypeOK
    <2>3. over' \subseteq Modes /\ failed' \subseteq Modes
      BY <1>a, <1>b, <1>c, SMTT(30) DEF Load, Goto, StatusInv, TypeOK, ProcessInv, WithStatus
    <2>4. pc' \in [Procs -> PCs]
      BY <1>a, <1>b, <1>c, SMTT(30) DEF Load, Goto, StatusInv, TypeOK, PCs
    <2>5. mode' \in [Procs -> Accepted \cup {None}]
      BY <1>a, <1>b, <1>c, SMTT(30) DEF Load, Goto, StatusInv, TypeOK
    <2>6. mine' \in [Procs -> StatusFiles \cup {None}]
      BY <1>a, <1>b, <1>c, SMTT(30) DEF Load, Goto, StatusInv, TypeOK
    <2> QED BY <2>1, <2>2, <2>3, <2>4, <2>5, <2>6, <2>7 DEF TypeOK
  <1>2. ProcessInv'
    BY <1>a, <1>b, <1>c, SMTT(30) DEF Load, Goto, StatusInv, TypeOK, ProcessInv, WithStatus
  <1>3. ResultInv'
    BY <1>a, <1>b, <1>c, SMTT(30) DEF Load, Goto, StatusInv, TypeOK, ResultInv, ResultIsOfThisBoot
  <1>s. ASSUME Serial, NEW q \in Procs, q # p PROVE pc'[q] = "idle"
    BY <1>s, Alone DEF Load, Goto, StatusInv, SerialInv, TypeOK
  <1>4. ASSUME Serial PROVE LinksInv'
    <2>1. (statusLink => status # None)' /\ (resultLink => result # None)'
      BY <1>a, <1>b, <1>c, <1>4, SMTT(30) DEF Load, Goto, StatusInv, SerialInv, TypeOK, ProcessInv, WithStatus, LinksInv, LinksOf
    <2>2. LinksOf(p)'
      BY <1>a, <1>b, <1>c, <1>4, SMTT(30) DEF Load, Goto, StatusInv, SerialInv, TypeOK, ProcessInv, WithStatus, LinksInv, LinksOf
    <2>3. \A q \in Procs : LinksOf(q)'
      BY <2>2, <1>s, <1>4 DEF LinksOf
    <2> QED BY <2>1, <2>3, <1>s, <1>4 DEF LinksInv
  <1>5. ASSUME Serial PROVE ErrorsInv'
    <2>1. (status # None => Agree(status, None))' /\ (status = None => failed = {})'
      BY <1>a, <1>b, <1>c, <1>5, SMTT(30) DEF Load, Goto, StatusInv, SerialInv, TypeOK, ProcessInv, WithStatus, LinksInv, LinksOf, ErrorsInv, ErrorsOf, Agree, s, t
    <2>2. ErrorsOf(p)'
      BY <1>a, <1>b, <1>c, NullStatusType, <1>5, SMTT(30) DEF Load, Goto, StatusInv, SerialInv, TypeOK, ProcessInv, WithStatus, ErrorsInv, ErrorsOf, Agree, s, t
    <2>3. \A q \in Procs : ErrorsOf(q)'
      BY <2>2, <1>s, <1>5 DEF ErrorsOf
    <2> QED BY <2>1, <2>3 DEF ErrorsInv
  <1>6. SerialInv'
    BY <1>4, <1>5 DEF SerialInv
  <1> QED BY <1>1, <1>2, <1>3, <1>6 DEF StatusInv

LEMMA UnknownModeInv == ASSUME StatusInv, NEW p \in Procs, UnknownMode(p) PROVE StatusInv'
  <1> USE StatusAssumption DEF files, history
  <1>1. TypeOK'
    <2>1. status' \in StatusFiles \cup {None} /\ result' \in ResultFiles \cup {None}
      BY SMTT(30) DEF UnknownMode, Raise, Goto, StatusInv, TypeOK, ProcessInv, WithStatus
    <2>2. boot' \in 1..MaxBoots
      BY DEF UnknownMode, Raise, Goto, StatusInv, TypeOK
    <2>7. statusLink' \in BOOLEAN /\ resultLink' \in BOOLEAN /\ cleared' \in BOOLEAN
      BY DEF UnknownMode, Raise, Goto, StatusInv, TypeOK
    <2>3. over' \subseteq Modes /\ failed' \subseteq Modes
      BY SMTT(30) DEF UnknownMode, Raise, Goto, StatusInv, TypeOK, ProcessInv, WithStatus
    <2>4. pc' \in [Procs -> PCs]
      BY SMTT(30) DEF UnknownMode, Raise, Goto, StatusInv, TypeOK, PCs
    <2>5. mode' \in [Procs -> Accepted \cup {None}]
      BY SMTT(30) DEF UnknownMode, Raise, Goto, StatusInv, TypeOK
    <2>6. mine' \in [Procs -> StatusFiles \cup {None}]
      BY SMTT(30) DEF UnknownMode, Raise, Goto, StatusInv, TypeOK
    <2> QED BY <2>1, <2>2, <2>3, <2>4, <2>5, <2>6, <2>7 DEF TypeOK
  <1>2. ProcessInv'
    BY SMTT(30) DEF UnknownMode, Raise, Goto, StatusInv, TypeOK, ProcessInv, WithStatus
  <1>3. ResultInv'
    BY SMTT(30) DEF UnknownMode, Raise, Goto, StatusInv, TypeOK, ResultInv, ResultIsOfThisBoot
  <1>s. ASSUME Serial, NEW q \in Procs, q # p PROVE pc'[q] = "idle"
    BY <1>s, Alone DEF UnknownMode, Raise, Goto, StatusInv, SerialInv, TypeOK
  <1>4. ASSUME Serial PROVE LinksInv'
    <2>1. (statusLink => status # None)' /\ (resultLink => result # None)'
      BY <1>4, SMTT(30) DEF UnknownMode, Raise, Goto, StatusInv, SerialInv, TypeOK, ProcessInv, WithStatus, LinksInv, LinksOf
    <2>2. LinksOf(p)'
      BY <1>4, SMTT(30) DEF UnknownMode, Raise, Goto, StatusInv, SerialInv, TypeOK, ProcessInv, WithStatus, LinksInv, LinksOf
    <2>3. \A q \in Procs : LinksOf(q)'
      BY <2>2, <1>s, <1>4 DEF LinksOf
    <2> QED BY <2>1, <2>3, <1>s, <1>4 DEF LinksInv
  <1>5. ASSUME Serial PROVE ErrorsInv'
    <2>1. (status # None => Agree(status, None))' /\ (status = None => failed = {})'
      BY <1>5, SMTT(30) DEF UnknownMode, Raise, Goto, StatusInv, SerialInv, TypeOK, ProcessInv, WithStatus, LinksInv, LinksOf, ErrorsInv, ErrorsOf, Agree
    <2>2. ErrorsOf(p)'
      BY <1>5, SMTT(30) DEF UnknownMode, Raise, Goto, StatusInv, SerialInv, TypeOK, ProcessInv, WithStatus, ErrorsInv, ErrorsOf, Agree
    <2>3. \A q \in Procs : ErrorsOf(q)'
      BY <2>2, <1>s, <1>5 DEF ErrorsOf
    <2> QED BY <2>1, <2>3 DEF ErrorsInv
  <1>6. SerialInv'
    BY <1>4, <1>5 DEF SerialInv
  <1> QED BY <1>1, <1>2, <1>3, <1>6 DEF StatusInv

LEMMA WriteStartInv == ASSUME StatusInv, NEW p \in Procs, WriteStart(p) PROVE StatusInv'
  <1> USE StatusAssumption DEF files, history
  <1>1. TypeOK'
    <2>1. status' \in StatusFiles \cup {None} /\ result' \in ResultFiles \cup {None}
      BY SMTT(30) DEF WriteStart, Goto, StatusInv, TypeOK, ProcessInv, WithStatus
    <2>2. boot' \in 1..MaxBoots
      BY DEF WriteStart, Goto, StatusInv, TypeOK
    <2>7. statusLink' \in BOOLEAN /\ resultLink' \in BOOLEAN /\ cleared' \in BOOLEAN
      BY DEF WriteStart, Goto, StatusInv, TypeOK
    <2>3. over' \subseteq Modes /\ failed' \subseteq Modes
      BY SMTT(30) DEF WriteStart, Goto, StatusInv, TypeOK, ProcessInv, WithStatus
    <2>4. pc' \in [Procs -> PCs]
      BY SMTT(30) DEF WriteStart, Goto, StatusInv, TypeOK, PCs
    <2>5. mode' \in [Procs -> Accepted \cup {None}]
      BY SMTT(30) DEF WriteStart, Goto, StatusInv, TypeOK
    <2>6. mine' \in [Procs -> StatusFiles \cup {None}]
      BY SMTT(30) DEF WriteStart, Goto, StatusInv, TypeOK
    <2> QED BY <2>1, <2>2, <2>3, <2>4, <2>5, <2>6, <2>7 DEF TypeOK
  <1>2. ProcessInv'
    BY SMTT(30) DEF WriteStart, Goto, StatusInv, TypeOK, ProcessInv, WithStatus
  <1>3. ResultInv'
    BY SMTT(30) DEF WriteStart, Goto, StatusInv, TypeOK, ResultInv, ResultIsOfThisBoot
  <1>s. ASSUME Serial, NEW q \in Procs, q # p PROVE pc'[q] = "idle"
    BY <1>s, Alone DEF WriteStart, Goto, StatusInv, SerialInv, TypeOK
  <1>4. ASSUME Serial PROVE LinksInv'
    <2>1. (statusLink => status # None)' /\ (resultLink => result # None)'
      BY <1>4, SMTT(30) DEF WriteStart, Goto, StatusInv, SerialInv, TypeOK, ProcessInv, WithStatus, LinksInv, LinksOf
    <2>2. LinksOf(p)'
      BY <1>4, SMTT(30) DEF WriteStart, Goto, StatusInv, SerialInv, TypeOK, ProcessInv, WithStatus, LinksInv, LinksOf
    <2>3. \A q \in Procs : LinksOf(q)'
      BY <2>2, <1>s, <1>4 DEF LinksOf
    <2> QED BY <2>1, <2>3, <1>s, <1>4 DEF LinksInv
  <1>5. ASSUME Serial PROVE ErrorsInv'
    <2>1. (status # None => Agree(status, None))' /\ (status = None => failed = {})'
      BY <1>5, SMTT(30) DEF WriteStart, Goto, StatusInv, SerialInv, TypeOK, ProcessInv, WithStatus, LinksInv, LinksOf, ErrorsInv, ErrorsOf, Agree
    <2>2. ErrorsOf(p)'
      BY <1>5, SMTT(30) DEF WriteStart, Goto, StatusInv, SerialInv, TypeOK, ProcessInv, WithStatus, ErrorsInv, ErrorsOf, Agree
    <2>3. \A q \in Procs : ErrorsOf(q)'
      BY <2>2, <1>s, <1>5 DEF ErrorsOf
    <2> QED BY <2>1, <2>3 DEF ErrorsInv
  <1>6. SerialInv'
    BY <1>4, <1>5 DEF SerialInv
  <1> QED BY <1>1, <1>2, <1>3, <1>6 DEF StatusInv

LEMMA LinkStatusInv == ASSUME StatusInv, NEW p \in Procs, LinkStatus(p) PROVE StatusInv'
  <1> USE StatusAssumption DEF files, history
  <1>a. ASSUME Serial PROVE ~statusLink'
    <2>1. status # None
      BY <1>a DEF LinkStatus, StatusInv, SerialInv, LinksInv, LinksOf, ProcessInv, WithStatus
    <2> QED BY <2>1 DEF LinkStatus
  <1>1. TypeOK'
    <2>1. status' \in StatusFiles \cup {None} /\ result' \in ResultFiles \cup {None}
      BY <1>a, SMTT(30) DEF LinkStatus, Goto, StatusInv, TypeOK, ProcessInv, WithStatus
    <2>2. boot' \in 1..MaxBoots
      BY DEF LinkStatus, Goto, StatusInv, TypeOK
    <2>7. statusLink' \in BOOLEAN /\ resultLink' \in BOOLEAN /\ cleared' \in BOOLEAN
      BY DEF LinkStatus, Goto, StatusInv, TypeOK
    <2>3. over' \subseteq Modes /\ failed' \subseteq Modes
      BY <1>a, SMTT(30) DEF LinkStatus, Goto, StatusInv, TypeOK, ProcessInv, WithStatus
    <2>4. pc' \in [Procs -> PCs]
      BY <1>a, SMTT(30) DEF LinkStatus, Goto, StatusInv, TypeOK, PCs
    <2>5. mode' \in [Procs -> Accepted \cup {None}]
      BY <1>a, SMTT(30) DEF LinkStatus, Goto, StatusInv, TypeOK
    <2>6. mine' \in [Procs -> StatusFiles \cup {None}]
      BY <1>a, SMTT(30) DEF LinkStatus, Goto, StatusInv, TypeOK
    <2> QED BY <2>1, <2>2, <2>3, <2>4, <2>5, <2>6, <2>7 DEF TypeOK
  <1>2. ProcessInv'
    BY <1>a, SMTT(30) DEF LinkStatus, Goto, StatusInv, TypeOK, ProcessInv, WithStatus
  <1>3. ResultInv'
    BY <1>a, SMTT(30) DEF LinkStatus, Goto, StatusInv, TypeOK, ResultInv, ResultIsOfThisBoot
  <1>s. ASSUME Serial, NEW q \in Procs, q # p PROVE pc'[q] = "idle"
    BY <1>s, Alone DEF LinkStatus, Goto, StatusInv, SerialInv, TypeOK
  <1>4. ASSUME Serial PROVE LinksInv'
    <2>1. (statusLink => status # None)' /\ (resultLink => result # None)'
      BY <1>a, <1>4, SMTT(30) DEF LinkStatus, Goto, StatusInv, SerialInv, TypeOK, ProcessInv, WithStatus, LinksInv, LinksOf
    <2>2. LinksOf(p)'
      BY <1>a, <1>4, SMTT(30) DEF LinkStatus, Goto, StatusInv, SerialInv, TypeOK, ProcessInv, WithStatus, LinksInv, LinksOf
    <2>3. \A q \in Procs : LinksOf(q)'
      BY <2>2, <1>s, <1>4 DEF LinksOf
    <2> QED BY <2>1, <2>3, <1>s, <1>4 DEF LinksInv
  <1>5. ASSUME Serial PROVE ErrorsInv'
    <2>1. (status # None => Agree(status, None))' /\ (status = None => failed = {})'
      BY <1>a, <1>5, SMTT(30) DEF LinkStatus, Goto, StatusInv, SerialInv, TypeOK, ProcessInv, WithStatus, LinksInv, LinksOf, ErrorsInv, ErrorsOf, Agree
    <2>2. ErrorsOf(p)'
      BY <1>a, <1>5, SMTT(30) DEF LinkStatus, Goto, StatusInv, SerialInv, TypeOK, ProcessInv, WithStatus, ErrorsInv, ErrorsOf, Agree
    <2>3. \A q \in Procs : ErrorsOf(q)'
      BY <2>2, <1>s, <1>5 DEF ErrorsOf
    <2> QED BY <2>1, <2>3 DEF ErrorsInv
  <1>6. SerialInv'
    BY <1>4, <1>5 DEF SerialInv
  <1> QED BY <1>1, <1>2, <1>3, <1>6 DEF StatusInv

LEMMA SymlinkStatusInv == ASSUME StatusInv, NEW p \in Procs, SymlinkStatus(p) PROVE StatusInv'
  <1> USE StatusAssumption DEF files, history
  <1>1. TypeOK'
    <2>1. status' \in StatusFiles \cup {None} /\ result' \in ResultFiles \cup {None}
      BY SMTT(30) DEF SymlinkStatus, Goto, Raise, StatusInv, TypeOK, ProcessInv, WithStatus
    <2>2. boot' \in 1..MaxBoots
      BY DEF SymlinkStatus, Goto, Raise, StatusInv, TypeOK
    <2>7. statusLink' \in BOOLEAN /\ resultLink' \in BOOLEAN /\ cleared' \in BOOLEAN
      BY DEF SymlinkStatus, Goto, Raise, StatusInv, TypeOK
    <2>3. over' \subseteq Modes /\ failed' \subseteq Modes
      BY SMTT(30) DEF SymlinkStatus, Goto, Raise, StatusInv, TypeOK, ProcessInv, WithStatus
    <2>4. pc' \in [Procs -> PCs]
      BY SMTT(30) DEF SymlinkStatus, Goto, Raise, StatusInv, TypeOK, PCs
    <2>5. mode' \in [Procs -> Accepted \cup {None}]
      BY SMTT(30) DEF SymlinkStatus, Goto, Raise, StatusInv, TypeOK
    <2>6. mine' \in [Procs -> StatusFiles \cup {None}]
      BY SMTT(30) DEF SymlinkStatus, Goto, Raise, StatusInv, TypeOK
    <2> QED BY <2>1, <2>2, <2>3, <2>4, <2>5, <2>6, <2>7 DEF TypeOK
  <1>2. ProcessInv'
    BY SMTT(30) DEF SymlinkStatus, Goto, Raise, StatusInv, TypeOK, ProcessInv, WithStatus
  <1>3. ResultInv'
    BY SMTT(30) DEF SymlinkStatus, Goto, Raise, StatusInv, TypeOK, ResultInv, ResultIsOfThisBoot
  <1>s. ASSUME Serial, NEW q \in Procs, q # p PROVE pc'[q] = "idle"
    BY <1>s, Alone DEF SymlinkStatus, Goto, Raise, StatusInv, SerialInv, TypeOK
  <1>4. ASSUME Serial PROVE LinksInv'
    <2>1. (statusLink => status # None)' /\ (resultLink => result # None)'
      BY <1>4, SMTT(30) DEF SymlinkStatus, Goto, Raise, StatusInv, SerialInv, TypeOK, ProcessInv, WithStatus, LinksInv, LinksOf
    <2>2. LinksOf(p)'
      BY <1>4, SMTT(30) DEF SymlinkStatus, Goto, Raise, StatusInv, SerialInv, TypeOK, ProcessInv, WithStatus, LinksInv, LinksOf
    <2>3. \A q \in Procs : LinksOf(q)'
      BY <2>2, <1>s, <1>4 DEF LinksOf
    <2> QED BY <2>1, <2>3, <1>s, <1>4 DEF LinksInv
  <1>5. ASSUME Serial PROVE ErrorsInv'
    <2>1. (status # None => Agree(status, None))' /\ (status = None => failed = {})'
      BY <1>5, SMTT(30) DEF SymlinkStatus, Goto, Raise, StatusInv, SerialInv, TypeOK, ProcessInv, WithStatus, LinksInv, LinksOf, ErrorsInv, ErrorsOf, Agree
    <2>2. ErrorsOf(p)'
      BY <1>5, SMTT(30) DEF SymlinkStatus, Goto, Raise, StatusInv, SerialInv, TypeOK, ProcessInv, WithStatus, ErrorsInv, ErrorsOf, Agree
    <2>3. \A q \in Procs : ErrorsOf(q)'
      BY <2>2, <1>s, <1>5 DEF ErrorsOf
    <2> QED BY <2>1, <2>3 DEF ErrorsInv
  <1>6. SerialInv'
    BY <1>4, <1>5 DEF SerialInv
  <1> QED BY <1>1, <1>2, <1>3, <1>6 DEF StatusInv

LEMMA FunctorReturnsInv == ASSUME StatusInv, NEW p \in Procs, FunctorReturns(p) PROVE StatusInv'
  <1> USE StatusAssumption DEF files, history
  <1>a. PICK err \in BOOLEAN : mine' = [mine EXCEPT ![p] = Ended(mine[p], mode[p], err)]
    BY DEF FunctorReturns
  <1> DEFINE t == Ended(mine[p], mode[p], err)
  <1>b. mine' = [mine EXCEPT ![p] = t] /\ mine[p] \in StatusFiles /\ mode[p] \in Modes
    BY <1>a DEF FunctorReturns, StatusInv, TypeOK, ProcessInv, WithStatus
  <1>c. t \in StatusFiles /\ Errors(t) \ {mode[p]} = Errors(mine[p]) \ {mode[p]}
    BY <1>b, EndedFacts
  <1>d. ASSUME Serial PROVE /\ failed \ {mode[p]} \subseteq Errors(t)
                            /\ cleared => Errors(t) \subseteq failed \cup {mode[p]}
    <2>1. Agree(mine[p], None) /\ failed \subseteq Modes /\ None \notin Modes
      BY <1>d DEF FunctorReturns, StatusInv, SerialInv, ErrorsInv, ErrorsOf, TypeOK, Accepted
    <2>2. Errors(mine[p]) \subseteq Modes
      BY DEF Errors
    <2>3. failed \subseteq Errors(mine[p]) /\ (cleared => Errors(mine[p]) \subseteq failed)
      BY <2>1, <2>2 DEF Agree
    <2> HIDE DEF t
    <2> QED BY <2>3, <1>c
  <1> HIDE DEF t
  <1>1. TypeOK'
    <2>1. status' \in StatusFiles \cup {None} /\ result' \in ResultFiles \cup {None}
      BY <1>b, <1>c, <1>d, SMTT(30) DEF FunctorReturns, Goto, StatusInv, TypeOK, ProcessInv, WithStatus
    <2>2. boot' \in 1..MaxBoots
      BY DEF FunctorReturns, Goto, StatusInv, TypeOK
    <2>7. statusLink' \in BOOLEAN /\ resultLink' \in BOOLEAN /\ cleared' \in BOOLEAN
      BY DEF FunctorReturns, Goto, StatusInv, TypeOK
    <2>3. over' \subseteq Modes /\ failed' \subseteq Modes
      BY <1>b, <1>c, <1>d, SMTT(30) DEF FunctorReturns, Goto, StatusInv, TypeOK, ProcessInv, WithStatus
    <2>4. pc' \in [Procs -> PCs]
      BY <1>b, <1>c, <1>d, SMTT(30) DEF FunctorReturns, Goto, StatusInv, TypeOK, PCs
    <2>5. mode' \in [Procs -> Accepted \cup {None}]
      BY <1>b, <1>c, <1>d, SMTT(30) DEF FunctorReturns, Goto, StatusInv, TypeOK
    <2>6. mine' \in [Procs -> StatusFiles \cup {None}]
      BY <1>b, <1>c, <1>d, SMTT(30) DEF FunctorReturns, Goto, StatusInv, TypeOK
    <2> QED BY <2>1, <2>2, <2>3, <2>4, <2>5, <2>6, <2>7 DEF TypeOK
  <1>2. ProcessInv'
    BY <1>b, <1>c, <1>d, SMTT(30) DEF FunctorReturns, Goto, StatusInv, TypeOK, ProcessInv, WithStatus
  <1>3. ResultInv'
    BY <1>b, <1>c, <1>d, SMTT(30) DEF FunctorReturns, Goto, StatusInv, TypeOK, ResultInv, ResultIsOfThisBoot
  <1>s. ASSUME Serial, NEW q \in Procs, q # p PROVE pc'[q] = "idle"
    BY <1>s, Alone DEF FunctorReturns, Goto, StatusInv, SerialInv, TypeOK
  <1>4. ASSUME Serial PROVE LinksInv'
    <2>1. (statusLink => status # None)' /\ (resultLink => result # None)'
      BY <1>b, <1>c, <1>d, <1>4, SMTT(30) DEF FunctorReturns, Goto, StatusInv, SerialInv, TypeOK, ProcessInv, WithStatus, LinksInv, LinksOf
    <2>2. LinksOf(p)'
      BY <1>b, <1>c, <1>d, <1>4, SMTT(30) DEF FunctorReturns, Goto, StatusInv, SerialInv, TypeOK, ProcessInv, WithStatus, LinksInv, LinksOf
    <2>3. \A q \in Procs : LinksOf(q)'
      BY <2>2, <1>s, <1>4 DEF LinksOf
    <2> QED BY <2>1, <2>3, <1>s, <1>4 DEF LinksInv
  <1>5. ASSUME Serial PROVE ErrorsInv'
    <2>1. (status # None => Agree(status, None))' /\ (status = None => failed = {})'
      BY <1>b, <1>c, <1>d, <1>5, SMTT(30) DEF FunctorReturns, Goto, StatusInv, SerialInv, TypeOK, ProcessInv, WithStatus, LinksInv, LinksOf, ErrorsInv, ErrorsOf, Agree
    <2>2. ErrorsOf(p)'
      BY <1>b, <1>c, <1>d, <1>5, SMTT(30) DEF FunctorReturns, Goto, StatusInv, SerialInv, TypeOK, ProcessInv, WithStatus, ErrorsInv, ErrorsOf, Agree
    <2>3. \A q \in Procs : ErrorsOf(q)'
      BY <2>2, <1>s, <1>5 DEF ErrorsOf
    <2> QED BY <2>1, <2>3 DEF ErrorsInv
  <1>6. SerialInv'
    BY <1>4, <1>5 DEF SerialInv
  <1> QED BY <1>1, <1>2, <1>3, <1>6 DEF StatusInv

LEMMA WriteEndInv == ASSUME StatusInv, NEW p \in Procs, WriteEnd(p) PROVE StatusInv'
  <1> USE StatusAssumption DEF files, history
  <1>1. TypeOK'
    <2>1. status' \in StatusFiles \cup {None} /\ result' \in ResultFiles \cup {None}
      BY SMTT(30) DEF WriteEnd, Goto, Exit, StatusInv, TypeOK, ProcessInv, WithStatus
    <2>2. boot' \in 1..MaxBoots
      BY DEF WriteEnd, Goto, Exit, StatusInv, TypeOK
    <2>7. statusLink' \in BOOLEAN /\ resultLink' \in BOOLEAN /\ cleared' \in BOOLEAN
      BY DEF WriteEnd, Goto, Exit, StatusInv, TypeOK
    <2>3. over' \subseteq Modes /\ failed' \subseteq Modes
      BY SMTT(30) DEF WriteEnd, Goto, Exit, StatusInv, TypeOK, ProcessInv, WithStatus
    <2>4. pc' \in [Procs -> PCs]
      BY SMTT(30) DEF WriteEnd, Goto, Exit, StatusInv, TypeOK, PCs
    <2>5. mode' \in [Procs -> Accepted \cup {None}]
      BY SMTT(30) DEF WriteEnd, Goto, Exit, StatusInv, TypeOK
    <2>6. mine' \in [Procs -> StatusFiles \cup {None}]
      BY SMTT(30) DEF WriteEnd, Goto, Exit, StatusInv, TypeOK
    <2> QED BY <2>1, <2>2, <2>3, <2>4, <2>5, <2>6, <2>7 DEF TypeOK
  <1>2. ProcessInv'
    BY SMTT(30) DEF WriteEnd, Goto, Exit, StatusInv, TypeOK, ProcessInv, WithStatus
  <1>3. ResultInv'
    BY SMTT(30) DEF WriteEnd, Goto, Exit, StatusInv, TypeOK, ResultInv, ResultIsOfThisBoot
  <1>s. ASSUME Serial, NEW q \in Procs, q # p PROVE pc'[q] = "idle"
    BY <1>s, Alone DEF WriteEnd, Goto, Exit, StatusInv, SerialInv, TypeOK
  <1>4. ASSUME Serial PROVE LinksInv'
    <2>1. (statusLink => status # None)' /\ (resultLink => result # None)'
      BY <1>4, SMTT(30) DEF WriteEnd, Goto, Exit, StatusInv, SerialInv, TypeOK, ProcessInv, WithStatus, LinksInv, LinksOf
    <2>2. LinksOf(p)'
      BY <1>4, SMTT(30) DEF WriteEnd, Goto, Exit, StatusInv, SerialInv, TypeOK, ProcessInv, WithStatus, LinksInv, LinksOf
    <2>3. \A q \in Procs : LinksOf(q)'
      BY <2>2, <1>s, <1>4 DEF LinksOf
    <2> QED BY <2>1, <2>3, <1>s, <1>4 DEF LinksInv
  <1>5. ASSUME Serial PROVE ErrorsInv'
    <2>1. (status # None => Agree(status, None))' /\ (status = None => failed = {})'
      BY <1>5, SMTT(30) DEF WriteEnd, Goto, Exit, StatusInv, SerialInv, TypeOK, ProcessInv, WithStatus, LinksInv, LinksOf, ErrorsInv, ErrorsOf, Agree, Errors
    <2>2. ErrorsOf(p)'
      BY <1>5, SMTT(30) DEF WriteEnd, Goto, Exit, StatusInv, SerialInv, TypeOK, ProcessInv, WithStatus, ErrorsInv, ErrorsOf, Agree, Errors
    <2>3. \A q \in Procs : ErrorsOf(q)'
      BY <2>2, <1>s, <1>5 DEF ErrorsOf
    <2> QED BY <2>1, <2>3 DEF ErrorsInv
  <1>6. SerialInv'
    BY <1>4, <1>5 DEF SerialInv
  <1> QED BY <1>1, <1>2, <1>3, <1>6 DEF StatusInv

LEMMA WriteResultInv == ASSUME StatusInv, NEW p \in Procs, WriteResult(p) PROVE StatusInv'
  <1> USE StatusAssumption DEF files, history
  <1>a. [boot |-> boot, errors |-> Errors(mine[p])] \in ResultFiles
    BY DEF ResultFiles, Errors, StatusInv, TypeOK
  <1>1. TypeOK'
    <2>1. status' \in StatusFiles \cup {None} /\ result' \in ResultFiles \cup {None}
      BY <1>a, SMTT(30) DEF WriteResult, Goto, StatusInv, TypeOK, ProcessInv, WithStatus
    <2>2. boot' \in 1..MaxBoots
      BY DEF WriteResult, Goto, StatusInv, TypeOK
    <2>7. statusLink' \in BOOLEAN /\ resultLink' \in BOOLEAN /\ cleared' \in BOOLEAN
      BY DEF WriteResult, Goto, StatusInv, TypeOK
    <2>3. over' \subseteq Modes /\ failed' \subseteq Modes
      BY <1>a, SMTT(30) DEF WriteResult, Goto, StatusInv, TypeOK, ProcessInv, WithStatus
    <2>4. pc' \in [Procs -> PCs]
      BY <1>a, SMTT(30) DEF WriteResult, Goto, StatusInv, TypeOK, PCs
    <2>5. mode' \in [Procs -> Accepted \cup {None}]
      BY <1>a, SMTT(30) DEF WriteResult, Goto, StatusInv, TypeOK
    <2>6. mine' \in [Procs -> StatusFiles \cup {None}]
      BY <1>a, SMTT(30) DEF WriteResult, Goto, StatusInv, TypeOK
    <2> QED BY <2>1, <2>2, <2>3, <2>4, <2>5, <2>6, <2>7 DEF TypeOK
  <1>2. ProcessInv'
    BY <1>a, SMTT(30) DEF WriteResult, Goto, StatusInv, TypeOK, ProcessInv, WithStatus
  <1>3. ResultInv'
    BY <1>a, SMTT(30) DEF WriteResult, Goto, StatusInv, TypeOK, ResultInv, ResultIsOfThisBoot
  <1>s. ASSUME Serial, NEW q \in Procs, q # p PROVE pc'[q] = "idle"
    BY <1>s, Alone DEF WriteResult, Goto, StatusInv, SerialInv, TypeOK
  <1>4. ASSUME Serial PROVE LinksInv'
    <2>1. (statusLink => status # None)' /\ (resultLink => result # None)'
      BY <1>a, <1>4, SMTT(30) DEF WriteResult, Goto, StatusInv, SerialInv, TypeOK, ProcessInv, WithStatus, LinksInv, LinksOf
    <2>2. LinksOf(p)'
      BY <1>a, <1>4, SMTT(30) DEF WriteResult, Goto, StatusInv, SerialInv, TypeOK, ProcessInv, WithStatus, LinksInv, LinksOf
    <2>3. \A q \in Procs : LinksOf(q)'
      BY <2>2, <1>s, <1>4 DEF LinksOf
    <2> QED BY <2>1, <2>3, <1>s, <1>4 DEF LinksInv
  <1>5. ASSUME Serial PROVE ErrorsInv'
    <2>1. (status # None => Agree(status, None))' /\ (status = None => failed = {})'
      BY <1>a, <1>5, SMTT(30) DEF WriteResult, Goto, StatusInv, SerialInv, TypeOK, ProcessInv, WithStatus, LinksInv, LinksOf, ErrorsInv, ErrorsOf, Agree
    <2>2. ErrorsOf(p)'
      BY <1>a, <1>5, SMTT(30) DEF WriteResult, Goto, StatusInv, SerialInv, TypeOK, ProcessInv, WithStatus, ErrorsInv, ErrorsOf, Agree
    <2>3. \A q \in Procs : ErrorsOf(q)'
      BY <2>2, <1>s, <1>5 DEF ErrorsOf
    <2> QED BY <2>1, <2>3 DEF ErrorsInv
  <1>6. SerialInv'
    BY <1>4, <1>5 DEF SerialInv
  <1> QED BY <1>1, <1>2, <1>3, <1>6 DEF StatusInv

LEMMA LinkResultInv == ASSUME StatusInv, NEW p \in Procs, LinkResult(p) PROVE StatusInv'
  <1> USE StatusAssumption DEF files, history
  <1>a. ASSUME Serial PROVE ~resultLink'
    <2>1. result # None
      BY <1>a DEF LinkResult, StatusInv, SerialInv, LinksInv, LinksOf, ProcessInv, WithStatus
    <2> QED BY <2>1 DEF LinkResult
  <1>1. TypeOK'
    <2>1. status' \in StatusFiles \cup {None} /\ result' \in ResultFiles \cup {None}
      BY <1>a, SMTT(30) DEF LinkResult, Goto, StatusInv, TypeOK, ProcessInv, WithStatus
    <2>2. boot' \in 1..MaxBoots
      BY DEF LinkResult, Goto, StatusInv, TypeOK
    <2>7. statusLink' \in BOOLEAN /\ resultLink' \in BOOLEAN /\ cleared' \in BOOLEAN
      BY DEF LinkResult, Goto, StatusInv, TypeOK
    <2>3. over' \subseteq Modes /\ failed' \subseteq Modes
      BY <1>a, SMTT(30) DEF LinkResult, Goto, StatusInv, TypeOK, ProcessInv, WithStatus
    <2>4. pc' \in [Procs -> PCs]
      BY <1>a, SMTT(30) DEF LinkResult, Goto, StatusInv, TypeOK, PCs
    <2>5. mode' \in [Procs -> Accepted \cup {None}]
      BY <1>a, SMTT(30) DEF LinkResult, Goto, StatusInv, TypeOK
    <2>6. mine' \in [Procs -> StatusFiles \cup {None}]
      BY <1>a, SMTT(30) DEF LinkResult, Goto, StatusInv, TypeOK
    <2> QED BY <2>1, <2>2, <2>3, <2>4, <2>5, <2>6, <2>7 DEF TypeOK
  <1>2. ProcessInv'
    BY <1>a, SMTT(30) DEF LinkResult, Goto, StatusInv, TypeOK, ProcessInv, WithStatus
  <1>3. ResultInv'
    BY <1>a, SMTT(30) DEF LinkResult, Goto, StatusInv, TypeOK, ResultInv, ResultIsOfThisBoot
  <1>s. ASSUME Serial, NEW q \in Procs, q # p PROVE pc'[q] = "idle"
    BY <1>s, Alone DEF LinkResult, Goto, StatusInv, SerialInv, TypeOK
  <1>4. ASSUME Serial PROVE LinksInv'
    <2>1. (statusLink => status # None)' /\ (resultLink => result # None)'
      BY <1>a, <1>4, SMTT(30) DEF LinkResult, Goto, StatusInv, SerialInv, TypeOK, ProcessInv, WithStatus, LinksInv, LinksOf
    <2>2. LinksOf(p)'
      BY <1>a, <1>4, SMTT(30) DEF LinkResult, Goto, StatusInv, SerialInv, TypeOK, ProcessInv, WithStatus, LinksInv, LinksOf
    <2>3. \A q \in Procs : LinksOf(q)'
      BY <2>2, <1>s, <1>4 DEF LinksOf
    <2> QED BY <2>1, <2>3, <1>s, <1>4 DEF LinksInv
  <1>5. ASSUME Serial PROVE ErrorsInv'
    <2>1. (status # None => Agree(status, None))' /\ (status = None => failed = {})'
      BY <1>a, <1>5, SMTT(30) DEF LinkResult, Goto, StatusInv, SerialInv, TypeOK, ProcessInv, WithStatus, LinksInv, LinksOf, ErrorsInv, ErrorsOf, Agree
    <2>2. ErrorsOf(p)'
      BY <1>a, <1>5, SMTT(30) DEF LinkResult, Goto, StatusInv, SerialInv, TypeOK, ProcessInv, WithStatus, ErrorsInv, ErrorsOf, Agree
    <2>3. \A q \in Procs : ErrorsOf(q)'
      BY <2>2, <1>s, <1>5 DEF ErrorsOf
    <2> QED BY <2>1, <2>3 DEF ErrorsInv
  <1>6. SerialInv'
    BY <1>4, <1>5 DEF SerialInv
  <1> QED BY <1>1, <1>2, <1>3, <1>6 DEF StatusInv

LEMMA SymlinkResultInv == ASSUME StatusInv, NEW p \in Procs, SymlinkResult(p) PROVE StatusInv'
  <1> USE StatusAssumption DEF files, history
  <1>1. TypeOK'
    <2>1. status' \in StatusFiles \cup {None} /\ result' \in ResultFiles \cup {None}
      BY SMTT(30) DEF SymlinkResult, Goto, Exit, Raise, StatusInv, TypeOK, ProcessInv, WithStatus
    <2>2. boot' \in 1..MaxBoots
      BY DEF SymlinkResult, Goto, Exit, Raise, StatusInv, TypeOK
    <2>7. statusLink' \in BOOLEAN /\ resultLink' \in BOOLEAN /\ cleared' \in BOOLEAN
      BY DEF SymlinkResult, Goto, Exit, Raise, StatusInv, TypeOK
    <2>3. over' \subseteq Modes /\ failed' \subseteq Modes
      BY SMTT(30) DEF SymlinkResult, Goto, Exit, Raise, StatusInv, TypeOK, ProcessInv, WithStatus
    <2>4. pc' \in [Procs -> PCs]
      BY SMTT(30) DEF SymlinkResult, Goto, Exit, Raise, StatusInv, TypeOK, PCs
    <2>5. mode' \in [Procs -> Accepted \cup {None}]
      BY SMTT(30) DEF SymlinkResult, Goto, Exit, Raise, StatusInv, TypeOK
    <2>6. mine' \in [Procs -> StatusFiles \cup {None}]
      BY SMTT(30) DEF SymlinkResult, Goto, Exit, Raise, StatusInv, TypeOK
    <2> QED BY <2>1, <2>2, <2>3, <2>4, <2>5, <2>6, <2>7 DEF TypeOK
  <1>2. ProcessInv'
    BY SMTT(30) DEF SymlinkResult, Goto, Exit, Raise, StatusInv, TypeOK, ProcessInv, WithStatus
  <1>3. ResultInv'
    BY SMTT(30) DEF SymlinkResult, Goto, Exit, Raise, StatusInv, TypeOK, ResultInv, ResultIsOfThisBoot
  <1>s. ASSUME Serial, NEW q \in Procs, q # p PROVE pc'[q] = "idle"
    BY <1>s, Alone DEF SymlinkResult, Goto, Exit, Raise, StatusInv, SerialInv, TypeOK
  <1>4. ASSUME Serial PROVE LinksInv'
    <2>1. (statusLink => status # None)' /\ (resultLink => result # None)'
      BY <1>4, SMTT(30) DEF SymlinkResult, Goto, Exit, Raise, StatusInv, SerialInv, TypeOK, ProcessInv, WithStatus, LinksInv, LinksOf
    <2>2. LinksOf(p)'
      BY <1>4, SMTT(30) DEF SymlinkResult, Goto, Exit, Raise, StatusInv, SerialInv, TypeOK, ProcessInv, WithStatus, LinksInv, LinksOf
    <2>3. \A q \in Procs : LinksOf(q)'
      BY <2>2, <1>s, <1>4 DEF LinksOf
    <2> QED BY <2>1, <2>3, <1>s, <1>4 DEF LinksInv
  <1>5. ASSUME Serial PROVE ErrorsInv'
    <2>1. (status # None => Agree(status, None))' /\ (status = None => failed = {})'
      BY <1>5, SMTT(30) DEF SymlinkResult, Goto, Exit, Raise, StatusInv, SerialInv, TypeOK, ProcessInv, WithStatus, LinksInv, LinksOf, ErrorsInv, ErrorsOf, Agree
    <2>2. ErrorsOf(p)'
      BY <1>5, SMTT(30) DEF SymlinkResult, Goto, Exit, Raise, StatusInv, SerialInv, TypeOK, ProcessInv, WithStatus, ErrorsInv, ErrorsOf, Agree
    <2>3. \A q \in Procs : ErrorsOf(q)'
      BY <2>2, <1>s, <1>5 DEF ErrorsOf
    <2> QED BY <2>1, <2>3 DEF ErrorsInv
  <1>6. SerialInv'
    BY <1>4, <1>5 DEF SerialInv
  <1> QED BY <1>1, <1>2, <1>3, <1>6 DEF StatusInv

LEMMA DieInv == ASSUME StatusInv, NEW p \in Procs, Die(p) PROVE StatusInv'
  <1> USE StatusAssumption DEF files, history
  <1>1. TypeOK'
    <2>1. status' \in StatusFiles \cup {None} /\ result' \in ResultFiles \cup {None}
      BY SMTT(30) DEF Die, Exit, StatusInv, TypeOK, ProcessInv, WithStatus
    <2>2. boot' \in 1..MaxBoots
      BY DEF Die, Exit, StatusInv, TypeOK
    <2>7. statusLink' \in BOOLEAN /\ resultLink' \in BOOLEAN /\ cleared' \in BOOLEAN
      BY DEF Die, Exit, StatusInv, TypeOK
    <2>3. over' \subseteq Modes /\ failed' \subseteq Modes
      BY SMTT(30) DEF Die, Exit, StatusInv, TypeOK, ProcessInv, WithStatus
    <2>4. pc' \in [Procs -> PCs]
      BY SMTT(30) DEF Die, Exit, StatusInv, TypeOK, PCs
    <2>5. mode' \in [Procs -> Accepted \cup {None}]
      BY SMTT(30) DEF Die, Exit, StatusInv, TypeOK
    <2>6. mine' \in [Procs -> StatusFiles \cup {None}]
      BY SMTT(30) DEF Die, Exit, StatusInv, TypeOK
    <2> QED BY <2>1, <2>2, <2>3, <2>4, <2>5, <2>6, <2>7 DEF TypeOK
  <1>2. ProcessInv'
    BY SMTT(30) DEF Die, Exit, StatusInv, TypeOK, ProcessInv, WithStatus
  <1>3. ResultInv'
    BY SMTT(30) DEF Die, Exit, StatusInv, TypeOK, ResultInv, ResultIsOfThisBoot
  <1>s. ASSUME Serial, NEW q \in Procs, q # p PROVE pc'[q] = "idle"
    BY <1>s, Alone DEF Die, Exit, StatusInv, SerialInv, TypeOK
  <1>4. ASSUME Serial PROVE LinksInv'
    <2>1. (statusLink => status # None)' /\ (resultLink => result # None)'
      BY <1>4, SMTT(30) DEF Die, Exit, StatusInv, SerialInv, TypeOK, ProcessInv, WithStatus, LinksInv, LinksOf
    <2>2. LinksOf(p)'
      BY <1>4, SMTT(30) DEF Die, Exit, StatusInv, SerialInv, TypeOK, ProcessInv, WithStatus, LinksInv, LinksOf
    <2>3. \A q \in Procs : LinksOf(q)'
      BY <2>2, <1>s, <1>4 DEF LinksOf
    <2> QED BY <2>1, <2>3, <1>s, <1>4 DEF LinksInv
  <1>5. ASSUME Serial PROVE ErrorsInv'
    <2>1. (status # None => Agree(status, None))' /\ (status = None => failed = {})'
      BY <1>5, SMTT(30) DEF Die, Exit, StatusInv, SerialInv, TypeOK, ProcessInv, WithStatus, LinksInv, LinksOf, ErrorsInv, ErrorsOf, Agree
    <2>2. ErrorsOf(p)'
      BY <1>5, SMTT(30) DEF Die, Exit, StatusInv, SerialInv, TypeOK, ProcessInv, WithStatus, ErrorsInv, ErrorsOf, Agree
    <2>3. \A q \in Procs : ErrorsOf(q)'
      BY <2>2, <1>s, <1>5 DEF ErrorsOf
    <2> QED BY <2>1, <2>3 DEF ErrorsInv
  <1>6. SerialInv'
    BY <1>4, <1>5 DEF SerialInv
  <1> QED BY <1>1, <1>2, <1>3, <1>6 DEF StatusInv

LEMMA KillInv == ASSUME StatusInv, NEW p \in Procs, Kill(p) PROVE StatusInv'
  <1> USE StatusAssumption DEF files, history
  <1>1. TypeOK'
    <2>1. status' \in StatusFiles \cup {None} /\ result' \in ResultFiles \cup {None}
      BY SMTT(30) DEF Kill, Exit, StatusInv, TypeOK, ProcessInv, WithStatus
    <2>2. boot' \in 1..MaxBoots
      BY DEF Kill, Exit, StatusInv, TypeOK
    <2>7. statusLink' \in BOOLEAN /\ resultLink' \in BOOLEAN /\ cleared' \in BOOLEAN
      BY DEF Kill, Exit, StatusInv, TypeOK
    <2>3. over' \subseteq Modes /\ failed' \subseteq Modes
      BY SMTT(30) DEF Kill, Exit, StatusInv, TypeOK, ProcessInv, WithStatus
    <2>4. pc' \in [Procs -> PCs]
      BY SMTT(30) DEF Kill, Exit, StatusInv, TypeOK, PCs
    <2>5. mode' \in [Procs -> Accepted \cup {None}]
      BY SMTT(30) DEF Kill, Exit, StatusInv, TypeOK
    <2>6. mine' \in [Procs -> StatusFiles \cup {None}]
      BY SMTT(30) DEF Kill, Exit, StatusInv, TypeOK
    <2> QED BY <2>1, <2>2, <2>3, <2>4, <2>5, <2>6, <2>7 DEF TypeOK
  <1>2. ProcessInv'
    BY SMTT(30) DEF Kill, Exit, StatusInv, TypeOK, ProcessInv, WithStatus
  <1>3. ResultInv'
    BY SMTT(30) DEF Kill, Exit, StatusInv, TypeOK, ResultInv, ResultIsOfThisBoot
  <1>s. ASSUME Serial, NEW q \in Procs, q # p PROVE pc'[q] = "idle"
    BY <1>s, Alone DEF Kill, Exit, StatusInv, SerialInv, TypeOK
  <1>4. ASSUME Serial PROVE LinksInv'
    <2>1. (statusLink => status # None)' /\ (resultLink => result # None)'
      BY <1>4, SMTT(30) DEF Kill, Exit, StatusInv, SerialInv, TypeOK, ProcessInv, WithStatus, LinksInv, LinksOf
    <2>2. LinksOf(p)'
      BY <1>4, SMTT(30) DEF Kill, Exit, StatusInv, SerialInv, TypeOK, ProcessInv, WithStatus, LinksInv, LinksOf
    <2>3. \A q \in Procs : LinksOf(q)'
      BY <2>2, <1>s, <1>4 DEF LinksOf
    <2> QED BY <2>1, <2>3, <1>s, <1>4 DEF LinksInv
  <1>5. ASSUME Serial PROVE ErrorsInv'
    <2>1. (status # None => Agree(status, None))' /\ (status = None => failed = {})'
      BY <1>5, SMTT(30) DEF Kill, Exit, StatusInv, SerialInv, TypeOK, ProcessInv, WithStatus, LinksInv, LinksOf, ErrorsInv, ErrorsOf, Agree
    <2>2. ErrorsOf(p)'
      BY <1>5, SMTT(30) DEF Kill, Exit, StatusInv, SerialInv, TypeOK, ProcessInv, WithStatus, ErrorsInv, ErrorsOf, Agree
    <2>3. \A q \in Procs : ErrorsOf(q)'
      BY <2>2, <1>s, <1>5 DEF ErrorsOf
    <2> QED BY <2>1, <2>3 DEF ErrorsInv
  <1>6. SerialInv'
    BY <1>4, <1>5 DEF SerialInv
  <1> QED BY <1>1, <1>2, <1>3, <1>6 DEF StatusInv

LEMMA StartInv == ASSUME StatusInv, NEW p \in Procs, NEW m \in Accepted, Start(p, m) PROVE StatusInv'
  <1> USE StatusAssumption DEF files, history
  <1>1. TypeOK'
    <2>1. status' \in StatusFiles \cup {None} /\ result' \in ResultFiles \cup {None}
      BY SMTT(30) DEF Start, StatusInv, TypeOK, ProcessInv, WithStatus
    <2>2. boot' \in 1..MaxBoots
      BY DEF Start, StatusInv, TypeOK
    <2>7. statusLink' \in BOOLEAN /\ resultLink' \in BOOLEAN /\ cleared' \in BOOLEAN
      BY DEF Start, StatusInv, TypeOK
    <2>3. over' \subseteq Modes /\ failed' \subseteq Modes
      BY SMTT(30) DEF Start, StatusInv, TypeOK, ProcessInv, WithStatus
    <2>4. pc' \in [Procs -> PCs]
      BY SMTT(30) DEF Start, StatusInv, TypeOK, PCs
    <2>5. mode' \in [Procs -> Accepted \cup {None}]
      BY SMTT(30) DEF Start, StatusInv, TypeOK
    <2>6. mine' \in [Procs -> StatusFiles \cup {None}]
      BY SMTT(30) DEF Start, StatusInv, TypeOK
    <2> QED BY <2>1, <2>2, <2>3, <2>4, <2>5, <2>6, <2>7 DEF TypeOK
  <1>2. ProcessInv'
    BY SMTT(30) DEF Start, StatusInv, TypeOK, ProcessInv, WithStatus
  <1>3. ResultInv'
    BY SMTT(30) DEF Start, StatusInv, TypeOK, ResultInv, ResultIsOfThisBoot
  <1>s. ASSUME Serial, NEW q \in Procs, q # p PROVE pc'[q] = "idle"
    BY <1>s, Alone DEF Start, StatusInv, SerialInv, TypeOK
  <1>4. ASSUME Serial PROVE LinksInv'
    <2>1. (statusLink => status # None)' /\ (resultLink => result # None)'
      BY <1>4, SMTT(30) DEF Start, StatusInv, SerialInv, TypeOK, ProcessInv, WithStatus, LinksInv, LinksOf
    <2>2. LinksOf(p)'
      BY <1>4, SMTT(30) DEF Start, StatusInv, SerialInv, TypeOK, ProcessInv, WithStatus, LinksInv, LinksOf
    <2>3. \A q \in Procs : LinksOf(q)'
      BY <2>2, <1>s, <1>4 DEF LinksOf
    <2> QED BY <2>1, <2>3, <1>s, <1>4 DEF LinksInv
  <1>5. ASSUME Serial PROVE ErrorsInv'
    <2>1. (status # None => Agree(status, None))' /\ (status = None => failed = {})'
      BY <1>5, SMTT(30) DEF Start, StatusInv, SerialInv, TypeOK, ProcessInv, WithStatus, LinksInv, LinksOf, ErrorsInv, ErrorsOf, Agree
    <2>2. ErrorsOf(p)'
      BY <1>5, SMTT(30) DEF Start, StatusInv, SerialInv, TypeOK, ProcessInv, WithStatus, ErrorsInv, ErrorsOf, Agree
    <2>3. \A q \in Procs : ErrorsOf(q)'
      BY <2>2, <1>s, <1>5 DEF ErrorsOf
    <2> QED BY <2>1, <2>3 DEF ErrorsInv
  <1>6. SerialInv'
    BY <1>4, <1>5 DEF SerialInv
  <1> QED BY <1>1, <1>2, <1>3, <1>6 DEF StatusInv

LEMMA RebootInv == ASSUME StatusInv, Reboot PROVE StatusInv'
  <1> USE StatusAssumption
  <1>1. TypeOK'
    <2>1. pc' \in [Procs -> PCs] /\ mode' \in [Procs -> Accepted \cup {None}]
          /\ mine' \in [Procs -> StatusFiles \cup {None}]
      BY DEF Reboot, PCs
    <2>2. boot' \in 1..MaxBoots /\ over' = {} /\ failed' = {}
      BY DEF Reboot, StatusInv, TypeOK
    <2> QED BY <2>1, <2>2 DEF Reboot, StatusInv, TypeOK
  <1>2. ProcessInv' /\ ResultInv'
    BY DEF Reboot, ProcessInv, WithStatus, ResultInv, ResultIsOfThisBoot
  <1>3. LinksInv'
    BY DEF Reboot, LinksInv, LinksOf
  <1>4. ErrorsInv'
    BY DEF Reboot, StatusInv, SerialInv, ErrorsInv, ErrorsOf, Agree
  <1> QED BY <1>1, <1>2, <1>3, <1>4 DEF StatusInv, SerialInv

LEMMA StutterInv == ASSUME StatusInv, UNCHANGED vars PROVE StatusInv'
  BY DEF vars, StatusInv, TypeOK, ProcessInv, ResultInv, ResultIsOfThisBoot, SerialInv, LinksInv,
         LinksOf, ErrorsInv, ErrorsOf, Agree, Errors

LEMMA NextInv == ASSUME StatusInv, [Next]_vars PROVE StatusInv'
  <1>1. ASSUME NEW p \in Procs, Wrapper(p) PROVE StatusInv'
    BY <1>1, RemoveInv, LoadInv, UnknownModeInv, WriteStartInv, LinkStatusInv, SymlinkStatusInv, FunctorReturnsInv, WriteEndInv, WriteResultInv, LinkResultInv, SymlinkResultInv, DieInv DEF Wrapper
  <1>2. ASSUME NEW p \in Procs, Kill(p) PROVE StatusInv'
    BY <1>2, KillInv
  <1>3. ASSUME NEW p \in Procs, NEW m \in Accepted, Start(p, m) PROVE StatusInv'
    BY <1>3, StartInv
  <1> QED BY <1>1, <1>2, <1>3, RebootInv, StutterInv DEF Next

THEOREM StatusInvariant == Spec => []StatusInv
  <1> QED BY InitInv, NextInv, PTL DEF Spec

\* The types of the state of status_wrapper.
THEOREM StatusTypes == Spec => []TypeOK
  <1>1. StatusInv => TypeOK
    BY DEF StatusInv
  <1> QED BY <1>1, StatusInvariant, PTL

\* A result.json reached through /run is of this boot: init-local may be killed
\* before it removes the old one, and processes may run at the same time.
THEOREM ResultIsOfThisBootAlways == Spec => []ResultIsOfThisBoot
  <1>1. StatusInv => ResultIsOfThisBoot
    BY DEF StatusInv, ResultInv
  <1> QED BY <1>1, StatusInvariant, PTL

\* A serial run is visible in status.json while its functor runs.
THEOREM RunningIsVisibleAlways == Spec => []RunningIsVisible
  <1>1. StatusInv => RunningIsVisible
    <2> SUFFICES ASSUME StatusInv, NEW p \in Procs, Serial, pc[p] = "run"
                 PROVE /\ statusLink /\ status # None
                       /\ status.stage = mode[p] /\ ~status.of[mode[p]].finished
      BY DEF RunningIsVisible
    <2>1. statusLink /\ status = mine[p] /\ status # None
      BY DEF StatusInv, SerialInv, LinksInv, LinksOf
    <2> QED BY <2>1 DEF StatusInv, ProcessInv
  <1> QED BY <1>1, StatusInvariant, PTL

\* A serial stage does not die of its own bookkeeping.
THEOREM SerialRunsAlways == Spec => []SerialRuns
  <1>1. StatusInv => SerialRuns
    BY DEF StatusInv, SerialInv, LinksInv, LinksOf, SerialRuns
  <1> QED BY <1>1, StatusInvariant, PTL

\* The result of serial runs names the stages that returned errors since the
\* status was cleared, and no other once it was.
THEOREM ResultExactAlways == Spec => ResultExact
  <1> DEFINE Exact == Serial /\ result' # result /\ result' # None =>
                        /\ failed \subseteq result'.errors
                        /\ cleared => result'.errors = failed
  <1>1. ASSUME StatusInv, [Next]_vars PROVE [Exact]_vars
    <2> SUFFICES ASSUME Serial, result' # result, result' # None
                 PROVE /\ failed \subseteq result'.errors
                       /\ cleared => result'.errors = failed
      OBVIOUS
    <2>1. PICK p \in Procs : WriteResult(p)
      BY <1>1 DEF Next, Wrapper, Start, Kill, Reboot, Remove, Load, UnknownMode, WriteStart, LinkStatus,
                  SymlinkStatus, FunctorReturns, WriteEnd, LinkResult, SymlinkResult, Die, Raise, vars,
                  files
    <2>2. Agree(mine[p], None) /\ failed \subseteq Modes /\ None \notin Modes
      BY <1>1, <2>1, StatusAssumption
      DEF WriteResult, StatusInv, SerialInv, ErrorsInv, ErrorsOf, TypeOK, Accepted
    <2>3. result'.errors = Errors(mine[p])
      BY <2>1 DEF WriteResult
    <2>4. Errors(mine[p]) \subseteq Modes
      BY DEF Errors
    <2> QED BY <2>2, <2>3, <2>4 DEF Agree
  <1> QED BY <1>1, StatusInvariant, PTL DEF Spec, ResultExact
=============================================================================
